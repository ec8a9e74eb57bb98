----------------------------- MODULE R3Binding ------------------------------
(***************************************************************************)
(* R3::Tree: the methods of src/mrb_r3.c around the tree.                  *)
(*                                                                         *)
(* The binding keeps two arrays, @data and @routes, and a pointer to the   *)
(* tree.  A route holds the length @data had when its data was pushed; the *)
(* pattern strings are pushed to @data as well, for the tree borrows their *)
(* characters.  An addition is a sequence of steps, because the tree works *)
(* between the two pushes; the other methods are one step.                 *)
(***************************************************************************)
EXTENDS R3Match

CONSTANTS
    RawPaths,   \* patterns as the program gives them to add
    SlugName    \* the name of each slug

ASSUME SlugNameAssumption == DOMAIN SlugName = Slugs

\* The program gives the patterns of the tree, or these with a slash behind them.
ASSUME RawPathsAssumption ==
    \A path \in RawPaths :
        \/ path \in Paths /\ (Len(path) > 1 => path[Len(path)] # Slash)
        \/ \E short \in Paths : short # <<>> /\ path = Append(short, Slash)

VARIABLES
    dataAry,    \* @data
    listing,    \* @routes
    handle,     \* DATA_PTR(self): "tree", "NULL", or the end of the process
    op,         \* the call of add in progress, or NoOp
    reply,      \* what match, match? or mismatch? has returned
    borrowed,   \* history: for each node, the addition whose pattern string
                \* the edge to it points into
    frees       \* history: how often the tree was freed

bindingVars == <<vars, entry, dataAry, listing, handle, op, reply, borrowed, frees>>
bindingOnly == <<dataAry, listing, handle, reply, frees>>

-----------------------------------------------------------------------------
(* Helpers                                                                 *)

\* Mutant: the length is not tested.
Chomp_AlsoRoot(path) ==
    IF path # <<>> /\ path[Len(path)] = Slash
    THEN SubSeq(path, 1, Len(path) - 1) ELSE path

\* mrb_r3_chomp_path: no empty path has a '/' before its first character, for
\* that byte belongs to the header of the string or of the allocated block.
Chomp(path) ==
    IF Len(path) > 1 /\ path[Len(path)] = Slash
    THEN SubSeq(path, 1, Len(path) - 1) ELSE path

\* What can be given as data: nothing, nil, or an object, which the number of
\* the addition stands for.
Given == {"none", "nil", "object"}
NilValue == [kind |-> "nil", of |-> 0]
DataValue(given, n) ==
    IF given = "object" THEN [kind |-> "data", of |-> n] ELSE NilValue
PatternString(n) == [kind |-> "pattern", of |-> n]

NoOp == [path |-> <<>>, method |-> {}, value |-> NilValue, of |-> 0]
NoReply == [op |-> "none", value |-> {}]

Ready == handle = "tree" /\ op = NoOp /\ call = Idle /\ reply = NoReply

\* data = mrb_ary_entry(@data, i - 1), if route->data
DataOf(route) == IF route.data = 0 THEN NilValue ELSE dataAry[route.data]

\* The hash of names and tokens: of slugs with one name the last counts.
Hash(slugs, tokens) ==
    LET last(name) == SelectLastInSeq(slugs, LAMBDA slug : SlugName[slug] = name)
    IN [name \in {SlugName[slugs[i]] : i \in 1..Len(slugs)} |-> tokens[last(name)]]

-----------------------------------------------------------------------------
(* Actions                                                                 *)

BindingInit ==
    /\ MatchInit
    /\ dataAry = <<>>
    /\ listing = <<>>
    /\ handle = "tree"
    /\ op = NoOp
    /\ reply = NoReply
    /\ borrowed = <<0>>
    /\ frees = 0

\* Mutant: the index is the length before the push.
BeginAdd_IndexBefore(rawPath, method, given) ==
    /\ Ready
    /\ LET path == Chomp(rawPath)
           value == DataValue(given, adds + 1)
           pushed == IF given = "none" THEN dataAry ELSE Append(dataAry, value)
       IN /\ op' = [path |-> path, method |-> method, value |-> value,
                    of |-> adds + 1]
          /\ dataAry' = pushed
          /\ Add(path, method, IF given = "none" THEN 0 ELSE Len(dataAry))
    /\ UNCHANGED <<entry, listing, handle, reply, borrowed, frees>>

\* add: the path is copied and chomped, the data pushed, and the insertion
\* called with the length @data has then, or with NULL.
BeginAdd(rawPath, method, given) ==
    /\ Ready
    /\ LET path == Chomp(rawPath)
           value == DataValue(given, adds + 1)
           pushed == IF given = "none" THEN dataAry ELSE Append(dataAry, value)
       IN /\ op' = [path |-> path, method |-> method, value |-> value,
                    of |-> adds + 1]
          /\ dataAry' = pushed
          /\ Add(path, method, IF given = "none" THEN 0 ELSE Len(pushed))
    /\ UNCHANGED <<entry, listing, handle, reply, borrowed, frees>>

\* Mutant: the parts of a split edge point into the new pattern.
TreeWorks_SplitIsNew ==
    /\ InsertStep
    /\ borrowed' = [n \in 1..Len(nodes') |->
                        IF n <= Len(nodes) THEN borrowed[n] ELSE op.of]
    /\ UNCHANGED <<entry, op, bindingOnly>>

\* The tree works.  A new node's edge points into the new pattern, but where an
\* edge is split both parts point on into the pattern of the old one.
TreeWorks ==
    /\ InsertStep
    /\ LET split(n) == {m \in 1..Len(nodes) :
                            \E i \in 1..Len(nodes'[n].edges) :
                                nodes'[n].edges[i].child = m}
       IN borrowed' = [n \in 1..Len(nodes') |->
                        CASE n <= Len(nodes) -> borrowed[n]
                          [] n > Len(nodes) /\ split(n) # {} ->
                                borrowed[CHOOSE m \in split(n) : TRUE]
                          [] n > Len(nodes) /\ split(n) = {} -> op.of]
    /\ UNCHANGED <<entry, op, bindingOnly>>

\* mrb_r3_save_route: a route of several methods is listed as one of any.
SaveRoute(method, path) ==
    Append(listing, [method |-> IF Cardinality(method) = 1 THEN method ELSE {},
                     path |-> path])

\* Mutant: the pattern is kept only with data.
EndAdd_OnlyWithData ==
    /\ op # NoOp
    /\ call = Idle
    /\ dataAry' = IF op.value = NilValue THEN dataAry
                  ELSE Append(dataAry, PatternString(op.of))
    /\ listing' = SaveRoute(op.method, op.path)
    /\ op' = NoOp
    /\ UNCHANGED <<vars, entry, handle, reply, borrowed, frees>>

\* The insertion has returned, whatever it returned: the pattern is pushed and
\* the route is listed.
EndAdd ==
    /\ op # NoOp
    /\ call = Idle
    /\ dataAry' = Append(dataAry, PatternString(op.of))
    /\ listing' = SaveRoute(op.method, op.path)
    /\ op' = NoOp
    /\ UNCHANGED <<vars, entry, handle, reply, borrowed, frees>>

CompileTree ==
    /\ Ready
    /\ Compile
    /\ UNCHANGED <<entry, op, borrowed, bindingOnly>>

\* match, match? and mismatch?
Query(method, request) ==
    /\ Ready
    /\ LET e == Answer(nodes, [path |-> Chomp(request.path),
                                 method |-> request.method])
           route == nodes[e.node].routes[e.route]
           found == e.pc = "route"
       IN reply' = [op |-> method,
                    value |-> CASE method = "match?" -> found
                                [] method = "mismatch?" -> ~found
                                [] method = "match" ->
                                    IF ~found THEN {}
                                    ELSE {[params |-> Hash(route.slugs, e.tokens),
                                           data |-> DataOf(route)]}]
    /\ UNCHANGED <<vars, entry, dataAry, listing, handle, op, borrowed, frees>>

TakeReply ==
    /\ reply # NoReply
    /\ reply' = NoReply
    /\ UNCHANGED <<vars, entry, dataAry, listing, handle, op, borrowed, frees>>

\* Mutant: DATA_PTR is not cleared.
Free_KeepsPointer ==
    /\ Ready
    /\ listing' = <<>>
    /\ frees' = frees + 1
    /\ UNCHANGED <<vars, entry, dataAry, handle, op, reply, borrowed>>

\* free: @routes is emptied; "data" is removed, a variable that does not exist,
\* so that @data stays.
Free ==
    /\ Ready
    /\ listing' = <<>>
    /\ frees' = frees + 1
    /\ handle' = "NULL"
    /\ UNCHANGED <<vars, entry, dataAry, op, reply, borrowed>>

\* add, compile or match on a tree that was freed: NULL is dereferenced.
UseAfterFree ==
    /\ handle = "NULL"
    /\ handle' = "crashed"
    /\ UNCHANGED <<vars, entry, dataAry, listing, op, reply, borrowed, frees>>

\* The garbage collector takes the object, and with it what it refers to.
Collect ==
    /\ op = NoOp /\ reply = NoReply
    /\ handle \in {"tree", "NULL"}
    /\ frees' = IF handle = "tree" THEN frees + 1 ELSE frees
    /\ handle' = "collected"
    /\ dataAry' = <<>>
    /\ listing' = <<>>
    /\ UNCHANGED <<vars, entry, op, reply, borrowed>>

BindingNext ==
    \/ \E path \in RawPaths, method \in Methods, given \in Given :
            BeginAdd(path, method, given)
    \/ TreeWorks
    \/ EndAdd
    \/ CompileTree
    \/ \E method \in {"match", "match?", "mismatch?"}, request \in Requests :
            Query(method, request)
    \/ TakeReply
    \/ Free
    \/ UseAfterFree
    \/ Collect

BindingSpec == BindingInit /\ [][BindingNext]_bindingVars

-----------------------------------------------------------------------------
(* Properties                                                              *)

BindingTypeOK ==
    /\ TypeOK
    /\ handle \in {"tree", "NULL", "crashed", "collected"}
    /\ \A i \in 1..Len(dataAry) : dataAry[i].of \in 0..adds
    /\ \A i \in 1..Len(listing) : listing[i] \in [method : {{}} \cup Methods,
                                              path : Paths]
    /\ op.of \in 0..adds
    /\ Len(borrowed) = Len(nodes)

\* Every edge points into a string that @data or the call of add in progress
\* keeps alive, and into one that has the edge's text there, from the root down:
\* splits and indices hand pointers on, and nobody copies the text.
PatternsHeld ==
    handle = "tree" =>
        \A n \in NodeIds \ {Root} :
            \/ borrowed[n] = op.of /\ IsPrefix(spell[n], op.path)
            \/ /\ PatternString(borrowed[n]) \in Range(dataAry)
               /\ IsPrefix(spell[n], listing[borrowed[n]].path)

\* A refused pattern is never pointed into, also where edges have been split for
\* it: nothing depends on the string a failed addition leaves in @data.
\* (NoneMakesUp: a malformed pattern is refused.)
RefusedNotBorrowed ==
    NoneMakesUp /\ handle = "tree" /\ op = NoOp =>
        \A n \in NodeIds \ {Root} : ~HasMalformed(listing[borrowed[n]].path)

\* The tree is freed once, by free or by the garbage collector, and once it is
\* freed there is no pointer to it.
FreedOnce == frees = IF handle = "tree" THEN 0 ELSE 1

\* The routes of the tree, with their place among those of one pattern and with
\* the data a match would return.
RoutesMounted ==
    UNION {{[path |-> spell[n], rank |-> r, method |-> nodes[n].routes[r].method,
             data |-> DataOf(nodes[n].routes[r])] :
                r \in 1..Len(nodes[n].routes)} :
            n \in NodeIds}

Substrings(path) == {SubSeq(path, i, j) : i \in 1..Len(path)+1, j \in 0..Len(path)}

\* What the slugs of a pattern can stand for.
ParamsFor(pattern, rawPath) ==
    LET slugs == SlugsOf(pattern)
        path == Chomp(rawPath)
    IN {Hash(slugs, tokens) :
            tokens \in {tuple \in [1..Len(slugs) -> Substrings(path)] :
                            /\ \A i \in 1..Len(slugs) : Takes(slugs[i], tuple[i])
                            /\ Filled(pattern, tuple) = path}}

Service == INSTANCE Dispatcher
            WITH Additions <- [path : Paths, method : Methods,
                               data : {DataValue(given, n) :
                                        given \in Given, n \in 1..MaxAdds}],
                 Questions <- {[op |-> method, path |-> request.path,
                                method |-> request.method] :
                                method \in {"match", "match?", "mismatch?"},
                                request \in Requests},
                 WellFormed <- LAMBDA path : ~HasMalformed(path),
                 Params <- ParamsFor,
                 NoAddition <- NoOp,
                 routes <- IF handle = "tree" THEN RoutesMounted ELSE {},
                 addition <- IF op = NoOp THEN NoOp
                             ELSE [new |-> [path |-> op.path, method |-> op.method,
                                            data |-> op.value],
                                   done |-> call = Idle],
                 open <- handle = "tree"

\* Through indices, borrowed strings, splits and compilations, the binding is a
\* dispatcher: the data of a reply is what its route was added with, the first
\* route of a pattern whose method fits is the one that replies, and, if
\* NoneMakesUp, a malformed addition, and no other, is refused: it is listed and
\* replies to nothing.
ImplementsDispatcher == Service!Spec
=============================================================================
