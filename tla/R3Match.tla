------------------------------ MODULE R3Match -------------------------------
(***************************************************************************)
(* Dispatching a request on the tree: r3_tree_match_route and              *)
(* r3_tree_matchl_base, in a build without PCRE.  A match is a walk from   *)
(* the root, one step per call of r3_tree_matchl_base; "entry" is the      *)
(* match_entry together with the frame of that call.  Routes are added and *)
(* the tree compiled between the matches, by the actions of R3Tree.        *)
(***************************************************************************)
EXTENDS R3Tree

CONSTANT Requests   \* [path, method] of the requests dispatched

ASSUME RequestsAssumption ==
    \A request \in Requests : request.path \in Seq(Literals)

VARIABLE entry

matchVars == <<vars, entry>>

Nil == 0            \* the NULL node, the NULL route

\* pc is "walk" during r3_tree_matchl_base, "node" once it has returned a
\* node, "route" or "nil" once r3_tree_match_route has its result.
NoEntry == [pc |-> "none", path |-> <<>>, method |-> {}, node |-> Root,
            rest |-> <<>>, tokens |-> <<>>, route |-> Nil]

\* match_entry_createl, and the call on the root.
NewEntry(request) ==
    [NoEntry EXCEPT !.pc = "walk", !.path = request.path,
                    !.method = request.method, !.rest = request.path]

-----------------------------------------------------------------------------
(* One call of r3_tree_matchl_base, on any tree                            *)

\* The loop over the edges of an opcode node: the first edge that consumes
\* something is taken, a greedy edge even when it consumes nothing.
OpcodeEdge(node, rest) ==
    IF node.compare_type # "OPCODE" THEN 0
    ELSE SelectInSeq(node.edges,
                     LAMBDA edge : \/ edge.opcode = "GREEDY"
                                   \/ RunLength(edge.opcode, rest) > 0)

\* Mutant: the rest of the pattern is not compared.
LiteralEdge_FirstCharacter(node, rest) ==
    SelectInSeq(node.edges, LAMBDA edge : /\ rest # <<>>
                                          /\ edge.pattern[1] = rest[1]
                                          /\ Len(edge.pattern) <= Len(rest))

\* r3_node_find_edge_str: the first edge with the right first character, if
\* all of its pattern is there.
LiteralEdge(node, rest) ==
    LET first == SelectInSeq(node.edges,
                             LAMBDA edge : /\ rest # <<>>
                                           /\ edge.pattern[1] = rest[1])
    IN IF first # 0 /\ IsPrefix(node.edges[first].pattern, rest)
       THEN first ELSE 0

\* return e->child && e->child->endpoint ? e->child : NULL
Arrive(tree, e, child) ==
    IF tree[child].endpoint > 0
    THEN [e EXCEPT !.pc = "node", !.node = child, !.rest = <<>>]
    ELSE [e EXCEPT !.pc = "nil", !.rest = <<>>]

GoOn(e, child, rest) == [e EXCEPT !.node = child, !.rest = rest]

\* Mutants of OpcodeStep: the character that ended the run is skipped; a greedy
\* edge does not save its token; n is passed for e->child.
OpcodeStep_SkipsCharacter(tree, e, i) ==
    LET edge == tree[e.node].edges[i]
        run == RunLength(edge.opcode, e.rest)
        taken == [e EXCEPT !.tokens = Append(@, Upto(e.rest, run))]
    IN IF run = Len(e.rest) THEN Arrive(tree, taken, edge.child)
                            ELSE GoOn(taken, edge.child, After(e.rest, run + 1))

OpcodeStep_NoGreedyToken(tree, e, i) ==
    LET edge == tree[e.node].edges[i]
        run == RunLength(edge.opcode, e.rest)
        token == IF edge.opcode = "GREEDY" THEN <<>> ELSE <<Upto(e.rest, run)>>
        taken == [e EXCEPT !.tokens = @ \o token]
    IN IF run = Len(e.rest) THEN Arrive(tree, taken, edge.child)
                            ELSE GoOn(taken, edge.child, After(e.rest, run))

OpcodeStep_Stays(tree, e, i) ==
    LET edge == tree[e.node].edges[i]
        run == RunLength(edge.opcode, e.rest)
        taken == [e EXCEPT !.tokens = Append(@, Upto(e.rest, run))]
    IN IF run = Len(e.rest) THEN Arrive(tree, taken, edge.child)
                            ELSE GoOn(taken, e.node, After(e.rest, run))

OpcodeStep(tree, e, i) ==
    LET edge == tree[e.node].edges[i]
        run == RunLength(edge.opcode, e.rest)
        taken == [e EXCEPT !.tokens = Append(@, Upto(e.rest, run))]
    IN IF run = Len(e.rest) THEN Arrive(tree, taken, edge.child)
                            ELSE GoOn(taken, edge.child, After(e.rest, run))

\* The request ends with edge i.  The call on the child with is_end = 1 finds
\* nothing to consume, so only a greedy edge below can win; if it does not,
\* the child itself is the result, and the token stays behind.
EndStep(tree, e, child) ==
    LET greedy == OpcodeEdge(tree[child], <<>>)
        inner == OpcodeStep(tree, GoOn(e, child, <<>>), greedy)
    IN IF greedy = 0 THEN Arrive(tree, e, child)
       ELSE IF inner.pc = "node" THEN inner
       ELSE Arrive(tree, [e EXCEPT !.tokens = inner.tokens], child)

\* Mutant: n and path are passed on unchanged.
LiteralStep_Stays(tree, e, i) ==
    LET edge == tree[e.node].edges[i]
        k == Len(edge.pattern)
    IN IF k < Len(e.rest) THEN GoOn(e, e.node, e.rest)
                          ELSE EndStep(tree, e, edge.child)

LiteralStep(tree, e, i) ==
    LET edge == tree[e.node].edges[i]
        k == Len(edge.pattern)
    IN IF k < Len(e.rest) THEN GoOn(e, edge.child, After(e.rest, k))
                          ELSE EndStep(tree, e, edge.child)

WalkStep(tree, e) ==
    LET opcodeEdge == OpcodeEdge(tree[e.node], e.rest)
        literalEdge == LiteralEdge(tree[e.node], e.rest)
    IN IF opcodeEdge # 0 THEN OpcodeStep(tree, e, opcodeEdge)
       ELSE IF literalEdge # 0 THEN LiteralStep(tree, e, literalEdge)
       ELSE [e EXCEPT !.pc = "nil", !.rest = <<>>]

\* Mutant: the methods are not compared.
RouteStep_AnyMethod(tree, e) == [e EXCEPT !.route = 1, !.pc = "route"]

\* The loop of r3_tree_match_route: the first route of the node the request's
\* method fits.
RouteStep(tree, e) ==
    LET fits == SelectInSeq(tree[e.node].routes,
                            LAMBDA route : MethodFits(route.method, e.method))
    IN [e EXCEPT !.route = fits, !.pc = IF fits = Nil THEN "nil" ELSE "route"]

-----------------------------------------------------------------------------
(* Actions                                                                 *)

MatchInit == Init /\ entry = NoEntry

MatchIdle == call = Idle /\ entry = NoEntry

\* R3::Tree#match, #match? or #mismatch? begins.
StartMatch(request) ==
    /\ MatchIdle
    /\ entry' = NewEntry(request)
    /\ UNCHANGED vars

MatchWalks ==
    /\ entry.pc = "walk"
    /\ entry' = WalkStep(nodes, entry)
    /\ UNCHANGED vars

MatchRoutes ==
    /\ entry.pc = "node"
    /\ entry' = RouteStep(nodes, entry)
    /\ UNCHANGED vars

\* The binding has copied the slugs and tokens: match_entry_free.
EndMatch ==
    /\ entry.pc \in {"route", "nil"}
    /\ entry' = NoEntry
    /\ UNCHANGED vars

MatchStep == MatchWalks \/ MatchRoutes \/ EndMatch

TreeStep == entry = NoEntry /\ Next /\ UNCHANGED entry

MatchNext ==
    \/ TreeStep
    \/ \E request \in Requests : StartMatch(request)
    \/ MatchStep

MatchSpec ==
    /\ MatchInit
    /\ [][MatchNext]_matchVars
    /\ WF_matchVars(TreeStep /\ InsertStep)
    /\ WF_matchVars(MatchStep)

\* One call after the other, on a tree that stays as it is.
Advance(tree, e) ==
    CASE e.pc = "walk" -> WalkStep(tree, e)
      [] e.pc = "node" -> RouteStep(tree, e)
      [] OTHER -> e

\* The answer a tree gives to a request: the match, run to its end.  A walk
\* makes at most one step per node, and one to pick the route.
Answer(tree, request) ==
    LET run[k \in Nat] ==   \* the entry after k steps
            IF k = 0 THEN NewEntry(request) ELSE Advance(tree, run[k-1])
    IN run[Len(tree) + 1]

Answered(tree, request) == Answer(tree, request).pc = "route"

\* What the program that asked gets of it: the route, and one token for each of
\* its slugs.
Reply(tree, request) ==
    LET e == Answer(tree, request)
        route == tree[e.node].routes[e.route]
    IN IF e.pc # "route" THEN <<>>
       ELSE <<route, SubSeq(e.tokens, 1, Len(route.slugs))>>

-----------------------------------------------------------------------------
(* What a pattern means, independently of the tree                         *)

Takes(slug, text) ==
    /\ \A i \in 1..Len(text) : text[i] \in Accepts[SlugOpcode[slug]]
    /\ text = <<>> => SlugOpcode[slug] = "GREEDY"

\* The path a pattern yields when token k replaces its k-th slug.
Filled(pattern, tokens) ==
    FlattenSeq([i \in 1..Len(pattern) |->
                    IF pattern[i] \in Slugs
                    THEN tokens[Len(SlugsOf(Upto(pattern, i)))]
                    ELSE <<pattern[i]>>])

\* Some tokens its slugs take turn the pattern into the path.  cuts[i] are the
\* positions behind which the path can be cut for the tokens from i on.
FitsIf(takes(_, _), pattern, path) ==
    LET cuts[i \in 1..Len(pattern)+1] ==
            IF i > Len(pattern) THEN {Len(path)}
            ELSE LET below == cuts[i + 1] IN
                 IF pattern[i] \in Slugs
                 THEN {j \in 0..Len(path) : \E k \in j..Len(path) :
                        takes(pattern[i], SubSeq(path, j + 1, k)) /\ k \in below}
                 ELSE {j \in 0..Len(path)-1 :
                        path[j + 1] = pattern[i] /\ j + 1 \in below}
    IN 0 \in cuts[1]

Fits(pattern, path) == FitsIf(Takes, pattern, path)

\* A route of the tree is meant for the request.
Meant(request) ==
    \E n \in NodeIds : \E r \in 1..Len(nodes[n].routes) :
        /\ Fits(spell[n], request.path)
        /\ MethodFits(nodes[n].routes[r].method, request.method)

-----------------------------------------------------------------------------
(* Safety                                                                  *)

\* Type of the match entry.
MatchTypeOK ==
    /\ TypeOK
    /\ entry.pc \in {"none", "walk", "node", "route", "nil"}
    /\ entry.node \in NodeIds
    /\ entry.path \in Seq(Literals)
    /\ entry.rest \in Seq(Literals)
    /\ entry.tokens \in Seq(Seq(Literals))
    /\ entry.route \in 0..Len(nodes[entry.node].routes)

\* During a match the text of the node reached, filled with the tokens
\* collected, and the rest of the path make up the request: nothing is skipped
\* or consumed twice, with one token per slug passed.
WalkConsumes ==
    entry.pc = "walk" =>
        /\ Len(entry.tokens) = Len(SlugsOf(spell[entry.node]))
        /\ Filled(spell[entry.node], entry.tokens) \o entry.rest = entry.path

\* The route found is one the request was meant for, and the first tokens are
\* the values of its slugs, each of which takes its value.  The binding reads
\* one token per slug of the route; a token left by a greedy edge that led
\* nowhere comes after those.
ReplyFits ==
    entry.pc = "route" =>
        LET route == nodes[entry.node].routes[entry.route] IN
        /\ MethodFits(route.method, entry.method)
        /\ Len(entry.tokens) >= Len(route.slugs)
        /\ \A i \in 1..Len(route.slugs) : Takes(route.slugs[i], entry.tokens[i])
        /\ Filled(spell[entry.node], entry.tokens) = entry.path

\* A tree the matcher cannot get lost in: the edges of a node are literals, or
\* the node has one edge, a slug with an opcode the compiled node compares by,
\* and no pattern goes on after the slug with a character the slug takes.
Unambiguous ==
    \A n \in NodeIds :
        \/ \A i \in EdgeIds(n) : ~HasSlug(nodes[n].edges[i].pattern)
        \/ /\ Len(nodes[n].edges) = 1
           /\ nodes[n].compare_type = "OPCODE"
           /\ LET edge == nodes[n].edges[1] IN
              /\ edge.opcode # "GREEDY"
              /\ \A i \in EdgeIds(edge.child) :
                    nodes[edge.child].edges[i].pattern[1]
                        \in Literals \ Accepts[edge.opcode]

\* In such a tree a request is answered exactly if a route is meant for it,
\* whatever the order the routes were added and the edges were split in.  The
\* request for the empty path is the exception: it is not answered, not even by
\* a route of the root.
ServesWhatIsMeant ==
    MatchIdle /\ Unambiguous =>
        \A request \in Requests :
            Answered(nodes, request) <=> request.path # <<>> /\ Meant(request)

-----------------------------------------------------------------------------
(* Action properties and liveness                                          *)

\* Every call of r3_tree_matchl_base reaches a node with a longer text than
\* its caller's, even where a greedy slug takes nothing: a match ends.
WalkDeepens ==
    [][entry.pc = "walk" /\ entry'.pc = "walk" =>
        Len(spell[entry'.node]) > Len(spell[entry.node])]_matchVars

\* An insertion that will be refused may have split edges by then; every
\* request is answered as before.  (NoneMakesUp: a malformed pattern is refused.)
RefusedAddHarmless ==
    [][NoneMakesUp /\ Inserting /\ HasMalformed(call.path) =>
        \A request \in Requests :
            Reply(nodes', request) = Reply(nodes, request)]_matchVars

\* Every match returns.
MatchReturns == entry.pc = "walk" ~> entry = NoEntry

-----------------------------------------------------------------------------
(* What the documentation says                                             *)

\* README: "Once the tree has been compiled he's ready for dispatching": a request a
\* route is meant for is answered, as '/users/1/feeds/2' is by the route
\* '/users/{user_id}/feeds/{feed_id}'.
CompiledServes ==
    MatchIdle /\ nodes = CompiledTree(nodes) =>
        \A request \in Requests : Meant(request) => Answered(nodes, request)

\* README: "Routes can be added to the tree at any time", with a call of compile
\* before they are used: what was answered before the call still is.
CompileKeepsServing ==
    [][TreeStep /\ Compile =>
        \A request \in Requests :
            Answered(nodes, request) => Answered(nodes', request)]_matchVars
=============================================================================
