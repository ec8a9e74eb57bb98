------------------------------- MODULE R3Tree -------------------------------
(***************************************************************************)
(* The route tree of r3: r3_tree_insert_routel_ex and the functions it     *)
(* calls, and r3_tree_compile, in a build without PCRE.                    *)
(*                                                                         *)
(* A node is an index into "nodes", in the order of creation; node 1 is    *)
(* the root r3_tree_create returned to R3::Tree#initialize.  An insertion  *)
(* is a tail-recursive walk from the root, one step per call of            *)
(* r3_tree_insert_pathl_ex; "call" is its current frame.  The calls of a   *)
(* program are sequential: nothing else happens during an insertion.       *)
(***************************************************************************)
EXTENDS R3Path

CONSTANTS
    Paths,      \* the patterns routes are added with, after mrb_r3_chomp_path
    Methods,    \* the method masks routes are added with
    MaxAdds     \* bound on the number of insertions

ASSUME PathsAssumption ==
    /\ Paths \subseteq Seq(Token)
    /\ \A path \in Paths :
        /\ \A i \in 1..Len(path)-1 : path[i] # Unclosed
        /\ ~NestedAdjacent(path)
        /\ InnerTaken(path) => OneFlaw(path)
    /\ \A path, other \in Paths : InnerTaken(path) => ~MakesUp(other)

ASSUME MaxAddsAssumption == MaxAdds \in Nat

VARIABLES
    nodes,      \* the nodes of the tree
    call,       \* the insertion in progress, or Idle
    adds,       \* insertions begun so far: the data of the last one
    spell       \* history: the pattern text from the root down to each node

vars == <<nodes, call, adds, spell>>

Root == 1

Edge == [pattern : Seq(Token), child : Nat, opcode : Opcodes,
         has_slug : BOOLEAN]
Route == [slugs : {SlugsOf(path) : path \in Paths}, method : Methods, data : Nat]
Node == [edges : Seq(Edge), routes : Seq(Route), endpoint : Nat,
         compare_type : {"PCRE", "OPCODE"}]
Call == [pc : {"insert", "aborted", "astray"}, node : Nat, rest : Seq(Token),
         path : Paths, method : Methods, data : Nat]

-----------------------------------------------------------------------------
(* The functions on nodes and edges                                        *)

\* Mutant: compare_type left as memset makes it, NODE_COMPARE_STR.
EmptyNode_NoCompareType == [edges |-> <<>>, routes |-> <<>>, endpoint |-> 0,
                            compare_type |-> "STR"]

\* r3_tree_create
EmptyNode == [edges |-> <<>>, routes |-> <<>>, endpoint |-> 0,
              compare_type |-> "PCRE"]

\* Mutant: has_slug is not computed.
NewEdge_NoHasSlug(pattern, child, opcode) ==
    [pattern |-> pattern, child |-> child, opcode |-> opcode, has_slug |-> FALSE]

\* r3_edge_initl on memory r3_node_append_edge has cleared
NewEdge(pattern, child, opcode) ==
    [pattern |-> pattern, child |-> child, opcode |-> opcode,
     has_slug |-> HasBrace(pattern)]

\* r3_node_connectl, and the opcode its caller then gives the edge it
\* returned: an edge that has the pattern already keeps its child.
Connect(edges, pattern, child, opcode) ==
    IF \E i \in 1..Len(edges) : edges[i].pattern = pattern
    THEN [i \in 1..Len(edges) |->
            IF edges[i].pattern = pattern /\ opcode # "NONE"
            THEN [edges[i] EXCEPT !.opcode = opcode]
            ELSE edges[i]]
    ELSE Append(edges, NewEdge(pattern, child, opcode))

\* Create a node and connect it to node n.
Graft(tree, n, pattern, opcode) ==
    LET child == Len(tree) + 1
    IN Append([tree EXCEPT ![n].edges = Connect(@, pattern, child, opcode)],
              EmptyNode)

\* Mutant: the route replaces the routes of the node.
Mount_Overwrites(tree, n, route) ==
    [tree EXCEPT ![n].endpoint = @ + 1, ![n].routes = <<route>>]

\* Count an endpoint at node n and append a route to it.
Mount(tree, n, route) ==
    [tree EXCEPT ![n].endpoint = @ + 1, ![n].routes = Append(@, route)]

\* Mutants of EdgeBranch: e->pattern.len is not truncated; e->child keeps
\* pointing to the old child.
EdgeBranch_NoTruncate(tree, n, i, k) ==
    LET edge == tree[n].edges[i]
        rest == NewEdge(After(edge.pattern, k), edge.child, "NONE")
    IN Append([tree EXCEPT ![n].edges[i].child = Len(tree) + 1],
              [EmptyNode EXCEPT !.edges = <<rest>>])

EdgeBranch_KeepsChild(tree, n, i, k) ==
    LET edge == tree[n].edges[i]
        rest == NewEdge(After(edge.pattern, k), edge.child, "NONE")
    IN Append([tree EXCEPT ![n].edges[i].pattern = Upto(@, k)],
              [EmptyNode EXCEPT !.edges = <<rest>>])

\* r3_edge_branch: keep k tokens on edge i of node n, and move the rest of its
\* pattern to an edge of a new node between the edge and its child.
EdgeBranch(tree, n, i, k) ==
    LET edge == tree[n].edges[i]
        upper == [edge EXCEPT !.pattern = Upto(edge.pattern, k),
                              !.child = Len(tree) + 1]
        rest == NewEdge(After(edge.pattern, k), edge.child, "NONE")
    IN Append([tree EXCEPT ![n].edges[i] = upper],
              [EmptyNode EXCEPT !.edges = <<rest>>])

\* r3_node_has_slug_edges refreshes has_slug; r3_tree_compile_patterns sets
\* compare_type, and is only called for a node that has a slug edge.
CompiledNode(node) ==
    LET edges == [i \in 1..Len(node.edges) |->
                    [node.edges[i] EXCEPT
                        !.has_slug = HasBrace(node.edges[i].pattern)]]
        has_slug_edges == \E i \in 1..Len(edges) : edges[i].has_slug
        all_opcodes == \A i \in 1..Len(edges) : edges[i].opcode # "NONE"
        type == IF all_opcodes THEN "OPCODE" ELSE "PCRE"
    IN [node EXCEPT !.edges = edges,
                    !.compare_type = IF has_slug_edges THEN type ELSE @]

\* r3_tree_compile from the root: its recursion reaches every node (OneParent).
CompiledTree(tree) == [n \in 1..Len(tree) |-> CompiledNode(tree[n])]

-----------------------------------------------------------------------------
(* The frame of r3_tree_insert_pathl_ex                                    *)

Idle == [pc |-> "idle", node |-> Root, rest |-> <<>>, path |-> <<>>,
         method |-> {}, data |-> 0]

Inserting == call.pc = "insert"

Recurse(node, rest) == call' = [call EXCEPT !.node = node, !.rest = rest]
Return == call' = Idle

\* Mutant: get_slugs runs over the rest only, where the recursion ended.
NewRoute_SlugsOfRest == [slugs |-> SlugsOf(call.rest), method |-> call.method,
                         data |-> call.data]

\* What r3_tree_insert_routel_ex leaves behind: get_slugs runs over the whole
\* pattern as soon as the route is mounted.
NewRoute == [slugs |-> SlugsOf(call.path), method |-> call.method,
             data |-> call.data]

EdgesHere == nodes[call.node].edges

\* r3_node_find_common_prefix finds edge i, sharing k tokens with the rest:
\* the first edge of those that share most.
CommonPrefix(i, k) ==
    /\ k > 0
    /\ Share(EdgesHere[i].pattern, call.rest, k)
    /\ \A j \in 1..Len(EdgesHere) :
        \A l \in k+1..Len(call.rest) : ~Share(EdgesHere[j].pattern, call.rest, l)
    /\ \A j \in 1..i-1 : ~Share(EdgesHere[j].pattern, call.rest, k)

\* Mutants of NoCommonPrefix: "ignore all edges with slug"; only the first edge
\* is looked at.
NoCommonPrefix_IgnoresSlugs ==
    \A i \in 1..Len(EdgesHere) :
        HasSlug(EdgesHere[i].pattern) \/ ~Share(EdgesHere[i].pattern, call.rest, 1)

NoCommonPrefix_FirstEdgeOnly ==
    \A i \in 1..Len(EdgesHere) :
        i = 1 => ~Share(EdgesHere[i].pattern, call.rest, 1)

NoCommonPrefix ==
    \A i \in 1..Len(EdgesHere) : ~Share(EdgesHere[i].pattern, call.rest, 1)

\* The insertion found an edge, and parsing the slugs around its prefix k came to
\* an end.
Follows(i, k) ==
    /\ Inserting
    /\ call.rest # <<>>
    /\ CommonPrefix(i, k)
    /\ ~ParseFails(call.rest, k)
    /\ ~ParseLost(call.rest, k)

\* The insertion found no edge, and r3_slug_count no error.
Grows ==
    /\ Inserting
    /\ call.rest # <<>>
    /\ NoCommonPrefix
    /\ ~CountFails(call.rest)

-----------------------------------------------------------------------------
(* Actions                                                                 *)

Init ==
    /\ nodes = <<EmptyNode>>
    /\ call = Idle
    /\ adds = 0
    /\ spell = <<(<<>>)>>

\* R3::Tree#add enters r3_tree_insert_routel.
Add(path, method, data) ==
    /\ call = Idle
    /\ adds < MaxAdds
    /\ adds' = adds + 1
    /\ call' = [pc |-> "insert", node |-> Root, rest |-> path, path |-> path,
                method |-> method, data |-> data]
    /\ UNCHANGED <<nodes, spell>>

\* Mutant: the endpoint is returned without mounting the route.
InsertHere_NoMount ==
    /\ Inserting
    /\ call.rest = <<>>
    /\ Return
    /\ UNCHANGED <<nodes, adds, spell>>

\* path_len == 0: mount the route on the node itself.
InsertHere ==
    /\ Inserting
    /\ call.rest = <<>>
    /\ nodes' = Mount(nodes, call.node, NewRoute)
    /\ Return
    /\ UNCHANGED <<adds, spell>>

\* r3_node_find_common_prefix reports a slug it cannot parse.
ParseRefuses ==
    /\ Inserting
    /\ \E i \in 1..Len(EdgesHere), k \in 1..Len(call.rest) :
        CommonPrefix(i, k) /\ ParseFails(call.rest, k)
    /\ Return
    /\ UNCHANGED <<nodes, adds, spell>>

\* r3_node_find_common_prefix does not come to an end, or reads through NULL: the
\* model ends.
ParseAstray ==
    /\ Inserting
    /\ \E i \in 1..Len(EdgesHere), k \in 1..Len(call.rest) :
        CommonPrefix(i, k) /\ ParseLost(call.rest, k)
    /\ call' = [call EXCEPT !.pc = "astray"]
    /\ UNCHANGED <<nodes, adds, spell>>

\* r3_slug_count returns -1.
CountRefuses ==
    /\ Inserting
    /\ NoCommonPrefix
    /\ CountFails(call.rest)
    /\ Return
    /\ UNCHANGED <<nodes, adds, spell>>

\* Mutants of InsertFirstOfMany: it goes on behind the next slug instead of at
\* it; the edge gets the opcode of a default slug.
InsertFirstOfMany_SkipsSlug ==
    /\ Grows
    /\ Cardinality(CountedSlugs(call.rest)) > 1
    /\ \E j \in BreakPoints(call.rest) :
        LET first == Upto(call.rest, j - 1) IN
        /\ \A b \in BreakPoints(call.rest) : j <= b
        /\ nodes' = Graft(nodes, call.node, first, "NONE")
        /\ spell' = Append(spell, spell[call.node] \o first)
        /\ Recurse(Len(nodes) + 1, After(call.rest, j))
    /\ UNCHANGED adds

InsertFirstOfMany_Opcode ==
    /\ Grows
    /\ Cardinality(CountedSlugs(call.rest)) > 1
    /\ \E j \in BreakPoints(call.rest) :
        LET first == Upto(call.rest, j - 1) IN
        /\ \A b \in BreakPoints(call.rest) : j <= b
        /\ nodes' = Graft(nodes, call.node, first, "NOSLASH")
        /\ spell' = Append(spell, spell[call.node] \o first)
        /\ Recurse(Len(nodes) + 1, After(call.rest, j - 1))
    /\ UNCHANGED adds

\* Several slugs: connect the pattern up to the next slug, without an opcode,
\* and go on below it.
InsertFirstOfMany ==
    /\ Grows
    /\ Cardinality(CountedSlugs(call.rest)) > 1
    /\ \E j \in BreakPoints(call.rest) :
        LET first == Upto(call.rest, j - 1) IN
        /\ \A b \in BreakPoints(call.rest) : j <= b
        /\ nodes' = Graft(nodes, call.node, first, "NONE")
        /\ spell' = Append(spell, spell[call.node] \o first)
        /\ Recurse(Len(nodes) + 1, After(call.rest, j - 1))
    /\ UNCHANGED adds

\* Several slugs and no next slug found: assert(p) ends the process.  The length
\* of the search does not allow for the text before the first slug: it reads as
\* many characters behind the pattern's end.  The first is its terminator; the
\* others are not the pattern's, and may hold a slug to break at, or the end of
\* the one that the pattern left open.  What the code does then is not defined,
\* and the model ends.
InsertAborts ==
    /\ Grows
    /\ Cardinality(CountedSlugs(call.rest)) > 1
    /\ BreakPoints(call.rest) = {}
    /\ \/ call' = [call EXCEPT !.pc = "aborted"]
       \/ /\ \A i \in SlugPositions(call.rest) :
                i > IF HasMalformed(call.rest) THEN 2 ELSE 3
          /\ call' = [call EXCEPT !.pc = "astray"]
    /\ UNCHANGED <<nodes, adds, spell>>

\* One slug: an edge for the literals before it, if there are any, an edge
\* with the slug's opcode for the slug alone, and on with what follows it.
InsertSlug ==
    /\ Grows
    /\ Cardinality(CountedSlugs(call.rest)) = 1
    /\ \E s \in CountedSlugs(call.rest) :
        LET before == Upto(call.rest, s - 1)
            slug == call.rest[s]
            after == After(call.rest, s)
            c1 == IF s > 1 THEN Len(nodes) + 1 ELSE call.node
            tree1 == IF s > 1 THEN Graft(nodes, call.node, before, "NONE")
                              ELSE nodes
            spell1 == IF s > 1 THEN Append(spell, spell[call.node] \o before)
                               ELSE spell
            c2 == Len(tree1) + 1
            tree2 == Graft(tree1, c1, <<slug>>, SlugOpcode[slug])
        IN  /\ spell' = Append(spell1, spell1[c1] \o <<slug>>)
            /\ \/ /\ after # <<>>
                  /\ nodes' = tree2
                  /\ Recurse(c2, after)
               \/ /\ after = <<>>
                  /\ nodes' = Mount(tree2, c2, NewRoute)
                  /\ Return
    /\ UNCHANGED adds

\* No slug is counted: one edge for all of it, with the route below.
InsertLiteral ==
    /\ Grows
    /\ CountedSlugs(call.rest) = {}
    /\ nodes' = Mount(Graft(nodes, call.node, call.rest, "NONE"),
                      Len(nodes) + 1, NewRoute)
    /\ spell' = Append(spell, spell[call.node] \o call.rest)
    /\ Return
    /\ UNCHANGED adds

\* Mutants of Descend: it passes path for subpath; it passes tree for e->child
\* as well.
Descend_WholePath ==
    \E i \in 1..Len(EdgesHere), k \in 1..Len(call.rest) :
        /\ Follows(i, k)
        /\ k = Len(EdgesHere[i].pattern)
        /\ k < Len(call.rest)
        /\ Recurse(EdgesHere[i].child, call.rest)
        /\ UNCHANGED <<nodes, adds, spell>>

Descend_Stays ==
    \E i \in 1..Len(EdgesHere), k \in 1..Len(call.rest) :
        /\ Follows(i, k)
        /\ k = Len(EdgesHere[i].pattern)
        /\ k < Len(call.rest)
        /\ Recurse(call.node, call.rest)
        /\ UNCHANGED <<nodes, adds, spell>>

\* The prefix is the whole edge and the pattern goes on below it.
Descend ==
    \E i \in 1..Len(EdgesHere), k \in 1..Len(call.rest) :
        /\ Follows(i, k)
        /\ k = Len(EdgesHere[i].pattern)
        /\ k < Len(call.rest)
        /\ Recurse(EdgesHere[i].child, After(call.rest, k))
        /\ UNCHANGED <<nodes, adds, spell>>

\* The prefix is the whole edge and the whole pattern.
InsertExisting ==
    \E i \in 1..Len(EdgesHere), k \in 1..Len(call.rest) :
        /\ Follows(i, k)
        /\ k = Len(EdgesHere[i].pattern)
        /\ k = Len(call.rest)
        /\ nodes' = Mount(nodes, EdgesHere[i].child, NewRoute)
        /\ Return
        /\ UNCHANGED <<adds, spell>>

\* The prefix is a part of the edge: split it and go on at the new node.
Branch ==
    \E i \in 1..Len(EdgesHere), k \in 1..Len(call.rest) :
        /\ Follows(i, k)
        /\ k < Len(EdgesHere[i].pattern)
        /\ nodes' = EdgeBranch(nodes, call.node, i, k)
        /\ spell' = Append(spell, spell[call.node] \o Upto(call.rest, k))
        /\ Recurse(Len(nodes) + 1, After(call.rest, k))
        /\ UNCHANGED adds

\* R3::Tree#compile
Compile ==
    /\ call = Idle
    /\ nodes' = CompiledTree(nodes)
    /\ UNCHANGED <<call, adds, spell>>

InsertStep ==
    \/ InsertHere
    \/ ParseRefuses
    \/ ParseAstray
    \/ CountRefuses
    \/ InsertFirstOfMany
    \/ InsertAborts
    \/ InsertSlug
    \/ InsertLiteral
    \/ Descend
    \/ InsertExisting
    \/ Branch

Next ==
    \/ \E path \in Paths, method \in Methods : Add(path, method, adds + 1)
    \/ InsertStep
    \/ Compile

\* A C call that has begun runs on until it returns.
Spec == Init /\ [][Next]_vars /\ WF_vars(InsertStep)

-----------------------------------------------------------------------------
(* Safety                                                                  *)

NodeIds == 1..Len(nodes)
EdgeIds(n) == 1..Len(nodes[n].edges)

\* Types of the variables.
TypeOK ==
    /\ nodes \in Seq(Node)
    /\ spell \in Seq(Seq(Token))
    /\ Len(spell) = Len(nodes)
    /\ Len(nodes) >= Root
    /\ adds \in 0..MaxAdds
    /\ call \in Call \cup {Idle}
    /\ call.node \in NodeIds

\* The tree is a trie: the patterns of the edges from the root down to a node
\* spell the text the node stands for, however r3_edge_branch cut them and
\* r3_node_connectl joined them, and no edge has an empty pattern.
TrieSpells ==
    /\ spell[Root] = <<>>
    /\ \A n \in NodeIds : \A i \in EdgeIds(n) :
        LET edge == nodes[n].edges[i] IN
        /\ edge.pattern # <<>>
        /\ edge.child \in NodeIds
        /\ spell[edge.child] = spell[n] \o edge.pattern

\* During an insertion the text of the node reached and the text still to be
\* inserted make up the pattern that was added.
CallSpells ==
    Inserting => spell[call.node] \o call.rest = call.path

\* A route hangs at a node whose text has exactly the route's slugs: get_slugs
\* reads them from the whole pattern, the match collects one token per slug
\* edge on the way down to the node.
RouteSlugsSpelled ==
    \A n \in NodeIds : \A r \in 1..Len(nodes[n].routes) :
        nodes[n].routes[r].slugs = SlugsOf(spell[n])

Parents(c) ==
    UNION {{<<n, i>> : i \in {j \in EdgeIds(n) : nodes[n].edges[j].child = c}} :
            n \in NodeIds}

\* Every node but the root is the child of exactly one edge: r3_node_connectl
\* never drops the new node on the floor because an edge had its pattern
\* already, r3_tree_compile reaches every node, and r3_tree_free frees each
\* node once.
OneParent ==
    \A c \in NodeIds :
        IF c = Root THEN Parents(c) = {}
                    ELSE \E place \in Parents(c) : Parents(c) = {place}

\* No two edges of a node begin with the same token, so the first edge
\* r3_node_find_edge_str or r3_node_find_common_prefix finds is the only one.
SiblingsDiffer ==
    \A n \in NodeIds : \A i, j \in EdgeIds(n) :
        i # j => nodes[n].edges[i].pattern[1] # nodes[n].edges[j].pattern[1]

\* Two nodes never stand for the same text: a pattern added again finds the
\* node of the first time, whatever was split or added in between.
OneNodePerText ==
    \A n, m \in NodeIds : spell[n] = spell[m] => n = m

\* An edge has an opcode only if its pattern is one slug, and then the opcode
\* of that slug: r3_edge_branch never leaves an opcode on a part of a pattern.
\* A node compares by opcode only if it has such an edge.
OpcodesSound ==
    \A n \in NodeIds :
        /\ \A i \in EdgeIds(n) :
            LET edge == nodes[n].edges[i] IN
            edge.opcode # "NONE" =>
                \E slug \in Slugs : /\ edge.pattern = <<slug>>
                                    /\ edge.opcode = SlugOpcode[slug]
        /\ nodes[n].compare_type = "OPCODE" =>
            \E i \in EdgeIds(n) : nodes[n].edges[i].opcode # "NONE"

\* has_slug may be out of date after a split, but never so that a slug in the
\* pattern goes unnoticed.
HasSlugNeverMissed ==
    \A n \in NodeIds : \A i \in EdgeIds(n) :
        HasSlug(nodes[n].edges[i].pattern) => nodes[n].edges[i].has_slug

\* The first malformed token of the text, and all before it, belong to a pattern
\* whose flaws make up for each other.
Excused(text) ==
    \A b \in 1..Len(text) :
        FirstFlaw(text, b) =>
            \E path \in Paths : MakesUp(path) /\ Share(text, path, b)

\* r3_slug_parse and r3_slug_count refuse a malformed pattern before an edge
\* holds what is malformed of it, with one exception: a pattern such as "/}a{",
\* in which r3_slug_count finds as many '{' as '}'.  It gets into the tree, and
\* so may what follows its first flaw in other patterns, as in "/}b".
MalformedMakesUp == \A n \in NodeIds : Excused(spell[n])

\* The malformed patterns are refused, all of them.
NoneMakesUp == \A path \in Paths : ~MakesUp(path)

\* assert(p) in r3_tree_insert_pathl_ex: of a pattern with several slugs, the
\* next one is found.
NextSlugFound == call.pc # "aborted"

-----------------------------------------------------------------------------
(* Action properties and liveness                                          *)

\* Every recursive call has a shorter rest than its caller: an insertion ends.
RestShrinks ==
    [][Inserting /\ Inserting' => Len(call'.rest) < Len(call.rest)]_vars

\* A node keeps its text and the routes it has, in their order, for ever:
\* splitting an edge, compiling or adding a route moves none of them.
RoutesPermanent ==
    [][\A n \in NodeIds :
        /\ spell'[n] = spell[n]
        /\ IsPrefix(nodes[n].routes, nodes'[n].routes)]_vars

\* Every call of add returns, if no pattern has two slugs next to each other and
\* NoneMakesUp.
AddReturns == Inserting ~> call = Idle

\* The tree implements the route table: a route is in the table once it is
\* mounted, at the node that stands for its pattern.
Mounted ==
    UNION {{[path |-> spell[n], method |-> nodes[n].routes[r].method,
             data |-> nodes[n].routes[r].data] : r \in 1..Len(nodes[n].routes)} :
            n \in NodeIds}

Pending == [path |-> call.path, method |-> call.method, data |-> call.data]

Table == INSTANCE RouteTable
            WITH Patterns <- Paths,
                 WellFormed <- LAMBDA path : ~HasMalformed(path),
                 NoRequest <- Idle,
                 table <- Mounted,
                 request <- IF call = Idle THEN Idle ELSE Pending

\* If NoneMakesUp: adding a route, step by step, is adding it to the table at
\* once, and a malformed pattern, and no other, is refused and adds nothing.
ImplementsRouteTable == Table!Spec
=============================================================================
