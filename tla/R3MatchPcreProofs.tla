-------------------------- MODULE R3MatchPcreProofs --------------------------
(***************************************************************************)
(* Theorems about R3MatchPcre.  A regular expression is made from the      *)
(* edges its node has at the time; the number of the group that has        *)
(* matched is taken for the number of an edge whenever a match comes by.   *)
(* What holds all the time is that the edge with that number is still the  *)
(* one, or what a split has left of it.  In a compiled tree that leaves a  *)
(* match no choice, the longest match of a group is the one on the way to  *)
(* the route that is meant, so that a request is answered exactly if there *)
(* is one.                                                                 *)
(***************************************************************************)
EXTENDS R3MatchPcre, R3AnswerProofs

-----------------------------------------------------------------------------
(* Alternatives and edges                                                  *)

\* The edge is the one the alternative was made from, or the part of it a
\* split has left; has_slug may be out of date in the second case only.
AlternativeFits(edge, pattern) ==
    /\ Prefix(edge.pattern, pattern)
    /\ edge.pattern = pattern => edge.has_slug = HasBrace(pattern)

NodeAlternatives(edges, patterns) ==
    /\ Len(patterns) <= Len(edges)
    /\ \A i \in 1..Len(patterns) : AlternativeFits(edges[i], patterns[i])

\* Of the nodes that have been there when regexes were looked at.
Alternatives(tree, regexes) ==
    /\ regexes \in Seq(Seq(Seq(Token)))
    /\ Len(regexes) <= Len(tree)
    /\ \A n \in 1..Len(regexes) : NodeAlternatives(tree[n].edges, regexes[n])

\* What fitted the old edge fits the new one.
Succeeds(new, old) ==
    \A pattern \in Seq(Token) :
        AlternativeFits(old, pattern) => AlternativeFits(new, pattern)

EdgesSucceed(new, old) ==
    Len(old) <= Len(new) /\ \A i \in 1..Len(old) : Succeeds(new[i], old[i])

\* A tree with one node changed, and with nodes added or not.
OneChanged(tree, n, node, new) ==
    /\ Len(new) \in Nat /\ Len(tree) <= Len(new)
    /\ \A m \in 1..Len(tree) : new[m] = IF m = n THEN node ELSE tree[m]

LEMMA EdgeSucceeds ==
    ASSUME NEW old, NEW new, new.pattern = old.pattern,
           new.has_slug = old.has_slug
    PROVE  Succeeds(new, old)
BY DEF Succeeds, AlternativeFits

\* A part of an edge.
LEMMA CutSucceeds ==
    ASSUME NEW old \in Edge, NEW new, NEW k \in 1..(Len(old.pattern) - 1),
           new.pattern = Upto(old.pattern, k)
    PROVE  Succeeds(new, old)
<1> DEFINE cut == Upto(old.pattern, k)
<1> SUFFICES ASSUME NEW pattern \in Seq(Token), AlternativeFits(old, pattern)
             PROVE  AlternativeFits(new, pattern)
  BY DEF Succeeds
<1>1. old.pattern \in Seq(Token) /\ Len(old.pattern) \in Nat
  BY LenProperties DEF Edge
<1>2. /\ cut \in Seq(Token) /\ Len(cut) = k
      /\ \A i \in 1..k : cut[i] = old.pattern[i]
  BY <1>1, SubSeqProperties DEF Upto
<1> HIDE DEF cut
<1>3. /\ Len(old.pattern) <= Len(pattern) /\ Len(pattern) \in Nat
      /\ \A i \in 1..Len(old.pattern) : old.pattern[i] = pattern[i]
  BY LenProperties DEF AlternativeFits, Prefix
<1>4. k <= Len(pattern) /\ k # Len(pattern) /\ \A i \in 1..k : i \in 1..Len(old.pattern)
  <2> DEFINE l == Len(old.pattern)
             m == Len(pattern)
  <2>1. l \in Nat /\ m \in Nat /\ l <= m /\ k \in 1..(l - 1)
    BY <1>1, <1>3
  <2> HIDE DEF l, m
  <2>2. k <= m /\ k # m /\ \A i \in 1..k : i \in 1..l
    BY <2>1
  <2> QED BY <2>2 DEF l, m
<1>5. Prefix(cut, pattern) /\ Len(cut) # Len(pattern)
  BY <1>2, <1>3, <1>4 DEF Prefix
<1> QED BY <1>5 DEF AlternativeFits, cut

LEMMA SucceedingTree ==
    ASSUME NEW tree \in Seq(Node), NEW regexes, Alternatives(tree, regexes),
           NEW n \in 1..Len(tree), NEW node \in Node, NEW new,
           OneChanged(tree, n, node, new),
           EdgesSucceed(node.edges, tree[n].edges)
    PROVE  Alternatives(new, regexes)
<1>0. /\ Len(new) \in Nat /\ Len(tree) <= Len(new)
      /\ \A m \in 1..Len(tree) : new[m] = IF m = n THEN node ELSE tree[m]
      /\ Len(tree[n].edges) <= Len(node.edges)
      /\ \A i \in 1..Len(tree[n].edges) :
                Succeeds(node.edges[i], tree[n].edges[i])
  BY DEF OneChanged, EdgesSucceed
<1>1. /\ regexes \in Seq(Seq(Seq(Token)))
      /\ Len(regexes) \in Nat /\ Len(tree) \in Nat /\ Len(regexes) <= Len(tree)
  <2> DEFINE P == Seq(Seq(Token))
  <2>1. regexes \in Seq(P)
    BY DEF Alternatives
  <2> HIDE DEF P
  <2>2. Len(regexes) \in Nat
    BY <2>1, LenProperties
  <2> QED BY <2>2, LenProperties DEF Alternatives
<1>2. ASSUME NEW m \in 1..Len(regexes)
      PROVE  NodeAlternatives(new[m].edges, regexes[m])
  <2>1. NodeAlternatives(tree[m].edges, regexes[m]) /\ m \in 1..Len(tree)
    BY <1>1 DEF Alternatives
  <2>2. regexes[m] \in Seq(Seq(Token))
    <3> DEFINE P == Seq(Seq(Token))
    <3>1. regexes \in Seq(P)
      BY <1>1
    <3> HIDE DEF P
    <3>2. regexes[m] \in P
      BY <3>1, ElementOfSeq
    <3> QED BY <3>2 DEF P
  <2>3. CASE m = n
    <3> DEFINE patterns == regexes[m]
               old == tree[n].edges
               edges == node.edges
    <3>1. new[m].edges = edges
      BY <2>1, <2>3, <1>0
    <3>2. /\ patterns \in Seq(Seq(Token)) /\ Len(patterns) \in Nat
          /\ NodeAlternatives(old, patterns)
      <4> DEFINE P == Seq(Token)
      <4>1. patterns \in Seq(P)
        BY <2>2
      <4> HIDE DEF P
      <4> QED BY <4>1, <2>1, <2>2, <2>3, LenProperties
    <3>3. /\ Len(old) \in Nat /\ Len(edges) \in Nat /\ Len(old) <= Len(edges)
          /\ \A i \in 1..Len(old) : Succeeds(edges[i], old[i])
      <4>1. old \in Seq(Edge) /\ edges \in Seq(Edge)
        <5>1. tree[n] \in Node /\ node \in Node
          BY ElementOfSeq
        <5> QED BY <5>1 DEF Node
      <4>2. Len(old) \in Nat /\ Len(edges) \in Nat
        BY <4>1, LenProperties
      <4> QED BY <4>2, <1>0
    <3> HIDE DEF patterns, old, edges
    <3>4. Len(patterns) <= Len(old) /\ Len(patterns) <= Len(edges)
      BY <3>2, <3>3 DEF NodeAlternatives
    <3>5. ASSUME NEW i \in 1..Len(patterns)
          PROVE  AlternativeFits(edges[i], patterns[i])
      <4>1. i \in 1..Len(old) /\ patterns[i] \in Seq(Token)
        <5> DEFINE P == Seq(Token)
        <5>1. patterns \in Seq(P)
          BY <3>2
        <5> HIDE DEF P
        <5>2. patterns[i] \in P
          BY <5>1, ElementOfSeq
        <5> QED BY <5>2, <3>2, <3>3, <3>4 DEF P
      <4>2. AlternativeFits(old[i], patterns[i]) /\ Succeeds(edges[i], old[i])
        BY <4>1, <3>2, <3>3 DEF NodeAlternatives
      <4> QED BY <4>1, <4>2 DEF Succeeds
    <3>6. NodeAlternatives(edges, patterns)
      BY <3>4, <3>5 DEF NodeAlternatives
    <3> QED BY <3>1, <3>6 DEF patterns
  <2>4. CASE m # n
    BY <2>1, <2>4, <1>0
  <2> QED BY <2>3, <2>4
<1> QED BY <1>0, <1>1, <1>2 DEF Alternatives

\* A node more, one of the old ones changed.
LEMMA GrowNodes ==
    ASSUME NEW tree \in Seq(Node), NEW n \in 1..Len(tree), NEW node \in Node,
           NEW leaf \in Node
    PROVE  LET new == Append([tree EXCEPT ![n] = node], leaf) IN
           /\ new \in Seq(Node) /\ OneChanged(tree, n, node, new)
<1> DEFINE changed == [tree EXCEPT ![n] = node]
<1>1. /\ changed \in Seq(Node) /\ Len(changed) = Len(tree)
      /\ \A m \in 1..Len(tree) : changed[m] = IF m = n THEN node ELSE tree[m]
      /\ Len(tree) \in Nat
  BY ExceptSeq, LenProperties
<1> DEFINE new == Append(changed, leaf)
<1> HIDE DEF changed
<1>2. /\ new \in Seq(Node) /\ Len(new) = Len(tree) + 1
      /\ \A m \in 1..Len(tree) : new[m] = IF m = n THEN node ELSE tree[m]
  BY <1>1, AppendProperties
<1> HIDE DEF new
<1>3. OneChanged(tree, n, node, new)
  BY <1>1, <1>2 DEF OneChanged
<1> QED BY <1>2, <1>3 DEF new, changed

LEMMA ConnectSucceeds ==
    ASSUME NEW edges \in Seq(Edge), NEW pattern \in Seq(Token),
           NEW child \in Nat, NEW opcode \in Opcodes
    PROVE  EdgesSucceed(Connect(edges, pattern, child, opcode), edges)
<1> DEFINE new == Connect(edges, pattern, child, opcode)
<1>1. Len(edges) \in Nat /\ \A i \in 1..Len(edges) : edges[i] \in Edge
  BY LenProperties, ElementOfSeq
<1>2. CASE \E i \in 1..Len(edges) : edges[i].pattern = pattern
  <2>1. new = [i \in 1..Len(edges) |->
                IF edges[i].pattern = pattern /\ opcode # "NONE"
                THEN [edges[i] EXCEPT !.opcode = opcode]
                ELSE edges[i]]
    BY <1>2 DEF Connect
  <2> HIDE DEF new
  <2>2. Len(new) = Len(edges)
    BY <2>1, <1>1
  <2>3. ASSUME NEW i \in 1..Len(edges)
        PROVE  Succeeds(new[i], edges[i])
    <3> DEFINE edge == edges[i]
    <3>1. edge \in Edge
      BY <1>1
    <3>2. new[i] \in {edge, [edge EXCEPT !.opcode = opcode]}
      BY <2>1
    <3> HIDE DEF edge
    <3>3. new[i].pattern = edge.pattern /\ new[i].has_slug = edge.has_slug
      BY <3>1, <3>2 DEF Edge
    <3> QED BY <3>3, EdgeSucceeds DEF edge
  <2> QED BY <2>2, <2>3, <1>1 DEF EdgesSucceed, new
<1>3. CASE ~\E i \in 1..Len(edges) : edges[i].pattern = pattern
  <2>1. new = Append(edges, NewEdge(pattern, child, opcode))
    BY <1>3 DEF Connect
  <2>2. NewEdge(pattern, child, opcode) \in Edge
    BY NewEdgeType
  <2> HIDE DEF new
  <2>3. Len(new) = Len(edges) + 1 /\ \A i \in 1..Len(edges) : new[i] = edges[i]
    BY <2>1, <2>2, AppendProperties
  <2>4. EdgesSucceed(new, edges)
    BY <2>3, <1>1, EdgeSucceeds DEF EdgesSucceed
  <2> QED BY <2>4 DEF new
<1> QED BY <1>2, <1>3

LEMMA GraftAlternatives ==
    ASSUME NEW tree, NEW sp, Shape(tree, sp), NEW n \in 1..Len(tree),
           NEW pattern \in Seq(Token), NEW opcode \in Opcodes,
           NEW regexes, Alternatives(tree, regexes)
    PROVE  Alternatives(Graft(tree, n, pattern, opcode), regexes)
<1> DEFINE edges == Connect(tree[n].edges, pattern, Len(tree) + 1, opcode)
           node == [tree[n] EXCEPT !.edges = edges]
           new == Append([tree EXCEPT ![n] = node], EmptyNode)
<1>1. Graft(tree, n, pattern, opcode) = new
  BY DEF Graft
<1>2. /\ tree \in Seq(Node) /\ tree[n] \in Node /\ tree[n].edges \in Seq(Edge)
      /\ Len(tree) \in Nat
  BY ShapeOfNode DEF Shape
<1>3. Len(tree) + 1 \in Nat
  BY <1>2
<1>4. edges \in Seq(Edge) /\ EdgesSucceed(edges, tree[n].edges)
  BY <1>2, <1>3, ConnectEdges, ConnectSucceeds
<1> HIDE DEF edges
<1>5. node \in Node /\ node.edges = edges
  BY <1>2, <1>4 DEF Node
<1> HIDE DEF node
<1>6. OneChanged(tree, n, node, new)
  BY <1>2, <1>5, EmptyNodeType, GrowNodes
<1> HIDE DEF new
<1> QED BY <1>1, <1>2, <1>4, <1>5, <1>6, SucceedingTree

LEMMA MountAlternatives ==
    ASSUME NEW tree, NEW sp, Shape(tree, sp), NEW n \in 1..Len(tree),
           NEW route \in Route, NEW regexes, Alternatives(tree, regexes)
    PROVE  Alternatives(Mount(tree, n, route), regexes)
<1> DEFINE new == Mount(tree, n, route)
<1>1. /\ tree \in Seq(Node) /\ tree[n] \in Node /\ Len(tree) \in Nat
      /\ tree[n].routes \in Seq(Route) /\ tree[n].endpoint \in Nat
      /\ tree[n].edges \in Seq(Edge)
  BY ShapeOfNode DEF Shape
<1>2. new = [tree EXCEPT ![n] = [tree[n] EXCEPT
                !.endpoint = @ + 1, !.routes = Append(@, route)]]
  BY <1>1 DEF Mount, Node
<1> HIDE DEF new
<1> DEFINE routes == Append(tree[n].routes, route)
           node == [tree[n] EXCEPT !.endpoint = @ + 1, !.routes = routes]
<1>3. routes \in Seq(Route)
  BY <1>1, AppendProperties
<1> HIDE DEF routes
<1>4. node \in Node /\ node.edges = tree[n].edges
  <2> DEFINE old == tree[n]
             endpoint == old.endpoint + 1
  <2>1. old \in Node /\ endpoint \in Nat
    BY <1>1
  <2> HIDE DEF old, endpoint
  <2>2. LET grown == [old EXCEPT !.endpoint = endpoint, !.routes = routes] IN
        grown \in Node /\ grown.edges = old.edges
    BY <2>1, <1>3 DEF Node
  <2> QED BY <2>2 DEF old, endpoint
<1>5. new = [tree EXCEPT ![n] = node]
  BY <1>2 DEF routes
<1> HIDE DEF node
<1>6. OneChanged(tree, n, node, new)
  BY <1>1, <1>4, <1>5, ExceptSeq DEF OneChanged
<1>7. EdgesSucceed(node.edges, tree[n].edges)
  <2>1. Len(tree[n].edges) \in Nat
    BY <1>1, LenProperties
  <2> QED BY <2>1, <1>4, EdgeSucceeds DEF EdgesSucceed
<1> QED BY <1>1, <1>4, <1>6, <1>7, SucceedingTree DEF new

LEMMA BranchAlternatives ==
    ASSUME NEW tree, NEW sp, Shape(tree, sp), NEW n \in 1..Len(tree),
           NEW i \in 1..Len(tree[n].edges),
           NEW k \in 1..(Len(tree[n].edges[i].pattern) - 1),
           NEW regexes, Alternatives(tree, regexes)
    PROVE  Alternatives(EdgeBranch(tree, n, i, k), regexes)
<1> DEFINE c == Len(tree) + 1
           edge == tree[n].edges[i]
           upper == Upto(edge.pattern, k)
           lower == After(edge.pattern, k)
           short == [edge EXCEPT !.pattern = upper, !.child = c]
           edges == [tree[n].edges EXCEPT ![i] = short]
           node == [tree[n] EXCEPT !.edges = edges]
           rest == NewEdge(lower, edge.child, "NONE")
           leaf == [EmptyNode EXCEPT !.edges = <<rest>>]
           new == Append([tree EXCEPT ![n] = node], leaf)
<1>1. /\ tree \in Seq(Node) /\ Len(tree) \in Nat
      /\ tree[n] \in Node /\ tree[n].edges \in Seq(Edge)
  BY ShapeOfNode DEF Shape
<1>2. EdgeBranch(tree, n, i, k) = new
  <2>1. [tree EXCEPT ![n] = node] = [tree EXCEPT ![n].edges[i] = short]
    BY Zenon
  <2> QED BY <2>1, Zenon DEF EdgeBranch
<1>3. edge \in Edge
  BY <1>1, ElementOfSeq
<1>4. /\ edge.pattern \in Seq(Token) /\ edge.child \in Nat /\ c \in Nat
      /\ k \in 1..(Len(edge.pattern) - 1) /\ k \in 0..Len(edge.pattern)
  <2>1. edge.pattern \in Seq(Token) /\ edge.child \in Nat
    <3> HIDE DEF edge
    <3> QED BY <1>3 DEF Edge
  <2>2. c \in Nat /\ Len(edge.pattern) \in Nat
    BY <2>1, <1>1, LenProperties
  <2> QED BY <2>1, <2>2
<1> HIDE DEF edge
<1>5. upper \in Seq(Token) /\ lower \in Seq(Token)
  BY <1>4, CutText
<1>6. short \in Edge /\ short.pattern = upper
  <2> HIDE DEF upper, c
  <2> QED BY <1>3, <1>4, <1>5 DEF Edge
<1>7. Succeeds(short, edge)
  <2> HIDE DEF short
  <2> QED BY <1>3, <1>4, <1>6, CutSucceeds
<1> HIDE DEF short, upper, lower
<1>8. /\ edges \in Seq(Edge) /\ Len(edges) = Len(tree[n].edges)
      /\ edges[i] = short
      /\ \A j \in 1..Len(tree[n].edges) : j # i => edges[j] = tree[n].edges[j]
  BY <1>1, <1>6, ExceptSeq
<1> HIDE DEF edges
<1>9. node \in Node /\ node.edges = edges
  BY <1>1, <1>8 DEF Node
<1>10. EdgesSucceed(edges, tree[n].edges)
  <2>1. Len(tree[n].edges) \in Nat
    BY <1>1, LenProperties
  <2>2. \A j \in 1..Len(tree[n].edges) : Succeeds(edges[j], tree[n].edges[j])
    BY <1>7, <1>8, EdgeSucceeds DEF edge
  <2> QED BY <2>1, <2>2, <1>8 DEF EdgesSucceed
<1> HIDE DEF node
<1>11. rest \in Edge
  <2>1. "NONE" \in Opcodes
    BY DEF Opcodes
  <2> QED BY <2>1, <1>4, <1>5, NewEdgeType
<1> HIDE DEF rest
<1>12. leaf \in Node
  <2>1. leaf = [edges |-> <<rest>>, routes |-> <<>>, endpoint |-> 0,
                compare_type |-> "PCRE"]
    BY DEF EmptyNode
  <2>2. <<rest>> \in Seq(Edge) /\ <<>> \in Seq(Route)
    BY <1>11
  <2> HIDE DEF leaf
  <2> QED BY <2>1, <2>2 DEF Node
<1> HIDE DEF leaf
<1>13. OneChanged(tree, n, node, new)
  BY <1>1, <1>9, <1>12, GrowNodes
<1> HIDE DEF new
<1> QED BY <1>1, <1>2, <1>9, <1>10, <1>13, SucceedingTree

-----------------------------------------------------------------------------
(* An insertion                                                            *)

LEMMA InsertSlugAlternatives ==
    ASSUME IInv, InsertSlug, NEW regexes, Alternatives(nodes, regexes)
    PROVE  Alternatives(nodes', regexes)
<1>1. Grows /\ Inserting
  BY DEF InsertSlug, Grows
<1>2. PICK s \in CountedSlugs(call.rest) :
        LET before == Upto(call.rest, s - 1)
            slug == call.rest[s]
            c1 == IF s > 1 THEN Len(nodes) + 1 ELSE call.node
            tree1 == IF s > 1 THEN Graft(nodes, call.node, before, "NONE")
                              ELSE nodes
            c2 == Len(tree1) + 1
            tree2 == Graft(tree1, c1, <<slug>>, SlugOpcode[slug])
        IN  nodes' = tree2 \/ nodes' = Mount(tree2, c2, NewRoute)
  BY DEF InsertSlug
<1> DEFINE before == Upto(call.rest, s - 1)
           slug == call.rest[s]
           opcode == SlugOpcode[slug]
           pattern == <<slug>>
           c1 == IF s > 1 THEN Len(nodes) + 1 ELSE call.node
           tree1 == IF s > 1 THEN Graft(nodes, call.node, before, "NONE")
                             ELSE nodes
           spell1 == IF s > 1 THEN Append(spell, spell[call.node] \o before)
                              ELSE spell
           c2 == Len(tree1) + 1
           tree2 == Graft(tree1, c1, pattern, opcode)
           text == Append(spell1, spell1[c1] \o pattern)
<1>3. nodes' = tree2 \/ nodes' = Mount(tree2, c2, NewRoute)
  BY <1>2
<1>4. /\ call.rest \in Seq(Token) /\ call.node \in 1..Len(nodes)
      /\ Shape(nodes, spell) /\ "NONE" \in Opcodes /\ NewRoute \in Route
  BY <1>1, Frame DEF IInv, Opcodes
<1>5. /\ s \in 1..Len(call.rest) /\ slug \in Token /\ opcode \in Opcodes
  BY SlugOpcodeAssumption DEF CountedSlugs, SlugPositions, Token
<1>6. pattern \in Seq(Token) /\ pattern # <<>>
  BY <1>5
<1>7. Len(nodes) \in Nat
  BY <1>4, ShapeOfNode
<1> HIDE DEF pattern, opcode
<1>8. Shape(tree1, spell1) /\ Alternatives(tree1, regexes) /\ c1 \in 1..Len(tree1)
  <2>1. CASE s > 1
    <3> DEFINE grafted == Graft(nodes, call.node, before, "NONE")
               text1 == Append(spell, spell[call.node] \o before)
    <3>1. s - 1 \in 1..Len(call.rest) /\ s - 1 \in 0..Len(call.rest)
      BY <1>5, <2>1
    <3>2. before \in Seq(Token) /\ Len(before) = s - 1
      BY <1>4, <3>1, CutText
    <3> HIDE DEF before
    <3>3. before # <<>>
      BY <3>1, <3>2
    <3>4. Shape(grafted, text1) /\ Len(grafted) = Len(nodes) + 1
      BY <1>4, <3>2, <3>3, GraftShape
    <3>5. Alternatives(grafted, regexes)
      BY <1>4, <3>2, GraftAlternatives
    <3> HIDE DEF grafted, text1
    <3>6. tree1 = grafted /\ spell1 = text1 /\ c1 = Len(nodes) + 1
      BY <2>1 DEF grafted, text1
    <3>7. Len(nodes) + 1 \in 1..Len(grafted)
      BY <1>7, <3>4
    <3> HIDE DEF tree1, spell1, c1
    <3> QED BY <3>4, <3>5, <3>6, <3>7
  <2>2. CASE ~(s > 1)
    <3>1. tree1 = nodes /\ spell1 = spell /\ c1 = call.node
      BY <2>2
    <3> HIDE DEF tree1, spell1, c1
    <3> QED BY <1>4, <3>1
  <2> QED BY <2>1, <2>2
<1> HIDE DEF tree1, spell1, c1
<1>9. Alternatives(tree2, regexes)
  BY <1>5, <1>6, <1>8, GraftAlternatives
<1>10. Shape(tree2, text) /\ Len(tree2) = Len(tree1) + 1
  BY <1>5, <1>6, <1>8, GraftShape
<1>11. Len(tree1) \in Nat
  BY <1>8, ShapeOfNode
<1> HIDE DEF tree2, text
<1>12. c2 \in 1..Len(tree2)
  BY <1>10, <1>11
<1> HIDE DEF c2
<1>13. Alternatives(Mount(tree2, c2, NewRoute), regexes)
  BY <1>4, <1>9, <1>10, <1>12, MountAlternatives
<1> QED BY <1>3, <1>9, <1>13

LEMMA InsertFirstOfManyAlternatives ==
    ASSUME IInv, InsertFirstOfMany, NEW regexes, Alternatives(nodes, regexes)
    PROVE  Alternatives(nodes', regexes)
<1>1. Inserting
  BY DEF InsertFirstOfMany, Grows
<1>2. PICK j \in BreakPoints(call.rest) :
        nodes' = Graft(nodes, call.node, Upto(call.rest, j - 1), "NONE")
  BY DEF InsertFirstOfMany
<1>3. /\ call.rest \in Seq(Token) /\ call.node \in 1..Len(nodes)
      /\ Shape(nodes, spell) /\ "NONE" \in Opcodes
  BY <1>1, Frame DEF IInv, Opcodes
<1>4. j - 1 \in 0..Len(call.rest)
  BY <1>3, LenProperties DEF BreakPoints, SlugPositions
<1>5. Upto(call.rest, j - 1) \in Seq(Token)
  BY <1>3, <1>4, CutText
<1> QED BY <1>2, <1>3, <1>5, GraftAlternatives

LEMMA InsertLiteralAlternatives ==
    ASSUME IInv, InsertLiteral, NEW regexes, Alternatives(nodes, regexes)
    PROVE  Alternatives(nodes', regexes)
<1> DEFINE grafted == Graft(nodes, call.node, call.rest, "NONE")
           text == Append(spell, spell[call.node] \o call.rest)
<1>1. Inserting /\ call.rest # <<>>
  BY DEF InsertLiteral, Grows
<1>2. nodes' = Mount(grafted, Len(nodes) + 1, NewRoute)
  BY DEF InsertLiteral
<1>3. /\ call.rest \in Seq(Token) /\ call.node \in 1..Len(nodes)
      /\ Shape(nodes, spell) /\ "NONE" \in Opcodes /\ NewRoute \in Route
  BY <1>1, Frame DEF IInv, Opcodes
<1>4. Shape(grafted, text) /\ Len(grafted) = Len(nodes) + 1
  BY <1>1, <1>3, GraftShape
<1>5. Alternatives(grafted, regexes)
  BY <1>3, GraftAlternatives
<1>6. Len(nodes) \in Nat
  BY <1>3, ShapeOfNode
<1> HIDE DEF grafted, text
<1>7. Len(nodes) + 1 \in 1..Len(grafted)
  BY <1>4, <1>6
<1> QED BY <1>2, <1>3, <1>4, <1>5, <1>7, MountAlternatives

LEMMA BranchKeepsAlternatives ==
    ASSUME IInv, Branch, NEW regexes, Alternatives(nodes, regexes)
    PROVE  Alternatives(nodes', regexes)
<1>1. PICK i \in 1..Len(EdgesHere), k \in 1..Len(call.rest) :
        /\ Inserting /\ CommonPrefix(i, k)
        /\ k < Len(EdgesHere[i].pattern)
        /\ nodes' = EdgeBranch(nodes, call.node, i, k)
  BY DEF Branch, Follows
<1>2. EdgesHere[i].pattern \in Seq(Token) /\ call.node \in 1..Len(nodes)
  BY <1>1, SharedPrefix, Frame
<1>3. k \in 1..(Len(EdgesHere[i].pattern) - 1)
  BY <1>1, <1>2
<1> QED BY <1>1, <1>2, <1>3, BranchAlternatives DEF IInv, EdgesHere

LEMMA InsertExistingAlternatives ==
    ASSUME IInv, InsertExisting, NEW regexes, Alternatives(nodes, regexes)
    PROVE  Alternatives(nodes', regexes)
<1>1. PICK i \in 1..Len(EdgesHere), k \in 1..Len(call.rest) :
        /\ Inserting /\ CommonPrefix(i, k)
        /\ nodes' = Mount(nodes, EdgesHere[i].child, NewRoute)
  BY DEF InsertExisting, Follows
<1>2. EdgesHere[i].child \in 1..Len(nodes) /\ NewRoute \in Route
  BY <1>1, SharedPrefix, Frame
<1> QED BY <1>1, <1>2, MountAlternatives DEF IInv

\* The alternatives still fit, whatever an insertion adds to the edges of a
\* node and wherever it splits one.
LEMMA InsertAlternatives ==
    ASSUME IInv, InsertStep, NEW regexes, Alternatives(nodes, regexes)
    PROVE  Alternatives(nodes', regexes)
<1>1. CASE InsertHere
  BY <1>1, Frame, MountAlternatives DEF InsertHere, IInv
<1>2. CASE InsertFirstOfMany
  BY <1>2, InsertFirstOfManyAlternatives
<1>3. CASE InsertSlug
  BY <1>3, InsertSlugAlternatives
<1>4. CASE InsertLiteral
  BY <1>4, InsertLiteralAlternatives
<1>5. CASE InsertExisting
  BY <1>5, InsertExistingAlternatives
<1>6. CASE Branch
  BY <1>6, BranchKeepsAlternatives
<1>7. CASE UNCHANGED nodes
  BY <1>7
<1> QED BY <1>1, <1>2, <1>3, <1>4, <1>5, <1>6, <1>7
        DEF InsertStep, ParseRefuses, ParseAstray, CountRefuses, InsertAborts,
            Descend

-----------------------------------------------------------------------------
(* What PCRE reports                                                       *)

\* A piece of what comes behind the first a characters.
LEMMA PieceBehind ==
    ASSUME NEW path \in Seq(Literals), NEW a \in 0..Len(path),
           NEW l \in 0..(Len(path) - a)
    PROVE  SubSeq(After(path, a), 1, l) = SubSeq(path, a + 1, a + l)
<1> DEFINE rest == After(path, a)
           x == SubSeq(rest, 1, l)
           y == SubSeq(path, a + 1, a + l)
<1>1. Len(path) \in Nat /\ a \in Nat /\ l \in Nat
  BY LenProperties
<1>2. /\ rest \in Seq(Literals) /\ Len(rest) = Len(path) - a
      /\ \A i \in 1..Len(rest) : rest[i] = path[a + i]
  BY <1>1, SubSeqProperties DEF After
<1>3. /\ y \in Seq(Literals) /\ Len(y) = l
      /\ \A i \in 1..l : y[i] = path[a + i]
  BY <1>1, SubSeqProperties
<1> HIDE DEF rest
<1>4. /\ x \in Seq(Literals) /\ Len(x) = l
      /\ \A i \in 1..l : x[i] = rest[i]
  BY <1>1, <1>2, SubSeqProperties
<1> HIDE DEF x, y
<1>5. \A i \in 1..l : x[i] = y[i]
  <2> TAKE i \in 1..l
  <2>1. i \in 1..Len(rest)
    BY <1>1, <1>2
  <2> QED BY <2>1, <1>2, <1>3, <1>4
<1>6. x = y
  BY <1>3, <1>4, <1>5, SeqEqual
<1> QED BY <1>6 DEF x, y, rest

\* What the alternative that has matched says of the path: it begins with the
\* text of the pattern, its first slug replaced by the capture.
Captured(pattern, path, match) ==
    /\ match.capture \in Seq(Literals)
    /\ match.end \in 0..Len(path)
    /\ \/ /\ ~HasSlug(pattern)
          /\ IsPrefix(pattern, path) /\ match.end = Len(pattern)
       \/ \E s \in SlugPositions(pattern) :
            /\ Upto(pattern, s - 1) \in Seq(Literals)
            /\ After(pattern, s) \in Seq(Literals)
            /\ PcreTakes(pattern[s], match.capture)
            /\ path = ((Upto(pattern, s - 1) \o match.capture)
                            \o After(pattern, s)) \o After(path, match.end)

LEMMA LiteralMatches ==
    ASSUME NEW i, NEW pattern \in Seq(Token), NEW path \in Seq(Literals),
           ~HasSlug(pattern), MatchAlternative(i, pattern, path) # NoMatch
    PROVE  /\ MatchAlternative(i, pattern, path).alternative = i
           /\ Captured(pattern, path, MatchAlternative(i, pattern, path))
<1>1. /\ IsPrefix(pattern, path)
      /\ MatchAlternative(i, pattern, path)
            = [alternative |-> i, capture |-> pattern, end |-> Len(pattern)]
  BY DEF MatchAlternative
<1>2. /\ Len(pattern) \in Nat /\ Len(path) \in Nat /\ Len(pattern) <= Len(path)
      /\ SubSeq(pattern, 1, Len(pattern)) = SubSeq(path, 1, Len(pattern))
  BY <1>1, LenProperties DEF IsPrefix
<1>3. pattern = Upto(path, Len(pattern)) /\ Len(pattern) \in 0..Len(path)
  BY <1>2, SubSeqFull DEF Upto
<1>4. pattern \in Seq(Literals)
  BY <1>3, CutRest
<1> QED BY <1>1, <1>3, <1>4 DEF Captured

LEMMA SlugMatches ==
    ASSUME NEW i, NEW pattern \in Seq(Token), NEW path \in Seq(Literals),
           HasSlug(pattern), MatchAlternative(i, pattern, path) # NoMatch
    PROVE  /\ MatchAlternative(i, pattern, path).alternative = i
           /\ Captured(pattern, path, MatchAlternative(i, pattern, path))
<1> DEFINE s == Min(SlugPositions(pattern))
           lengths == SlugLengths(pattern, s, path)
           k == Max(lengths)
           capture == SubSeq(path, s, s + k - 1)
           before == Upto(pattern, s - 1)
           after == After(pattern, s)
           end == Len(pattern) - 1 + k
           match == MatchAlternative(i, pattern, path)
<1>1. /\ match = [alternative |-> i, capture |-> capture, end |-> end]
      /\ IsPrefix(before, path) /\ s <= Len(path) + 1 /\ lengths # {}
  BY DEF MatchAlternative
<1> HIDE DEF match
<1>2. Len(path) \in Nat /\ Len(pattern) \in Nat
  BY LenProperties
<1>3. s \in SlugPositions(pattern) /\ s \in 1..Len(pattern)
  <2>1. SlugPositions(pattern) \subseteq Nat /\ SlugPositions(pattern) # {}
    BY DEF SlugPositions, HasSlug
  <2>2. s \in SlugPositions(pattern)
    BY <2>1, LeastNatural
  <2> QED BY <2>2 DEF SlugPositions
<1> HIDE DEF s
<1>4. k \in lengths
  <2>1. Len(path) - (s - 1) \in Nat
    BY <1>1, <1>2, <1>3
  <2>2. lengths \subseteq 0..(Len(path) - (s - 1))
    BY DEF SlugLengths
  <2> HIDE DEF lengths
  <2> QED BY <2>1, <2>2, <1>1, GreatestNatural
<1>5. /\ k \in 0..(Len(path) - (s - 1)) /\ PcreTakes(pattern[s], capture)
      /\ IsPrefix(after, After(path, s - 1 + k))
  <2> HIDE DEF k
  <2> QED BY <1>4 DEF SlugLengths
<1> HIDE DEF k, lengths
<1> DEFINE a == s - 1 + k
           l == Len(pattern) - s
<1>6. /\ before \in Seq(Token) /\ Len(before) = s - 1
      /\ after \in Seq(Token) /\ Len(after) = l
  <2>1. s - 1 \in 0..Len(pattern) /\ s \in 0..Len(pattern)
    BY <1>2, <1>3
  <2> QED BY <2>1, CutText
<1>7. /\ a \in 0..Len(path) /\ s - 1 \in 0..Len(path) /\ s - 1 \in Nat /\ l \in Nat
      /\ s + k - 1 = a /\ end = a + l /\ s = (s - 1) + 1
  BY <1>2, <1>3, <1>5
<1>8. before = SubSeq(path, 1, s - 1)
  <2>1. SubSeq(before, 1, s - 1) = SubSeq(path, 1, s - 1)
    BY <1>1, <1>6 DEF IsPrefix
  <2>2. SubSeq(before, 1, s - 1) = before
    BY <1>6, SubSeqFull
  <2> QED BY <2>1, <2>2
<1>9. After(path, a) \in Seq(Literals) /\ Len(After(path, a)) = Len(path) - a
  <2>1. a \in 0..Len(path)
    BY <1>7
  <2> HIDE DEF a
  <2> QED BY <2>1, <1>2, SubSeqProperties DEF After
<1>10. /\ l \in 0..(Len(path) - a)
       /\ after = SubSeq(After(path, a), 1, l)
  <2>1. l <= Len(path) - a /\ SubSeq(after, 1, l) = SubSeq(After(path, a), 1, l)
    BY <1>5, <1>6, <1>9 DEF IsPrefix
  <2>2. SubSeq(after, 1, l) = after
    BY <1>6, SubSeqFull
  <2> QED BY <2>1, <2>2, <1>7, <1>2
<1>11. after = SubSeq(path, a + 1, end)
  BY <1>7, <1>10, PieceBehind
<1>12. capture = SubSeq(path, (s - 1) + 1, a)
  BY <1>7
<1>13. end \in 0..Len(path) /\ a <= end /\ s - 1 <= a
  <2>1. a = (s - 1) + k /\ k \in Nat /\ l <= Len(path) - a
    BY <1>2, <1>3, <1>5, <1>10
  <2>2. a \in 0..Len(path) /\ s - 1 \in Nat /\ l \in Nat /\ end = a + l
    BY <1>7
  <2> DEFINE b == s - 1
             m == Len(path)
  <2> HIDE DEF a, l, end, b, m
  <2>3. end \in 0..m /\ a <= end /\ b <= a
    BY <2>1, <2>2, <1>2 DEF b, m
  <2> QED BY <2>3 DEF b, m
<1>14. /\ before \in Seq(Literals) /\ capture \in Seq(Literals)
       /\ after \in Seq(Literals)
  <2>1. before \in Seq(Literals)
    BY <1>7, <1>8, CutRest DEF Upto
  <2>2. ASSUME NEW x \in Nat, NEW y \in 0..Len(path)
        PROVE  SubSeq(path, x + 1, y) \in Seq(Literals)
    <3>1. \A j \in (x + 1)..y : path[j] \in Literals
      BY <1>2, <2>2
    <3> QED BY <3>1, <1>2, <2>2, SubSeqProperties
  <2>3. capture \in Seq(Literals) /\ after \in Seq(Literals)
    <3>1. a \in Nat
      BY <1>7
    <3> HIDE DEF a, l, end, capture, after
    <3> QED BY <3>1, <2>2, <1>7, <1>11, <1>12, <1>13
  <2> QED BY <2>1, <2>3
<1>15. path = ((before \o capture) \o after) \o After(path, end)
  <2>1. before \o capture = SubSeq(path, 1, a)
    <3>1. 1 \in 1..Len(path)+1 /\ s - 1 \in (1-1)..Len(path) /\ a \in (s-1)..Len(path)
      BY <1>2, <1>7, <1>13
    <3>2. SubSeq(path, 1, s - 1) \o SubSeq(path, (s - 1) + 1, a) = SubSeq(path, 1, a)
      BY <3>1, ConcatAdjacentSubSeq
    <3> QED BY <3>2, <1>8, <1>12
  <2>2. SubSeq(path, 1, a) \o after = SubSeq(path, 1, end)
    <3>1. 1 \in 1..Len(path)+1 /\ a \in (1-1)..Len(path) /\ end \in a..Len(path)
      BY <1>2, <1>7, <1>13
    <3>2. SubSeq(path, 1, a) \o SubSeq(path, a + 1, end) = SubSeq(path, 1, end)
      BY <3>1, ConcatAdjacentSubSeq
    <3> QED BY <3>2, <1>11
  <2>3. Upto(path, end) \o After(path, end) = path
    BY <1>13, CutRest
  <2> QED BY <2>1, <2>2, <2>3 DEF Upto
<1> HIDE DEF before, capture, after, a, l, end
<1>16. match.capture = capture /\ match.end = end /\ match.alternative = i
  BY <1>1
<1>17. Captured(pattern, path, match)
  <2>1. \E t \in SlugPositions(pattern) :
            /\ Upto(pattern, t - 1) \in Seq(Literals)
            /\ After(pattern, t) \in Seq(Literals)
            /\ PcreTakes(pattern[t], match.capture)
            /\ path = ((Upto(pattern, t - 1) \o match.capture)
                            \o After(pattern, t)) \o After(path, match.end)
    BY <1>3, <1>5, <1>14, <1>15, <1>16 DEF before, after
  <2> QED BY <2>1, <1>13, <1>14, <1>16 DEF Captured
<1> QED BY <1>16, <1>17 DEF match

\* The first alternative that matches.
LEMMA PcreMatches ==
    ASSUME NEW patterns \in Seq(Seq(Token)), NEW path \in Seq(Literals),
           PcreMatch(patterns, path) # NoMatch
    PROVE  LET match == PcreMatch(patterns, path) IN
           /\ match.alternative \in 1..Len(patterns)
           /\ patterns[match.alternative] \in Seq(Token)
           /\ Captured(patterns[match.alternative], path, match)
<1> DEFINE matches == [i \in 1..Len(patterns) |->
                            MatchAlternative(i, patterns[i], path)]
           I == {i \in 1..Len(matches) : matches[i] # NoMatch}
           first == IF I # {} THEN Min(I) ELSE 0
           match == MatchAlternative(first, patterns[first], path)
<1>1. /\ Len(patterns) \in Nat
      /\ \A i \in 1..Len(patterns) : patterns[i] \in Seq(Token)
  <2> DEFINE P == Seq(Token)
  <2>1. patterns \in Seq(P)
    OBVIOUS
  <2> HIDE DEF P
  <2>2. Len(patterns) \in Nat /\ \A i \in 1..Len(patterns) : patterns[i] \in P
    BY <2>1, LenProperties, ElementOfSeq
  <2> QED BY <2>2 DEF P
<1>2. PcreMatch(patterns, path) = IF first = 0 THEN NoMatch ELSE match
  BY DEF PcreMatch, SelectInSeq
<1>3. first # 0
  BY <1>2
<1>4. first \in I
  <2>1. I \subseteq Nat
    BY <1>1
  <2>2. I # {}
    BY <1>3
  <2> HIDE DEF I
  <2> QED BY <2>1, <2>2, LeastNatural
<1>5. first \in 1..Len(patterns) /\ match # NoMatch
  <2> HIDE DEF first
  <2>1. Len(matches) = Len(patterns)
    BY <1>1
  <2> QED BY <1>4, <2>1
<1> HIDE DEF first
<1>6. match.alternative = first /\ Captured(patterns[first], path, match)
  BY <1>1, <1>5, LiteralMatches, SlugMatches
<1> HIDE DEF match
<1> QED BY <1>1, <1>2, <1>3, <1>5, <1>6

-----------------------------------------------------------------------------
(* One call of r3_tree_matchl_base                                         *)

\* Every node has a regular expression, or none, that fits its edges.
Regexes(tree, regexes) ==
    Alternatives(tree, regexes) /\ Len(regexes) = Len(tree)

LEMMA RegexOfNode ==
    ASSUME NEW tree, NEW sp, Shape(tree, sp), NEW regexes, Regexes(tree, regexes),
           NEW n \in 1..Len(tree)
    PROVE  /\ regexes[n] \in Seq(Seq(Token)) /\ Len(regexes[n]) \in Nat
           /\ NodeAlternatives(tree[n].edges, regexes[n])
           /\ tree[n].edges \in Seq(Edge) /\ Len(tree[n].edges) \in Nat
           /\ \A i \in 1..Len(regexes[n]) : i \in 1..Len(tree[n].edges)
<1> DEFINE patterns == regexes[n]
           P == Seq(Seq(Token))
<1>1. regexes \in Seq(P) /\ n \in 1..Len(regexes)
  BY DEF Regexes, Alternatives
<1>2. NodeAlternatives(tree[n].edges, patterns)
  BY <1>1 DEF Regexes, Alternatives
<1> HIDE DEF P
<1>3. patterns \in P
  BY <1>1, ElementOfSeq
<1> HIDE DEF patterns
<1>4. Len(patterns) \in Nat
  <2> DEFINE Q == Seq(Token)
  <2>1. patterns \in Seq(Q)
    BY <1>3 DEF P
  <2> HIDE DEF Q
  <2> QED BY <2>1, LenProperties
<1>5. tree[n].edges \in Seq(Edge) /\ Len(tree[n].edges) \in Nat
  BY ShapeOfNode, LenProperties
<1>6. Len(patterns) <= Len(tree[n].edges)
  BY <1>2 DEF NodeAlternatives
<1>7. \A i \in 1..Len(patterns) : i \in 1..Len(tree[n].edges)
  BY <1>4, <1>5, <1>6
<1> QED BY <1>2, <1>3, <1>4, <1>5, <1>7 DEF patterns, P

\* A token more.
LEMMA TokenTaken ==
    ASSUME NEW n, NEW e \in EntryIn(n), NEW token \in Seq(Literals)
    PROVE  LET taken == [e EXCEPT !.tokens = Append(@, token)] IN
           /\ taken \in EntryIn(n)
           /\ taken.tokens = Append(e.tokens, token)
           /\ taken.pc = e.pc /\ taken.node = e.node /\ taken.rest = e.rest
           /\ taken.path = e.path /\ taken.route = e.route
<1> DEFINE tokens == Append(e.tokens, token)
<1>1. tokens \in Seq(Seq(Literals))
  <2> DEFINE L == Seq(Literals)
  <2>1. e.tokens \in Seq(L) /\ token \in L
    BY DEF EntryIn
  <2> HIDE DEF L
  <2>2. tokens \in Seq(L)
    BY <2>1, AppendProperties
  <2> QED BY <2>2 DEF L
<1>2. [e EXCEPT !.tokens = Append(@, token)] = [e EXCEPT !.tokens = tokens]
  OBVIOUS
<1> HIDE DEF tokens
<1>3. LET taken == [e EXCEPT !.tokens = tokens] IN
           /\ taken \in EntryIn(n)
           /\ taken.tokens = tokens
           /\ taken.pc = e.pc /\ taken.node = e.node /\ taken.rest = e.rest
           /\ taken.path = e.path /\ taken.route = e.route
  BY <1>1 DEF EntryIn
<1> QED BY <1>2, <1>3 DEF tokens

LEMMA PcreStepEntry ==
    ASSUME NEW tree, NEW sp, Shape(tree, sp), NEW regexes, Regexes(tree, regexes),
           NEW e \in EntryIn(Len(tree)), Unrouted(e), e.pc = "walk"
    PROVE  LET new == PcreStep(tree, e, PcreMatch(regexes[e.node], e.rest)) IN
           /\ new \in EntryIn(Len(tree)) /\ Unrouted(new) /\ Deepens(sp, e, new)
<1> DEFINE match == PcreMatch(regexes[e.node], e.rest)
           edge == tree[e.node].edges[match.alternative]
           more == [e EXCEPT !.tokens = Append(@, match.capture)]
           taken == IF edge.has_slug THEN more ELSE e
           rest == After(e.rest, match.end)
           failed == [e EXCEPT !.pc = "nil", !.rest = <<>>]
           new == PcreStep(tree, e, match)
<1> SUFFICES new \in EntryIn(Len(tree)) /\ Unrouted(new) /\ Deepens(sp, e, new)
  OBVIOUS
<1>1. new = IF match = NoMatch \/ match.capture = <<>> THEN failed
            ELSE IF rest = <<>> THEN Arrive(tree, taken, edge.child)
            ELSE GoOn(taken, edge.child, rest)
  BY DEF PcreStep
<1>2. failed \in EntryIn(Len(tree)) /\ Unrouted(failed) /\ Deepens(sp, e, failed)
  <2>1. <<>> \in Seq(Literals)
    OBVIOUS
  <2>2. failed \in EntryIn(Len(tree)) /\ failed.route = e.route /\ failed.pc = "nil"
    BY <2>1 DEF EntryIn
  <2> HIDE DEF failed
  <2> QED BY <2>2 DEF Unrouted, Deepens
<1>3. CASE match = NoMatch \/ match.capture = <<>>
  <2> HIDE DEF new, match, failed
  <2> QED BY <1>1, <1>2, <1>3
<1>4. CASE ~(match = NoMatch \/ match.capture = <<>>)
  <2>1. /\ e.node \in 1..Len(tree) /\ e.rest \in Seq(Literals)
        /\ Len(e.rest) \in Nat
    BY LenProperties DEF EntryIn
  <2>2. /\ regexes[e.node] \in Seq(Seq(Token))
        /\ \A i \in 1..Len(regexes[e.node]) : i \in 1..Len(tree[e.node].edges)
    BY <2>1, RegexOfNode
  <2>3. /\ match.alternative \in 1..Len(regexes[e.node])
        /\ match.capture \in Seq(Literals) /\ match.end \in 0..Len(e.rest)
    BY <2>1, <2>2, <1>4, PcreMatches DEF Captured
  <2> HIDE DEF match
  <2>4. match.alternative \in 1..Len(tree[e.node].edges)
    BY <2>2, <2>3
  <2>5. edge.child \in 1..Len(tree) /\ Len(sp[edge.child]) > Len(sp[e.node])
    BY <2>1, <2>4, EdgeDown
  <2>6. rest \in Seq(Literals)
    BY <2>1, <2>3, CutRest
  <2>7. more \in EntryIn(Len(tree)) /\ more.pc = e.pc /\ more.route = e.route
    BY <2>3, TokenTaken
  <2> HIDE DEF more, rest, edge
  <2>8. taken \in EntryIn(Len(tree)) /\ taken.pc = "walk" /\ Unrouted(taken)
    BY <2>7 DEF Unrouted
  <2> HIDE DEF taken
  <2>9. CASE rest = <<>>
    <3>1. new = Arrive(tree, taken, edge.child)
      BY <1>1, <1>4, <2>9
    <3> HIDE DEF new
    <3> QED BY <3>1, <2>5, <2>8, ArriveEntry DEF Unrouted, Deepens
  <2>10. CASE rest # <<>>
    <3>1. new = GoOn(taken, edge.child, rest)
      BY <1>1, <1>4, <2>10
    <3> HIDE DEF new
    <3>2. /\ new \in EntryIn(Len(tree)) /\ new.node = edge.child
          /\ new.pc = taken.pc /\ new.route = taken.route
      BY <3>1, <2>5, <2>6, <2>8, GoOnEntry
    <3> QED BY <3>2, <2>5, <2>8 DEF Unrouted, Deepens
  <2> QED BY <2>9, <2>10
<1> QED BY <1>3, <1>4

\* Behind the last character, on the child.
LEMMA PcreAtEndEntry ==
    ASSUME NEW tree, NEW sp, Shape(tree, sp), NEW regexes, Regexes(tree, regexes),
           NEW e \in EntryIn(Len(tree)), Unrouted(e), e.pc = "walk",
           NEW rest \in Seq(Literals)
    PROVE  LET new == PcreAtEnd(tree, e, PcreMatch(regexes[e.node], rest)) IN
           /\ new \in EntryIn(Len(tree)) /\ Unrouted(new) /\ new.pc # "walk"
<1> DEFINE match == PcreMatch(regexes[e.node], rest)
           edge == tree[e.node].edges[1]
           none == <<>>
           more == [e EXCEPT !.tokens = Append(@, none)]
           taken == IF edge.has_slug THEN more ELSE e
           failed == [e EXCEPT !.pc = "nil"]
           new == PcreAtEnd(tree, e, match)
<1> SUFFICES new \in EntryIn(Len(tree)) /\ Unrouted(new) /\ new.pc # "walk"
  OBVIOUS
<1>1. new = IF match = NoMatch THEN failed ELSE Arrive(tree, taken, edge.child)
  BY DEF PcreAtEnd
<1>2. CASE match = NoMatch
  <2>1. failed \in EntryIn(Len(tree)) /\ failed.route = e.route /\ failed.pc = "nil"
    BY DEF EntryIn
  <2>2. new = failed
    BY <1>1, <1>2
  <2> HIDE DEF new, failed
  <2> QED BY <2>1, <2>2 DEF Unrouted
<1>3. CASE match # NoMatch
  <2>1. e.node \in 1..Len(tree)
    BY DEF EntryIn
  <2>2. /\ regexes[e.node] \in Seq(Seq(Token))
        /\ Len(regexes[e.node]) \in Nat
        /\ \A i \in 1..Len(regexes[e.node]) : i \in 1..Len(tree[e.node].edges)
    BY <2>1, RegexOfNode
  <2>3. match.alternative \in 1..Len(regexes[e.node])
    BY <2>2, <1>3, PcreMatches
  <2> HIDE DEF match
  <2>4. 1 \in 1..Len(tree[e.node].edges)
    <3>1. 1 \in 1..Len(regexes[e.node])
      BY <2>2, <2>3
    <3> QED BY <3>1, <2>2
  <2>5. edge.child \in 1..Len(tree)
    BY <2>1, <2>4, EdgeDown
  <2>6. more \in EntryIn(Len(tree)) /\ more.pc = e.pc /\ more.route = e.route
    <3>1. none \in Seq(Literals)
      OBVIOUS
    <3> HIDE DEF none
    <3> QED BY <3>1, TokenTaken
  <2> HIDE DEF more, edge
  <2>7. taken \in EntryIn(Len(tree)) /\ taken.pc = "walk" /\ Unrouted(taken)
    BY <2>6 DEF Unrouted
  <2>8. new = Arrive(tree, taken, edge.child)
    BY <1>1, <1>3
  <2> HIDE DEF taken, new
  <2> QED BY <2>5, <2>7, <2>8, ArriveEntry DEF Unrouted
<1> QED BY <1>2, <1>3

\* The call on the child with nothing left, and the call that made it.
LEMMA PcreEndStepEntry ==
    ASSUME NEW tree, NEW sp, Shape(tree, sp), NEW regexes, Regexes(tree, regexes),
           NEW e \in EntryIn(Len(tree)), Unrouted(e), e.pc = "walk",
           NEW child \in 1..Len(tree)
    PROVE  LET new == PcreEndStep(tree, regexes, e, child) IN
           /\ new \in EntryIn(Len(tree)) /\ Unrouted(new) /\ new.pc # "walk"
<1> DEFINE there == GoOn(e, child, <<>>)
           greedy == OpcodeEdge(tree[child], <<>>)
           opened == OpcodeStep(tree, there, greedy)
           matched == PcreAtEnd(tree, there, PcreMatch(regexes[child], <<>>))
           inner == IF greedy # 0 THEN opened ELSE matched
           after == [e EXCEPT !.tokens = inner.tokens]
           new == PcreEndStep(tree, regexes, e, child)
<1> SUFFICES new \in EntryIn(Len(tree)) /\ Unrouted(new) /\ new.pc # "walk"
  OBVIOUS
<1>1. new = IF inner.pc = "node" THEN inner ELSE Arrive(tree, after, child)
  BY DEF PcreEndStep
<1>2. /\ there \in EntryIn(Len(tree)) /\ there.node = child
      /\ there.rest = <<>> /\ there.pc = "walk" /\ Unrouted(there)
  <2> DEFINE empty == <<>>
  <2>1. empty \in Seq(Literals)
    OBVIOUS
  <2> HIDE DEF empty
  <2>2. /\ GoOn(e, child, empty) \in EntryIn(Len(tree))
        /\ GoOn(e, child, empty).node = child
        /\ GoOn(e, child, empty).rest = empty
        /\ GoOn(e, child, empty).pc = e.pc
        /\ GoOn(e, child, empty).route = e.route
    BY <2>1, GoOnEntry
  <2>3. /\ there \in EntryIn(Len(tree)) /\ there.node = child
        /\ there.rest = <<>> /\ there.pc = e.pc /\ there.route = e.route
    BY <2>2 DEF there, empty
  <2> HIDE DEF there
  <2> QED BY <2>3 DEF Unrouted
<1> HIDE DEF new, there
<1>3. greedy # 0 =>
        opened \in EntryIn(Len(tree)) /\ Unrouted(opened) /\ opened.pc # "walk"
  <2> SUFFICES ASSUME greedy # 0
               PROVE  /\ opened \in EntryIn(Len(tree)) /\ Unrouted(opened)
                      /\ opened.pc # "walk"
    OBVIOUS
  <2>1. tree[child] \in Node /\ Len(tree[child].edges) \in Nat
    BY ShapeOfNode, LenProperties
  <2>2. greedy \in 0..Len(tree[child].edges)
    BY <2>1, OpcodeEdgeInNode
  <2> HIDE DEF greedy
  <2>3. greedy \in 1..Len(tree[there.node].edges)
    BY <2>1, <2>2, <1>2
  <2> QED BY <2>3, <1>2, OpcodeStepEntry
<1>4. matched \in EntryIn(Len(tree)) /\ Unrouted(matched) /\ matched.pc # "walk"
  <2> DEFINE empty == <<>>
  <2>1. empty \in Seq(Literals)
    OBVIOUS
  <2> HIDE DEF empty
  <2>2. LET at == PcreAtEnd(tree, there, PcreMatch(regexes[there.node], empty)) IN
        at \in EntryIn(Len(tree)) /\ Unrouted(at) /\ at.pc # "walk"
    BY <2>1, <1>2, PcreAtEndEntry
  <2>3. matched = PcreAtEnd(tree, there, PcreMatch(regexes[there.node], empty))
    BY <1>2 DEF empty
  <2> HIDE DEF matched
  <2> QED BY <2>2, <2>3
<1> HIDE DEF greedy, opened, matched
<1>5. inner \in EntryIn(Len(tree)) /\ Unrouted(inner) /\ inner.pc # "walk"
  BY <1>3, <1>4
<1> HIDE DEF inner
<1>6. CASE inner.pc = "node"
  BY <1>1, <1>5, <1>6
<1>7. CASE inner.pc # "node"
  <2>1. after \in EntryIn(Len(tree)) /\ Unrouted(after) /\ after.pc = "walk"
    <3>1. inner.tokens \in Seq(Seq(Literals))
      BY <1>5 DEF EntryIn
    <3>2. after \in EntryIn(Len(tree)) /\ after.pc = "walk" /\ after.route = e.route
      BY <3>1 DEF EntryIn
    <3> HIDE DEF after
    <3> QED BY <3>2 DEF Unrouted
  <2> HIDE DEF after
  <2> QED BY <2>1, <1>1, <1>7, ArriveEntry DEF Unrouted
<1> QED BY <1>6, <1>7

LEMMA PcreWalkStepEntry ==
    ASSUME NEW tree, NEW sp, Shape(tree, sp), NEW regexes, Regexes(tree, regexes),
           NEW e \in EntryIn(Len(tree)), Unrouted(e), e.pc = "walk"
    PROVE  LET new == PcreWalkStep(tree, regexes, e) IN
           /\ new \in EntryIn(Len(tree)) /\ Unrouted(new) /\ Deepens(sp, e, new)
<1> DEFINE opcodeEdge == OpcodeEdge(tree[e.node], e.rest)
           literalEdge == LiteralEdge(tree[e.node], e.rest)
           edge == tree[e.node].edges[literalEdge]
           k == Len(edge.pattern)
           stepped == PcreStep(tree, e, PcreMatch(regexes[e.node], e.rest))
           failed == [e EXCEPT !.pc = "nil", !.rest = <<>>]
           gone == GoOn(e, edge.child, After(e.rest, k))
           ended == PcreEndStep(tree, regexes, e, edge.child)
           opened == OpcodeStep(tree, e, opcodeEdge)
           new == PcreWalkStep(tree, regexes, e)
           Good(d) == d \in EntryIn(Len(tree)) /\ Unrouted(d) /\ Deepens(sp, e, d)
<1> SUFFICES Good(new)
  OBVIOUS
<1>1. new = IF opcodeEdge # 0 THEN opened
            ELSE IF regexes[e.node] # NoRegex THEN stepped
            ELSE IF literalEdge = 0 THEN failed
            ELSE IF k < Len(e.rest) THEN gone ELSE ended
  BY DEF PcreWalkStep
<1> HIDE DEF new
<1>2. /\ tree[e.node] \in Node /\ e.node \in 1..Len(tree)
      /\ e.rest \in Seq(Literals) /\ Len(e.rest) \in Nat
  BY ShapeOfNode, LenProperties DEF EntryIn
<1>3. /\ Len(tree[e.node].edges) \in Nat
      /\ opcodeEdge \in 0..Len(tree[e.node].edges)
      /\ literalEdge \in 0..Len(tree[e.node].edges)
  BY <1>2, LenProperties, OpcodeEdgeInNode, LiteralEdgeInNode DEF Node
<1>4. Good(failed)
  <2>1. <<>> \in Seq(Literals)
    OBVIOUS
  <2>2. failed \in EntryIn(Len(tree)) /\ failed.route = e.route /\ failed.pc = "nil"
    BY <2>1 DEF EntryIn
  <2> HIDE DEF failed
  <2> QED BY <2>2 DEF Unrouted, Deepens
<1>5. Good(stepped)
  BY PcreStepEntry
<1> HIDE DEF failed, stepped, opcodeEdge, literalEdge
<1>6. opcodeEdge # 0 => Good(opened)
  <2> SUFFICES ASSUME opcodeEdge # 0
               PROVE  Good(opened)
    OBVIOUS
  <2>1. opcodeEdge \in 1..Len(tree[e.node].edges)
    BY <1>3
  <2> QED BY <2>1, OpcodeStepEntry
<1>7. literalEdge # 0 => Good(ended) /\ (k < Len(e.rest) => Good(gone))
  <2> SUFFICES ASSUME literalEdge # 0
               PROVE  Good(ended) /\ (k < Len(e.rest) => Good(gone))
    OBVIOUS
  <2>1. literalEdge \in 1..Len(tree[e.node].edges)
    BY <1>3
  <2>2. /\ edge.child \in 1..Len(tree) /\ k \in Nat
        /\ Len(sp[edge.child]) > Len(sp[e.node])
    BY <2>1, <1>2, EdgeDown
  <2> HIDE DEF edge, k
  <2>3. Good(ended)
    BY <2>2, PcreEndStepEntry DEF Deepens
  <2>4. k < Len(e.rest) => Good(gone)
    <3> SUFFICES ASSUME k < Len(e.rest)
                 PROVE  Good(gone)
      OBVIOUS
    <3> DEFINE rest == After(e.rest, k)
    <3>1. k \in 0..Len(e.rest)
      BY <2>2, <1>2
    <3>2. rest \in Seq(Literals)
      BY <3>1, <1>2, CutRest
    <3> HIDE DEF rest
    <3>3. /\ GoOn(e, edge.child, rest) \in EntryIn(Len(tree))
          /\ GoOn(e, edge.child, rest).node = edge.child
          /\ GoOn(e, edge.child, rest).route = e.route
      BY <3>2, <2>2, GoOnEntry
    <3> QED BY <3>3, <2>2 DEF rest, Unrouted, Deepens
  <2> QED BY <2>3, <2>4
<1> HIDE DEF opened, edge, k, gone, ended, Good
<1> QED BY <1>1, <1>4, <1>5, <1>6, <1>7

-----------------------------------------------------------------------------
(* The invariant                                                           *)

\* A node without a regular expression has no alternatives that could not fit.
LEMMA NoAlternatives ==
    ASSUME NEW edges, Len(edges) \in Nat
    PROVE  NodeAlternatives(edges, NoRegex) /\ NoRegex \in Seq(Seq(Token))
BY DEF NodeAlternatives, NoRegex

\* r3_tree_create leaves the regular expressions of new nodes empty.
LEMMA RegexesGrow ==
    ASSUME NEW tree \in Seq(Node), NEW new \in Seq(Node), NEW regexes,
           Regexes(tree, regexes), Alternatives(new, regexes)
    PROVE  Regexes(new, [n \in 1..Len(new) |->
                            IF n <= Len(tree) THEN regexes[n] ELSE NoRegex])
<1> DEFINE P == Seq(Seq(Token))
           regexOf(n) == IF n <= Len(tree) THEN regexes[n] ELSE NoRegex
           grown == [n \in 1..Len(new) |-> regexOf(n)]
<1>1. /\ regexes \in Seq(P) /\ Len(regexes) = Len(tree)
      /\ Len(new) \in Nat /\ Len(tree) \in Nat
  BY LenProperties DEF Regexes, Alternatives
<1>2. ASSUME NEW n \in 1..Len(new)
      PROVE  regexOf(n) \in P /\ NodeAlternatives(new[n].edges, regexOf(n))
  <2>1. CASE n <= Len(tree)
    <3>1. n \in 1..Len(regexes)
      BY <1>1, <2>1
    <3> HIDE DEF P
    <3>2. regexes[n] \in P
      BY <1>1, <3>1, ElementOfSeq
    <3>3. NodeAlternatives(new[n].edges, regexes[n])
      BY <3>1 DEF Alternatives
    <3> QED BY <2>1, <3>2, <3>3
  <2>2. CASE ~(n <= Len(tree))
    <3>1. Len(new[n].edges) \in Nat
      BY <1>1, ElementOfSeq, LenProperties DEF Node
    <3> QED BY <2>2, <3>1, NoAlternatives
  <2> QED BY <2>1, <2>2
<1> HIDE DEF P, regexOf
<1>3. /\ grown \in Seq(P) /\ Len(grown) = Len(new)
      /\ \A n \in 1..Len(new) : grown[n] = regexOf(n)
  BY <1>1, <1>2
<1> HIDE DEF grown
<1>4. Regexes(new, grown)
  BY <1>1, <1>2, <1>3 DEF Regexes, Alternatives, P
<1> QED BY <1>4 DEF grown, regexOf

\* What compile leaves at a node: what was there, nothing, or an alternative
\* for each edge.
LEMMA RegexCompiled ==
    ASSUME NEW node \in Node, NEW old \in Seq(Seq(Token)),
           NodeAlternatives(node.edges, old),
           NEW new, new \in {old, NoRegex,
                [i \in 1..Len(node.edges) |-> node.edges[i].pattern]}
    PROVE  /\ new \in Seq(Seq(Token))
           /\ NodeAlternatives(CompiledNode(node).edges, new)
<1> DEFINE joined == CompiledNode(node)
           texts == Seq(Token)
           patterns == [i \in 1..Len(node.edges) |-> node.edges[i].pattern]
<1>1. /\ Len(joined.edges) = Len(node.edges)
      /\ \A i \in 1..Len(node.edges) :
            /\ joined.edges[i].pattern = node.edges[i].pattern
            /\ joined.edges[i].has_slug = HasBrace(node.edges[i].pattern)
  BY CompiledEdges
<1>2. /\ node.edges \in Seq(Edge) /\ Len(node.edges) \in Nat
      /\ \A i \in 1..Len(node.edges) : node.edges[i].pattern \in texts
  <2>1. node.edges \in Seq(Edge) /\ Len(node.edges) \in Nat
    BY LenProperties DEF Node
  <2>2. ASSUME NEW i \in 1..Len(node.edges)
        PROVE  node.edges[i].pattern \in texts
    <3>1. node.edges[i] \in Edge
      BY <2>1, ElementOfSeq
    <3> QED BY <3>1 DEF Edge
  <2> QED BY <2>1, <2>2
<1> HIDE DEF joined
<1>3. CASE new = old
  <2> HIDE DEF texts
  <2>1. \A i \in 1..Len(old) : AlternativeFits(joined.edges[i], old[i])
    BY <1>1, <1>2, LenProperties DEF NodeAlternatives, AlternativeFits
  <2> QED BY <2>1, <1>1, <1>3 DEF NodeAlternatives, joined
<1>4. CASE new = NoRegex
  BY <1>1, <1>2, <1>4, NoAlternatives DEF joined
<1>5. CASE new = patterns
  <2> HIDE DEF texts
  <2>1. /\ patterns \in Seq(texts) /\ Len(patterns) = Len(node.edges)
        /\ \A i \in 1..Len(node.edges) : patterns[i] = node.edges[i].pattern
    BY <1>2
  <2> HIDE DEF patterns
  <2>2. \A i \in 1..Len(node.edges) : Len(node.edges[i].pattern) \in Nat
    BY <1>2, LenProperties DEF texts
  <2>3. \A i \in 1..Len(patterns) : AlternativeFits(joined.edges[i], patterns[i])
    BY <1>1, <1>2, <2>1, <2>2 DEF AlternativeFits, Prefix
  <2> QED BY <2>1, <2>3, <1>1, <1>2, <1>5 DEF NodeAlternatives, joined, texts
<1> QED BY <1>3, <1>4, <1>5

LEMMA RegexesCompiled ==
    ASSUME NEW tree, NEW sp, Shape(tree, sp), NEW regexes, Regexes(tree, regexes),
           NEW visited, NEW made,
           \A n \in 1..Len(tree) : made[n] \in {regexes[n], NoRegex,
                [i \in 1..Len(tree[n].edges) |-> tree[n].edges[i].pattern]}
    PROVE  Regexes(CompiledAt(tree, visited),
                   [n \in 1..Len(tree) |->
                        IF n \in visited THEN made[n] ELSE regexes[n]])
<1> DEFINE P == Seq(Seq(Token))
           new == CompiledAt(tree, visited)
           regexOf(n) == IF n \in visited THEN made[n] ELSE regexes[n]
           joined == [n \in 1..Len(tree) |-> regexOf(n)]
<1>1. /\ new \in Seq(Node) /\ Len(new) = Len(tree)
      /\ \A n \in 1..Len(tree) :
            new[n] = IF n \in visited THEN CompiledNode(tree[n]) ELSE tree[n]
      /\ Len(tree) \in Nat
  BY CompiledAtNodes, LenProperties DEF Shape
<1> HIDE DEF new
<1>2. ASSUME NEW n \in 1..Len(tree)
      PROVE  regexOf(n) \in P /\ NodeAlternatives(new[n].edges, regexOf(n))
  <2>1. /\ tree[n] \in Node
        /\ regexes[n] \in P /\ NodeAlternatives(tree[n].edges, regexes[n])
    BY ShapeOfNode, RegexOfNode
  <2>2. /\ made[n] \in P /\ NodeAlternatives(CompiledNode(tree[n]).edges, made[n])
    BY <2>1, RegexCompiled
  <2> QED BY <2>1, <2>2, <1>1
<1> HIDE DEF P, regexOf
<1>3. /\ joined \in Seq(P) /\ Len(joined) = Len(tree)
      /\ \A n \in 1..Len(tree) : joined[n] = regexOf(n)
  BY <1>1, <1>2
<1> HIDE DEF joined
<1>4. Regexes(new, joined)
  BY <1>1, <1>2, <1>3 DEF Regexes, Alternatives, P
<1> QED BY <1>4 DEF joined, regexOf, new

\* The invariant of the tree and of a match, and the alternatives fit the edges.
PcreInv ==
    /\ MatchInv
    /\ Sound(nodes)
    /\ Whole(nodes, spell)
    /\ Regexes(nodes, regex)

LEMMA PcreInitially == PcreInit => PcreInv
<1> SUFFICES ASSUME PcreInit
             PROVE  PcreInv
  OBVIOUS
<1>1. MatchInv /\ Sound(nodes) /\ Whole(nodes, spell)
  BY MatchInitially, SoundInitially, WholeInitially DEF PcreInit, MatchInit
<1>2. Len(nodes) = 1 /\ nodes[1] = EmptyNode /\ regex = <<NoRegex>>
  BY DEF PcreInit, MatchInit, Init
<1>3. Len(nodes[1].edges) \in Nat
  BY <1>2 DEF EmptyNode
<1>4. NodeAlternatives(nodes[1].edges, NoRegex) /\ NoRegex \in Seq(Seq(Token))
  BY <1>3, NoAlternatives
<1> DEFINE P == Seq(Seq(Token))
<1> HIDE DEF P
<1>5. /\ regex \in Seq(P) /\ Len(regex) = 1
      /\ \A n \in 1..Len(regex) : n = 1 /\ regex[n] = NoRegex
  BY <1>2, <1>4 DEF P
<1>6. Regexes(nodes, regex)
  BY <1>2, <1>4, <1>5 DEF Regexes, Alternatives, P
<1> QED BY <1>1, <1>6 DEF PcreInv

\* Adding a route is a step of R3Match that no match is in the way of.
LEMMA PcreAddsInvariant ==
    ASSUME PcreInv, PcreAdds
    PROVE  PcreInv'
<1>1. /\ IInv /\ Sound(nodes) /\ Whole(nodes, spell) /\ MatchInv
      /\ Regexes(nodes, regex) /\ Shape(nodes, spell)
  BY DEF PcreInv, MatchInv, IInv
<1>2. [MatchNext]_matchVars /\ [Next]_vars
  BY DEF PcreAdds, MatchNext, TreeStep, Next
<1>3. MatchInv' /\ Sound(nodes') /\ Whole(nodes', spell') /\ Shape(nodes', spell')
  BY <1>1, <1>2, MatchInductive, SoundInductive, WholeInductive DEF MatchInv, IInv
<1>4. Alternatives(nodes', regex)
  <2>1. CASE InsertStep
    BY <2>1, <1>1, InsertAlternatives DEF Regexes
  <2>2. CASE ~InsertStep
    <3>1. nodes' = nodes
      BY <2>2 DEF PcreAdds, Add
    <3> QED BY <3>1, <1>1 DEF Regexes
  <2> QED BY <2>1, <2>2
<1>5. Regexes(nodes', regex')
  <2>1. nodes \in Seq(Node) /\ nodes' \in Seq(Node)
    BY <1>1, <1>3 DEF Shape
  <2>2. regex' = [n \in 1..Len(nodes') |->
                    IF n <= Len(nodes) THEN regex[n] ELSE NoRegex]
    BY DEF PcreAdds, RegexGrows
  <2> QED BY <2>1, <2>2, <1>1, <1>4, RegexesGrow
<1> QED BY <1>3, <1>5 DEF PcreInv

\* Whatever nodes compile has visited by the time it ends.
LEMMA PcreCompileInvariant ==
    ASSUME PcreInv, PcreCompile
    PROVE  PcreInv'
<1>1. /\ IInv /\ Sound(nodes) /\ Whole(nodes, spell) /\ entry = NoEntry
      /\ Regexes(nodes, regex) /\ Shape(nodes, spell)
  BY DEF PcreInv, MatchInv, IInv, PcreCompile, MatchIdle
<1>2. /\ nodes' = CompiledAt(nodes, Visited) /\ entry' = entry
      /\ call' = call /\ adds' = adds /\ spell' = spell
  BY DEF PcreCompile, CompiledAt
<1>3. /\ Shape(nodes', spell') /\ Len(nodes') = Len(nodes)
      /\ Sound(nodes') /\ Whole(nodes', spell')
  BY <1>1, <1>2, CompiledAtShape, CompiledAtNodes, CompiledAtSound, CompiledAtWhole
<1>4. IInv'
  BY <1>1, <1>2, <1>3 DEF IInv, NodeIds, CallSpells, Inserting
<1>5. MatchInv'
  BY <1>1, <1>2, <1>3, <1>4, NoEntryFits DEF MatchInv
<1>6. Regexes(nodes', regex')
  <2>1. \A n \in 1..Len(nodes) : CompiledRegex(n) \in {regex[n], NoRegex,
                [i \in 1..Len(nodes[n].edges) |-> nodes[n].edges[i].pattern]}
    BY DEF CompiledRegex
  <2> DEFINE made == [n \in 1..Len(nodes) |-> CompiledRegex(n)]
  <2>2. \A n \in 1..Len(nodes) : made[n] = CompiledRegex(n)
    OBVIOUS
  <2> HIDE DEF made
  <2>3. regex' = [n \in 1..Len(nodes) |->
                    IF n \in Visited THEN made[n] ELSE regex[n]]
    BY <2>2 DEF PcreCompile
  <2>4. Regexes(CompiledAt(nodes, Visited),
                [n \in 1..Len(nodes) |->
                    IF n \in Visited THEN made[n] ELSE regex[n]])
    BY <2>1, <2>2, <1>1, RegexesCompiled
  <2> QED BY <2>3, <2>4, <1>2
<1> QED BY <1>3, <1>5, <1>6 DEF PcreInv

\* A match leaves the tree alone.
LEMMA PcreMatchInvariant ==
    ASSUME PcreInv, UNCHANGED <<vars, regex>>, MatchInv'
    PROVE  PcreInv'
BY DEF PcreInv, vars

LEMMA PcreWalksInvariant ==
    ASSUME PcreInv, PcreWalks
    PROVE  PcreInv'
<1>1. /\ UNCHANGED <<vars, regex>> /\ IInv /\ Shape(nodes, spell)
      /\ Regexes(nodes, regex) /\ entry \in EntryIn(Len(nodes))
      /\ entry.pc = "walk" /\ Unrouted(entry)
      /\ entry' = PcreWalkStep(nodes, regex, entry)
  BY DEF PcreWalks, PcreInv, MatchInv, IInv
<1>2. IInv' /\ nodes' = nodes
  BY <1>1, Inductive DEF vars
<1>3. entry' \in EntryIn(Len(nodes)) /\ Unrouted(entry')
  BY <1>1, PcreWalkStepEntry
<1>4. entry'.route \in 0..Len(nodes[entry'.node].routes)
  <2>1. entry'.node \in 1..Len(nodes)
    BY <1>3 DEF EntryIn
  <2>2. Len(nodes[entry'.node].routes) \in Nat
    BY <2>1, <1>1, ShapeOfNode, LenProperties
  <2> QED BY <2>2, <1>3 DEF Unrouted, Nil
<1>5. MatchInv'
  BY <1>2, <1>3, <1>4 DEF MatchInv, Unrouted
<1> QED BY <1>1, <1>5, PcreMatchInvariant

LEMMA PcreInductive == PcreInv /\ [PcreNext]_pcreVars => PcreInv'
<1> SUFFICES ASSUME PcreInv, [PcreNext]_pcreVars
             PROVE  PcreInv'
  OBVIOUS
<1>1. CASE \E request \in Requests : PcreStarts(request)
  <2>1. UNCHANGED <<vars, regex>> /\ [MatchNext]_matchVars
    BY <1>1 DEF PcreStarts, MatchNext, StartMatch
  <2> QED BY <2>1, MatchInductive, PcreMatchInvariant DEF PcreInv
<1>2. CASE PcreReturns
  <2>1. UNCHANGED <<vars, regex>> /\ [MatchNext]_matchVars
    BY <1>2 DEF PcreReturns, MatchNext, MatchStep, MatchRoutes, EndMatch
  <2> QED BY <2>1, MatchInductive, PcreMatchInvariant DEF PcreInv
<1>3. CASE UNCHANGED pcreVars
  <2>1. UNCHANGED <<vars, regex>> /\ [MatchNext]_matchVars
    BY <1>3 DEF pcreVars, matchVars
  <2> QED BY <2>1, MatchInductive, PcreMatchInvariant DEF PcreInv
<1> QED BY <1>1, <1>2, <1>3, PcreAddsInvariant, PcreCompileInvariant,
           PcreWalksInvariant DEF PcreNext

LEMMA PcreInvariance == PcreSpec => []PcreInv
BY PcreInitially, PcreInductive, PTL DEF PcreSpec

-----------------------------------------------------------------------------
(* What a group takes                                                      *)

PcreTaken == {pair \in Slugs \X Seq(Literals) : PcreTakes(pair[1], pair[2])}

LEMMA PcreTakenByOpcode == ByOpcode(PcreTaken)
BY DEF ByOpcode, PcreTaken, PcreTakes

Around(a, inner, b) == (a \o inner) \o b

\* A slug with its token, and the literals behind it.
LEMMA SlugFills ==
    ASSUME NEW slug \in Slugs, NEW capture \in Seq(Literals),
           NEW after \in Seq(Literals), NEW front \in Seq(Token), NEW tokens,
           Enough(front, tokens), Len(tokens) = Len(SlugsOf(front))
    PROVE  /\ SlugsOf(Around(front, <<slug>>, after)) = Append(SlugsOf(front), slug)
           /\ Filled(Around(front, <<slug>>, after), Append(tokens, capture))
                = Around(Filled(front, tokens), capture, after)
<1>1. SlugFilled(front, slug, tokens, capture)
  BY FilledSlug
<1>2. /\ SlugsOf(front \o <<slug>>) = Append(SlugsOf(front), slug)
      /\ Filled(front \o <<slug>>, Append(tokens, capture))
            = Filled(front, tokens) \o capture
  BY <1>1, Zenon DEF SlugFilled
<1> DEFINE last == <<slug>>
           one == front \o last
           more == Append(tokens, capture)
           slugs == SlugsOf(front)
           longer == Append(slugs, slug)
           L == Seq(Literals)
<1>3. last \in Seq(Token)
  BY DEF Token
<1> HIDE DEF last
<1>4. one \in Seq(Token)
  BY <1>3, ConcatProperties
<1> HIDE DEF one, L
<1>5. tokens \in Seq(L) /\ capture \in L
  BY DEF L, Enough
<1>6. more \in Seq(L) /\ Len(more) = Len(tokens) + 1 /\ Len(tokens) \in Nat
  BY <1>5, AppendProperties, LenProperties
<1> HIDE DEF more
<1>7. slugs \in Seq(Slugs) /\ Len(slugs) = Len(tokens)
  BY SlugsType
<1> HIDE DEF slugs
<1>8. Len(longer) = Len(tokens) + 1
  BY <1>7
<1> HIDE DEF longer
<1>9. SlugsOf(one) = longer
  BY <1>2 DEF one, last, longer, slugs
<1>10. Enough(one, more)
  BY <1>6, <1>8, <1>9 DEF Enough, L
<1>11. /\ SlugsOf(one \o after) = SlugsOf(one)
       /\ Filled(one \o after, more) = Filled(one, more) \o after
  BY <1>4, <1>10, FilledLiterals
<1>12. Filled(one, more) = Filled(front, tokens) \o capture
  BY <1>2 DEF one, last, more
<1> QED BY <1>9, <1>11, <1>12 DEF Around, one, last, more, longer, slugs

\* What a pattern with one slug, or what it has taken, adds to a text.
Extended(text, before, inner, after) == Around(text \o before, inner, after)

GroupFilled(text, before, slug, after, tokens, capture) ==
    LET long == Extended(text, before, <<slug>>, after) IN
    /\ SlugsOf(long) = Append(SlugsOf(text), slug)
    /\ Filled(long, Append(tokens, capture))
         = Extended(Filled(text, tokens), before, capture, after)

\* With the literals before it.
LEMMA GroupFills ==
    ASSUME NEW text \in Seq(Token), NEW before \in Seq(Literals),
           NEW slug \in Slugs, NEW after \in Seq(Literals),
           NEW capture \in Seq(Literals), NEW tokens \in Seq(Seq(Literals)),
           Len(tokens) = Len(SlugsOf(text))
    PROVE  GroupFilled(text, before, slug, after, tokens, capture)
<1> DEFINE front == text \o before
<1>1. Len(tokens) \in Nat
  <2> DEFINE L == Seq(Literals)
  <2> HIDE DEF L
  <2> QED BY LenProperties DEF L
<1>2. before \in Seq(Token) /\ Enough(text, tokens)
  BY <1>1, SeqMonotonic DEF Token, Enough
<1>3. front \in Seq(Token)
  BY <1>2, ConcatProperties
<1>4. /\ SlugsOf(front) = SlugsOf(text)
      /\ Filled(front, tokens) = Filled(text, tokens) \o before
  BY <1>2, FilledLiterals
<1> HIDE DEF front
<1>5. Enough(front, tokens) /\ Len(tokens) = Len(SlugsOf(front))
  BY <1>2, <1>4 DEF Enough
<1>6. /\ SlugsOf(Around(front, <<slug>>, after)) = Append(SlugsOf(front), slug)
      /\ Filled(Around(front, <<slug>>, after), Append(tokens, capture))
           = Around(Filled(front, tokens), capture, after)
  BY <1>3, <1>5, SlugFills
<1> QED BY <1>4, <1>6 DEF front, Extended, GroupFilled

Regroups(a, b, d) == (a \o b) \o d = a \o (b \o d)

LEMMA Regrouped == \A a, b, d \in Seq(Token) : Regroups(a, b, d)
BY TextsAssociative, Zenon DEF Regroups

Joined(a, b, d, f, g) ==
    \A whole : whole = Around(b, d, f) \o g => Extended(a, b, d, f) \o g = a \o whole

\* A path cut where a group has matched, joined again behind what was
\* consumed before.
LEMMA JoinedAgain ==
    ASSUME NEW a \in Seq(Token), NEW b \in Seq(Token), NEW d \in Seq(Token),
           NEW f \in Seq(Token), NEW g \in Seq(Token)
    PROVE  Joined(a, b, d, f, g)
<1> DEFINE bd == b \o d
           bdf == bd \o f
<1>1. bd \in Seq(Token)
  BY ConcatProperties
<1>2. Regroups(a, b, d)
  BY Regrouped
<1> HIDE DEF bd
<1>3. bdf \in Seq(Token)
  BY <1>1, ConcatProperties
<1>4. Regroups(a, bd, f)
  BY <1>1, Regrouped
<1> HIDE DEF bdf
<1>5. Regroups(a, bdf, g)
  BY <1>3, Regrouped
<1> QED BY <1>2, <1>4, <1>5 DEF Regroups, bd, bdf, Around, Extended, Joined

\* A pattern hung at a text is the text around its slug.
LEMMA AroundSlug ==
    ASSUME NEW text \in Seq(Token), NEW p \in Seq(Token), NEW s \in 1..Len(p)
    PROVE  text \o p = Extended(text, Upto(p, s - 1), <<p[s]>>, After(p, s))
<1> DEFINE before == Upto(p, s - 1)
           one == <<p[s]>>
           upto == Upto(p, s)
           after == After(p, s)
<1>1. /\ p[s] \in Token /\ Len(p) \in Nat
      /\ s \in 0..Len(p) /\ s - 1 \in 0..Len(p)
  BY LenProperties, ElementOfSeq
<1>2. /\ before \in Seq(Token) /\ upto \in Seq(Token) /\ after \in Seq(Token)
      /\ upto \o after = p
  BY <1>1, CutText
<1>3. before \o one = upto /\ one \in Seq(Token)
  BY <1>1, CutBefore
<1> HIDE DEF before, one, upto, after
<1>4. (text \o before) \o one = text \o upto
  <2>1. before \in Seq(Token) /\ one \in Seq(Token)
    BY <1>2, <1>3
  <2>2. Regroups(text, before, one)
    BY <2>1, Regrouped
  <2> QED BY <2>2, <1>3, Zenon DEF Regroups
<1>5. Regroups(text, upto, after)
  BY <1>2, Regrouped
<1> QED BY <1>2, <1>4, <1>5 DEF Regroups, Extended, Around, before, one, after

\* The tokens of a match, and one more for one more slug.
LEMMA OneMoreTaken ==
    ASSUME NEW takes, NEW slugs \in Seq(Slugs), NEW tokens \in Seq(Seq(Literals)),
           Len(tokens) = Len(slugs), TakesAll(takes, slugs, tokens),
           NEW slug \in Slugs, NEW token \in Seq(Literals), <<slug, token>> \in takes
    PROVE  /\ Len(Append(tokens, token)) = Len(Append(slugs, slug))
           /\ TakesAll(takes, Append(slugs, slug), Append(tokens, token))
<1> DEFINE L == Seq(Literals)
           all == Append(slugs, slug)
           more == Append(tokens, token)
<1> HIDE DEF L
<1>1. /\ Len(more) = Len(tokens) + 1 /\ more[Len(tokens) + 1] = token
      /\ \A k \in 1..Len(tokens) : more[k] = tokens[k]
      /\ Len(tokens) \in Nat
  <2>1. tokens \in Seq(L) /\ token \in L
    BY DEF L
  <2> QED BY <2>1, AppendProperties, LenProperties
<1>2. /\ Len(all) = Len(slugs) + 1 /\ all[Len(slugs) + 1] = slug
      /\ \A k \in 1..Len(slugs) : all[k] = slugs[k]
  BY AppendProperties
<1> HIDE DEF all, more
<1>3. ASSUME NEW k \in 1..Len(all)
      PROVE  <<all[k], more[k]>> \in takes
  <2>1. CASE k = Len(slugs) + 1
    BY <2>1, <1>1, <1>2
  <2>2. CASE k # Len(slugs) + 1
    <3>1. k \in 1..Len(slugs)
      BY <2>2, <1>1, <1>2
    <3>2. <<slugs[k], tokens[k]>> \in takes
      BY <3>1 DEF TakesAll
    <3> QED BY <3>1, <3>2, <1>1, <1>2
  <2> QED BY <2>1, <2>2
<1> QED BY <1>1, <1>2, <1>3 DEF TakesAll, all, more

\* The alternatives are the edges, as UpToDate of a node.
Current(edges, patterns) ==
    \A i \in 1..Len(patterns) : patterns[i] = edges[i].pattern

\* What a group of an edge has taken, and the literals around it.
LEMMA GroupConsumes ==
    ASSUME NEW tree, NEW sp, Shape(tree, sp),
           NEW e \in EntryIn(Len(tree)), e.pc = "walk",
           Consumed(PcreTaken, sp, e), NEW i \in 1..Len(tree[e.node].edges),
           NEW match, Captured(tree[e.node].edges[i].pattern, e.rest, match),
           HasSlug(tree[e.node].edges[i].pattern)
    PROVE  LET edge == tree[e.node].edges[i]
               taken == [e EXCEPT !.tokens = Append(@, match.capture)]
               on == GoOn(taken, edge.child, After(e.rest, match.end))
           IN /\ taken \in EntryIn(Len(tree)) /\ edge.child \in 1..Len(tree)
              /\ on.pc = "walk" /\ Consumed(PcreTaken, sp, on)
<1> DEFINE edge == tree[e.node].edges[i]
           pattern == edge.pattern
           capture == match.capture
           tokens == Append(e.tokens, capture)
           taken == [e EXCEPT !.tokens = Append(@, capture)]
           rest == After(e.rest, match.end)
           text == sp[e.node]
           child == edge.child
           on == GoOn(taken, child, rest)
<1>1. /\ e.node \in 1..Len(tree) /\ text \in Seq(Token)
      /\ e.rest \in Seq(Literals) /\ e.path \in Seq(Literals)
      /\ e.tokens \in Seq(Seq(Literals)) /\ Len(e.tokens) \in Nat
      /\ SlugsOf(text) \in Seq(Slugs)
  BY EntryTypes
<1>2. pattern \in Seq(Token) /\ child \in 1..Len(tree)
  BY <1>1, EdgeDown
<1>3. sp[child] = text \o pattern
  <2>1. Spells(tree[e.node], text, sp)
    BY <1>1, ShapeOfNode
  <2> QED BY <2>1 DEF Spells
<1>4. Captured(pattern, e.rest, match) /\ HasSlug(pattern)
  OBVIOUS
<1> HIDE DEF edge, pattern, child
<1>5. capture \in Seq(Literals) /\ rest \in Seq(Literals)
  BY <1>1, <1>4, CutRest DEF Captured
<1>6. PICK s \in SlugPositions(pattern) :
        /\ Upto(pattern, s - 1) \in Seq(Literals)
        /\ After(pattern, s) \in Seq(Literals)
        /\ PcreTakes(pattern[s], capture)
        /\ e.rest = ((Upto(pattern, s - 1) \o capture) \o After(pattern, s)) \o rest
  BY <1>4 DEF Captured
<1> DEFINE before == Upto(pattern, s - 1)
           slug == pattern[s]
           after == After(pattern, s)
           filled == Filled(text, e.tokens)
<1>7. /\ s \in 1..Len(pattern) /\ slug \in Slugs
      /\ before \in Seq(Literals) /\ after \in Seq(Literals)
      /\ PcreTakes(slug, capture)
      /\ e.rest = Around(before, capture, after) \o rest
  BY <1>6 DEF SlugPositions, Around
<1>8. sp[child] = Extended(text, before, <<slug>>, after)
  BY <1>1, <1>2, <1>3, <1>7, AroundSlug
<1> HIDE DEF before, slug, after, text, capture, rest, filled
<1>9. /\ Len(e.tokens) = Len(SlugsOf(text))
      /\ filled \o e.rest = e.path
      /\ TakesAll(PcreTaken, SlugsOf(text), e.tokens)
  BY DEF Consumed, text, filled
<1>10. /\ SlugsOf(sp[child]) = Append(SlugsOf(text), slug)
       /\ Filled(sp[child], tokens) = Extended(filled, before, capture, after)
  <2>1. GroupFilled(text, before, slug, after, e.tokens, capture)
    BY <1>1, <1>5, <1>7, <1>9, GroupFills
  <2> QED BY <2>1, <1>8 DEF GroupFilled, filled
<1>11. Filled(sp[child], tokens) \o rest = e.path
  <2>1. /\ before \in Seq(Token) /\ capture \in Seq(Token)
        /\ after \in Seq(Token) /\ rest \in Seq(Token)
    BY <1>5, <1>7, SeqMonotonic DEF Token
  <2>2. filled \in Seq(Token)
    <3>1. Enough(text, e.tokens)
      BY <1>1, <1>9 DEF Enough
    <3> QED BY <3>1, <1>1, FilledType DEF filled
  <2>3. Extended(filled, before, capture, after) \o rest = filled \o e.rest
    <3>1. Joined(filled, before, capture, after, rest)
      BY <2>1, <2>2, JoinedAgain
    <3> QED BY <3>1, <1>7, Zenon DEF Joined
  <2> QED BY <2>3, <1>9, <1>10
<1>12. <<slug, capture>> \in PcreTaken
  BY <1>5, <1>7 DEF PcreTaken
<1>13. /\ Len(tokens) = Len(SlugsOf(sp[child]))
       /\ TakesAll(PcreTaken, SlugsOf(sp[child]), tokens)
  <2>1. /\ Len(Append(e.tokens, capture)) = Len(Append(SlugsOf(text), slug))
        /\ TakesAll(PcreTaken, Append(SlugsOf(text), slug), Append(e.tokens, capture))
    BY <1>1, <1>5, <1>7, <1>9, <1>12, OneMoreTaken
  <2> QED BY <2>1, <1>10
<1>14. /\ taken \in EntryIn(Len(tree)) /\ taken.tokens = tokens
       /\ taken.pc = e.pc /\ taken.path = e.path
  BY <1>5, TokenTaken
<1> HIDE DEF taken, tokens
<1>15. /\ on.pc = "walk" /\ on.node = child /\ on.rest = rest
       /\ on.tokens = tokens /\ on.path = e.path
  BY <1>14 DEF GoOn, EntryIn
<1> HIDE DEF on
<1>16. Consumed(PcreTaken, sp, on)
  BY <1>11, <1>13, <1>15 DEF Consumed
<1> QED BY <1>2, <1>14, <1>15, <1>16 DEF on, taken, rest, capture, child, edge

\* No slug PCRE can compile takes the empty text.  Where one does, a match
\* behind the last character follows the first edge whichever has matched.
SlugsTakeText == \A slug \in Slugs \ BadSlugs : ~PcreTakes(slug, <<>>)

\* The alternatives are of slugs PCRE can compile.
Compilable(patterns) ==
    \A i \in 1..Len(patterns) : \A k \in 1..Len(patterns[i]) :
        patterns[i][k] \notin BadSlugs

LEMMA NothingMatches ==
    ASSUME SlugsTakeText, NEW patterns \in Seq(Seq(Token)), Compilable(patterns),
           \A i \in 1..Len(patterns) : Len(patterns[i]) > 0
    PROVE  PcreMatch(patterns, <<>>) = NoMatch
<1> DEFINE match == PcreMatch(patterns, <<>>)
           pattern == patterns[match.alternative]
<1> SUFFICES ASSUME match # NoMatch
             PROVE  FALSE
  OBVIOUS
<1>1. /\ match.alternative \in 1..Len(patterns)
      /\ pattern \in Seq(Token) /\ Captured(pattern, <<>>, match)
  <2>1. <<>> \in Seq(Literals)
    OBVIOUS
  <2> QED BY <2>1, PcreMatches
<1>2. /\ Len(pattern) > 0 /\ Len(pattern) \in Nat
      /\ \A k \in 1..Len(pattern) : pattern[k] \notin BadSlugs
  BY <1>1, LenProperties DEF Compilable
<1> HIDE DEF match, pattern
<1>3. CASE IsPrefix(pattern, <<>>)
  <2>1. Len(pattern) <= Len(<<>>)
    BY <1>3 DEF IsPrefix
  <2>2. Len(<<>>) = 0
    OBVIOUS
  <2> QED BY <2>1, <2>2, <1>2
<1>4. CASE ~IsPrefix(pattern, <<>>)
  <2>1. PICK s \in SlugPositions(pattern) :
            /\ Upto(pattern, s - 1) \in Seq(Literals)
            /\ After(pattern, s) \in Seq(Literals)
            /\ PcreTakes(pattern[s], match.capture)
            /\ <<>> = ((Upto(pattern, s - 1) \o match.capture)
                            \o After(pattern, s)) \o After(<<>>, match.end)
    BY <1>1, <1>4 DEF Captured
  <2>2. /\ pattern[s] \in Slugs \ BadSlugs
        /\ match.capture \in Seq(Literals)
    BY <2>1, <1>1, <1>2 DEF Captured, SlugPositions
  <2>3. match.capture = <<>>
    <3> DEFINE a == Upto(pattern, s - 1)
               x == match.capture
               b == After(pattern, s)
               d == After(<<>>, match.end)
    <3>1. /\ a \in Seq(Literals) /\ x \in Seq(Literals) /\ b \in Seq(Literals)
          /\ d \in Seq(Literals)
      <4>1. match.end \in 0..Len(<<>>) /\ <<>> \in Seq(Literals)
        BY <1>1 DEF Captured
      <4> QED BY <4>1, <2>1, <2>2, CutRest
    <3>2. <<>> = ((a \o x) \o b) \o d
      BY <2>1
    <3> HIDE DEF a, x, b, d
    <3>3. /\ Len(a \o x) = Len(a) + Len(x) /\ a \o x \in Seq(Literals)
          /\ Len(a) \in Nat /\ Len(x) \in Nat /\ Len(b) \in Nat /\ Len(d) \in Nat
      BY <3>1, ConcatProperties, LenProperties
    <3> DEFINE ax == a \o x
    <3> HIDE DEF ax
    <3>4. Len(ax \o b) = Len(ax) + Len(b) /\ ax \o b \in Seq(Literals)
      BY <3>1, <3>3, ConcatProperties DEF ax
    <3> DEFINE axb == ax \o b
    <3> HIDE DEF axb
    <3>5. Len(axb \o d) = Len(axb) + Len(d)
      BY <3>1, <3>4, ConcatProperties DEF axb
    <3>6. Len(<<>>) = Len(axb) + Len(d)
      BY <3>2, <3>5 DEF axb, ax
    <3>7. Len(x) = 0
      BY <3>3, <3>4, <3>6 DEF ax, axb
    <3>8. x = <<>>
      BY <3>1, <3>7, EmptySeq
    <3> QED BY <3>8 DEF x
  <2> QED BY <2>1, <2>2, <2>3 DEF SlugsTakeText
<1> QED BY <1>3, <1>4

\* Behind the last character the call on the child then finds nothing, unless
\* a greedy edge takes the empty text: the request ends as it does without PCRE.
LEMMA PcreEndStepSame ==
    ASSUME NEW tree, NEW sp, Shape(tree, sp), NEW regexes, Regexes(tree, regexes),
           NEW e \in EntryIn(Len(tree)), e.pc = "walk", NEW child \in 1..Len(tree),
           SlugsTakeText, Compilable(regexes[child])
    PROVE  PcreEndStep(tree, regexes, e, child) = EndStep(tree, e, child)
<1> DEFINE greedy == OpcodeEdge(tree[child], <<>>)
           there == GoOn(e, child, <<>>)
           opened == OpcodeStep(tree, there, greedy)
           ended == PcreAtEnd(tree, there, PcreMatch(regexes[child], <<>>))
           new == PcreEndStep(tree, regexes, e, child)
           old == EndStep(tree, e, child)
<1>1. CASE greedy # 0
  <2>1. new = IF opened.pc = "node" THEN opened
              ELSE Arrive(tree, [e EXCEPT !.tokens = opened.tokens], child)
    BY <1>1 DEF PcreEndStep
  <2>2. old = IF opened.pc = "node" THEN opened
              ELSE Arrive(tree, [e EXCEPT !.tokens = opened.tokens], child)
    BY <1>1 DEF EndStep
  <2> HIDE DEF new, old, opened
  <2> QED BY <2>1, <2>2 DEF new, old
<1>2. CASE greedy = 0
  <2>1. PcreMatch(regexes[child], <<>>) = NoMatch
    <3>1. /\ regexes[child] \in Seq(Seq(Token))
          /\ NodeAlternatives(tree[child].edges, regexes[child])
          /\ \A i \in 1..Len(regexes[child]) : i \in 1..Len(tree[child].edges)
      BY RegexOfNode
    <3>2. ASSUME NEW i \in 1..Len(regexes[child])
          PROVE  Len(regexes[child][i]) > 0
      <4>1. Len(tree[child].edges[i].pattern) \in Nat \ {0}
        BY <3>1, EdgeDown
      <4>2. Len(tree[child].edges[i].pattern) <= Len(regexes[child][i])
        BY <3>1 DEF NodeAlternatives, AlternativeFits, Prefix
      <4>3. Len(regexes[child][i]) \in Nat
        <5> DEFINE texts == Seq(Token)
        <5> HIDE DEF texts
        <5>1. regexes[child][i] \in texts
          BY <3>1, ElementOfSeq DEF texts
        <5> QED BY <5>1, LenProperties DEF texts
      <4> QED BY <4>1, <4>2, <4>3
    <3> QED BY <3>1, <3>2, NothingMatches
  <2>2. ended = [there EXCEPT !.pc = "nil"]
    BY <2>1 DEF PcreAtEnd
  <2>3. ended.pc = "nil" /\ ended.tokens = e.tokens
    <3> HIDE DEF ended
    <3> QED BY <2>2 DEF GoOn, EntryIn
  <2>4. new = IF ended.pc = "node" THEN ended
              ELSE Arrive(tree, [e EXCEPT !.tokens = ended.tokens], child)
    BY <1>2 DEF PcreEndStep
  <2>5. old = Arrive(tree, e, child)
    BY <1>2 DEF EndStep
  <2>6. [e EXCEPT !.tokens = e.tokens] = e
    BY DEF EntryIn
  <2> HIDE DEF new, old, ended
  <2> QED BY <2>3, <2>4, <2>5, <2>6 DEF new, old
<1> QED BY <1>1, <1>2

\* Nothing malformed is in the tree: a brace of an edge opens a slug.
LEMMA BraceOpensSlug ==
    ASSUME NEW tree, NEW sp, Shape(tree, sp), Whole(tree, sp),
           NEW n \in 1..Len(tree), NEW i \in 1..Len(tree[n].edges)
    PROVE  HasBrace(tree[n].edges[i].pattern) = HasSlug(tree[n].edges[i].pattern)
<1> DEFINE pattern == tree[n].edges[i].pattern
           c == tree[n].edges[i].child
<1>1. /\ pattern \in Seq(Token) /\ c \in 1..Len(tree) /\ Len(sp) = Len(tree)
      /\ sp[n] \in Seq(Token) /\ sp[c] \in Seq(Token)
  BY EdgeDown, ShapeOfNode
<1>2. sp[c] = sp[n] \o pattern
  <2>1. Spells(tree[n], sp[n], sp)
    BY ShapeOfNode
  <2> QED BY <2>1 DEF Spells
<1>3. ~HasMalformed(sp[c])
  BY <1>1, PcreAssumption, ExcusedIsClean DEF Whole
<1> HIDE DEF pattern, c
<1>4. ASSUME NEW j \in 1..Len(pattern)
      PROVE  pattern[j] # Unclosed
  <2>1. /\ Len(sp[n]) \in Nat /\ Len(pattern) \in Nat
        /\ Len(sp[c]) = Len(sp[n]) + Len(pattern)
        /\ sp[c][Len(sp[n]) + j] = pattern[j]
    BY <1>1, <1>2, ConcatProperties, LenProperties
  <2>2. Len(sp[n]) + j \in 1..Len(sp[c])
    BY <2>1
  <2> QED BY <2>1, <2>2, <1>3 DEF HasMalformed, Malformed
<1>5. HasBrace(pattern) => HasSlug(pattern)
  BY <1>4 DEF HasBrace, HasSlug, SlugPositions
<1> QED BY <1>5, SlugIsBrace DEF pattern, HasSlug, HasBrace

\* A call that asks the regular expression.
LEMMA PcreStepFits ==
    ASSUME NEW tree, NEW sp, Shape(tree, sp), Whole(tree, sp), NEW regexes, Regexes(tree, regexes),
           NEW e \in EntryIn(Len(tree)), e.pc = "walk", Consumed(PcreTaken, sp, e),
           Current(tree[e.node].edges, regexes[e.node])
    PROVE  EntryFits(PcreTaken, sp,
                     PcreStep(tree, e, PcreMatch(regexes[e.node], e.rest)))
<1> DEFINE match == PcreMatch(regexes[e.node], e.rest)
           edge == tree[e.node].edges[match.alternative]
           more == [e EXCEPT !.tokens = Append(@, match.capture)]
           taken == IF edge.has_slug THEN more ELSE e
           rest == After(e.rest, match.end)
           failed == [e EXCEPT !.pc = "nil", !.rest = <<>>]
           new == PcreStep(tree, e, match)
<1> SUFFICES EntryFits(PcreTaken, sp, new)
  OBVIOUS
<1>1. new = IF match = NoMatch \/ match.capture = <<>> THEN failed
            ELSE IF rest = <<>> THEN Arrive(tree, taken, edge.child)
            ELSE GoOn(taken, edge.child, rest)
  BY DEF PcreStep
<1>2. CASE match = NoMatch \/ match.capture = <<>>
  <2>1. failed.pc = "nil"
    BY DEF EntryIn
  <2>2. new = failed
    BY <1>1, <1>2
  <2> HIDE DEF new, failed
  <2> QED BY <2>1, <2>2 DEF EntryFits
<1>3. CASE ~(match = NoMatch \/ match.capture = <<>>)
  <2>1. e.node \in 1..Len(tree) /\ e.rest \in Seq(Literals)
    BY EntryTypes
  <2>2. /\ regexes[e.node] \in Seq(Seq(Token))
        /\ NodeAlternatives(tree[e.node].edges, regexes[e.node])
        /\ \A i \in 1..Len(regexes[e.node]) : i \in 1..Len(tree[e.node].edges)
    BY <2>1, RegexOfNode
  <2>3. /\ match.alternative \in 1..Len(regexes[e.node])
        /\ Captured(regexes[e.node][match.alternative], e.rest, match)
    BY <2>1, <2>2, <1>3, PcreMatches
  <2> HIDE DEF match
  <2>4. /\ match.alternative \in 1..Len(tree[e.node].edges)
        /\ Captured(edge.pattern, e.rest, match)
        /\ edge.has_slug = HasSlug(edge.pattern)
    <3>1. /\ match.alternative \in 1..Len(tree[e.node].edges)
          /\ Captured(edge.pattern, e.rest, match)
          /\ edge.has_slug = HasBrace(edge.pattern)
      BY <2>2, <2>3 DEF Current, NodeAlternatives, AlternativeFits
    <3>2. HasBrace(edge.pattern) = HasSlug(edge.pattern)
      BY <2>1, <3>1, BraceOpensSlug
    <3> QED BY <3>1, <3>2
  <2>5. /\ taken \in EntryIn(Len(tree)) /\ edge.child \in 1..Len(tree)
        /\ GoOn(taken, edge.child, rest).pc = "walk"
        /\ Consumed(PcreTaken, sp, GoOn(taken, edge.child, rest))
    <3>1. CASE HasSlug(edge.pattern)
      <4>1. taken = more
        BY <3>1, <2>4
      <4>2. /\ more \in EntryIn(Len(tree)) /\ edge.child \in 1..Len(tree)
            /\ GoOn(more, edge.child, rest).pc = "walk"
            /\ Consumed(PcreTaken, sp, GoOn(more, edge.child, rest))
        BY <3>1, <2>4, GroupConsumes
      <4> HIDE DEF taken, more
      <4> QED BY <4>1, <4>2
    <3>2. CASE ~HasSlug(edge.pattern)
      <4>1. taken = e
        BY <3>2, <2>4
      <4>2. IsPrefix(edge.pattern, e.rest) /\ match.end = Len(edge.pattern)
        BY <3>2, <2>4 DEF Captured, HasSlug
      <4>3. /\ edge.child \in 1..Len(tree)
            /\ GoOn(e, edge.child, After(e.rest, Len(edge.pattern))).pc = "walk"
            /\ Consumed(PcreTaken, sp,
                        GoOn(e, edge.child, After(e.rest, Len(edge.pattern))))
        BY <2>4, <4>2, LiteralGoesOn
      <4> HIDE DEF taken, edge
      <4> QED BY <4>1, <4>2, <4>3
    <3> QED BY <3>1, <3>2
  <2> HIDE DEF taken, edge, rest
  <2>6. CASE rest = <<>>
    <3>1. new = Arrive(tree, taken, edge.child)
      BY <1>1, <1>3, <2>6
    <3>2. Consumed(PcreTaken, sp, GoOn(taken, edge.child, <<>>))
      BY <2>5, <2>6
    <3>3. /\ Len(taken.tokens) = Len(SlugsOf(sp[edge.child]))
          /\ Len(taken.tokens) \in Nat
          /\ Filled(sp[edge.child], taken.tokens) = taken.path
          /\ TakesAll(PcreTaken, SlugsOf(sp[edge.child]), taken.tokens)
      BY <2>5, <3>2, ConsumedAll
    <3>4. EntryFits(PcreTaken, sp, Arrive(tree, taken, edge.child))
      BY <2>5, <3>3, ArriveFits
    <3> QED BY <3>1, <3>4
  <2>7. CASE rest # <<>>
    <3>1. new = GoOn(taken, edge.child, rest)
      BY <1>1, <1>3, <2>7
    <3> HIDE DEF new
    <3> QED BY <3>1, <2>5 DEF EntryFits
  <2> QED BY <2>6, <2>7
<1> QED BY <1>2, <1>3

LEMMA PcreWalkStepFits ==
    ASSUME NEW tree, NEW sp, Shape(tree, sp), Sound(tree), Whole(tree, sp),
           NEW regexes, Regexes(tree, regexes),
           NEW e \in EntryIn(Len(tree)), e.pc = "walk", Consumed(PcreTaken, sp, e),
           \A n \in 1..Len(tree) : Current(tree[n].edges, regexes[n]),
           SlugsTakeText, \A n \in 1..Len(tree) : Compilable(regexes[n])
    PROVE  EntryFits(PcreTaken, sp, PcreWalkStep(tree, regexes, e))
<1> DEFINE node == tree[e.node]
           opcodeEdge == OpcodeEdge(node, e.rest)
           literalEdge == LiteralEdge(node, e.rest)
           edge == node.edges[literalEdge]
           k == Len(edge.pattern)
           opened == OpcodeStep(tree, e, opcodeEdge)
           stepped == PcreStep(tree, e, PcreMatch(regexes[e.node], e.rest))
           failed == [e EXCEPT !.pc = "nil", !.rest = <<>>]
           gone == GoOn(e, edge.child, After(e.rest, k))
           ended == PcreEndStep(tree, regexes, e, edge.child)
           plain == EndStep(tree, e, edge.child)
           new == PcreWalkStep(tree, regexes, e)
           old == WalkStep(tree, e)
<1>1. e.node \in 1..Len(tree) /\ node \in Node
  BY EntryTypes, ShapeOfNode
<1>2. new = IF opcodeEdge # 0 THEN opened
            ELSE IF regexes[e.node] # NoRegex THEN stepped
            ELSE IF literalEdge = 0 THEN failed
            ELSE IF k < Len(e.rest) THEN gone ELSE ended
  BY DEF PcreWalkStep
<1>3. old = IF opcodeEdge # 0 THEN opened
            ELSE IF literalEdge = 0 THEN failed
            ELSE IF k < Len(e.rest) THEN gone ELSE plain
  BY DEF WalkStep, LiteralStep
<1>4. EntryFits(PcreTaken, sp, old)
  BY PcreTakenByOpcode, WalkStepFits
<1>5. EntryFits(PcreTaken, sp, stepped)
  BY <1>1, PcreStepFits
<1>6. literalEdge # 0 => ended = plain
  <2> SUFFICES ASSUME literalEdge # 0
               PROVE  ended = plain
    OBVIOUS
  <2>1. literalEdge \in 1..Len(node.edges)
    BY <1>1, LiteralEdgeBegins
  <2>2. edge.child \in 1..Len(tree)
    BY <2>1, <1>1, EdgeDown
  <2> QED BY <2>2, PcreEndStepSame
<1> HIDE DEF opcodeEdge, literalEdge, k, opened, stepped, failed, gone, ended, plain, new, old
<1> QED BY <1>2, <1>3, <1>4, <1>5, <1>6 DEF new

\* A call keeps what was asked for, and finds no route yet.
LEMMA PcreWalkKeeps ==
    ASSUME NEW tree, NEW regexes, NEW e,
           {"pc", "path", "method"} \subseteq DOMAIN e, e.pc = "walk"
    PROVE  LET new == PcreWalkStep(tree, regexes, e) IN
           /\ new.pc # "route"
           /\ new.path = e.path /\ new.method = e.method
<1> DEFINE Same(d) == /\ "pc" \in DOMAIN d /\ d.pc # "route"
                      /\ "path" \in DOMAIN d /\ d.path = e.path
                      /\ "method" \in DOMAIN d /\ d.method = e.method
<1>1. ASSUME NEW d, Same(d), NEW child
      PROVE  Same(Arrive(tree, d, child))
  BY <1>1 DEF Arrive
<1>2. ASSUME NEW d, Same(d), NEW child, NEW rest
      PROVE  Same(GoOn(d, child, rest))
  BY <1>2 DEF GoOn
<1>3. ASSUME NEW d, Same(d), NEW tokens
      PROVE  Same([d EXCEPT !.tokens = tokens])
  BY <1>3
<1>4. ASSUME NEW d, Same(d)
      PROVE  Same([d EXCEPT !.pc = "nil", !.rest = <<>>])
             /\ Same([d EXCEPT !.pc = "nil"])
  BY <1>4
<1>5. Same(e)
  OBVIOUS
<1> HIDE DEF Same
<1>6. ASSUME NEW d, Same(d), NEW i
      PROVE  Same(OpcodeStep(tree, d, i))
  BY <1>1, <1>2, <1>3, <1>6 DEF OpcodeStep
<1>7. ASSUME NEW d, Same(d), NEW match
      PROVE  Same(PcreStep(tree, d, match)) /\ Same(PcreAtEnd(tree, d, match))
  <2> DEFINE edge == tree[d.node].edges[match.alternative]
             more == [d EXCEPT !.tokens = Append(@, match.capture)]
             taken == IF edge.has_slug THEN more ELSE d
             first == tree[d.node].edges[1]
             last == [d EXCEPT !.tokens = Append(@, <<>>)]
             left == IF first.has_slug THEN last ELSE d
  <2>1. Same(taken) /\ Same(left)
    BY <1>3, <1>7
  <2>2. Same(PcreStep(tree, d, match))
    <3>1. PcreStep(tree, d, match)
            = IF match = NoMatch \/ match.capture = <<>>
              THEN [d EXCEPT !.pc = "nil", !.rest = <<>>]
              ELSE IF After(d.rest, match.end) = <<>>
              THEN Arrive(tree, taken, edge.child)
              ELSE GoOn(taken, edge.child, After(d.rest, match.end))
      BY DEF PcreStep
    <3> HIDE DEF taken, edge
    <3>2. /\ Same([d EXCEPT !.pc = "nil", !.rest = <<>>])
          /\ Same(Arrive(tree, taken, edge.child))
          /\ Same(GoOn(taken, edge.child, After(d.rest, match.end)))
      BY <2>1, <1>1, <1>2, <1>4, <1>7
    <3> QED BY <3>1, <3>2, Zenon
  <2>3. Same(PcreAtEnd(tree, d, match))
    <3>1. PcreAtEnd(tree, d, match)
            = IF match = NoMatch THEN [d EXCEPT !.pc = "nil"]
              ELSE Arrive(tree, left, first.child)
      BY DEF PcreAtEnd
    <3> HIDE DEF left, first
    <3>2. /\ Same([d EXCEPT !.pc = "nil"])
          /\ Same(Arrive(tree, left, first.child))
      BY <2>1, <1>1, <1>4, <1>7
    <3> QED BY <3>1, <3>2, Zenon
  <2> QED BY <2>2, <2>3
<1>8. ASSUME NEW child
      PROVE  Same(PcreEndStep(tree, regexes, e, child))
  BY <1>1, <1>2, <1>3, <1>5, <1>6, <1>7 DEF PcreEndStep
<1>9. Same(PcreWalkStep(tree, regexes, e))
  BY <1>2, <1>4, <1>5, <1>6, <1>7, <1>8 DEF PcreWalkStep
<1> QED BY <1>9 DEF Same

-----------------------------------------------------------------------------
(* The order of compile                                                    *)

\* Each of the joined texts is in the joined one.
LEMMA FlattenHolds ==
    ASSUME NEW X, NEW s \in Seq(Seq(X)), NEW i \in 1..Len(s), NEW x,
           x \in Range(s[i])
    PROVE  x \in Range(FlattenSeq(s))
<1> DEFINE S == Seq(X)
<1>1. Len(s) \in Nat /\ \A k \in 1..Len(s) : s[k] \in S
  <2> HIDE DEF S
  <2> QED BY LenProperties, ElementOfSeq DEF S
<1>2. PICK g \in [Nat -> Seq(X)] :
        /\ g[0] = <<>>
        /\ \A n \in 0..Len(s)-1 : g[n+1] = g[n] \o s[n+1]
        /\ FlattenSeq(s) = g[Len(s)]
  BY Flattened
<1> DEFINE Holds(n) == \E q \in 1..Len(g[n]) : g[n][q] = x
           T == {n \in Nat : i <= n /\ n <= Len(s) => Holds(n)}
<1>3. 0 \in T
  BY <1>1
<1>4. ASSUME NEW n \in Nat, n \in T
      PROVE  n + 1 \in T
  <2> SUFFICES ASSUME i <= n + 1, n + 1 <= Len(s)
               PROVE  Holds(n + 1)
    OBVIOUS
  <2> DEFINE front == g[n]
             back == s[n+1]
             all == front \o back
  <2>1. n \in 0..Len(s)-1 /\ n + 1 \in 1..Len(s)
    BY <1>1
  <2>2. g[n+1] = all /\ front \in Seq(X) /\ back \in Seq(X)
    BY <2>1, <1>1, <1>2
  <2> HIDE DEF front, back
  <2>3. /\ Len(all) = Len(front) + Len(back)
        /\ Len(front) \in Nat /\ Len(back) \in Nat
        /\ \A q \in 1..Len(all) : all[q] = IF q <= Len(front) THEN front[q]
                                           ELSE back[q - Len(front)]
    BY <2>2, ConcatProperties, LenProperties
  <2> HIDE DEF all
  <2>4. CASE i = n + 1
    <3>1. PICK q \in 1..Len(back) : back[q] = x
      BY <2>2, <2>4, LenProperties DEF Range, back
    <3> DEFINE a == Len(front)
               b == Len(back)
               c == Len(all)
               p == a + q
    <3>0. a \in Nat /\ b \in Nat /\ c = a + b /\ q \in 1..b
      BY <2>3, <3>1
    <3> HIDE DEF a, b, c
    <3>2. p \in 1..c /\ ~(p <= a) /\ p - a = q
      BY <3>0
    <3> HIDE DEF p
    <3>3. all[p] = back[q]
      BY <2>3, <3>2 DEF a, c
    <3> QED BY <2>2, <3>1, <3>2, <3>3 DEF c
  <2>5. CASE i # n + 1
    <3>1. Holds(n)
      BY <2>1, <2>5, <1>4
    <3>2. PICK q \in 1..Len(front) : front[q] = x
      BY <3>1 DEF front
    <3>3. q \in 1..Len(all) /\ q <= Len(front)
      BY <2>3, <3>2
    <3> QED BY <2>2, <2>3, <3>2, <3>3
  <2> QED BY <2>4, <2>5
<1> HIDE DEF T
<1>5. Nat \subseteq T
  BY <1>3, <1>4, AllNaturals
<1>6. Holds(Len(s))
  <2>1. Len(s) \in T /\ i <= Len(s)
    BY <1>1, <1>5
  <2> QED BY <2>1, <1>1 DEF T
<1>7. FlattenSeq(s) \in Seq(X)
  BY FlattenType
<1> DEFINE all == FlattenSeq(s)
<1>8. \E q \in 1..Len(all) : all[q] = x
  BY <1>2, <1>6
<1> HIDE DEF all
<1>9. DOMAIN all = 1..Len(all)
  BY <1>7, LenProperties DEF all
<1> QED BY <1>8, <1>9 DEF all, Range

\* No text of a node is longer than some number.
LEMMA LongestText ==
    ASSUME NEW tree, NEW sp, Shape(tree, sp)
    PROVE  \E longest \in Nat : \A n \in 1..Len(tree) : Len(sp[n]) <= longest
<1> DEFINE Bound(k) == \E longest \in Nat : \A n \in 1..k : Len(sp[n]) <= longest
           T == {k \in Nat : k <= Len(tree) => Bound(k)}
<1>1. /\ Len(tree) \in Nat
      /\ \A n \in 1..Len(tree) : Len(sp[n]) \in Nat
  BY ShapeOfNode, LenProperties DEF Shape
<1>2. 0 \in T
  OBVIOUS
<1>3. ASSUME NEW k \in Nat, k \in T
      PROVE  k + 1 \in T
  <2> SUFFICES ASSUME k + 1 <= Len(tree)
               PROVE  Bound(k + 1)
    OBVIOUS
  <2>1. PICK longest \in Nat : \A n \in 1..k : Len(sp[n]) <= longest
    BY <1>1, <1>3
  <2>2. Len(sp[k + 1]) \in Nat
    BY <1>1
  <2> DEFINE more == longest + Len(sp[k + 1])
  <2>3. more \in Nat /\ \A n \in 1..(k + 1) : Len(sp[n]) <= more
    <3> SUFFICES ASSUME NEW n \in 1..(k + 1)
                 PROVE  Len(sp[n]) <= more
      BY <2>2
    <3>1. CASE n = k + 1
      BY <3>1, <2>2
    <3>2. CASE n # k + 1
      <4>1. Len(sp[n]) \in Nat /\ Len(sp[n]) <= longest
        BY <3>2, <2>1, <1>1
      <4> QED BY <4>1, <2>2
    <3> QED BY <3>1, <3>2
  <2> QED BY <2>3
<1> HIDE DEF T
<1>4. Nat \subseteq T
  BY <1>2, <1>3, AllNaturals
<1>5. Len(tree) \in T
  BY <1>1, <1>4
<1> QED BY <1>1, <1>5 DEF T

\* What compile visits below the edges of a node, and at it, if b says what it
\* visits at each of the children.
Pieces(tree, b, n) ==
    [i \in 1..Len(tree[n].edges) |-> b[tree[n].edges[i].child]]

VisitOrder(tree, b) ==
    [n \in 1..Len(tree) |-> <<n>> \o FlattenSeq(Pieces(tree, b, n))]

PiecesTyped(tree, b, n) ==
    /\ Pieces(tree, b, n) \in Seq(Seq(1..Len(tree)))
    /\ Len(Pieces(tree, b, n)) = Len(tree[n].edges)
    /\ Len(tree[n].edges) \in Nat
    /\ \A i \in 1..Len(tree[n].edges) :
        Pieces(tree, b, n)[i] = b[tree[n].edges[i].child]

LEMMA PiecesType ==
    ASSUME NEW tree, NEW sp, Shape(tree, sp), NEW b, NEW n \in 1..Len(tree),
           \A i \in 1..Len(tree[n].edges) :
                b[tree[n].edges[i].child] \in Seq(1..Len(tree))
    PROVE  PiecesTyped(tree, b, n)
<1> DEFINE S == Seq(1..Len(tree))
           l == Len(tree[n].edges)
           child == [i \in 1..l |-> tree[n].edges[i].child]
           pieces == Pieces(tree, b, n)
<1>1. l \in Nat /\ \A i \in 1..l : child[i] \in 1..Len(tree)
  BY ShapeOfNode, EdgeDown, LenProperties
<1>2. pieces = [i \in 1..l |-> b[child[i]]]
  BY DEF Pieces
<1>3. \A i \in 1..l : /\ child[i] = tree[n].edges[i].child
                      /\ b[child[i]] \in S
  OBVIOUS
<1> HIDE DEF S, l, child, pieces
<1>4. pieces \in Seq(S) /\ Len(pieces) = l /\ \A i \in 1..l : pieces[i] = b[child[i]]
  <2>1. \A i \in 1..l : b[child[i]] \in S
    BY <1>1, <1>3
  <2> QED BY <1>1, <1>2, <2>1
<1> QED BY <1>1, <1>3, <1>4 DEF S, l, pieces, PiecesTyped

LEMMA VisitOrderType ==
    ASSUME NEW tree, NEW sp, Shape(tree, sp),
           NEW b \in [1..Len(tree) -> Seq(1..Len(tree))]
    PROVE  VisitOrder(tree, b) \in [1..Len(tree) -> Seq(1..Len(tree))]
<1> SUFFICES ASSUME NEW n \in 1..Len(tree)
             PROVE  <<n>> \o FlattenSeq(Pieces(tree, b, n)) \in Seq(1..Len(tree))
  BY DEF VisitOrder
<1> DEFINE flat == FlattenSeq(Pieces(tree, b, n))
           S == 1..Len(tree)
<1>1. flat \in Seq(S)
  <2>1. \A i \in 1..Len(tree[n].edges) : b[tree[n].edges[i].child] \in Seq(S)
    BY EdgeDown
  <2>2. PiecesTyped(tree, b, n)
    BY <2>1, PiecesType
  <2> QED BY <2>2, FlattenType DEF PiecesTyped
<1>2. n \in S
  OBVIOUS
<1> HIDE DEF flat, S
<1>3. <<n>> \o flat \in Seq(S)
  BY <1>1, <1>2
<1> QED BY <1>3 DEF flat, S

\* Since the texts get longer down the tree, the recursion has a result.
LEMMA VisitOrderExists ==
    ASSUME NEW tree, NEW sp, Shape(tree, sp)
    PROVE  \E b \in [1..Len(tree) -> Seq(1..Len(tree))] : b = VisitOrder(tree, b)
<1> DEFINE N == 1..Len(tree)
           S == [N -> Seq(N)]
           nothing == [n \in N |-> <<>>]
           F == [x \in Nat \X S |-> VisitOrder(tree, x[2])]
<1>1. nothing \in S
  OBVIOUS
<1>2. \A b \in S : VisitOrder(tree, b) \in S
  BY VisitOrderType
<1>3. PICK longest \in Nat : \A n \in N : Len(sp[n]) <= longest
  BY LongestText
<1>4. \A n \in N : Len(sp[n]) \in Nat
  BY TextType
<1> HIDE DEF S, nothing
<1>5. F \in [Nat \X S -> S]
  BY <1>2
<1>6. PICK g : Iterates(g, S, nothing, F)
  BY <1>1, <1>5, Iteration
<1>7. /\ g \in [Nat -> S]
      /\ \A k \in Nat : g[k+1] = VisitOrder(tree, g[k])
  BY <1>6 DEF Iterates
<1> HIDE DEF F
<1> DEFINE Settled(k) == \A n \in N : Len(sp[n]) + k > longest => g[k][n] = g[k+1][n]
           T == {k \in Nat : Settled(k)}
<1>8. 0 \in T
  BY <1>3, <1>4
<1>9. ASSUME NEW k \in Nat, k \in T
      PROVE  k + 1 \in T
  <2> SUFFICES Settled(k + 1)
    <3>1. k + 1 \in Nat
      OBVIOUS
    <3> HIDE DEF Settled
    <3> QED BY <3>1
  <2> SUFFICES ASSUME NEW n \in N, Len(sp[n]) + (k + 1) > longest
               PROVE  g[k+1][n] = g[(k+1)+1][n]
    BY Zenon
  <2>1. /\ g[k+1] = VisitOrder(tree, g[k])
        /\ g[(k+1)+1] = VisitOrder(tree, g[k+1])
    <3>1. k + 1 \in Nat
      OBVIOUS
    <3> QED BY <3>1, <1>7, Zenon
  <2>2. ASSUME NEW i \in 1..Len(tree[n].edges)
        PROVE  g[k][tree[n].edges[i].child] = g[k+1][tree[n].edges[i].child]
    <3> DEFINE c == tree[n].edges[i].child
    <3>1. c \in N /\ Len(sp[c]) > Len(sp[n])
      BY EdgeDown
    <3> HIDE DEF c
    <3>2. Len(sp[c]) + k > longest
      <4> DEFINE a == Len(sp[c])
                 d == Len(sp[n])
      <4>1. a \in Nat /\ d \in Nat /\ a > d /\ d + (k + 1) > longest
        BY <3>1, <1>4
      <4> HIDE DEF a, d
      <4>2. a + k > longest
        BY <4>1, <1>3
      <4> QED BY <4>2 DEF a
    <3>3. g[k][c] = g[k+1][c]
      BY <3>1, <3>2, <1>9 DEF T
    <3> QED BY <3>3 DEF c
  <2>3. Pieces(tree, g[k], n) = Pieces(tree, g[k+1], n)
    BY <2>2 DEF Pieces
  <2>4. /\ VisitOrder(tree, g[k])[n] = <<n>> \o FlattenSeq(Pieces(tree, g[k], n))
        /\ VisitOrder(tree, g[k+1])[n] = <<n>> \o FlattenSeq(Pieces(tree, g[k+1], n))
    BY Zenon DEF VisitOrder
  <2> QED BY <2>1, <2>3, <2>4, Zenon
<1>10. Nat \subseteq T
  <2> HIDE DEF T
  <2> QED BY <1>8, <1>9, AllNaturals
<1> DEFINE last == longest + 1
<1>11. last \in Nat /\ last \in T /\ g[last] \in S /\ g[last+1] \in S
  <2>1. last \in Nat /\ last + 1 \in Nat
    OBVIOUS
  <2> HIDE DEF last, T
  <2> QED BY <2>1, <1>7, <1>10
<1>12. \A n \in N : g[last][n] = g[last+1][n]
  BY <1>3, <1>4, <1>11 DEF T
<1>13. g[last] = g[last+1]
  BY <1>11, <1>12 DEF S
<1> HIDE DEF last
<1>14. g[last] = VisitOrder(tree, g[last])
  BY <1>7, <1>11, <1>13
<1> QED BY <1>11, <1>14 DEF S

LEMMA CompileOrderUnfolds ==
    ASSUME NEW tree, NEW sp, Shape(tree, sp)
    PROVE  \E b : b = VisitOrder(tree, b) /\ CompileOrder(tree) = b[Root]
<1> DEFINE Fixed(b) == b = VisitOrder(tree, b)
           below == CHOOSE b : Fixed(b)
<1>1. CompileOrder(tree) = below[Root]
  BY Zenon DEF CompileOrder, VisitOrder, Pieces
<1>2. Fixed(below)
  <2>1. \E b : Fixed(b)
    BY VisitOrderExists
  <2> HIDE DEF Fixed
  <2> QED BY <2>1, Zenon
<1> HIDE DEF below
<1> QED BY <1>1, <1>2

\* The recursion reaches every node below the one it starts from.
LEMMA VisitOrderReaches ==
    ASSUME NEW tree, NEW sp, Shape(tree, sp), Whole(tree, sp),
           NEW b, b = VisitOrder(tree, b)
    PROVE  \A n \in 1..Len(tree) :
              /\ b[n] \in Seq(1..Len(tree))
              /\ \A m \in 1..Len(tree) : Prefix(sp[n], sp[m]) => m \in Range(b[n])
<1> DEFINE N == 1..Len(tree)
           Visits(n) == /\ b[n] \in Seq(N)
                        /\ \A m \in N : Prefix(sp[n], sp[m]) => m \in Range(b[n])
<1>1. PICK longest \in Nat : \A n \in N : Len(sp[n]) <= longest
  BY LongestText
<1>2. \A n \in N : Len(sp[n]) \in Nat
  BY TextType
<1> DEFINE T == {k \in Nat : \A n \in N : Len(sp[n]) + k > longest => Visits(n)}
<1>3. 0 \in T
  <2>1. \A n \in N : ~(Len(sp[n]) + 0 > longest)
    BY <1>1, <1>2
  <2> HIDE DEF Visits
  <2> QED BY <2>1
<1>4. ASSUME NEW k \in Nat, k \in T
      PROVE  k + 1 \in T
  <2> SUFFICES ASSUME NEW n \in N, Len(sp[n]) + (k + 1) > longest
               PROVE  Visits(n)
    <3>1. k + 1 \in Nat
      OBVIOUS
    <3> HIDE DEF Visits
    <3> QED BY <3>1
  <2> DEFINE l == Len(tree[n].edges)
             pieces == Pieces(tree, b, n)
             flat == FlattenSeq(pieces)
  <2>1. b[n] = <<n>> \o flat
    <3>1. VisitOrder(tree, b)[n] = <<n>> \o flat
      BY Zenon DEF VisitOrder
    <3> QED BY <3>1, Zenon
  <2>2. ASSUME NEW i \in 1..l
        PROVE  /\ tree[n].edges[i].child \in N
               /\ Visits(tree[n].edges[i].child)
    <3> DEFINE c == tree[n].edges[i].child
    <3>1. c \in N /\ Len(sp[c]) > Len(sp[n])
      BY EdgeDown
    <3> HIDE DEF c, Visits
    <3>2. Len(sp[c]) + k > longest
      <4> DEFINE a == Len(sp[c])
                 d == Len(sp[n])
      <4>1. a \in Nat /\ d \in Nat /\ a > d /\ d + (k + 1) > longest
        BY <3>1, <1>2
      <4> HIDE DEF a, d
      <4>2. a + k > longest
        BY <4>1, <1>1
      <4> QED BY <4>2 DEF a
    <3> QED BY <3>1, <3>2, <1>4 DEF c
  <2>3. /\ pieces \in Seq(Seq(N)) /\ Len(pieces) = l /\ l \in Nat
        /\ \A i \in 1..l : pieces[i] = b[tree[n].edges[i].child]
    <3>1. \A i \in 1..l : b[tree[n].edges[i].child] \in Seq(N)
      BY <2>2
    <3>2. PiecesTyped(tree, b, n)
      BY <3>1, PiecesType
    <3> QED BY <3>2, Zenon DEF PiecesTyped
  <2> HIDE DEF pieces, l
  <2>4. flat \in Seq(N)
    BY <2>3, FlattenType
  <2>5. /\ b[n] \in Seq(N) /\ n \in Range(b[n])
        /\ \A m \in Range(flat) : m \in Range(b[n])
    <3> DEFINE M == N
               f == flat
    <3>1. f \in Seq(M) /\ n \in M /\ b[n] = <<n>> \o f
      BY <2>1, <2>4
    <3> HIDE DEF M, f
    <3>2. /\ b[n] \in Seq(M) /\ Len(b[n]) = 1 + Len(f) /\ b[n][1] = n
          /\ \A j \in 1..Len(f) : b[n][j + 1] = f[j]
          /\ Len(f) \in Nat
      BY <3>1
    <3>3. DOMAIN b[n] = 1..(1 + Len(f)) /\ DOMAIN f = 1..Len(f)
      BY <3>1, <3>2, LenProperties
    <3>4. 1 \in 1..(1 + Len(f)) /\ \A j \in 1..Len(f) : j + 1 \in 1..(1 + Len(f))
      BY <3>2
    <3>5. n \in Range(b[n])
      BY <3>2, <3>3, <3>4 DEF Range
    <3>6. ASSUME NEW m \in Range(f)
          PROVE  m \in Range(b[n])
      <4>1. PICK j \in 1..Len(f) : f[j] = m
        BY <3>3 DEF Range
      <4> QED BY <4>1, <3>2, <3>3, <3>4 DEF Range
    <3> QED BY <3>2, <3>5, <3>6 DEF M, f
  <2> SUFFICES ASSUME NEW m \in N, Prefix(sp[n], sp[m]), n # m
               PROVE  m \in Range(b[n])
    BY <2>5
  <2>6. PICK c \in N : Child(tree, n, c) /\ Prefix(sp[c], sp[m])
    BY DEF Whole, Reached
  <2>7. PICK i \in 1..l : tree[n].edges[i].child = c
    BY <2>6 DEF Child, l
  <2>8. m \in Range(pieces[i]) /\ i \in 1..Len(pieces)
    BY <2>2, <2>3, <2>6, <2>7
  <2>9. m \in Range(flat)
    BY <2>3, <2>8, FlattenHolds
  <2> QED BY <2>5, <2>9
<1>5. Nat \subseteq T
  <2> HIDE DEF T
  <2> QED BY <1>3, <1>4, AllNaturals
<1> SUFFICES ASSUME NEW n \in N
             PROVE  Visits(n)
  OBVIOUS
<1>6. longest + 1 \in T /\ Len(sp[n]) + (longest + 1) > longest
  <2> DEFINE a == Len(sp[n])
  <2>1. a \in Nat
    BY <1>2
  <2> HIDE DEF a
  <2>2. longest + 1 \in Nat /\ a + (longest + 1) > longest
    BY <1>1, <2>1
  <2> HIDE DEF T
  <2> QED BY <1>5, <2>2 DEF a
<1> HIDE DEF Visits
<1> QED BY <1>6 DEF T

\* So compile visits every node, in a tree without orphans.
LEMMA CompileVisitsAll ==
    ASSUME NEW tree, NEW sp, Shape(tree, sp), Whole(tree, sp)
    PROVE  /\ CompileOrder(tree) \in Seq(1..Len(tree))
           /\ \A n \in 1..Len(tree) : n \in Range(CompileOrder(tree))
<1>1. PICK b : b = VisitOrder(tree, b) /\ CompileOrder(tree) = b[Root]
  BY CompileOrderUnfolds
<1>2. /\ Root \in 1..Len(tree) /\ sp[Root] = <<>>
  <2>1. Len(tree) \in Nat
    BY LenProperties DEF Shape
  <2> QED BY <2>1 DEF Shape, Root
<1>3. \A n \in 1..Len(tree) : Prefix(sp[Root], sp[n])
  <2> TAKE n \in 1..Len(tree)
  <2>1. Len(sp[n]) \in Nat
    BY TextType
  <2>2. Len(sp[Root]) = 0
    BY <1>2
  <2> QED BY <2>1, <2>2 DEF Prefix
<1> QED BY <1>1, <1>2, <1>3, VisitOrderReaches

\* Compile has failed, or has visited every node.
LEMMA NoneBad ==
    ASSUME Shape(nodes, spell), Whole(nodes, spell), FirstBad = 0
    PROVE  \A n \in 1..Len(nodes) : n \in Visited /\ ~Bad(nodes[n])
<1> SUFFICES ASSUME NEW n \in 1..Len(nodes)
             PROVE  n \in Visited /\ ~Bad(nodes[n])
  OBVIOUS
<1> DEFINE order == CompileOrder(nodes)
           bad == {i \in 1..Len(order) : Bad(nodes[order[i]])}
<1>1. /\ order \in Seq(1..Len(nodes)) /\ n \in Range(order)
  BY CompileVisitsAll
<1>2. FirstBad = IF bad # {} THEN Min(bad) ELSE 0
  BY DEF FirstBad, SelectInSeq
<1>3. Visited = Range(order)
  BY DEF Visited
<1> HIDE DEF order
<1>4. Len(order) \in Nat /\ DOMAIN order = 1..Len(order)
  BY <1>1, LenProperties
<1>5. bad = {}
  <2> SUFFICES ASSUME bad # {}
               PROVE  FALSE
    OBVIOUS
  <2>1. bad \subseteq Nat /\ bad \subseteq 1..Len(order)
    BY <1>4
  <2> HIDE DEF bad
  <2>2. Min(bad) \in bad /\ Min(bad) = 0
    BY <2>1, <1>2, LeastNatural
  <2> QED BY <2>1, <2>2, <1>4
<1>6. PICK i \in 1..Len(order) : order[i] = n
  BY <1>1, <1>4 DEF Range
<1> QED BY <1>1, <1>3, <1>5, <1>6

-----------------------------------------------------------------------------
(* The reply                                                               *)

\* Every node with a slug edge has the regular expression of its edges.
Recompiled(tree, regexes) ==
    \A n \in 1..Len(tree) :
        HasSlugEdges(tree[n]) => Current(tree[n].edges, regexes[n])

AllCurrent(tree, regexes) ==
    \A n \in 1..Len(tree) : Current(tree[n].edges, regexes[n])

AllCompilable(tree, regexes) ==
    \A n \in 1..Len(tree) : Compilable(regexes[n])

\* While all alternatives are those of their edges, a match consumes the path as
\* it does without PCRE.
PcreReplyInv ==
    /\ PcreInv
    /\ SlugsTakeText
    /\ AllCompilable(nodes, regex)
    /\ compiled => Recompiled(nodes, regex)
    /\ AllCurrent(nodes, regex) => EntryFits(PcreTaken, spell, entry) /\ RouteFits

\* Compile takes patterns as alternatives PCRE can compile, and if it succeeds
\* they are those of the edges at every node with a slug edge.
LEMMA RegexesCurrent ==
    ASSUME PcreInv, PcreCompile, AllCompilable(nodes, regex)
    PROVE  /\ AllCompilable(nodes', regex')
           /\ compiled' => Recompiled(nodes', regex')
<1>1. /\ Shape(nodes, spell) /\ Whole(nodes, spell)
      /\ nodes' = CompiledAt(nodes, Visited)
  BY DEF PcreInv, MatchInv, IInv, PcreCompile, CompiledAt
<1>2. /\ Len(nodes') = Len(nodes)
      /\ \A n \in 1..Len(nodes) :
            /\ nodes'[n] = IF n \in Visited THEN CompiledNode(nodes[n]) ELSE nodes[n]
            /\ regex'[n] = IF n \in Visited THEN CompiledRegex(n) ELSE regex[n]
  BY <1>1, CompiledAtNodes DEF PcreCompile
<1>3. ASSUME NEW n \in 1..Len(nodes)
      PROVE  Compilable(regex'[n])
  <2> DEFINE edges == nodes[n].edges
             patterns == [i \in 1..Len(edges) |-> edges[i].pattern]
  <2>1. CASE regex'[n] = regex[n]
    BY <2>1 DEF AllCompilable
  <2>2. CASE regex'[n] = NoRegex
    BY <2>2 DEF Compilable, NoRegex
  <2>3. CASE ~Bad(nodes[n]) /\ regex'[n] = patterns
    <3>1. Len(edges) \in Nat
      BY <1>1, ShapeOfNode, LenProperties
    <3> HIDE DEF edges
    <3>2. Len(patterns) = Len(edges)
      BY <3>1
    <3>3. \A i \in 1..Len(edges) : patterns[i] = edges[i].pattern
      OBVIOUS
    <3> HIDE DEF patterns
    <3> QED BY <2>3, <3>2, <3>3 DEF Compilable, Bad, edges
  <2> QED BY <2>1, <2>2, <2>3, <1>2 DEF CompiledRegex
<1>4. ASSUME compiled', NEW n \in 1..Len(nodes), HasSlugEdges(nodes'[n])
      PROVE  Current(nodes'[n].edges, regex'[n])
  <2> DEFINE edges == nodes[n].edges
             patterns == [i \in 1..Len(edges) |-> edges[i].pattern]
             compiledEdges == CompiledNode(nodes[n]).edges
  <2>1. n \in Visited /\ ~Bad(nodes[n])
    BY <1>1, <1>4, NoneBad DEF PcreCompile
  <2>2. nodes[n] \in Node /\ Len(edges) \in Nat
    BY <1>1, ShapeOfNode, LenProperties
  <2>3. /\ Len(compiledEdges) = Len(edges)
        /\ \A i \in 1..Len(edges) : compiledEdges[i].pattern = edges[i].pattern
    BY <2>2, CompiledEdges
  <2>4. nodes'[n].edges = compiledEdges /\ regex'[n] = CompiledRegex(n)
    BY <2>1, <1>2
  <2> HIDE DEF compiledEdges
  <2>5. HasSlugEdges(nodes[n])
    BY <2>3, <2>4, <1>4 DEF HasSlugEdges
  <2>6. regex'[n] = patterns
    BY <2>1, <2>4, <2>5 DEF CompiledRegex
  <2> HIDE DEF edges
  <2>7. Len(patterns) = Len(edges) /\ \A i \in 1..Len(edges) : patterns[i] = edges[i].pattern
    BY <2>2
  <2> HIDE DEF patterns
  <2> QED BY <2>3, <2>4, <2>6, <2>7 DEF Current
<1> QED BY <1>2, <1>3, <1>4 DEF AllCompilable, Recompiled

\* A new node has no regular expression.
LEMMA RegexesOfNewNodes ==
    ASSUME PcreInv, RegexGrows, Shape(nodes', spell'), AllCompilable(nodes, regex)
    PROVE  AllCompilable(nodes', regex')
<1> SUFFICES ASSUME NEW n \in 1..Len(nodes')
             PROVE  Compilable(regex'[n])
  BY DEF AllCompilable
<1>1. Len(nodes) \in Nat
  BY LenProperties DEF PcreInv, MatchInv, IInv, Shape
<1>2. regex'[n] = IF n <= Len(nodes) THEN regex[n] ELSE NoRegex
  BY DEF RegexGrows
<1>3. Compilable(NoRegex)
  BY DEF Compilable, NoRegex
<1> QED BY <1>1, <1>2, <1>3 DEF AllCompilable

LEMMA PcreReplyInductive == PcreReplyInv /\ [PcreNext]_pcreVars => PcreReplyInv'
<1> SUFFICES ASSUME PcreReplyInv, [PcreNext]_pcreVars
             PROVE  PcreReplyInv'
  OBVIOUS
<1>1. PcreInv /\ PcreInv' /\ SlugsTakeText /\ SlugsTakeText'
  BY PcreInductive DEF PcreReplyInv, SlugsTakeText, PcreTakes, Takes
<1>2. /\ Shape(nodes, spell) /\ Shape(nodes', spell') /\ Sound(nodes)
      /\ Regexes(nodes, regex) /\ entry \in EntryIn(Len(nodes))
  BY <1>1 DEF PcreInv, MatchInv, IInv
<1>3. CASE PcreAdds
  <2>1. entry' = NoEntry /\ compiled' = FALSE
    BY <1>3 DEF PcreAdds
  <2>2. AllCompilable(nodes', regex')
    BY <1>1, <1>2, <1>3, RegexesOfNewNodes DEF PcreReplyInv, PcreAdds
  <2> QED BY <2>1, <2>2, <1>1, NoEntryConsumes DEF PcreReplyInv, RouteFits
<1>4. CASE PcreCompile
  <2>1. entry' = NoEntry
    BY <1>4 DEF PcreCompile, MatchIdle
  <2>2. AllCompilable(nodes', regex') /\ (compiled' => Recompiled(nodes', regex'))
    BY <1>1, <1>4, RegexesCurrent DEF PcreReplyInv
  <2> QED BY <2>1, <2>2, <1>1, NoEntryConsumes DEF PcreReplyInv, RouteFits
<1>5. ASSUME nodes' = nodes, spell' = spell, regex' = regex, compiled' = compiled,
             AllCurrent(nodes, regex) =>
                /\ EntryFits(PcreTaken, spell, entry')
                /\ entry'.pc = "route" => FirstRoute(nodes, entry')
      PROVE  PcreReplyInv'
  BY <1>1, <1>5 DEF PcreReplyInv, RouteFits
<1>6. CASE \E request \in Requests : PcreStarts(request)
  <2>1. PICK request \in Requests : entry' = NewEntry(request) /\ Askable(request)
    BY <1>6, RequestsAssumption DEF PcreStarts, StartMatch, Askable, AskedMethods
  <2>2. nodes' = nodes /\ spell' = spell /\ regex' = regex /\ compiled' = compiled
    BY <1>6 DEF PcreStarts, StartMatch, vars
  <2> QED BY <2>1, <2>2, <1>2, <1>5, NewEntryConsumes
<1>7. CASE PcreWalks
  <2>1. /\ entry.pc = "walk" /\ entry' = PcreWalkStep(nodes, regex, entry)
        /\ nodes' = nodes /\ spell' = spell /\ regex' = regex /\ compiled' = compiled
    BY <1>7 DEF PcreWalks, vars
  <2>2. ASSUME AllCurrent(nodes, regex)
        PROVE  EntryFits(PcreTaken, spell, entry')
    <3>1. Consumed(PcreTaken, spell, entry)
      BY <2>1, <2>2 DEF PcreReplyInv, EntryFits
    <3>2. Whole(nodes, spell)
      BY <1>1 DEF PcreInv
    <3> QED BY <2>1, <2>2, <3>1, <3>2, <1>1, <1>2, PcreWalkStepFits
            DEF PcreReplyInv, AllCurrent, AllCompilable
  <2>3. entry'.pc # "route"
    <3>1. {"pc", "path", "method"} \subseteq DOMAIN entry
      BY <1>2 DEF EntryIn
    <3> QED BY <2>1, <3>1, PcreWalkKeeps
  <2> QED BY <2>1, <2>2, <2>3, <1>5
<1>8. CASE MatchRoutes /\ UNCHANGED <<regex, compiled>>
  <2>1. /\ entry.pc = "node" /\ entry' = RouteStep(nodes, entry)
        /\ nodes' = nodes /\ spell' = spell /\ regex' = regex /\ compiled' = compiled
    BY <1>8 DEF MatchRoutes, vars
  <2>2. ASSUME AllCurrent(nodes, regex)
        PROVE  /\ EntryFits(PcreTaken, spell, entry')
               /\ entry'.pc = "route" => FirstRoute(nodes, entry')
    <3>1. Found(PcreTaken, spell, entry)
      BY <2>1, <2>2 DEF PcreReplyInv, EntryFits
    <3> QED BY <2>1, <3>1, <1>2, RouteStepFits, RouteStepPicks
  <2> QED BY <2>1, <2>2, <1>5
<1>9. CASE EndMatch /\ UNCHANGED <<regex, compiled>>
  <2>1. /\ entry' = NoEntry
        /\ nodes' = nodes /\ spell' = spell /\ regex' = regex /\ compiled' = compiled
    BY <1>9 DEF EndMatch, vars
  <2> QED BY <2>1, <1>5, NoEntryConsumes
<1>10. CASE UNCHANGED pcreVars
  BY <1>1, <1>10 DEF pcreVars, matchVars, vars, PcreReplyInv, RouteFits
<1> QED BY <1>3, <1>4, <1>6, <1>7, <1>8, <1>9, <1>10 DEF PcreNext, PcreReturns

\* The conjunct of SlugsTakeText is about constants only.
LEMMA PcreReplyInvariance == SlugsTakeText /\ PcreSpec => []PcreReplyInv
<1>1. SlugsTakeText /\ PcreInit => PcreReplyInv
  <2> SUFFICES ASSUME SlugsTakeText, PcreInit
               PROVE  PcreReplyInv
    OBVIOUS
  <2>1. PcreInv
    BY PcreInitially
  <2>2. Len(nodes) = 1 /\ regex = <<NoRegex>> /\ ~compiled /\ entry = NoEntry
    BY DEF PcreInit, MatchInit, Init
  <2>3. AllCompilable(nodes, regex)
    BY <2>2 DEF AllCompilable, Compilable, NoRegex
  <2> QED BY <2>1, <2>2, <2>3, NoEntryConsumes DEF PcreReplyInv, RouteFits
<1> QED BY <1>1, PcreReplyInductive, PTL DEF PcreSpec
-----------------------------------------------------------------------------
(* A slug among other text in the pattern of an edge                       *)

\* The pattern has one slug, at s.
OneSlug(pattern, s) ==
    /\ pattern \in Seq(Token) /\ s \in 1..Len(pattern)
    /\ SlugPositions(pattern) = {s}

\* The rest begins with the pattern, and its slug takes l characters.
Matches(pattern, s, rest, l) ==
    IsPrefix(Upto(pattern, s - 1), rest) /\ l \in SlugLengths(pattern, s, rest)

\* The number of characters the whole pattern takes then.
WholeLength(pattern, l) == Len(pattern) - 1 + l

\* What is in front of the slug and behind it.
LEMMA AroundOneSlug ==
    ASSUME NEW pattern, NEW s, OneSlug(pattern, s)
    PROVE  /\ Len(pattern) \in Nat /\ s \in Nat \ {0} /\ s <= Len(pattern)
           /\ pattern[s] \in Slugs /\ HasSlug(pattern)
           /\ Min(SlugPositions(pattern)) = s
           /\ Upto(pattern, s - 1) \in Seq(Token) /\ Len(Upto(pattern, s - 1)) = s - 1
           /\ \A i \in 1..(s - 1) : /\ Upto(pattern, s - 1)[i] = pattern[i]
                                    /\ Upto(pattern, s - 1)[i] \notin Slugs
           /\ After(pattern, s) \in Seq(Token)
           /\ Len(After(pattern, s)) = Len(pattern) - s
           /\ \A i \in 1..(Len(pattern) - s) :
                /\ After(pattern, s)[i] = pattern[s + i]
                /\ After(pattern, s)[i] \notin Slugs
<1>1. /\ pattern \in Seq(Token) /\ s \in 1..Len(pattern) /\ Len(pattern) \in Nat
      /\ SlugPositions(pattern) = {s}
  BY LenProperties DEF OneSlug
<1>2. \A i \in 1..Len(pattern) : pattern[i] \in Slugs <=> i = s
  BY <1>1 DEF SlugPositions
<1>3. /\ Upto(pattern, s - 1) \in Seq(Token) /\ Len(Upto(pattern, s - 1)) = s - 1
      /\ \A i \in 1..(s - 1) : Upto(pattern, s - 1)[i] = pattern[i]
  BY <1>1 DEF Upto
<1>4. /\ After(pattern, s) \in Seq(Token) /\ Len(After(pattern, s)) = Len(pattern) - s
      /\ \A i \in 1..(Len(pattern) - s) : After(pattern, s)[i] = pattern[s + i]
  BY <1>1 DEF After
<1>5. \A i \in 1..(s - 1) : pattern[i] \notin Slugs
  BY <1>1, <1>2
<1>6. \A i \in 1..(Len(pattern) - s) : pattern[s + i] \notin Slugs
  <2> TAKE i \in 1..(Len(pattern) - s)
  <2>1. s + i \in 1..Len(pattern) /\ s + i # s
    BY <1>1
  <2> QED BY <2>1, <1>2
<1>7. Min(SlugPositions(pattern)) = s
  <2>1. {s} \subseteq Nat /\ {s} # {}
    BY <1>1
  <2>2. Min({s}) \in {s}
    BY <2>1, LeastNatural
  <2> QED BY <2>2, <1>1
<1>8. HasSlug(pattern) /\ pattern[s] \in Slugs
  BY <1>1, <1>2 DEF HasSlug
<1> QED BY <1>1, <1>3, <1>4, <1>5, <1>6, <1>7, <1>8

\* A pattern that matches is no longer than the rest.
LEMMA MatchLengths ==
    ASSUME NEW pattern, NEW s, OneSlug(pattern, s), NEW rest \in Seq(Literals),
           NEW l, Matches(pattern, s, rest, l)
    PROVE  /\ l \in Nat /\ s - 1 + l \in 0..Len(rest)
           /\ s - 1 \in 0..Len(rest) /\ l \in 0..(Len(rest) - (s - 1))
           /\ WholeLength(pattern, l) \in 0..Len(rest)
           /\ WholeLength(pattern, l) = (s - 1 + l) + (Len(pattern) - s)
           /\ Len(pattern) - s \in 0..(Len(rest) - (s - 1 + l))
           /\ PcreTakes(pattern[s], SubSeq(rest, s, s + l - 1))
           /\ IsPrefix(After(pattern, s), After(rest, s - 1 + l))
<1>1. /\ Len(pattern) \in Nat /\ s \in Nat \ {0} /\ s <= Len(pattern)
      /\ Upto(pattern, s - 1) \in Seq(Token) /\ Len(Upto(pattern, s - 1)) = s - 1
      /\ After(pattern, s) \in Seq(Token) /\ Len(After(pattern, s)) = Len(pattern) - s
      /\ Len(rest) \in Nat
  BY AroundOneSlug, LenProperties
<1>2. s - 1 <= Len(rest)
  BY <1>1, PrefixByCharacter DEF Matches
<1>3. /\ l \in 0..(Len(rest) - (s - 1))
      /\ PcreTakes(pattern[s], SubSeq(rest, s, s + l - 1))
      /\ IsPrefix(After(pattern, s), After(rest, s - 1 + l))
  BY DEF Matches, SlugLengths
<1>4. s - 1 + l \in 0..Len(rest) /\ l \in Nat
  BY <1>1, <1>2, <1>3
<1>5. After(rest, s - 1 + l) \in Seq(Literals)
      /\ Len(After(rest, s - 1 + l)) = Len(rest) - (s - 1 + l)
  <2> DEFINE x == s - 1 + l
  <2> HIDE DEF x
  <2>1. After(rest, x) \in Seq(Literals) /\ Len(After(rest, x)) = Len(rest) - x
    BY <1>1, <1>4 DEF After, x
  <2> QED BY <2>1 DEF x
<1>6. Len(pattern) - s <= Len(rest) - (s - 1 + l)
  BY <1>1, <1>3, <1>5, PrefixByCharacter
<1> QED BY <1>1, <1>2, <1>3, <1>4, <1>6 DEF WholeLength

\* A rest that can be cut behind a tokens begins with a match of the pattern, if
\* the pattern is what follows, and can be cut behind it.
OneSlugSplits(path, cuts, a, pattern, s, rest) ==
    ToCut(path, cuts, a, rest) <=>
        \E l \in Nat :
            /\ Matches(pattern, s, rest, l)
            /\ ToCut(path, cuts, a + Len(pattern), After(rest, WholeLength(pattern, l)))

\* The part from the slug on.
LEMMA FromSlugOn ==
    ASSUME NEW text \in Seq(Token), NEW path \in Seq(Literals), NEW cuts,
           Cut(PcreTaken, text, path, cuts), NEW rest \in Seq(Literals),
           Remains(path, rest), NEW a \in Nat, NEW pattern, NEW s,
           OneSlug(pattern, s), a + Len(pattern) <= Len(text),
           \A i \in 1..Len(pattern) : pattern[i] = text[a + i],
           s - 1 <= Len(rest), NEW l \in 0..(Len(rest) - (s - 1))
    PROVE  /\ <<pattern[s], Upto(After(rest, s - 1), l)>> \in PcreTaken
                <=> PcreTakes(pattern[s], SubSeq(rest, s, s + l - 1))
           /\ ToCut(path, cuts, a + s, After(After(rest, s - 1), l)) <=>
                /\ IsPrefix(After(pattern, s), After(rest, s - 1 + l))
                /\ ToCut(path, cuts, a + Len(pattern),
                         After(rest, WholeLength(pattern, l)))
<1> DEFINE at == s - 1 + l
           left == After(rest, at)
           after == After(pattern, s)
           b == a + s
<1>1. /\ Len(pattern) \in Nat /\ s \in Nat \ {0} /\ s <= Len(pattern)
      /\ pattern[s] \in Slugs /\ pattern \in Seq(Token)
      /\ after \in Seq(Token) /\ Len(after) = Len(pattern) - s
      /\ \A i \in 1..(Len(pattern) - s) : after[i] = pattern[s + i] /\ after[i] \notin Slugs
      /\ Len(rest) \in Nat /\ Len(text) \in Nat
  BY AroundOneSlug, LenProperties DEF OneSlug
<1>2. /\ s - 1 \in 0..Len(rest) /\ l \in Nat /\ at \in 0..Len(rest)
      /\ (s - 1) + l <= Len(rest) /\ (s - 1) + 1 = s /\ (s - 1) + l = s + l - 1
      /\ b \in Nat /\ b + Len(after) = a + Len(pattern)
  <2> HIDE DEF after
  <2>1. s - 1 \in 0..Len(rest) /\ l \in Nat /\ at \in 0..Len(rest)
    BY <1>1
  <2>2. (s - 1) + l <= Len(rest) /\ (s - 1) + 1 = s /\ (s - 1) + l = s + l - 1
    BY <1>1
  <2>3. b \in Nat /\ b + Len(after) = a + Len(pattern)
    BY <1>1
  <2> QED BY <2>1, <2>2, <2>3
<1>3. After(After(rest, s - 1), l) = left
  BY <1>2, AfterTwice
<1>4. Upto(After(rest, s - 1), l) = SubSeq(rest, s, s + l - 1)
  <2>1. SubSeq(After(rest, s - 1), 1, l) = SubSeq(rest, (s - 1) + 1, (s - 1) + l)
    BY <1>2, PieceBehind
  <2> QED BY <2>1, <1>2 DEF Upto
<1>5. Upto(After(rest, s - 1), l) \in Seq(Literals)
  <2> DEFINE x == After(rest, s - 1)
  <2>1. x \in Seq(Literals) /\ Len(x) = Len(rest) - (s - 1)
    BY <1>2, RemainsAfter
  <2>2. l \in 0..Len(x)
    BY <2>1
  <2> HIDE DEF x
  <2>3. Upto(x, l) \in Seq(Literals)
    BY <2>1, <2>2, CutRest
  <2> QED BY <2>3 DEF x
<1>6. left \in Seq(Literals) /\ Remains(path, left) /\ Len(left) = Len(rest) - at
  <2> HIDE DEF at
  <2> QED BY <1>2, RemainsAfter
<1>7. ASSUME NEW i \in 1..Len(after)
      PROVE  after[i] = text[b + i] /\ after[i] \notin Slugs
  <2> HIDE DEF after
  <2>1. i \in 1..(Len(pattern) - s)
    BY <1>1
  <2>2. s + i \in 1..Len(pattern)
    BY <1>1, <2>1
  <2>3. a + (s + i) = b + i
    BY <1>1, <2>1
  <2> HIDE DEF b
  <2> QED BY <2>1, <2>2, <2>3, <1>1
<1>8. b + Len(after) <= Len(text)
  BY <1>2
<1> HIDE DEF b, after, left
<1>9. ToCut(path, cuts, b, left) <=>
        IsPrefix(after, left) /\ ToCut(path, cuts, b + Len(after), After(left, Len(after)))
  BY <1>1, <1>2, <1>6, <1>7, <1>8, LiteralsCut
<1>10. ASSUME IsPrefix(after, left)
       PROVE  After(left, Len(after)) = After(rest, WholeLength(pattern, l))
  <2>1. Len(after) \in Nat /\ at + Len(after) <= Len(rest)
        /\ at + Len(after) = WholeLength(pattern, l)
    <3>1. Len(after) <= Len(left)
      BY <1>1, <1>6, <1>10, PrefixByCharacter
    <3> QED BY <3>1, <1>1, <1>2, <1>6 DEF WholeLength
  <2> HIDE DEF at
  <2>2. After(After(rest, at), Len(after)) = After(rest, at + Len(after))
    BY <1>2, <2>1, AfterTwice
  <2> QED BY <2>1, <2>2 DEF left
<1>11. <<pattern[s], Upto(After(rest, s - 1), l)>> \in PcreTaken
                <=> PcreTakes(pattern[s], SubSeq(rest, s, s + l - 1))
  BY <1>1, <1>4, <1>5 DEF PcreTaken
<1>12. b + Len(after) = a + Len(pattern)
  BY <1>2
<1> HIDE DEF at
<1> QED BY <1>3, <1>9, <1>10, <1>11, <1>12 DEF b, after, left, at

\* Before the slug, the path is cut character by character.
LEMMA OneSlugCut ==
    ASSUME NEW text \in Seq(Token), NEW path \in Seq(Literals), NEW cuts,
           Cut(PcreTaken, text, path, cuts), NEW rest \in Seq(Literals),
           Remains(path, rest), NEW a \in Nat, NEW pattern, NEW s,
           OneSlug(pattern, s), a + Len(pattern) <= Len(text),
           \A i \in 1..Len(pattern) : pattern[i] = text[a + i]
    PROVE  OneSlugSplits(path, cuts, a, pattern, s, rest)
<1> DEFINE before == Upto(pattern, s - 1)
           left == After(rest, s - 1)
           Goal(l) == /\ Matches(pattern, s, rest, l)
                      /\ ToCut(path, cuts, a + Len(pattern),
                               After(rest, WholeLength(pattern, l)))
<1>1. /\ Len(pattern) \in Nat /\ s \in Nat \ {0} /\ s <= Len(pattern)
      /\ pattern[s] \in Slugs /\ pattern \in Seq(Token)
      /\ before \in Seq(Token) /\ Len(before) = s - 1
      /\ \A i \in 1..(s - 1) : before[i] = pattern[i] /\ before[i] \notin Slugs
      /\ Len(rest) \in Nat /\ Len(text) \in Nat
  BY AroundOneSlug, LenProperties DEF OneSlug
<1>2. ToCut(path, cuts, a, rest) <=>
        IsPrefix(before, rest) /\ ToCut(path, cuts, a + (s - 1), left)
  <2>1. a + Len(before) <= Len(text)
    BY <1>1
  <2>2. ASSUME NEW i \in 1..Len(before)
        PROVE  before[i] = text[a + i] /\ before[i] \notin Slugs
    <3>1. i \in 1..(s - 1) /\ i \in 1..Len(pattern)
      BY <1>1
    <3> QED BY <3>1, <1>1
  <2> HIDE DEF before
  <2>3. ToCut(path, cuts, a, rest) <=>
            IsPrefix(before, rest)
            /\ ToCut(path, cuts, a + Len(before), After(rest, Len(before)))
    BY <1>1, <2>1, <2>2, LiteralsCut
  <2> QED BY <2>3, <1>1
<1>3. CASE ~IsPrefix(before, rest)
  BY <1>2, <1>3 DEF OneSlugSplits, Matches
<1>4. CASE IsPrefix(before, rest)
  <2>1. s - 1 <= Len(rest) /\ s - 1 \in 0..Len(rest)
    BY <1>1, <1>4, PrefixByCharacter
  <2>2. left \in Seq(Literals) /\ Remains(path, left) /\ Len(left) = Len(rest) - (s - 1)
    BY <2>1, RemainsAfter
  <2>3. SlugSplits(PcreTaken, path, cuts, a + (s - 1), a + s, pattern[s], left)
    <3> DEFINE c == a + (s - 1)
    <3>1. c \in Nat /\ c < Len(text) /\ c + 1 = a + s /\ s \in 1..Len(pattern)
      <4>1. /\ s \in Nat /\ s >= 1 /\ s <= Len(pattern)
            /\ Len(pattern) \in Nat /\ Len(text) \in Nat
        BY <1>1
      <4> QED BY <4>1
    <3>2. text[c + 1] = pattern[s]
      BY <3>1
    <3> HIDE DEF c, left
    <3>3. SlugSplits(PcreTaken, path, cuts, c, c + 1, text[c + 1], left)
      BY <3>1, <3>2, <1>1, <2>2, SlugCut
    <3> QED BY <3>1, <3>2, <3>3 DEF c
  <2>4. ToCut(path, cuts, a + (s - 1), left) <=>
            \E l \in 0..Len(left) :
                /\ <<pattern[s], Upto(left, l)>> \in PcreTaken
                /\ ToCut(path, cuts, a + s, After(left, l))
    BY <2>3 DEF SlugSplits
  <2>5. ASSUME NEW l \in 0..(Len(rest) - (s - 1))
        PROVE  (/\ <<pattern[s], Upto(left, l)>> \in PcreTaken
                /\ ToCut(path, cuts, a + s, After(left, l))) <=> Goal(l)
    <3>1. /\ <<pattern[s], Upto(left, l)>> \in PcreTaken
                <=> PcreTakes(pattern[s], SubSeq(rest, s, s + l - 1))
          /\ ToCut(path, cuts, a + s, After(left, l)) <=>
                /\ IsPrefix(After(pattern, s), After(rest, s - 1 + l))
                /\ ToCut(path, cuts, a + Len(pattern),
                         After(rest, WholeLength(pattern, l)))
      BY <2>1, FromSlugOn
    <3>2. Matches(pattern, s, rest, l) <=>
            /\ PcreTakes(pattern[s], SubSeq(rest, s, s + l - 1))
            /\ IsPrefix(After(pattern, s), After(rest, s - 1 + l))
      BY <1>4 DEF Matches, SlugLengths
    <3> QED BY <3>1, <3>2
  <2>6. ASSUME NEW l, Goal(l)
        PROVE  l \in 0..(Len(rest) - (s - 1))
    BY <2>6, MatchLengths
  <2>7. \A l \in 0..(Len(rest) - (s - 1)) : l \in Nat
    BY <1>1, <2>1
  <2> HIDE DEF Goal, left
  <2>8. ToCut(path, cuts, a + (s - 1), left) <=> \E l \in Nat : Goal(l)
    BY <2>2, <2>4, <2>5, <2>6, <2>7
  <2> QED BY <1>2, <1>4, <2>8 DEF Goal, OneSlugSplits, left
<1> QED BY <1>3, <1>4
-----------------------------------------------------------------------------
(* The longest match is the one on the way                                 *)

\* The characters of the texts a slug takes.
PcreAccepts(slug) ==
    IF SlugOpcode[slug] = "NONE" THEN UNION {Range(text) : text \in PcreLanguage[slug]}
                                 ELSE Accepts[SlugOpcode[slug]]

\* The characters that can come behind the slug at s of an edge.
PcreFollow(tree, edge, s) ==
    IF s < Len(edge.pattern) THEN {edge.pattern[s + 1]}
    ELSE {tree[edge.child].edges[i].pattern[1] : i \in 1..Len(tree[edge.child].edges)}

\* A slug that can be compiled takes some text, of characters it accepts.
LEMMA AcceptedPiece ==
    ASSUME SlugsTakeText, NEW slug \in Slugs \ BadSlugs, NEW text \in Seq(Literals),
           PcreTakes(slug, text)
    PROVE  /\ text # <<>>
           /\ \A i \in 1..Len(text) : text[i] \in PcreAccepts(slug)
<1>1. text # <<>>
  BY DEF SlugsTakeText
<1>2. CASE SlugOpcode[slug] = "NONE"
  <2>1. text \in PcreLanguage[slug]
    BY <1>2 DEF PcreTakes
  <2>2. \A i \in 1..Len(text) : text[i] \in Range(text)
    <3>1. DOMAIN text = 1..Len(text)
      OBVIOUS
    <3> QED BY <3>1 DEF Range
  <2> QED BY <1>1, <1>2, <2>1, <2>2 DEF PcreAccepts
<1>3. CASE SlugOpcode[slug] # "NONE"
  BY <1>1, <1>3 DEF PcreTakes, Takes, PcreAccepts
<1> QED BY <1>2, <1>3

\* A slug that can be compiled takes at least one character, and only such it
\* accepts.
LEMMA MatchedText ==
    ASSUME SlugsTakeText, NEW pattern, NEW s, OneSlug(pattern, s),
           pattern[s] \notin BadSlugs, NEW rest \in Seq(Literals),
           NEW l, Matches(pattern, s, rest, l)
    PROVE  /\ l > 0
           /\ \A j \in 0..(l - 1) : rest[s + j] \in PcreAccepts(pattern[s])
<1> DEFINE text == SubSeq(rest, s, s + l - 1)
<1>1. /\ s \in Nat \ {0} /\ l \in Nat /\ s - 1 + l \in 0..Len(rest) /\ Len(rest) \in Nat
      /\ PcreTakes(pattern[s], text) /\ pattern[s] \in Slugs
  BY AroundOneSlug, MatchLengths, LenProperties
<1>2. /\ text \in Seq(Literals) /\ Len(text) = l
      /\ \A i \in 1..l : text[i] = rest[s + i - 1]
  <2> DEFINE a == s + l - 1
  <2>1. a \in 0..Len(rest) /\ a - s + 1 = l /\ s <= a + 1
    BY <1>1
  <2> HIDE DEF a
  <2>2. /\ Len(SubSeq(rest, s, a)) = l
        /\ \A i \in 1..l : SubSeq(rest, s, a)[i] = rest[s + i - 1]
    BY <1>1, <2>1
  <2>3. SubSeq(rest, s, a) \in Seq(Literals)
    <3>1. \A j \in s..a : rest[j] \in Literals
      BY <1>1, <2>1
    <3> QED BY <3>1, <1>1, <2>1, SubSeqProperties
  <2> QED BY <2>2, <2>3 DEF a
<1> HIDE DEF text
<1>3. text # <<>> /\ \A i \in 1..Len(text) : text[i] \in PcreAccepts(pattern[s])
  BY <1>1, <1>2, AcceptedPiece
<1>4. l > 0
  <2>1. Len(text) # 0
    BY <1>2, <1>3, EmptySeq
  <2> QED BY <2>1, <1>1, <1>2
<1>5. ASSUME NEW j \in 0..(l - 1)
      PROVE  rest[s + j] \in PcreAccepts(pattern[s])
  <2>1. j + 1 \in 1..l /\ s + (j + 1) - 1 = s + j
    BY <1>1
  <2> QED BY <2>1, <1>2, <1>3
<1> QED BY <1>4, <1>5

\* A match that is not the longest is followed by a character of its slug.
LEMMA ShorterMatch ==
    ASSUME SlugsTakeText, NEW pattern, NEW s, OneSlug(pattern, s),
           pattern[s] \notin BadSlugs, NEW rest \in Seq(Literals),
           NEW k, Matches(pattern, s, rest, k),
           NEW l, Matches(pattern, s, rest, l), k < l
    PROVE  /\ rest[s + k] \in PcreAccepts(pattern[s])
           /\ s + k \in 1..Len(rest)
           /\ s < Len(pattern) => rest[s + k] = pattern[s + 1]
<1>1. /\ s \in Nat \ {0} /\ l \in Nat /\ k \in Nat /\ Len(rest) \in Nat
      /\ s - 1 + l \in 0..Len(rest) /\ s - 1 + k \in 0..Len(rest)
      /\ Len(pattern) \in Nat /\ s <= Len(pattern)
      /\ IsPrefix(After(pattern, s), After(rest, s - 1 + k))
  BY AroundOneSlug, MatchLengths, LenProperties
<1>2. k \in 0..(l - 1) /\ s + k \in 1..Len(rest)
  BY <1>1
<1>3. rest[s + k] \in PcreAccepts(pattern[s])
  BY <1>2, MatchedText
<1>4. ASSUME s < Len(pattern)
      PROVE  rest[s + k] = pattern[s + 1]
  <2> DEFINE q == After(pattern, s)
             left == After(rest, s - 1 + k)
  <2>1. q \in Seq(Token) /\ Len(q) = Len(pattern) - s /\ q[1] = pattern[s + 1]
    <3>1. /\ q \in Seq(Token) /\ Len(q) = Len(pattern) - s
          /\ \A i \in 1..(Len(pattern) - s) : q[i] = pattern[s + i]
      BY AroundOneSlug
    <3>2. 1 \in 1..(Len(pattern) - s)
      BY <1>1, <1>4
    <3> QED BY <3>1, <3>2
  <2>2. left \in Seq(Literals) /\ left[1] = rest[s + k]
    <3> DEFINE a == s - 1 + k
    <3>1. a \in 0..Len(rest) /\ a < Len(rest) /\ a + 1 = s + k
      BY <1>1, <1>2
    <3> HIDE DEF a
    <3>2. After(rest, a) \in Seq(Literals) /\ After(rest, a)[1] = rest[a + 1]
      BY <3>1, <1>1 DEF After
    <3> QED BY <3>1, <3>2 DEF a
  <2> HIDE DEF q, left
  <2>3. q[1] = left[1]
    <3>1. 1 \in 1..Len(q)
      BY <2>1, <1>1, <1>4
    <3>2. IsPrefix(q, left)
      BY <1>1 DEF q, left
    <3> QED BY <3>1, <3>2, <2>1, <2>2, PrefixByCharacter
  <2> QED BY <2>1, <2>2, <2>3
<1> QED BY <1>2, <1>3, <1>4
-----------------------------------------------------------------------------
(* A tree without a choice                                                 *)

\* The only edge of the node has the only slug at s; what comes behind it begins
\* with no character the slug accepts.
PcreAlone(tree, regexes, n, s) ==
    LET edge == tree[n].edges[1] IN
    /\ Len(tree[n].edges) = 1
    /\ regexes[n] = <<edge.pattern>>
    /\ OneSlug(edge.pattern, s)
    /\ edge.pattern[s] \notin BadSlugs
    /\ SlugOpcode[edge.pattern[s]] # "GREEDY"
    /\ PcreFollow(tree, edge, s) \subseteq Literals \ PcreAccepts(edge.pattern[s])

PcreLiterals(tree, regexes, n) ==
    regexes[n] = NoRegex /\ LiteralsOnly(tree, n)

PcreClear(tree, regexes) ==
    \A n \in 1..Len(tree) :
        PcreLiterals(tree, regexes, n) \/ \E s : PcreAlone(tree, regexes, n, s)

\* A tree the lemmas on the matches of this build are about.
PcreClearTree(tree, sp, regexes) ==
    /\ Shape(tree, sp) /\ Sound(tree) /\ Reached(tree, sp)
    /\ Regexes(tree, regexes) /\ AllCompilable(tree, regexes)
    /\ SlugsTakeText /\ PcreClear(tree, regexes)

\* The first k characters of the rest match the edge.
PcreCrosses(edge, rest, k) ==
    /\ k \in 1..Len(rest)
    /\ \/ /\ ~HasSlug(edge.pattern)
          /\ k = Len(edge.pattern) /\ IsPrefix(edge.pattern, rest)
       \/ \E s, l : /\ OneSlug(edge.pattern, s) /\ Matches(edge.pattern, s, rest, l)
                    /\ k = WholeLength(edge.pattern, l)

\* The position of the only slug.
LEMMA OneSlugOnly ==
    ASSUME NEW pattern, NEW s, NEW t, OneSlug(pattern, s), OneSlug(pattern, t)
    PROVE  s = t /\ HasSlug(pattern)
BY AroundOneSlug DEF OneSlug

\* The edge of a node with one that has a slug is that one.
LEMMA PcreEdge ==
    ASSUME NEW tree, NEW sp, NEW regexes, PcreClearTree(tree, sp, regexes),
           NEW m \in 1..Len(tree), NEW i \in 1..Len(tree[m].edges)
    PROVE  \/ PcreLiterals(tree, regexes, m) /\ ~HasSlug(tree[m].edges[i].pattern)
           \/ \E s : PcreAlone(tree, regexes, m, s) /\ i = 1
<1>1. CASE PcreLiterals(tree, regexes, m)
  BY <1>1 DEF PcreLiterals, LiteralsOnly
<1>2. ASSUME NEW s, PcreAlone(tree, regexes, m, s)
      PROVE  i = 1
  <2>1. Len(tree[m].edges) = 1
    BY <1>2 DEF PcreAlone
  <2> QED BY <2>1
<1> QED BY <1>1, <1>2 DEF PcreClearTree, PcreClear

\* No slug of such a tree takes the empty text.
LEMMA PcreNeverEmpty ==
    ASSUME NEW tree, NEW sp, NEW regexes, PcreClearTree(tree, sp, regexes)
    PROVE  NeverEmpty(PcreTaken, tree)
<1> SUFFICES ASSUME NEW m \in 1..Len(tree), NEW i \in 1..Len(tree[m].edges),
                    NEW j \in 1..Len(tree[m].edges[i].pattern),
                    <<tree[m].edges[i].pattern[j], <<>>>> \in PcreTaken
             PROVE  FALSE
  BY DEF NeverEmpty
<1> DEFINE pattern == tree[m].edges[i].pattern
<1>1. pattern[j] \in Slugs /\ PcreTakes(pattern[j], <<>>)
  BY DEF PcreTaken
<1>2. j \in SlugPositions(pattern) /\ HasSlug(pattern)
  BY <1>1 DEF HasSlug, SlugPositions
<1>3. PICK s : PcreAlone(tree, regexes, m, s) /\ i = 1
  BY <1>2, PcreEdge
<1>4. s = j /\ pattern[s] \notin BadSlugs
  BY <1>2, <1>3 DEF PcreAlone, OneSlug
<1> QED BY <1>1, <1>4 DEF PcreClearTree, SlugsTakeText

\* The path can be cut behind a node and behind its child exactly if what is
\* between matches the edge.
PcreEdgeSplits(tree, sp, path, cuts, m, i, rest) ==
    LET edge == tree[m].edges[i] IN
    ToCut(path, cuts, Len(sp[m]), rest) <=>
        \E k : /\ PcreCrosses(edge, rest, k)
               /\ ToCut(path, cuts, Len(sp[edge.child]), After(rest, k))

\* That is so for every edge, with a slug in it or without.
LEMMA PcreEdgeCut ==
    ASSUME NEW tree, NEW sp, NEW regexes, PcreClearTree(tree, sp, regexes),
           NEW m \in 1..Len(tree), NEW i \in 1..Len(tree[m].edges),
           NEW text \in Seq(Token), Prefix(sp[tree[m].edges[i].child], text),
           NEW path \in Seq(Literals), NEW cuts, Cut(PcreTaken, text, path, cuts),
           NEW rest \in Seq(Literals), Remains(path, rest)
    PROVE  PcreEdgeSplits(tree, sp, path, cuts, m, i, rest)
<1> DEFINE edge == tree[m].edges[i]
           pattern == edge.pattern
           child == edge.child
           Behind(k) == ToCut(path, cuts, Len(sp[child]), After(rest, k))
<1>1. Shape(tree, sp) /\ SlugsTakeText
  BY DEF PcreClearTree
<1>2. /\ Continues(sp[m], pattern, sp[child], text)
      /\ pattern \in Seq(Token) /\ Len(pattern) \in Nat \ {0} /\ Len(rest) \in Nat
  BY <1>1, EdgeDown, ChildPattern, LenProperties
<1>3. CASE ~HasSlug(pattern)
  <2>1. ToCut(path, cuts, Len(sp[m]), rest) <=>
            IsPrefix(pattern, rest) /\ Behind(Len(pattern))
    BY <1>1, <1>3, LiteralEdgeCut
  <2>2. IsPrefix(pattern, rest) => Len(pattern) \in 1..Len(rest)
    <3>1. IsPrefix(pattern, rest) => Len(pattern) <= Len(rest)
      BY <1>2, PrefixByCharacter
    <3> HIDE DEF pattern
    <3> QED BY <3>1, <1>2
  <2>3. ASSUME NEW k
        PROVE  PcreCrosses(edge, rest, k) <=>
                  k \in 1..Len(rest) /\ k = Len(pattern) /\ IsPrefix(pattern, rest)
    BY <1>3, OneSlugOnly DEF PcreCrosses
  <2> HIDE DEF Behind
  <2>4. ToCut(path, cuts, Len(sp[m]), rest) <=>
            \E k : PcreCrosses(edge, rest, k) /\ Behind(k)
    BY <2>1, <2>2, <2>3
  <2> QED BY <2>4 DEF PcreEdgeSplits, Behind
<1>4. CASE HasSlug(pattern)
  <2>1. PICK s : PcreAlone(tree, regexes, m, s) /\ i = 1
    BY <1>4, PcreEdge
  <2>2. OneSlug(pattern, s) /\ pattern[s] \notin BadSlugs
    BY <2>1 DEF PcreAlone
  <2>3. OneSlugSplits(path, cuts, Len(sp[m]), pattern, s, rest)
    <3> DEFINE a == Len(sp[m])
    <3>1. /\ a \in Nat /\ a + Len(pattern) <= Len(text)
          /\ \A j \in 1..Len(pattern) : pattern[j] = text[a + j]
      BY <1>2 DEF Continues
    <3> HIDE DEF a, pattern
    <3>2. OneSlugSplits(path, cuts, a, pattern, s, rest)
      BY <3>1, <2>2, OneSlugCut
    <3> QED BY <3>2 DEF a
  <2>4. Len(sp[child]) = Len(sp[m]) + Len(pattern)
    BY <1>2 DEF Continues
  <2>5. ToCut(path, cuts, Len(sp[m]), rest) <=>
            \E l \in Nat : /\ Matches(pattern, s, rest, l)
                           /\ Behind(WholeLength(pattern, l))
    BY <2>3, <2>4 DEF OneSlugSplits
  <2>6. ASSUME NEW l, Matches(pattern, s, rest, l)
        PROVE  l \in Nat /\ PcreCrosses(edge, rest, WholeLength(pattern, l))
    <3>1. /\ l \in Nat /\ l > 0 /\ WholeLength(pattern, l) \in 0..Len(rest)
      BY <1>1, <2>2, <2>6, MatchLengths, MatchedText
    <3>2. WholeLength(pattern, l) \in 1..Len(rest)
      <4> HIDE DEF pattern
      <4>1. WholeLength(pattern, l) >= 1
        BY <3>1, <1>2 DEF WholeLength
      <4> QED BY <4>1, <3>1
    <3> QED BY <3>1, <3>2, <2>2, <2>6 DEF PcreCrosses
  <2>7. ASSUME NEW k, PcreCrosses(edge, rest, k)
        PROVE  \E l : Matches(pattern, s, rest, l) /\ k = WholeLength(pattern, l)
    BY <1>4, <2>2, <2>7, OneSlugOnly DEF PcreCrosses
  <2> HIDE DEF Behind, pattern
  <2>8. ToCut(path, cuts, Len(sp[m]), rest) <=>
            \E k : PcreCrosses(edge, rest, k) /\ Behind(k)
    BY <2>5, <2>6, <2>7
  <2> QED BY <2>8 DEF PcreEdgeSplits, Behind
<1> QED BY <1>3, <1>4

\* Of the lengths an edge matches, the one to a node on the way is the greatest.
LEMMA LongestOnWay ==
    ASSUME NEW tree, NEW sp, NEW regexes, PcreClearTree(tree, sp, regexes),
           NEW n, NEW path, NEW cuts, Cuttable(PcreTaken, tree, sp, n, path, cuts),
           NEW m \in 1..Len(tree), NEW i \in 1..Len(tree[m].edges),
           NEW rest \in Seq(Literals), Remains(path, rest),
           NEW k, PcreCrosses(tree[m].edges[i], rest, k),
           OnWay(sp, n, path, cuts, tree[m].edges[i].child, After(rest, k)),
           NEW l, PcreCrosses(tree[m].edges[i], rest, l)
    PROVE  l <= k
<1> DEFINE edge == tree[m].edges[i]
           pattern == edge.pattern
           child == edge.child
<1>1. Shape(tree, sp) /\ SlugsTakeText /\ Len(rest) \in Nat
  BY LenProperties DEF PcreClearTree
<1>2. pattern \in Seq(Token) /\ Len(pattern) \in Nat \ {0} /\ child \in 1..Len(tree)
  BY <1>1, EdgeDown
<1>3. CASE ~HasSlug(pattern)
  <2>1. k = Len(pattern) /\ l = Len(pattern)
    BY <1>3, OneSlugOnly DEF PcreCrosses
  <2> QED BY <2>1, <1>2
<1>4. CASE HasSlug(pattern)
  <2>1. PICK s : PcreAlone(tree, regexes, m, s) /\ i = 1
    BY <1>4, PcreEdge
  <2>2. /\ OneSlug(pattern, s) /\ pattern[s] \notin BadSlugs
        /\ PcreFollow(tree, edge, s) \subseteq Literals \ PcreAccepts(pattern[s])
    BY <2>1 DEF PcreAlone
  <2>3. \A j : PcreCrosses(edge, rest, j) =>
            \E x : Matches(pattern, s, rest, x) /\ j = WholeLength(pattern, x)
    BY <1>4, <2>2, OneSlugOnly DEF PcreCrosses
  <2> HIDE DEF pattern, child
  <2>4. PICK x : Matches(pattern, s, rest, x) /\ k = WholeLength(pattern, x)
    BY <2>3
  <2>5. PICK y : Matches(pattern, s, rest, y) /\ l = WholeLength(pattern, y)
    BY <2>3
  <2> USE DEF pattern, child
  <2>6. /\ x \in Nat /\ y \in Nat /\ k \in 0..Len(rest)
        /\ s \in Nat \ {0} /\ s <= Len(pattern) /\ s - 1 + x \in 0..Len(rest)
    BY <2>2, <2>4, <2>5, MatchLengths, AroundOneSlug
  <2>7. ~(x < y)
    <3> SUFFICES ASSUME x < y
                 PROVE  FALSE
      OBVIOUS
    <3>1. /\ rest[s + x] \in PcreAccepts(pattern[s])
          /\ s + x \in 1..Len(rest)
          /\ s < Len(pattern) => rest[s + x] = pattern[s + 1]
      <4>1. /\ SlugsTakeText /\ OneSlug(pattern, s) /\ pattern[s] \notin BadSlugs
            /\ rest \in Seq(Literals)
            /\ Matches(pattern, s, rest, x) /\ Matches(pattern, s, rest, y) /\ x < y
        BY <1>1, <2>2, <2>4, <2>5
      <4> HIDE DEF pattern
      <4> QED BY ONLY <4>1, ShorterMatch
    <3>2. rest[s + x] \in PcreFollow(tree, edge, s)
      <4>1. CASE s < Len(pattern)
        BY <3>1, <4>1 DEF PcreFollow
      <4>2. CASE s = Len(pattern)
        <5> DEFINE follow == {tree[child].edges[j].pattern[1] :
                                j \in 1..Len(tree[child].edges)}
                   left == After(rest, k)
        <5>1. PcreFollow(tree, edge, s) = follow
          <6>1. ~(s < Len(pattern))
            BY <4>2, <1>2
          <6> QED BY <6>1 DEF PcreFollow
        <5>2. k + 1 = s + x /\ k \in 0..Len(rest) /\ k < Len(rest)
          <6>1. k = Len(pattern) - 1 + x
            BY <2>4 DEF WholeLength
          <6>2. k + 1 = s + x
            BY <6>1, <4>2, <2>6, <1>2
          <6>3. s + x \in 1..Len(rest) /\ k \in 0..Len(rest)
            BY <2>6, <3>1
          <6> QED BY <6>2, <6>3, <1>1
        <5>3. left \in Seq(Literals) /\ Remains(path, left) /\ Len(left) = Len(rest) - k
          BY <2>6, RemainsAfter DEF Cuttable
        <5>4. left # <<>> /\ left[1] = rest[s + x]
          <6>1. Len(left) > 0 /\ left[1] = rest[k + 1]
            <7> HIDE DEF left
            <7>1. Len(left) > 0
              BY <5>2, <5>3, <1>1
            <7>2. After(rest, k)[1] = rest[k + 1]
              BY <5>2, <1>1 DEF After
            <7> QED BY <7>1, <7>2 DEF left
          <6> HIDE DEF left
          <6> QED BY <6>1, <5>2, <5>3, EmptySeq
        <5>5. follow \subseteq Literals
          BY <5>1, <2>2
        <5>6. \A j \in 1..Len(tree[child].edges) :
                tree[child].edges[j].pattern[1] \in follow
          OBVIOUS
        <5>7. OnWay(sp, n, path, cuts, child, left)
          OBVIOUS
        <5> HIDE DEF follow, left, child
        <5>8. left = <<>> \/ left[1] \in follow
          <6>1. child \in 1..Len(tree) /\ left \in Seq(Literals) /\ Remains(path, left)
            BY <1>2, <5>3
          <6> HIDE DEF edge, pattern
          <6> QED BY <6>1, <5>5, <5>6, <5>7, WayFollowed
        <5> QED BY <5>1, <5>4, <5>8
      <4>3. s < Len(pattern) \/ s = Len(pattern)
        <5> HIDE DEF pattern
        <5> QED BY <2>6, <1>2
      <4> QED BY <4>1, <4>2, <4>3
    <3> QED BY <3>1, <3>2, <2>2
  <2>8. y <= x
    BY <2>6, <2>7
  <2> HIDE DEF pattern
  <2> QED BY <2>4, <2>5, <2>6, <2>8, <1>2 DEF WholeLength
<1> QED BY <1>3, <1>4
-----------------------------------------------------------------------------
(* One call on such a tree                                                 *)

\* The slug takes l characters, and could not take more.
Longest(pattern, s, rest, l) ==
    /\ Matches(pattern, s, rest, l)
    /\ \A j : Matches(pattern, s, rest, j) => j <= l

\* What pcre2_match reports for the longest match of the only alternative.
Reported(pattern, s, rest, l) ==
    [alternative |-> 1, capture |-> SubSeq(rest, s, s + l - 1),
     end |-> WholeLength(pattern, l)]

\* The alternative of the only edge matches as far as it can, or not at all.
LEMMA OneAlternative ==
    ASSUME NEW pattern, NEW s, OneSlug(pattern, s), NEW rest \in Seq(Literals)
    PROVE  LET match == PcreMatch(<<pattern>>, rest) IN
           \/ match = NoMatch /\ \A l : ~Matches(pattern, s, rest, l)
           \/ \E l : /\ Longest(pattern, s, rest, l)
                     /\ match = Reported(pattern, s, rest, l)
<1> DEFINE lengths == SlugLengths(pattern, s, rest)
           before == Upto(pattern, s - 1)
           k == Max(lengths)
           one == MatchAlternative(1, pattern, rest)
           match == PcreMatch(<<pattern>>, rest)
           I == {i \in 1..1 : one # NoMatch}
           first == IF I # {} THEN Min(I) ELSE 0
<1>1. /\ Len(pattern) \in Nat /\ s \in Nat \ {0} /\ s <= Len(pattern)
      /\ HasSlug(pattern) /\ Min(SlugPositions(pattern)) = s
      /\ before \in Seq(Token) /\ Len(before) = s - 1 /\ Len(rest) \in Nat
  BY AroundOneSlug, LenProperties
<1>2. one = IF /\ IsPrefix(before, rest) /\ s <= Len(rest) + 1
               /\ lengths # {}
            THEN Reported(pattern, s, rest, k) ELSE NoMatch
  BY <1>1 DEF MatchAlternative, Reported, WholeLength
<1>3. match = one
  <2> DEFINE matches == [i \in 1..Len(<<pattern>>) |->
                            MatchAlternative(i, <<pattern>>[i], rest)]
             J == {i \in 1..Len(matches) : matches[i] # NoMatch}
             place == IF J # {} THEN Min(J) ELSE 0
  <2>1. Len(<<pattern>>) = 1 /\ <<pattern>>[1] = pattern
    OBVIOUS
  <2>2. Len(matches) = 1 /\ matches[1] = one
    BY <2>1
  <2>3. match = IF place = 0 THEN NoMatch
                ELSE MatchAlternative(place, <<pattern>>[place], rest)
    BY DEF PcreMatch, SelectInSeq
  <2> HIDE DEF matches, match, one
  <2>4. CASE one = NoMatch
    <3>1. J = {}
      BY <2>2, <2>4
    <3> QED BY <3>1, <2>3, <2>4
  <2>5. CASE one # NoMatch
    <3>1. J = {1}
      BY <2>2, <2>5
    <3>2. place = 1
      <4>1. {1} \subseteq Nat /\ {1} # {}
        OBVIOUS
      <4>2. Min({1}) \in {1}
        BY <4>1, LeastNatural
      <4> HIDE DEF J
      <4> QED BY <4>1, <4>2, <3>1
    <3> HIDE DEF place
    <3> QED BY <3>2, <2>1, <2>3 DEF one
  <2> QED BY <2>4, <2>5
<1> HIDE DEF one, match
<1>4. IsPrefix(before, rest) => s <= Len(rest) + 1
  <2>1. IsPrefix(before, rest) => s - 1 <= Len(rest)
    BY <1>1, PrefixByCharacter
  <2> QED BY <2>1, <1>1
<1>5. CASE IsPrefix(before, rest) /\ lengths # {}
  <2>1. match = Reported(pattern, s, rest, k)
    BY <1>2, <1>3, <1>4, <1>5
  <2>2. k \in lengths /\ \A y \in lengths : k >= y
    <3>1. Len(rest) - (s - 1) \in Nat
      BY <1>1, <1>4, <1>5
    <3>2. lengths \subseteq 0..(Len(rest) - (s - 1))
      BY DEF SlugLengths
    <3> HIDE DEF lengths
    <3> QED BY <3>1, <3>2, <1>5, GreatestNatural
  <2> HIDE DEF k
  <2>3. Matches(pattern, s, rest, k)
    BY <1>5, <2>2 DEF Matches
  <2>4. ASSUME NEW j, Matches(pattern, s, rest, j)
        PROVE  j <= k
    <3>1. j \in Nat /\ k \in Nat
      BY <2>3, <2>4, MatchLengths
    <3>2. k >= j
      BY <2>2, <2>4 DEF Matches
    <3> QED BY <3>1, <3>2
  <2>5. Longest(pattern, s, rest, k)
    BY <2>3, <2>4 DEF Longest
  <2> QED BY <2>1, <2>5 DEF match
<1>6. CASE ~(IsPrefix(before, rest) /\ lengths # {})
  <2>1. match = NoMatch
    BY <1>2, <1>3, <1>6
  <2>2. \A l : ~Matches(pattern, s, rest, l)
    BY <1>6 DEF Matches
  <2> QED BY <2>1, <2>2 DEF match
<1> QED BY <1>5, <1>6

\* The run of an opcode is the longest match of its slug alone.
LEMMA RunIsLongest ==
    ASSUME SlugsTakeText, NEW slug \in Slugs \ BadSlugs, SlugOpcode[slug] # "NONE",
           OneSlug(<<slug>>, 1), NEW rest \in Seq(Literals),
           RunLength(SlugOpcode[slug], rest) > 0
    PROVE  Longest(<<slug>>, 1, rest, RunLength(SlugOpcode[slug], rest))
<1> DEFINE opcode == SlugOpcode[slug]
           run == RunLength(opcode, rest)
           pattern == <<slug>>
<1>1. pattern[1] = slug /\ Len(pattern) = 1 /\ pattern \in Seq(Token)
  BY DEF Token
<1>2. run \in 0..Len(rest) /\ Len(rest) \in Nat /\ run \in Nat
  <2>1. run \in 0..Len(rest) /\ Len(rest) \in Nat
    BY RunInText, LenProperties
  <2> QED BY <2>1
<1>3. PICK k \in 0..Len(rest) :
        /\ \A i \in 1..k : rest[i] \in Accepts[opcode]
        /\ k < Len(rest) => rest[k + 1] \notin Accepts[opcode]
  BY RunExists
<1>4. run = k
  BY <1>3, RunIs
<1>5. Matches(pattern, 1, rest, run)
  <2>1. Upto(pattern, 1 - 1) \in Seq(Token) /\ Len(Upto(pattern, 1 - 1)) = 0
    BY AroundOneSlug
  <2>2. IsPrefix(Upto(pattern, 1 - 1), rest)
    BY <2>1, <1>2, PrefixByCharacter
  <2>3. run \in 0..(Len(rest) - (1 - 1)) /\ 1 - 1 + run \in 0..Len(rest)
        /\ 1 + run - 1 = run /\ 1 - 1 + run = run
    BY <1>2
  <2>4. PcreTakes(slug, SubSeq(rest, 1, run))
    <3> DEFINE text == SubSeq(rest, 1, run)
    <3>1. Len(text) = run /\ \A i \in 1..run : text[i] = rest[i]
      <4> HIDE DEF run
      <4> QED BY <1>2
    <3>2. text # <<>>
      <4>1. Len(<<>>) = 0
        OBVIOUS
      <4> HIDE DEF text
      <4> QED BY <4>1, <3>1, <1>2
    <3> HIDE DEF text, run
    <3>3. Takes(slug, text)
      BY <3>1, <3>2, <1>3, <1>4 DEF Takes
    <3> QED BY <3>3 DEF PcreTakes, text
  <2>5. IsPrefix(After(pattern, 1), After(rest, 1 - 1 + run))
    <3>1. After(pattern, 1) \in Seq(Token) /\ Len(After(pattern, 1)) = 0
      BY <1>1, AroundOneSlug
    <3>2. After(rest, run) \in Seq(Literals) /\ Len(After(rest, run)) \in Nat
      BY <1>2, CutRest, LenProperties
    <3>3. IsPrefix(After(pattern, 1), After(rest, run))
      <4> DEFINE q == After(pattern, 1)
                 left == After(rest, run)
      <4> HIDE DEF q, left
      <4>1. IsPrefix(q, left)
        BY <3>1, <3>2, PrefixByCharacter DEF q, left
      <4> QED BY <4>1 DEF q, left
    <3> QED BY <3>3, <2>3
  <2> HIDE DEF run, pattern
  <2>6. run \in SlugLengths(pattern, 1, rest)
    BY <2>3, <2>4, <2>5, <1>1 DEF SlugLengths
  <2> QED BY <2>2, <2>6 DEF Matches
<1>6. ASSUME NEW l, Matches(pattern, 1, rest, l)
      PROVE  l <= run
  <2>1. /\ l \in Nat /\ 1 - 1 + l \in 0..Len(rest)
        /\ \A j \in 0..(l - 1) : rest[1 + j] \in Accepts[opcode]
    <3>1. l \in Nat /\ 1 - 1 + l \in 0..Len(rest)
      BY <1>6, MatchLengths
    <3>2. \A j \in 0..(l - 1) : rest[1 + j] \in PcreAccepts(pattern[1])
      BY <1>1, <1>6, MatchedText
    <3> QED BY <3>1, <3>2, <1>1 DEF PcreAccepts
  <2>2. ~(run < l)
    <3> SUFFICES ASSUME run < l
                 PROVE  FALSE
      OBVIOUS
    <3> HIDE DEF run
    <3>1. run \in 0..(l - 1) /\ run < Len(rest)
      BY <2>1, <1>2
    <3>2. rest[1 + run] \in Accepts[opcode]
      BY <3>1, <2>1
    <3>3. 1 + run = k + 1
      BY <1>2, <1>4
    <3> QED BY <3>1, <3>2, <3>3, <1>3, <1>4
  <2> HIDE DEF run
  <2> QED BY <2>1, <2>2, <1>2
<1> QED BY <1>5, <1>6 DEF Longest

\* A call that has taken k characters goes to the child, or ends there.
LEMMA CrossedGoes ==
    ASSUME NEW tree, NEW e, Len(e.rest) \in Nat,
           NEW f \in EntryIn(Len(tree)), f.pc = "walk",
           NEW child \in 1..Len(tree), NEW k \in 1..Len(e.rest),
           NEW new, new = IF k < Len(e.rest) THEN GoOn(f, child, After(e.rest, k))
                          ELSE Arrive(tree, f, child)
    PROVE  Goes(tree, e, new, child, k)
<1>1. CASE k < Len(e.rest)
  <2>1. new = [f EXCEPT !.node = child, !.rest = After(e.rest, k)]
    BY <1>1 DEF GoOn
  <2> QED BY <2>1, <1>1 DEF Goes, EntryIn
<1>2. CASE ~(k < Len(e.rest))
  BY <1>2 DEF Goes, Arrive, EntryIn
<1> QED BY <1>1, <1>2

\* A call crosses the edge that can be crossed, by the longest match, or fails.
PcreOutcome(tree, e, new) ==
    LET edges == tree[e.node].edges IN
    \/ \E i \in 1..Len(edges), k \in 1..Len(e.rest) :
        /\ PcreCrosses(edges[i], e.rest, k)
        /\ \A j \in 1..Len(edges) : \A l :
            PcreCrosses(edges[j], e.rest, l) => j = i /\ l <= k
        /\ Goes(tree, e, new, edges[i].child, k)
    \/ /\ new.pc = "nil"
       /\ \A i \in 1..Len(edges) : \A k : ~PcreCrosses(edges[i], e.rest, k)

\* At the end of the path no edge consumes anything.
LEMMA PcreNoOpcodeAtEnd ==
    ASSUME NEW tree, NEW sp, NEW regexes, PcreClearTree(tree, sp, regexes),
           NEW n \in 1..Len(tree)
    PROVE  OpcodeEdge(tree[n], <<>>) = 0
<1> DEFINE i == OpcodeEdge(tree[n], <<>>)
<1> SUFFICES ASSUME i # 0
             PROVE  FALSE
  OBVIOUS
<1>1. <<>> \in Seq(Literals) /\ Len(<<>>) = 0
  OBVIOUS
<1>2. tree[n] \in Node /\ NodeSound(tree[n])
  BY ShapeOfNode DEF PcreClearTree, Sound
<1>3. /\ i \in 1..Len(tree[n].edges)
      /\ \/ tree[n].edges[i].opcode = "GREEDY"
         \/ RunLength(tree[n].edges[i].opcode, <<>>) > 0
      /\ \E slug \in Slugs : /\ tree[n].edges[i].pattern = <<slug>>
                             /\ tree[n].edges[i].opcode = SlugOpcode[slug]
  BY <1>1, <1>2, OpcodeEdgeIsSlug
<1> HIDE DEF i
<1>4. RunLength(tree[n].edges[i].opcode, <<>>) = 0
  <2>1. RunLength(tree[n].edges[i].opcode, <<>>) \in 0..Len(<<>>)
    BY <1>1, RunInText
  <2> QED BY <2>1, <1>1
<1>5. PICK slug \in Slugs : /\ tree[n].edges[i].pattern = <<slug>>
                            /\ SlugOpcode[slug] = "GREEDY"
  BY <1>3, <1>4
<1>6. PICK s : PcreAlone(tree, regexes, n, s) /\ i = 1
  BY <1>3, <1>5, SlugHasSlug, PcreEdge
<1>7. s \in 1..Len(<<slug>>) /\ SlugOpcode[<<slug>>[s]] # "GREEDY"
  BY <1>5, <1>6 DEF PcreAlone, OneSlug
<1>8. <<slug>>[s] = slug
  BY <1>7
<1> QED BY <1>5, <1>7, <1>8

\* A node with literal edges.
LEMMA PcreLiteralStep ==
    ASSUME NEW tree, NEW sp, NEW regexes, PcreClearTree(tree, sp, regexes),
           NEW e \in EntryIn(Len(tree)), e.pc = "walk",
           PcreLiterals(tree, regexes, e.node)
    PROVE  PcreOutcome(tree, e, PcreWalkStep(tree, regexes, e))
<1> DEFINE n == e.node
           rest == e.rest
           edges == tree[n].edges
           opcodeEdge == OpcodeEdge(tree[n], rest)
           i == LiteralEdge(tree[n], rest)
           k == Len(edges[i].pattern)
           child == edges[i].child
           new == PcreWalkStep(tree, regexes, e)
<1>1. /\ Shape(tree, sp) /\ Sound(tree) /\ Regexes(tree, regexes) /\ SlugsTakeText
      /\ n \in 1..Len(tree) /\ rest \in Seq(Literals) /\ Len(rest) \in Nat
      /\ LiteralsOnly(tree, n) /\ regexes[n] = NoRegex
      /\ tree[n] \in Node /\ NodeSound(tree[n]) /\ Len(edges) \in Nat
  <2>1. n \in 1..Len(tree) /\ rest \in Seq(Literals) /\ Len(rest) \in Nat
    BY LenProperties DEF EntryIn
  <2>2. Shape(tree, sp) /\ Sound(tree) /\ Regexes(tree, regexes) /\ SlugsTakeText
    BY DEF PcreClearTree
  <2>3. tree[n] \in Node /\ Len(edges) \in Nat
    BY <2>1, <2>2, ShapeOfNode, LenProperties
  <2> QED BY <2>1, <2>2, <2>3 DEF PcreLiterals, Sound
<1>2. opcodeEdge = 0
  <2> SUFFICES ASSUME opcodeEdge # 0
               PROVE  FALSE
    OBVIOUS
  <2>1. /\ opcodeEdge \in 1..Len(edges)
        /\ \E slug \in Slugs : edges[opcodeEdge].pattern = <<slug>>
    BY <1>1, OpcodeEdgeIsSlug
  <2> QED BY <2>1, <1>1, SlugHasSlug DEF LiteralsOnly
<1>3. new = IF i = 0 THEN [e EXCEPT !.pc = "nil", !.rest = <<>>]
            ELSE IF k < Len(rest) THEN GoOn(e, child, After(rest, k))
            ELSE PcreEndStep(tree, regexes, e, child)
  BY <1>1, <1>2 DEF PcreWalkStep
<1> HIDE DEF new
<1>4. ASSUME NEW j \in 1..Len(edges), NEW l
      PROVE  PcreCrosses(edges[j], rest, l) <=> Crosses(edges[j], rest, l)
  <2>1. ~HasSlug(edges[j].pattern)
    BY <1>1 DEF LiteralsOnly
  <2> QED BY <2>1, OneSlugOnly DEF PcreCrosses, Crosses
<1>5. ASSUME NEW j \in 1..Len(edges), NEW l, PcreCrosses(edges[j], rest, l)
      PROVE  j = i /\ l = k
  <2>1. Crosses(edges[j], rest, l) /\ ~HasSlug(edges[j].pattern)
    BY <1>1, <1>4, <1>5 DEF LiteralsOnly
  <2>2. i = j
    BY <1>1, <2>1, LiteralEdgeCrosses
  <2>3. l = Len(edges[j].pattern)
    BY <2>1 DEF Crosses
  <2> HIDE DEF i, edges
  <2>4. l = k
    BY <2>2, <2>3
  <2> HIDE DEF k
  <2> QED BY <2>2, <2>4
<1>6. CASE i = 0
  <2>1. new.pc = "nil"
    BY <1>3, <1>6 DEF EntryIn
  <2>2. \A j \in 1..Len(edges) : \A l : ~PcreCrosses(edges[j], rest, l)
    <3> SUFFICES ASSUME NEW j \in 1..Len(edges), NEW l, PcreCrosses(edges[j], rest, l)
                 PROVE  FALSE
      OBVIOUS
    <3>1. j = i
      BY <1>5
    <3> HIDE DEF i
    <3> QED BY <3>1, <1>1, <1>6
  <2> QED BY <2>1, <2>2 DEF PcreOutcome, new
<1>7. CASE i # 0
  <2>1. i \in 1..Len(edges) /\ Crosses(edges[i], rest, k)
    BY <1>1, <1>7, LiteralEdgeCrosses
  <2>2. k \in 1..Len(rest)
    BY <2>1 DEF Crosses
  <2>3. child \in 1..Len(tree)
    <3> HIDE DEF i
    <3> QED BY <1>1, <2>1, EdgeDown
  <2>4. PcreCrosses(edges[i], rest, k)
    <3> HIDE DEF i, k
    <3> QED BY <1>4, <2>1
  <2>5. PcreEndStep(tree, regexes, e, child) = Arrive(tree, e, child)
    <3>1. Compilable(regexes[child])
      BY <2>3 DEF PcreClearTree, AllCompilable
    <3>2. PcreEndStep(tree, regexes, e, child) = EndStep(tree, e, child)
      <4> HIDE DEF child
      <4> QED BY <1>1, <2>3, <3>1, PcreEndStepSame
    <3>3. OpcodeEdge(tree[child], <<>>) = 0
      <4> HIDE DEF child
      <4> QED BY <2>3, PcreNoOpcodeAtEnd
    <3> HIDE DEF child
    <3> QED BY <3>2, <3>3 DEF EndStep
  <2>6. Goes(tree, e, new, child, k)
    <3> HIDE DEF i, k, child
    <3>1. new = IF k < Len(rest) THEN GoOn(e, child, After(rest, k))
                ELSE Arrive(tree, e, child)
      BY <1>3, <1>7, <2>5
    <3> QED BY <3>1, <1>1, <2>2, <2>3, CrossedGoes
  <2>7. \A j \in 1..Len(edges) : \A l : PcreCrosses(edges[j], rest, l) => j = i /\ l <= k
    <3> HIDE DEF k, i
    <3>1. k <= k
      BY <2>2
    <3> QED BY <3>1, <1>5
  <2> HIDE DEF i, k
  <2> QED BY <2>1, <2>2, <2>4, <2>6, <2>7 DEF PcreOutcome, new
<1> QED BY <1>6, <1>7

\* A node with an edge of one slug: whichever way the call has taken, by opcode
\* or by regular expression, if the slug takes the longest text it can.
LEMMA PcreLongestStep ==
    ASSUME NEW tree, NEW sp, NEW regexes, PcreClearTree(tree, sp, regexes),
           NEW e \in EntryIn(Len(tree)), e.pc = "walk",
           NEW s, PcreAlone(tree, regexes, e.node, s), NEW l,
           Longest(tree[e.node].edges[1].pattern, s, e.rest, l),
           NEW f \in EntryIn(Len(tree)), f.pc = "walk", NEW new,
           new = LET edge == tree[e.node].edges[1]
                     k == WholeLength(edge.pattern, l)
                 IN IF k < Len(e.rest) THEN GoOn(f, edge.child, After(e.rest, k))
                    ELSE Arrive(tree, f, edge.child)
    PROVE  PcreOutcome(tree, e, new)
<1> DEFINE n == e.node
           rest == e.rest
           edges == tree[n].edges
           pattern == edges[1].pattern
           child == edges[1].child
           k == WholeLength(pattern, l)
<1>1. /\ Shape(tree, sp) /\ SlugsTakeText /\ n \in 1..Len(tree)
      /\ rest \in Seq(Literals) /\ Len(rest) \in Nat
      /\ Len(edges) = 1 /\ OneSlug(pattern, s) /\ pattern[s] \notin BadSlugs
  BY LenProperties DEF PcreClearTree, EntryIn, PcreAlone
<1>2. child \in 1..Len(tree) /\ Len(pattern) \in Nat \ {0}
  <2>1. 1 \in 1..Len(edges)
    BY <1>1
  <2> QED BY <2>1, <1>1, EdgeDown
<1>3. Matches(pattern, s, rest, l) /\ \A j : Matches(pattern, s, rest, j) => j <= l
  BY DEF Longest
<1>4. l \in Nat /\ k \in 1..Len(rest)
  <2>1. l \in Nat /\ l > 0 /\ k \in 0..Len(rest)
    BY <1>1, <1>3, MatchLengths, MatchedText
  <2> HIDE DEF pattern
  <2>2. k >= 1
    BY <2>1, <1>2 DEF WholeLength
  <2> HIDE DEF k
  <2> QED BY <2>1, <2>2
<1>5. PcreCrosses(edges[1], rest, k)
  <2> HIDE DEF rest
  <2> QED BY <1>1, <1>3, <1>4 DEF PcreCrosses
<1>6. ASSUME NEW j \in 1..Len(edges), NEW x, PcreCrosses(edges[j], rest, x)
      PROVE  j = 1 /\ x <= k
  <2>1. j = 1
    BY <1>1
  <2>2. PICK y : Matches(pattern, s, rest, y) /\ x = WholeLength(pattern, y)
    <3>1. HasSlug(pattern) /\ \A t : OneSlug(pattern, t) => t = s
      BY <1>1, OneSlugOnly
    <3> QED BY <2>1, <3>1, <1>6 DEF PcreCrosses
  <2>3. y \in Nat /\ y <= l
    BY <2>2, <1>1, <1>3, MatchLengths
  <2> HIDE DEF pattern
  <2>4. x <= k
    BY <2>2, <2>3, <1>2, <1>4 DEF WholeLength
  <2> QED BY <2>1, <2>4
<1>7. Goes(tree, e, new, child, k)
  <2>1. new = IF k < Len(rest) THEN GoOn(f, child, After(rest, k))
              ELSE Arrive(tree, f, child)
    OBVIOUS
  <2> HIDE DEF child, k
  <2> QED BY <2>1, <1>1, <1>2, <1>4, CrossedGoes
<1>8. 1 \in 1..Len(edges)
  BY <1>1
<1> HIDE DEF k
<1> QED BY <1>4, <1>5, <1>6, <1>7, <1>8 DEF PcreOutcome

\* A node with an edge of one slug that is compared by its opcode, ...
LEMMA PcreRunStep ==
    ASSUME NEW tree, NEW sp, NEW regexes, PcreClearTree(tree, sp, regexes),
           NEW e \in EntryIn(Len(tree)), e.pc = "walk",
           NEW s, PcreAlone(tree, regexes, e.node, s),
           OpcodeEdge(tree[e.node], e.rest) # 0
    PROVE  PcreOutcome(tree, e, PcreWalkStep(tree, regexes, e))
<1> DEFINE n == e.node
           rest == e.rest
           edges == tree[n].edges
           pattern == edges[1].pattern
           child == edges[1].child
           i == OpcodeEdge(tree[n], rest)
           run == RunLength(edges[1].opcode, rest)
           taken == [e EXCEPT !.tokens = Append(@, Upto(rest, run))]
           new == PcreWalkStep(tree, regexes, e)
<1>1. /\ n \in 1..Len(tree) /\ rest \in Seq(Literals) /\ Len(rest) \in Nat
      /\ Len(edges) = 1 /\ OneSlug(pattern, s) /\ pattern[s] \notin BadSlugs
      /\ SlugOpcode[pattern[s]] # "GREEDY"
      /\ tree[n] \in Node /\ NodeSound(tree[n]) /\ SlugsTakeText
  <2>1. n \in 1..Len(tree) /\ rest \in Seq(Literals) /\ Len(rest) \in Nat
    BY LenProperties DEF EntryIn
  <2>2. tree[n] \in Node /\ NodeSound(tree[n]) /\ SlugsTakeText
    BY <2>1, ShapeOfNode DEF PcreClearTree, Sound
  <2> QED BY <2>1, <2>2 DEF PcreAlone
<1>2. /\ i \in 1..Len(edges)
      /\ \/ edges[i].opcode = "GREEDY"
         \/ RunLength(edges[i].opcode, rest) > 0
      /\ \E slug \in Slugs : /\ edges[i].pattern = <<slug>>
                             /\ edges[i].opcode = SlugOpcode[slug]
                             /\ SlugOpcode[slug] # "NONE"
  BY <1>1, OpcodeEdgeIsSlug
<1>3. i = 1
  <2>1. i \in 1..Len(edges) /\ Len(edges) = 1
    BY <1>1, <1>2
  <2> HIDE DEF i, edges
  <2> QED BY ONLY <2>1
<1>4. PICK slug \in Slugs : /\ pattern = <<slug>>
                            /\ edges[1].opcode = SlugOpcode[slug]
                            /\ SlugOpcode[slug] # "NONE"
  <2> HIDE DEF i
  <2> QED BY <1>2, <1>3
<1>5. s = 1 /\ pattern[s] = slug /\ Len(pattern) = 1
  <2>1. s \in 1..Len(<<slug>>)
    BY <1>1, <1>4 DEF OneSlug
  <2>2. s = 1
    BY <2>1
  <2> QED BY <2>2, <1>4
<1>6. run > 0
  <2> HIDE DEF i
  <2> QED BY <1>1, <1>2, <1>3, <1>4, <1>5
<1>7. Longest(pattern, s, rest, run)
  <2>1. /\ slug \in Slugs \ BadSlugs /\ OneSlug(<<slug>>, 1)
        /\ RunLength(SlugOpcode[slug], rest) > 0
    BY <1>1, <1>4, <1>5, <1>6
  <2>2. Longest(<<slug>>, 1, rest, RunLength(SlugOpcode[slug], rest))
    BY <2>1, <1>1, <1>4, RunIsLongest
  <2> QED BY <2>2, <1>4, <1>5
<1>8. run \in 0..Len(rest) /\ WholeLength(pattern, run) = run
  <2>1. run \in 0..Len(rest)
    BY <1>1, RunInText
  <2> HIDE DEF run
  <2> QED BY <2>1, <1>5 DEF WholeLength
<1>9. taken \in EntryIn(Len(tree)) /\ taken.pc = "walk"
  <2>1. Upto(rest, run) \in Seq(Literals)
    BY <1>1, <1>8, CutRest
  <2> HIDE DEF run
  <2> QED BY <2>1, TokenTaken
<1>10. new = IF run = Len(rest) THEN Arrive(tree, taken, child)
             ELSE GoOn(taken, child, After(rest, run))
  <2>1. new = OpcodeStep(tree, e, 1)
    BY <1>3 DEF PcreWalkStep
  <2> QED BY <2>1 DEF OpcodeStep
<1> HIDE DEF new, taken, run
<1>11. run < Len(rest) <=> run # Len(rest)
  BY <1>1, <1>8
<1>12. new = LET edge == tree[e.node].edges[1]
                 k == WholeLength(edge.pattern, run)
             IN IF k < Len(e.rest) THEN GoOn(taken, edge.child, After(e.rest, k))
                ELSE Arrive(tree, taken, edge.child)
  BY <1>8, <1>10, <1>11
<1>13. PcreOutcome(tree, e, new)
  BY <1>7, <1>9, <1>12, PcreLongestStep
<1> QED BY <1>13 DEF new

\* ... and one that is compared by the regular expression.
LEMMA PcreGroupStep ==
    ASSUME NEW tree, NEW sp, NEW regexes, PcreClearTree(tree, sp, regexes),
           NEW e \in EntryIn(Len(tree)), e.pc = "walk",
           NEW s, PcreAlone(tree, regexes, e.node, s),
           OpcodeEdge(tree[e.node], e.rest) = 0
    PROVE  PcreOutcome(tree, e, PcreWalkStep(tree, regexes, e))
<1> DEFINE n == e.node
           rest == e.rest
           edges == tree[n].edges
           pattern == edges[1].pattern
           child == edges[1].child
           match == PcreMatch(<<pattern>>, rest)
           new == PcreWalkStep(tree, regexes, e)
<1>1. /\ n \in 1..Len(tree) /\ rest \in Seq(Literals) /\ Len(rest) \in Nat
      /\ Len(edges) = 1 /\ OneSlug(pattern, s) /\ pattern[s] \notin BadSlugs
      /\ regexes[n] = <<pattern>> /\ SlugsTakeText
  BY LenProperties DEF PcreClearTree, PcreAlone, EntryIn
<1>2. new = PcreStep(tree, e, match)
  <2>1. <<pattern>> # NoRegex
    BY DEF NoRegex
  <2> QED BY <2>1, <1>1 DEF PcreWalkStep
<1> HIDE DEF new
<1>3. CASE match = NoMatch /\ \A l : ~Matches(pattern, s, rest, l)
  <2>1. new.pc = "nil"
    <3>1. new = [e EXCEPT !.pc = "nil", !.rest = <<>>]
      BY <1>2, <1>3 DEF PcreStep
    <3> QED BY <3>1 DEF EntryIn
  <2>2. \A j \in 1..Len(edges) : \A k : ~PcreCrosses(edges[j], rest, k)
    <3> SUFFICES ASSUME NEW j \in 1..Len(edges), NEW k, PcreCrosses(edges[j], rest, k)
                 PROVE  FALSE
      OBVIOUS
    <3>1. j = 1 /\ HasSlug(pattern) /\ \A t : OneSlug(pattern, t) => t = s
      BY <1>1, OneSlugOnly
    <3> QED BY <3>1, <1>3 DEF PcreCrosses
  <2> QED BY <2>1, <2>2 DEF PcreOutcome, new
<1>4. ASSUME NEW l, Longest(pattern, s, rest, l), match = Reported(pattern, s, rest, l)
      PROVE  PcreOutcome(tree, e, new)
  <2> DEFINE k == WholeLength(pattern, l)
             capture == SubSeq(rest, s, s + l - 1)
             taken == IF edges[1].has_slug
                      THEN [e EXCEPT !.tokens = Append(@, capture)] ELSE e
             left == After(rest, k)
  <2>1. /\ Matches(pattern, s, rest, l) /\ l \in Nat /\ l > 0 /\ k \in 0..Len(rest)
        /\ s - 1 + l \in 0..Len(rest) /\ s \in Nat \ {0}
    BY <1>1, <1>4, MatchLengths, MatchedText, AroundOneSlug DEF Longest
  <2>2. capture \in Seq(Literals) /\ capture # <<>>
    <3> DEFINE a == s + l - 1
    <3>1. a \in 0..Len(rest) /\ a - s + 1 = l /\ s <= a + 1
      BY <2>1, <1>1
    <3> HIDE DEF a
    <3>2. Len(SubSeq(rest, s, a)) = l
      BY <1>1, <2>1, <3>1
    <3>3. SubSeq(rest, s, a) \in Seq(Literals)
      <4>1. \A j \in s..a : rest[j] \in Literals
        BY <1>1, <2>1, <3>1
      <4> QED BY <4>1, <1>1, <2>1, <3>1, SubSeqProperties
    <3>4. SubSeq(rest, s, a) # <<>>
      <4> DEFINE text == SubSeq(rest, s, a)
      <4>1. Len(text) = l /\ l # 0 /\ Len(<<>>) = 0
        BY <3>2, <2>1
      <4> HIDE DEF text
      <4>2. text # <<>>
        BY <4>1
      <4> QED BY <4>2 DEF text
    <3> QED BY <3>3, <3>4 DEF a
  <2>3. /\ match.alternative = 1 /\ match.capture = capture /\ match.end = k
        /\ match # NoMatch
    <3>1. Reported(pattern, s, rest, l).alternative # NoMatch.alternative
      BY DEF Reported, NoMatch
    <3> HIDE DEF match
    <3>2. match # NoMatch
      BY <3>1, <1>4
    <3> QED BY <3>2, <1>4 DEF Reported
  <2>4. taken \in EntryIn(Len(tree)) /\ taken.pc = "walk"
    <3> HIDE DEF capture
    <3> QED BY <2>2, TokenTaken
  <2>5. left = <<>> <=> ~(k < Len(rest))
    <3> HIDE DEF k
    <3>1. left \in Seq(Literals) /\ Len(left) = Len(rest) - k
      BY <1>1, <2>1 DEF After
    <3> HIDE DEF left
    <3>2. left = <<>> <=> Len(left) = 0
      BY <3>1, EmptySeq
    <3>3. Len(rest) \in Nat /\ k \in Nat /\ k <= Len(rest)
      BY <1>1, <2>1
    <3>4. Len(left) = 0 <=> ~(k < Len(rest))
      BY <3>1, <3>3
    <3> QED BY <3>2, <3>4
  <2>6. new = IF left = <<>> THEN Arrive(tree, taken, child)
              ELSE GoOn(taken, child, left)
    <3> HIDE DEF match, capture, k
    <3> QED BY <1>2, <2>2, <2>3 DEF PcreStep
  <2> HIDE DEF taken
  <2>7. new = LET edge == tree[e.node].edges[1]
                  m == WholeLength(edge.pattern, l)
              IN IF m < Len(e.rest) THEN GoOn(taken, edge.child, After(e.rest, m))
                 ELSE Arrive(tree, taken, edge.child)
    BY <2>5, <2>6
  <2> QED BY <1>4, <2>4, <2>7, PcreLongestStep
<1>5. \/ match = NoMatch /\ \A l : ~Matches(pattern, s, rest, l)
      \/ \E l : /\ Longest(pattern, s, rest, l)
                /\ match = Reported(pattern, s, rest, l)
  BY <1>1, OneAlternative
<1> QED BY <1>3, <1>4, <1>5 DEF new

\* A call does that at every node.
LEMMA PcreClearStep ==
    ASSUME NEW tree, NEW sp, NEW regexes, PcreClearTree(tree, sp, regexes),
           NEW e \in EntryIn(Len(tree)), e.pc = "walk"
    PROVE  PcreOutcome(tree, e, PcreWalkStep(tree, regexes, e))
<1>1. e.node \in 1..Len(tree)
  BY DEF EntryIn
<1>2. \/ PcreLiterals(tree, regexes, e.node)
      \/ \E s : PcreAlone(tree, regexes, e.node, s)
  BY <1>1 DEF PcreClearTree, PcreClear
<1> QED BY <1>2, PcreLiteralStep, PcreRunStep, PcreGroupStep

\* A call crosses the one edge on the way, if there is one.
LEMMA PcreStays ==
    ASSUME NEW tree, NEW sp, NEW regexes, PcreClearTree(tree, sp, regexes),
           NEW n, NEW path, NEW cuts, Cuttable(PcreTaken, tree, sp, n, path, cuts),
           NEW e \in EntryIn(Len(tree)), e.pc = "walk", Remains(path, e.rest)
    PROVE  StaysOnWay(tree, sp, n, path, cuts, e, PcreWalkStep(tree, regexes, e))
<1> DEFINE m == e.node
           rest == e.rest
           edges == tree[m].edges
           new == PcreWalkStep(tree, regexes, e)
<1>1. /\ Shape(tree, sp) /\ Reached(tree, sp) /\ n \in 1..Len(tree)
      /\ path \in Seq(Literals) /\ Cut(PcreTaken, sp[n], path, cuts)
      /\ m \in 1..Len(tree) /\ rest \in Seq(Literals) /\ Remains(path, rest)
  BY DEF Cuttable, EntryIn
<1>2. sp[n] \in Seq(Token)
  BY <1>1, TextType
<1>3. PcreOutcome(tree, e, new)
  BY PcreClearStep
<1> HIDE DEF new
<1>4. ASSUME OnWay(sp, n, path, cuts, m, rest), rest # <<>>
      PROVE  \E c \in 1..Len(tree), k \in 1..Len(rest) :
                /\ Goes(tree, e, new, c, k)
                /\ OnWay(sp, n, path, cuts, c, After(rest, k))
  <2>1. Prefix(sp[m], sp[n]) /\ ToCut(path, cuts, Len(sp[m]), rest)
    BY <1>4 DEF OnWay
  <2>2. m # n
    BY <1>1, <1>2, <1>4, <2>1, CutEnds
  <2>3. PICK c \in 1..Len(tree) : Child(tree, m, c) /\ Prefix(sp[c], sp[n])
    BY <1>1, <2>1, <2>2 DEF Reached
  <2>4. PICK i \in 1..Len(edges) : edges[i].child = c
    BY <2>3 DEF Child
  <2>5. PICK k : /\ PcreCrosses(edges[i], rest, k)
                 /\ ToCut(path, cuts, Len(sp[c]), After(rest, k))
    <3>1. PcreEdgeSplits(tree, sp, path, cuts, m, i, rest)
      <4>1. Prefix(sp[tree[m].edges[i].child], sp[n])
        BY <2>3, <2>4
      <4> HIDE DEF m, rest
      <4> QED BY <4>1, <1>1, <1>2, PcreEdgeCut
    <3> QED BY <3>1, <2>1, <2>4 DEF PcreEdgeSplits
  <2>6. OnWay(sp, n, path, cuts, c, After(rest, k)) /\ k \in 1..Len(rest)
    BY <2>3, <2>5 DEF OnWay, PcreCrosses
  <2>7. PICK j \in 1..Len(edges), l \in 1..Len(rest) :
            /\ PcreCrosses(edges[j], rest, l)
            /\ \A y : PcreCrosses(edges[i], rest, y) => i = j /\ y <= l
            /\ Goes(tree, e, new, edges[j].child, l)
    BY <1>3, <2>5 DEF PcreOutcome
  <2>8. i = j /\ k <= l
    BY <2>5, <2>7
  <2>9. l <= k
    <3>1. /\ PcreCrosses(tree[m].edges[i], rest, k)
          /\ PcreCrosses(tree[m].edges[i], rest, l)
          /\ OnWay(sp, n, path, cuts, tree[m].edges[i].child, After(rest, k))
      BY <2>4, <2>5, <2>6, <2>7, <2>8
    <3> HIDE DEF m, rest
    <3> QED BY <3>1, <1>1, LongestOnWay
  <2>10. k = l
    BY <2>6, <2>8, <2>9
  <2> HIDE DEF m, rest, edges
  <2> QED BY <2>4, <2>6, <2>7, <2>8, <2>10
<1>5. ASSUME new.pc # "nil"
      PROVE  \E c \in 1..Len(tree), k \in 1..Len(rest) :
                /\ Goes(tree, e, new, c, k)
                /\ OnWay(sp, n, path, cuts, c, After(rest, k)) =>
                        OnWay(sp, n, path, cuts, m, rest)
  <2>1. PICK i \in 1..Len(edges), k \in 1..Len(rest) :
            /\ PcreCrosses(edges[i], rest, k)
            /\ Goes(tree, e, new, edges[i].child, k)
    BY <1>3, <1>5 DEF PcreOutcome
  <2> DEFINE c == edges[i].child
  <2>2. c \in 1..Len(tree)
    BY <1>1, EdgeDown
  <2>3. ASSUME OnWay(sp, n, path, cuts, c, After(rest, k))
        PROVE  OnWay(sp, n, path, cuts, m, rest)
    <3>1. Prefix(sp[c], sp[n]) /\ ToCut(path, cuts, Len(sp[c]), After(rest, k))
      BY <2>3 DEF OnWay
    <3>2. ToCut(path, cuts, Len(sp[m]), rest)
      <4>1. PcreEdgeSplits(tree, sp, path, cuts, m, i, rest)
        BY <1>1, <1>2, <3>1, PcreEdgeCut
      <4> QED BY <4>1, <2>1, <3>1 DEF PcreEdgeSplits
    <3>3. Continues(sp[m], edges[i].pattern, sp[c], sp[n])
      BY <1>1, <1>2, <3>1, ChildPattern
    <3> QED BY <3>2, <3>3 DEF Continues, OnWay
  <2> HIDE DEF m, rest
  <2> QED BY <2>1, <2>2, <2>3
<1> QED BY <1>4, <1>5 DEF StaysOnWay, new
-----------------------------------------------------------------------------
(* The answer of a tree without a choice                                   *)

\* FitsIf is the recursion it looks like also for what PCRE takes.
LEMMA PcreFitsUnfolds ==
    ASSUME NEW pattern, Len(pattern) \in Nat, NEW path \in Seq(Literals)
    PROVE  \E cuts : /\ Cut(PcreTaken, pattern, path, cuts)
                     /\ FitsIf(PcreTakes, pattern, path) <=> 0 \in cuts[1]
<1> DEFINE I == 1..Len(pattern)+1
           Body(f, i) ==
                IF i > Len(pattern) THEN {Len(path)}
                ELSE IF pattern[i] \in Slugs
                THEN {j \in 0..Len(path) : \E k \in j..Len(path) :
                        PcreTakes(pattern[i], SubSeq(path, j + 1, k)) /\ k \in f[i + 1]}
                ELSE {j \in 0..Len(path)-1 :
                        path[j + 1] = pattern[i] /\ j + 1 \in f[i + 1]}
           cuts == CHOOSE f : f = [i \in I |-> Body(f, i)]
<1>1. FitsIf(PcreTakes, pattern, path) <=> 0 \in cuts[1]
  BY DEF FitsIf
<1>2. Len(path) \in Nat
  BY LenProperties
<1>3. ASSUME NEW f
      PROVE  f = [i \in I |-> Body(f, i)] <=> CutsOf(PcreTaken, pattern, path, f)
  <2>1. ASSUME NEW i \in I, ~(i > Len(pattern)), pattern[i] \in Slugs,
               NEW j \in 0..Len(path), NEW k \in j..Len(path)
        PROVE  PcreTakes(pattern[i], SubSeq(path, j + 1, k))
                  <=> <<pattern[i], SubSeq(path, j + 1, k)>> \in PcreTaken
    <3>1. SubSeq(path, j + 1, k) \in Seq(Literals)
      BY <1>2
    <3> QED BY <3>1, <2>1 DEF PcreTaken
  <2>2. ASSUME NEW i \in I
        PROVE  Body(f, i) = IF i > Len(pattern) THEN {Len(path)}
                            ELSE CutAt(PcreTaken, pattern, path, i, f[i + 1])
    <3>1. CASE i > Len(pattern) \/ pattern[i] \notin Slugs
      BY <3>1 DEF CutAt
    <3>2. CASE ~(i > Len(pattern)) /\ pattern[i] \in Slugs
      BY <3>2, <2>1 DEF CutAt
    <3> QED BY <3>1, <3>2
  <2> HIDE DEF Body
  <2>3. [i \in I |-> Body(f, i)] =
            [i \in I |-> IF i > Len(pattern) THEN {Len(path)}
                         ELSE CutAt(PcreTaken, pattern, path, i, f[i + 1])]
    BY <2>2
  <2> QED BY <2>3 DEF CutsOf
<1>4. Cut(PcreTaken, pattern, path, cuts)
  <2> HIDE DEF I, Body
  <2>1. \E f : f = [i \in I |-> Body(f, i)]
    BY <1>2, <1>3, CutsExist
  <2>2. cuts = [i \in I |-> Body(cuts, i)]
    BY <2>1, Zenon
  <2> HIDE DEF cuts
  <2> QED BY <1>2, <1>3, <2>2, CutsExist
<1> QED BY <1>1, <1>4

\* The text of every node cuts the path at certain places.
LEMMA PcreIsCuttable ==
    ASSUME NEW tree, NEW sp, NEW regexes, PcreClearTree(tree, sp, regexes),
           NEW request, Askable(request), NEW n \in 1..Len(tree)
    PROVE  \E cuts : /\ Cuttable(PcreTaken, tree, sp, n, request.path, cuts)
                     /\ FitsIf(PcreTakes, sp[n], request.path) <=> 0 \in cuts[1]
<1>1. Len(sp[n]) \in Nat /\ request.path \in Seq(Literals)
  BY TextType, LenProperties DEF PcreClearTree, Askable
<1>2. PICK cuts : /\ Cut(PcreTaken, sp[n], request.path, cuts)
                  /\ FitsIf(PcreTakes, sp[n], request.path) <=> 0 \in cuts[1]
  BY <1>1, PcreFitsUnfolds
<1>3. NeverEmpty(PcreTaken, tree)
  BY PcreNeverEmpty
<1>4. Cuttable(PcreTaken, tree, sp, n, request.path, cuts)
  BY <1>1, <1>2, <1>3 DEF Cuttable, PcreClearTree
<1> QED BY <1>2, <1>4

\* One step of a match in this build.
PcreAdvance(tree, regexes, e) ==
    CASE e.pc = "walk" -> PcreWalkStep(tree, regexes, e)
      [] e.pc = "node" -> RouteStep(tree, e)
      [] OTHER -> e

\* What a match can have come to.
PcreUnderway(tree, request, e) ==
    /\ e \in EntryIn(Len(tree))
    /\ e.path = request.path /\ e.method = request.method
    /\ e.pc = "walk" => Unrouted(e)
    /\ e.pc = "route" => FirstRoute(tree, e)

\* It stays an entry for the request.
LEMMA PcreAdvanceUnderway ==
    ASSUME NEW tree, NEW sp, NEW regexes, Shape(tree, sp), Regexes(tree, regexes),
           NEW request, NEW e, PcreUnderway(tree, request, e)
    PROVE  PcreUnderway(tree, request, PcreAdvance(tree, regexes, e))
<1> DEFINE new == PcreAdvance(tree, regexes, e)
<1>1. /\ e \in EntryIn(Len(tree))
      /\ e.path = request.path /\ e.method = request.method
  BY DEF PcreUnderway
<1>2. CASE e.pc = "walk"
  <2>1. new = PcreWalkStep(tree, regexes, e)
    BY <1>2 DEF PcreAdvance
  <2>2. Unrouted(e) /\ {"pc", "path", "method"} \subseteq DOMAIN e
    BY <1>1, <1>2 DEF PcreUnderway, EntryIn
  <2>3. /\ new \in EntryIn(Len(tree)) /\ Unrouted(new)
        /\ new.pc # "route" /\ new.path = e.path /\ new.method = e.method
    BY <2>1, <2>2, <1>1, <1>2, PcreWalkStepEntry, PcreWalkKeeps
  <2> QED BY <2>3, <1>1 DEF PcreUnderway
<1>3. CASE e.pc = "node"
  <2>1. new = RouteStep(tree, e)
    BY <1>3 DEF PcreAdvance
  <2> DEFINE routed == RouteStep(tree, e)
  <2>2. /\ routed \in EntryIn(Len(tree)) /\ routed.pc \in {"route", "nil"}
        /\ routed.path = e.path /\ routed.method = e.method
        /\ routed.pc = "route" => FirstRoute(tree, routed)
    BY <1>1, RouteStepEntry, RouteStepPicks
  <2> HIDE DEF routed
  <2>3. PcreUnderway(tree, request, routed)
    BY <2>2, <1>1 DEF PcreUnderway
  <2> QED BY <2>1, <2>3 DEF routed
<1>4. CASE e.pc \notin {"walk", "node"}
  BY <1>4 DEF PcreAdvance
<1> QED BY <1>2, <1>3, <1>4

\* The entries of a match, from its first call on.
PcreRuns(tree, regexes, request, run) ==
    /\ run[0] = NewEntry(request)
    /\ \A k \in Nat : run[k + 1] = PcreAdvance(tree, regexes, run[k])
    /\ \A k \in Nat : PcreUnderway(tree, request, run[k])

\* The end of a match tells whether it is answered.
LEMMA PcreAnswerRuns ==
    ASSUME PcreClearTree(nodes, spell, regex), NEW request, Askable(request)
    PROVE  \E run : /\ PcreRuns(nodes, regex, request, run)
                    /\ PcreAnswered(request) <=> run[Len(nodes) + 1].pc = "route"
<1> DEFINE first == NewEntry(request)
           S == {e \in EntryIn(Len(nodes)) : PcreUnderway(nodes, request, e)}
           F == [x \in Nat \X S |-> PcreAdvance(nodes, regex, x[2])]
           Run(f) == f = [k \in Nat |-> IF k = 0 THEN first
                                        ELSE PcreAdvance(nodes, regex, f[k-1])]
           run == CHOOSE f : Run(f)
<1>0. Shape(nodes, spell) /\ Regexes(nodes, regex)
  BY DEF PcreClearTree
<1>1. first \in S
  <2>1. /\ first \in EntryIn(Len(nodes)) /\ Unrouted(first) /\ first.pc = "walk"
        /\ first.path = request.path /\ first.method = request.method
    BY <1>0, NewEntryFits, NewEntryConsumes
  <2> QED BY <2>1 DEF PcreUnderway
<1>2. \A e \in S : PcreAdvance(nodes, regex, e) \in S
  <2> TAKE e \in S
  <2>1. PcreUnderway(nodes, request, PcreAdvance(nodes, regex, e))
    BY <1>0, PcreAdvanceUnderway
  <2> QED BY <2>1 DEF PcreUnderway
<1>3. PcreAnswered(request) <=> run[Len(nodes) + 1].pc = "route"
  BY DEF PcreAnswered, PcreAdvance
<1> HIDE DEF first, S
<1>4. F \in [Nat \X S -> S]
  BY <1>2
<1>5. PICK g : Iterates(g, S, first, F)
  BY <1>1, <1>4, Iteration
<1>6. /\ g \in [Nat -> S] /\ g[0] = first
      /\ \A n \in Nat : g[n+1] = PcreAdvance(nodes, regex, g[n])
  BY <1>5 DEF Iterates
<1>7. Run(g)
  <2>1. ASSUME NEW k \in Nat
        PROVE  g[k] = IF k = 0 THEN first ELSE PcreAdvance(nodes, regex, g[k-1])
    <3>1. CASE k = 0
      BY <3>1, <1>6
    <3>2. CASE k # 0
      <4>1. k - 1 \in Nat /\ (k - 1) + 1 = k
        BY <3>2
      <4> QED BY <4>1, <3>2, <1>6
    <3> QED BY <3>1, <3>2
  <2>2. g = [k \in Nat |-> g[k]]
    BY <1>6
  <2> QED BY <2>1, <2>2
<1>8. Run(run)
  <2> HIDE DEF Run
  <2> QED BY <1>7, Zenon
<1> HIDE DEF run
<1>9. /\ run[0] = first
      /\ \A n \in Nat : run[n+1] = PcreAdvance(nodes, regex, run[n])
  <2>1. \A k \in Nat : run[k] = IF k = 0 THEN first
                                ELSE PcreAdvance(nodes, regex, run[k-1])
    BY <1>8, Zenon
  <2> QED BY <2>1
<1> DEFINE T == {k \in Nat : run[k] \in S}
<1>10. Nat \subseteq T
  <2>1. 0 \in T /\ \A n \in Nat : n \in T => n + 1 \in T
    BY <1>1, <1>2, <1>9
  <2> HIDE DEF T
  <2> QED BY <2>1, AllNaturals
<1>11. \A k \in Nat : PcreUnderway(nodes, request, run[k])
  BY <1>10 DEF S
<1>12. PcreRuns(nodes, regex, request, run)
  BY <1>9, <1>11 DEF PcreRuns, first
<1> QED BY <1>3, <1>12

\* The walk of a match comes to a longer text with every call in this build, too.
LEMMA PcreRunLengthens ==
    ASSUME NEW tree, NEW sp, NEW regexes, Shape(tree, sp), Regexes(tree, regexes),
           NEW request, NEW run, PcreRuns(tree, regexes, request, run)
    PROVE  Lengthens(tree, sp, run)
<1> SUFFICES ASSUME NEW k \in Nat
             PROVE  /\ run[k].node \in 1..Len(tree)
                    /\ run[k + 1].pc = "walk" =>
                        /\ run[k].pc = "walk"
                        /\ Len(sp[run[k + 1].node]) > Len(sp[run[k].node])
  BY DEF Lengthens
<1> DEFINE e == run[k]
           new == PcreAdvance(tree, regexes, e)
<1>1. PcreUnderway(tree, request, e) /\ run[k + 1] = new
  BY DEF PcreRuns
<1> HIDE DEF e
<1>2. e \in EntryIn(Len(tree))
  BY <1>1 DEF PcreUnderway
<1>3. ASSUME new.pc = "walk"
      PROVE  e.pc = "walk"
  <2>1. CASE e.pc = "node"
    <3>1. new = RouteStep(tree, e)
      BY <2>1 DEF PcreAdvance
    <3>2. RouteStep(tree, e).pc \in {"route", "nil"}
      BY <1>2, <2>1, RouteStepEntry
    <3> QED BY <1>3, <3>1, <3>2
  <2>2. CASE e.pc \notin {"walk", "node"}
    BY <1>3, <2>2 DEF PcreAdvance
  <2> QED BY <2>1, <2>2
<1>4. ASSUME e.pc = "walk"
      PROVE  Deepens(sp, e, new)
  <2>1. Unrouted(e) /\ new = PcreWalkStep(tree, regexes, e)
    BY <1>1, <1>4 DEF PcreUnderway, PcreAdvance
  <2> HIDE DEF new
  <2> QED BY <2>1, <1>2, <1>4, PcreWalkStepEntry
<1> HIDE DEF new
<1>5. e.node \in 1..Len(tree)
  BY <1>2 DEF EntryIn
<1> QED BY <1>1, <1>3, <1>4, <1>5 DEF e, Deepens

\* All calls of a match are on the tree it began on.
LEMMA PcreMatching ==
    ASSUME NEW tree, NEW sp, NEW regexes, PcreClearTree(tree, sp, regexes),
           NEW request, NEW run, PcreRuns(tree, regexes, request, run),
           NEW n, NEW cuts, Cuttable(PcreTaken, tree, sp, n, request.path, cuts)
    PROVE  Matching(tree, sp, n, cuts, request, run)
<1>1. Shape(tree, sp)
  BY DEF PcreClearTree
<1>2. ASSUME NEW k \in Nat
      PROVE  Proceeds(tree, sp, n, request.path, cuts, request, run[k], run[k + 1])
  <2> DEFINE e == run[k]
             new == PcreAdvance(tree, regexes, e)
  <2>1. PcreUnderway(tree, request, e) /\ run[k + 1] = new
    BY DEF PcreRuns
  <2> HIDE DEF e
  <2>2. /\ e \in EntryIn(Len(tree)) /\ e.method = request.method
        /\ e.pc = "route" => FirstRoute(tree, e)
    BY <2>1 DEF PcreUnderway
  <2>3. ASSUME e.pc = "walk", Remains(request.path, e.rest)
        PROVE  StaysOnWay(tree, sp, n, request.path, cuts, e, new)
    <3>1. new = PcreWalkStep(tree, regexes, e)
      BY <2>3 DEF PcreAdvance
    <3>2. StaysOnWay(tree, sp, n, request.path, cuts, e,
                     PcreWalkStep(tree, regexes, e))
      BY <2>2, <2>3, PcreStays
    <3> QED BY <3>1, <3>2
  <2>4. ASSUME e.pc # "walk"
        PROVE  Picks(tree, request, e, new)
    <3>1. new = Advance(tree, e)
      BY <2>4 DEF PcreAdvance, Advance
    <3>2. Picks(tree, request, e, Advance(tree, e))
      BY <1>1, <2>2, <2>4, RoutePicked
    <3> QED BY <3>1, <3>2
  <2>5. Proceeds(tree, sp, n, request.path, cuts, request, e, new)
    BY <2>2, <2>3, <2>4 DEF Proceeds
  <2> QED BY <2>1, <2>5 DEF e
<1>3. run[0] = NewEntry(request)
  BY DEF PcreRuns
<1> QED BY <1>2, <1>3 DEF Matching

\* A route of node n is meant for the request.
PcreMeantAt(tree, sp, n, request) ==
    /\ FitsIf(PcreTakes, sp[n], request.path)
    /\ HasRoute(tree, n, request)

\* A request a route is meant for is answered ...
LEMMA PcreMeantAnswered ==
    ASSUME PcreClearTree(nodes, spell, regex),
           NEW request, Askable(request), request.path # <<>>,
           NEW n \in 1..Len(nodes), PcreMeantAt(nodes, spell, n, request)
    PROVE  PcreAnswered(request)
<1>1. /\ Shape(nodes, spell) /\ Sound(nodes) /\ Regexes(nodes, regex)
      /\ Len(nodes) \in Nat
  BY LenProperties DEF PcreClearTree, Shape
<1>2. PICK run : /\ PcreRuns(nodes, regex, request, run)
                 /\ PcreAnswered(request) <=> run[Len(nodes) + 1].pc = "route"
  BY PcreAnswerRuns
<1>3. PICK cuts : /\ Cuttable(PcreTaken, nodes, spell, n, request.path, cuts)
                  /\ 0 \in cuts[1]
  BY PcreIsCuttable DEF PcreMeantAt
<1>4. Matching(nodes, spell, n, cuts, request, run)
  BY <1>2, <1>3, PcreMatching
<1>5. run[Len(nodes)].pc # "walk"
  BY <1>1, <1>2, PcreRunLengthens, WalkEnds
<1>6. HasRoute(nodes, n, request)
  BY DEF PcreMeantAt
<1>7. run[Len(nodes) + 1].pc = "route"
  <2>1. RouteComesNext(run, Len(nodes))
    BY <1>1, <1>3, <1>4, <1>6, MatchArrives
  <2> QED BY <1>5, <2>1 DEF RouteComesNext
<1> QED BY <1>2, <1>7

\* ... and a request is answered only if a route is meant for it, ...
LEMMA PcreAnsweredMeant ==
    ASSUME PcreClearTree(nodes, spell, regex),
           NEW request, Askable(request), PcreAnswered(request)
    PROVE  \E n \in 1..Len(nodes) : PcreMeantAt(nodes, spell, n, request)
<1>1. PICK run : /\ PcreRuns(nodes, regex, request, run)
                 /\ PcreAnswered(request) <=> run[Len(nodes) + 1].pc = "route"
  BY PcreAnswerRuns
<1> DEFINE last == Len(nodes) + 1
           answer == run[last]
           n == answer.node
<1>2. last \in Nat /\ answer.pc = "route" /\ PcreUnderway(nodes, request, answer)
  BY <1>1, LenProperties DEF PcreClearTree, Shape, PcreRuns
<1>3. n \in 1..Len(nodes) /\ FirstRoute(nodes, answer)
      /\ answer.method = request.method
  BY <1>2 DEF PcreUnderway, EntryIn
<1>4. PICK cuts : /\ Cuttable(PcreTaken, nodes, spell, n, request.path, cuts)
                  /\ FitsIf(PcreTakes, spell[n], request.path) <=> 0 \in cuts[1]
  BY <1>3, PcreIsCuttable
<1>5. Matching(nodes, spell, n, cuts, request, run)
  BY <1>1, <1>4, PcreMatching
<1>6. FitsIf(PcreTakes, spell[n], request.path)
  <2>1. run[last].pc = "route" /\ run[last].node = n
    BY <1>2
  <2> HIDE DEF n, last
  <2>2. 0 \in cuts[1]
    BY <1>2, <1>4, <1>5, <2>1, MatchCame
  <2> QED BY <1>4, <2>2
<1>7. HasRoute(nodes, n, request)
  BY <1>3 DEF FirstRoute, HasRoute
<1> HIDE DEF n
<1> QED BY <1>3, <1>6, <1>7 DEF PcreMeantAt

\* ... never the request for the empty path.
LEMMA PcreEmptyUnanswered ==
    ASSUME PcreClearTree(nodes, spell, regex),
           NEW request, Askable(request), request.path = <<>>
    PROVE  ~PcreAnswered(request)
<1>1. PICK run : /\ PcreRuns(nodes, regex, request, run)
                 /\ PcreAnswered(request) <=> run[Len(nodes) + 1].pc = "route"
  BY PcreAnswerRuns
<1>2. Root \in 1..Len(nodes) /\ Len(nodes) + 1 \in Nat
  BY LenProperties DEF PcreClearTree, Shape, Root
<1>3. PICK cuts : Cuttable(PcreTaken, nodes, spell, Root, request.path, cuts)
  BY <1>2, PcreIsCuttable
<1>4. Matching(nodes, spell, Root, cuts, request, run)
  BY <1>1, <1>3, PcreMatching
<1>5. run[Len(nodes) + 1].pc # "route"
  BY <1>2, <1>4, EmptyLost
<1> QED BY <1>1, <1>5

\* PcreUnambiguous says of a tree that it leaves no choice.
LEMMA UnambiguousIsClear ==
    ASSUME PcreReplyInv, PcreUnambiguous
    PROVE  PcreClearTree(nodes, spell, regex)
<1>1. /\ Shape(nodes, spell) /\ Sound(nodes) /\ Reached(nodes, spell)
      /\ Regexes(nodes, regex) /\ AllCompilable(nodes, regex) /\ SlugsTakeText
  BY DEF PcreReplyInv, PcreInv, MatchInv, IInv, Whole
<1>2. ASSUME NEW n \in 1..Len(nodes)
      PROVE  PcreLiterals(nodes, regex, n) \/ \E s : PcreAlone(nodes, regex, n, s)
  <2>1. CASE regex[n] = NoRegex /\ ~HasSlugEdges(nodes[n])
    <3>1. \A i \in 1..Len(nodes[n].edges) : ~HasSlug(nodes[n].edges[i].pattern)
      BY <2>1 DEF HasSlugEdges
    <3>2. ClearNode(nodes, n)
      BY <3>1 DEF ClearNode
    <3>3. ASSUME NEW slug \in Slugs, SlugAlone(nodes, n, slug)
          PROVE  FALSE
      <4>1. Len(nodes[n].edges) = 1 /\ nodes[n].edges[1].pattern = <<slug>>
        BY <3>3 DEF SlugAlone
      <4>2. 1 \in 1..Len(nodes[n].edges)
        BY <4>1
      <4> QED BY <3>1, <4>1, <4>2, SlugHasSlug
    <3> QED BY <1>1, <2>1, <3>2, <3>3, ClearCases DEF PcreLiterals
  <2>2. ASSUME NEW edge \in Range(nodes[n].edges), NEW s \in 1..Len(edge.pattern),
               nodes[n].edges = <<edge>>, regex[n] = <<edge.pattern>>,
               SlugPositions(edge.pattern) = {s},
               SlugOpcode[edge.pattern[s]] # "GREEDY",
               PcreFollow(nodes, edge, s)
                    \subseteq Literals \ PcreAccepts(edge.pattern[s])
        PROVE  PcreAlone(nodes, regex, n, s)
    <3>1. Len(nodes[n].edges) = 1 /\ nodes[n].edges[1] = edge
      BY <2>2
    <3>2. edge.pattern \in Seq(Token)
      <4>1. nodes[n].edges \in Seq(Edge)
        BY <1>1, ShapeOfNode DEF Node
      <4>2. nodes[n].edges[1] \in Edge
        BY <3>1, <4>1
      <4> QED BY <3>1, <4>2 DEF Edge
    <3>3. OneSlug(edge.pattern, s)
      BY <2>2, <3>2 DEF OneSlug
    <3>4. edge.pattern[s] \notin BadSlugs
      <4>1. Compilable(<<edge.pattern>>)
        BY <1>1, <2>2 DEF AllCompilable
      <4> DEFINE pattern == edge.pattern
      <4>2. 1 \in 1..Len(<<pattern>>) /\ <<pattern>>[1] = pattern
        OBVIOUS
      <4> HIDE DEF pattern
      <4> QED BY <4>1, <4>2, <2>2 DEF Compilable, pattern
    <3> QED BY <2>2, <3>1, <3>3, <3>4 DEF PcreAlone
  <2>3. \/ regex[n] = NoRegex /\ ~HasSlugEdges(nodes[n])
        \/ \E edge \in Range(nodes[n].edges) : \E s \in 1..Len(edge.pattern) :
            /\ nodes[n].edges = <<edge>> /\ regex[n] = <<edge.pattern>>
            /\ SlugPositions(edge.pattern) = {s}
            /\ SlugOpcode[edge.pattern[s]] # "GREEDY"
            /\ PcreFollow(nodes, edge, s)
                    \subseteq Literals \ PcreAccepts(edge.pattern[s])
    BY DEF PcreUnambiguous, PcreFollow, PcreAccepts, NodeIds
  <2> QED BY <2>1, <2>2, <2>3
<1> QED BY <1>1, <1>2 DEF PcreClearTree, PcreClear

-----------------------------------------------------------------------------
(* Theorems                                                                *)

\* Type correctness: a node has at most as many alternatives as edges, so that
\* the number of a group that has matched is always the number of an edge.
THEOREM PcreTypeCorrect == PcreSpec => []PcreTypeOK
<1>1. PcreInv => PcreTypeOK
  <2> SUFFICES ASSUME PcreInv
               PROVE  PcreTypeOK
    OBVIOUS
  <2>1. MatchTypeOK
    BY IInvMeaning DEF PcreInv, MatchInv, MatchTypeOK, EntryIn, NodeIds
  <2> QED BY <2>1 DEF PcreTypeOK, PcreInv, Regexes, Alternatives,
                      NodeAlternatives, NodeIds
<1> QED BY <1>1, PcreInvariance, PTL

\* Each call goes to a node with a longer text also where a regular expression
\* sends a match down an edge that was split since.
THEOREM PcreCallsDeepen == PcreSpec => PcreWalkDeepens
<1> DEFINE Step == entry.pc = "walk" /\ entry'.pc = "walk" =>
                        Len(spell[entry'.node]) > Len(spell[entry.node])
<1>1. PcreInv /\ [PcreNext]_pcreVars => [Step]_pcreVars
  <2> SUFFICES ASSUME PcreInv, PcreNext, entry.pc = "walk", entry'.pc = "walk"
               PROVE  Len(spell[entry'.node]) > Len(spell[entry.node])
    OBVIOUS
  <2>1. NoEntry.pc = "none"
    BY DEF NoEntry
  <2>2. PcreWalks
    BY <2>1 DEF PcreNext, PcreAdds, PcreCompile, PcreStarts, StartMatch,
                MatchIdle, PcreReturns, MatchRoutes, EndMatch
  <2>3. /\ Shape(nodes, spell) /\ entry \in EntryIn(Len(nodes)) /\ Unrouted(entry)
        /\ Regexes(nodes, regex) /\ entry' = PcreWalkStep(nodes, regex, entry)
    BY <2>2 DEF PcreWalks, PcreInv, MatchInv, IInv
  <2>4. Deepens(spell, entry, entry')
    BY <2>3, PcreWalkStepEntry
  <2> QED BY <2>4 DEF Deepens
<1> QED BY <1>1, PcreInvariance, PTL DEF PcreSpec, PcreWalkDeepens

\* If no slug takes the empty text, the group that has matched leads to the
\* right edge in every tree whose regular expressions are not out of date: also
\* where edges were added since, and where a compilation failed half-way.
THEOREM PcreReplyIsMeant == SlugsTakeText /\ PcreSpec => []PcreReplyFits
<1>1. PcreReplyInv => PcreReplyFits
  <2> SUFFICES ASSUME PcreReplyInv, entry.pc = "route",
                      \A n \in NodeIds : ~OutOfDate(n)
               PROVE  LET route == nodes[entry.node].routes[entry.route] IN
                      /\ MethodFits(route.method, entry.method)
                      /\ Len(entry.tokens) >= Len(route.slugs)
                      /\ \A i \in 1..Len(route.slugs) :
                            PcreTakes(route.slugs[i], entry.tokens[i])
                      /\ Filled(spell[entry.node], entry.tokens) = entry.path
    BY DEF PcreReplyFits, ReplyIsRight
  <2> DEFINE route == nodes[entry.node].routes[entry.route]
             slugs == SlugsOf(spell[entry.node])
  <2>1. AllCurrent(nodes, regex)
    <3> SUFFICES ASSUME NEW n \in 1..Len(nodes)
                 PROVE  Current(nodes[n].edges, regex[n])
      BY DEF AllCurrent
    <3>1. UpToDate(n) \/ (compiled /\ HasSlugEdges(nodes[n]))
      BY DEF OutOfDate, NodeIds
    <3> QED BY <3>1 DEF PcreReplyInv, Recompiled, UpToDate, Current
  <2>2. /\ Shape(nodes, spell) /\ entry \in EntryIn(Len(nodes))
        /\ Found(PcreTaken, spell, entry)
        /\ entry.route \in 1..Len(nodes[entry.node].routes)
        /\ MethodFits(route.method, entry.method)
    BY <2>1 DEF PcreReplyInv, EntryFits, RouteFits, FirstRoute, PcreInv, MatchInv, IInv
  <2>3. entry.node \in 1..Len(nodes)
    BY <2>2 DEF EntryIn
  <2>4. route.slugs = slugs
    <3>1. Spells(nodes[entry.node], spell[entry.node], spell)
      BY <2>2, <2>3, ShapeOfNode
    <3> QED BY <3>1, <2>2 DEF Spells
  <2>5. Len(slugs) \in Nat /\ Len(entry.tokens) \in Nat
    BY <2>2, EntryTypes
  <2>6. /\ Len(slugs) <= Len(entry.tokens)
        /\ Filled(spell[entry.node], entry.tokens) = entry.path
        /\ TakesAll(PcreTaken, slugs, entry.tokens)
    BY <2>2 DEF Found
  <2> HIDE DEF route, slugs
  <2>7. \A i \in 1..Len(slugs) : PcreTakes(slugs[i], entry.tokens[i])
    BY <2>6 DEF TakesAll, PcreTaken
  <2>8. Len(entry.tokens) >= Len(route.slugs)
    BY <2>4, <2>5, <2>6
  <2> QED BY <2>2, <2>4, <2>6, <2>7, <2>8 DEF route
<1> QED BY <1>1, PcreReplyInvariance, PTL

\* In a compiled tree that leaves a match no choice, a request is answered exactly
\* if a route is meant for it: through edges of several characters and slugs
\* without an opcode, too, whatever was added and compiled before.  The request
\* for the empty path never is.  If a slug took the empty text, a match with an
\* empty group, which the code takes for none, could be the one that is meant.
THEOREM PcreServesMeant == SlugsTakeText /\ PcreSpec => []PcreServes
<1>1. PcreReplyInv => PcreServes
  <2> SUFFICES ASSUME PcreReplyInv, PcreUnambiguous, NEW request \in Requests
               PROVE  PcreAnswered(request) <=>
                        /\ request.path # <<>>
                        /\ \E n \in NodeIds : \E r \in 1..Len(nodes[n].routes) :
                            /\ FitsIf(PcreTakes, spell[n], request.path)
                            /\ MethodFits(nodes[n].routes[r].method, request.method)
    BY DEF PcreServes
  <2>1. PcreClearTree(nodes, spell, regex)
    BY UnambiguousIsClear
  <2>2. Askable(request)
    BY RequestsAskable
  <2>3. (\E n \in NodeIds : \E r \in 1..Len(nodes[n].routes) :
            /\ FitsIf(PcreTakes, spell[n], request.path)
            /\ MethodFits(nodes[n].routes[r].method, request.method))
        <=> \E n \in 1..Len(nodes) : PcreMeantAt(nodes, spell, n, request)
    BY DEF PcreMeantAt, HasRoute, NodeIds
  <2> QED BY <2>1, <2>2, <2>3, PcreMeantAnswered, PcreAnsweredMeant,
             PcreEmptyUnanswered
<1> QED BY <1>1, PcreReplyInvariance, PTL
=============================================================================
