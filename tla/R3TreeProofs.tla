---------------------------- MODULE R3TreeProofs ----------------------------
(***************************************************************************)
(* Theorems about R3Tree, for all paths, methods and bounds.               *)
(*                                                                         *)
(* Shape(tree, sp) is what every function on trees preserves: the tree is  *)
(* well typed, and sp is the text of each of its nodes.  It is stated of   *)
(* any tree, so that a step which applies two functions, as InsertSlug     *)
(* does, is proved by two lemmas.                                          *)
(*                                                                         *)
(* Sound(tree), in the second part, is about the single nodes: what is     *)
(* cached in a node or an edge agrees with what it was computed from, and  *)
(* the edges of a node begin with different tokens.  Every function on     *)
(* trees changes at most one node and adds at most one, so each is a lemma *)
(* about those two.                                                        *)
(*                                                                         *)
(* Whole(tree, sp), in the third part, is about the tree as a whole.       *)
(*                                                                         *)
(* The last part is what the tree promises: routes stay where they are,    *)
(* and adding one, step by step, is adding it to the table of RouteTable   *)
(* at once.  That every request is answered is liveness, and is            *)
(* model-checked.                                                          *)
(***************************************************************************)
EXTENDS R3Tree, SequenceTheorems, FiniteSetTheorems, TLAPS

\* The node stands for the text, among nodes that stand for sp.
Spells(node, text, sp) ==
    /\ \A i \in 1..Len(node.edges) :
        /\ node.edges[i].pattern # <<>>
        /\ node.edges[i].child \in 1..Len(sp)
        /\ sp[node.edges[i].child] = text \o node.edges[i].pattern
    /\ \A r \in 1..Len(node.routes) : node.routes[r].slugs = SlugsOf(text)

Shape(tree, sp) ==
    /\ tree \in Seq(Node)
    /\ sp \in Seq(Seq(Token))
    /\ Len(sp) = Len(tree)
    /\ Len(tree) >= Root
    /\ sp[Root] = <<>>
    /\ \A n \in 1..Len(tree) : Spells(tree[n], sp[n], sp)

-----------------------------------------------------------------------------
(* The functions on trees                                                  *)

\* A new edge is well typed.
LEMMA NewEdgeType ==
    ASSUME NEW pattern \in Seq(Token), NEW child \in Nat, NEW opcode \in Opcodes
    PROVE  NewEdge(pattern, child, opcode) \in Edge
BY DEF NewEdge, Edge, HasBrace

\* Refreshing has_slug leaves the rest of an edge alone.
LEMMA HasSlugRefreshed ==
    ASSUME NEW edge \in Edge
    PROVE  LET new == [edge EXCEPT !.has_slug = HasBrace(edge.pattern)] IN
           new \in Edge /\ new.pattern = edge.pattern /\ new.child = edge.child
<1> DEFINE h == HasBrace(edge.pattern)
           new == [edge EXCEPT !.has_slug = h]
<1>1. h \in BOOLEAN
  BY DEF HasBrace
<1> HIDE DEF h
<1>2. new \in Edge
  BY <1>1, Zenon DEF Edge
<1>3. new.pattern = edge.pattern /\ new.child = edge.child
  BY Zenon DEF Edge
<1> QED BY <1>2, <1>3 DEF h

\* So is the node of a new tree.
LEMMA EmptyNodeType == EmptyNode \in Node
BY DEF EmptyNode, Node

\* r3_node_connectl returns well-typed edges; each is an old one, but for its
\* opcode, or the new one.
LEMMA ConnectEdges ==
    ASSUME NEW edges \in Seq(Edge), NEW pattern \in Seq(Token),
           NEW child \in Nat, NEW opcode \in Opcodes
    PROVE  LET new == Connect(edges, pattern, child, opcode) IN
           /\ new \in Seq(Edge)
           /\ \A j \in 1..Len(new) :
                \/ /\ j \in 1..Len(edges)
                   /\ new[j].pattern = edges[j].pattern
                   /\ new[j].child = edges[j].child
                \/ new[j].pattern = pattern /\ new[j].child = child
<1>1. CASE \E i \in 1..Len(edges) : edges[i].pattern = pattern
  <2> DEFINE new == [i \in 1..Len(edges) |->
                        IF edges[i].pattern = pattern /\ opcode # "NONE"
                        THEN [edges[i] EXCEPT !.opcode = opcode]
                        ELSE edges[i]]
  <2>1. Connect(edges, pattern, child, opcode) = new
    BY <1>1 DEF Connect
  <2>2. \A i \in 1..Len(edges) : /\ new[i] \in Edge
                                 /\ new[i].pattern = edges[i].pattern
                                 /\ new[i].child = edges[i].child
    <3> SUFFICES ASSUME NEW i \in 1..Len(edges)
                 PROVE  /\ new[i] \in Edge
                        /\ new[i].pattern = edges[i].pattern
                        /\ new[i].child = edges[i].child
      OBVIOUS
    <3>1. edges[i] \in Edge
      OBVIOUS
    <3>2. new[i] = edges[i] \/ new[i] = [edges[i] EXCEPT !.opcode = opcode]
      OBVIOUS
    <3> HIDE DEF new
    <3> QED BY <3>1, <3>2 DEF Edge
  <2>3. new \in Seq(Edge) /\ Len(new) = Len(edges)
    BY <2>2
  <2> QED BY <2>1, <2>2, <2>3
<1>2. CASE ~\E i \in 1..Len(edges) : edges[i].pattern = pattern
  <2>1. Connect(edges, pattern, child, opcode)
            = Append(edges, NewEdge(pattern, child, opcode))
    BY <1>2 DEF Connect
  <2>2. /\ NewEdge(pattern, child, opcode).pattern = pattern
        /\ NewEdge(pattern, child, opcode).child = child
    BY DEF NewEdge
  <2> QED BY <2>1, <2>2, NewEdgeType
<1> QED BY <1>1, <1>2

-----------------------------------------------------------------------------
(* Trees of one more node                                                  *)

\* What the shape says of one node.
LEMMA ShapeOfNode ==
    ASSUME NEW tree, NEW sp, Shape(tree, sp), NEW n \in 1..Len(tree)
    PROVE  /\ Len(tree) \in Nat /\ Len(sp) = Len(tree)
           /\ sp \in Seq(Seq(Token)) /\ sp[n] \in Seq(Token)
           /\ tree[n] \in Node
           /\ tree[n].edges \in Seq(Edge)
           /\ tree[n].routes \in Seq(Route)
           /\ tree[n].endpoint \in Nat
           /\ Spells(tree[n], sp[n], sp)
<1>1. tree \in Seq(Node) /\ sp \in Seq(Seq(Token)) /\ Len(sp) = Len(tree)
  BY DEF Shape
<1>2. Len(tree) \in Nat /\ tree[n] \in Node
  BY <1>1, LenProperties, ElementOfSeq
<1>3. sp[n] \in Seq(Token)
  <2> DEFINE T == Seq(Token)
  <2> HIDE DEF T
  <2>1. sp \in Seq(T)
    BY <1>1 DEF T
  <2>2. sp[n] \in T
    BY <2>1, <1>1, ElementOfSeq
  <2> QED BY <2>2 DEF T
<1>4. Spells(tree[n], sp[n], sp)
  BY DEF Shape
<1> QED BY <1>1, <1>2, <1>3, <1>4 DEF Node

\* Texts are put together in any order.
LEMMA TextsAssociative ==
    \A a, b, d \in Seq(Token) : (a \o b) \o d = a \o (b \o d)
BY ConcatAssociative

\* A text appended to the texts of the nodes.
LEMMA AppendText ==
    ASSUME NEW sp \in Seq(Seq(Token)), NEW t \in Seq(Token)
    PROVE  /\ Append(sp, t) \in Seq(Seq(Token))
           /\ Len(Append(sp, t)) = Len(sp) + 1
           /\ \A m \in 1..Len(sp) : Append(sp, t)[m] = sp[m]
           /\ Append(sp, t)[Len(sp) + 1] = t
<1> DEFINE T == Seq(Token)
<1> HIDE DEF T
<1>1. sp \in Seq(T) /\ t \in T
  BY DEF T
<1>2. /\ Append(sp, t) \in Seq(T)
      /\ Len(Append(sp, t)) = Len(sp) + 1
      /\ \A m \in 1..Len(sp) : Append(sp, t)[m] = sp[m]
      /\ Append(sp, t)[Len(sp) + 1] = t
  BY <1>1, AppendProperties
<1> QED BY <1>2 DEF T

\* A node that is not touched still stands for its text when a node is added.
LEMMA SpellsMonotonic ==
    ASSUME NEW node, NEW text, NEW sp \in Seq(Seq(Token)), NEW t \in Seq(Token),
           Spells(node, text, sp)
    PROVE  Spells(node, text, Append(sp, t))
BY AppendProperties DEF Spells

\* Replacing a node by one that stands for the same text keeps the shape.
LEMMA ReplaceShape ==
    ASSUME NEW tree, NEW sp, Shape(tree, sp), NEW n \in 1..Len(tree),
           NEW node \in Node, Spells(node, sp[n], sp)
    PROVE  /\ Shape([tree EXCEPT ![n] = node], sp)
           /\ Len([tree EXCEPT ![n] = node]) = Len(tree)
<1> DEFINE new == [tree EXCEPT ![n] = node]
<1>1. tree \in Seq(Node)
  BY DEF Shape
<1>2. /\ new \in Seq(Node) /\ Len(new) = Len(tree)
      /\ \A m \in 1..Len(tree) : new[m] = IF m = n THEN node ELSE tree[m]
  BY <1>1, ExceptSeq
<1> HIDE DEF new
<1> QED BY <1>2 DEF Shape, new

\* So does appending a node that stands for a new text, if the node replaced
\* and the new one fit in with it.
LEMMA GrowShape ==
    ASSUME NEW tree, NEW sp, Shape(tree, sp), NEW n \in 1..Len(tree),
           NEW node \in Node, NEW leaf \in Node, NEW t \in Seq(Token),
           Spells(node, sp[n], Append(sp, t)), Spells(leaf, t, Append(sp, t))
    PROVE  /\ Shape(Append([tree EXCEPT ![n] = node], leaf), Append(sp, t))
           /\ Len(Append([tree EXCEPT ![n] = node], leaf)) = Len(tree) + 1
<1> DEFINE changed == [tree EXCEPT ![n] = node]
           new == Append(changed, leaf)
           text == Append(sp, t)
<1>1. /\ tree \in Seq(Node) /\ sp \in Seq(Seq(Token)) /\ Len(sp) = Len(tree)
      /\ Len(tree) \in Nat
  BY LenProperties DEF Shape
<1>2. /\ changed \in Seq(Node) /\ Len(changed) = Len(tree)
      /\ \A m \in 1..Len(tree) : changed[m] = IF m = n THEN node ELSE tree[m]
  BY <1>1, ExceptSeq
<1> HIDE DEF changed
<1>3. /\ new \in Seq(Node) /\ Len(new) = Len(changed) + 1
      /\ \A m \in 1..Len(changed) : new[m] = changed[m]
      /\ new[Len(changed) + 1] = leaf
  BY <1>2, AppendProperties
<1>4. /\ text \in Seq(Seq(Token)) /\ Len(text) = Len(sp) + 1
      /\ \A m \in 1..Len(sp) : text[m] = sp[m]
      /\ text[Len(sp) + 1] = t
  BY <1>1, AppendText
<1>5. Spells(node, sp[n], text) /\ Spells(leaf, t, text)
  OBVIOUS
<1> HIDE DEF new, text
<1>6. ASSUME NEW m \in 1..Len(new)
      PROVE  Spells(new[m], text[m], text)
  <2>1. CASE m = Len(tree) + 1
    BY <2>1, <1>1, <1>2, <1>3, <1>4, <1>5
  <2>2. CASE m = n
    BY <2>2, <1>1, <1>2, <1>3, <1>4, <1>5
  <2>3. CASE m \in 1..Len(tree) /\ m # n
    <3>1. Spells(tree[m], sp[m], sp)
      BY <2>3 DEF Shape
    <3>2. new[m] = tree[m] /\ text[m] = sp[m]
      BY <2>3, <1>1, <1>2, <1>3, <1>4
    <3>3. Spells(tree[m], sp[m], text)
      BY <3>1, <1>1, SpellsMonotonic DEF text
    <3> QED BY <3>2, <3>3
  <2>4. m = Len(tree) + 1 \/ m = n \/ (m \in 1..Len(tree) /\ m # n)
    <3>1. Len(new) = Len(tree) + 1 /\ Len(tree) \in Nat
      BY <1>1, <1>2, <1>3
    <3> QED BY <3>1
  <2> QED BY <2>1, <2>2, <2>3, <2>4, Zenon
<1>7. text[Root] = <<>>
  BY <1>1, <1>4 DEF Shape, Root
<1>8. Shape(new, text)
  BY <1>1, <1>2, <1>3, <1>4, <1>6, <1>7 DEF Shape, Root
<1> QED BY <1>1, <1>2, <1>3, <1>8 DEF new, changed, text

-----------------------------------------------------------------------------
(* The functions on trees keep the shape                                   *)

\* Grafting a node under node n: the new node's text is n's with the pattern.
LEMMA GraftShape ==
    ASSUME NEW tree, NEW sp, Shape(tree, sp), NEW n \in 1..Len(tree),
           NEW pattern \in Seq(Token), pattern # <<>>, NEW opcode \in Opcodes
    PROVE  /\ Shape(Graft(tree, n, pattern, opcode), Append(sp, sp[n] \o pattern))
           /\ Len(Graft(tree, n, pattern, opcode)) = Len(tree) + 1
<1> DEFINE c == Len(tree) + 1
           edges == Connect(tree[n].edges, pattern, c, opcode)
           node == [tree[n] EXCEPT !.edges = edges]
           t == sp[n] \o pattern
           text == Append(sp, t)
<1>1. /\ tree[n] \in Node /\ c \in Nat /\ tree[n].edges \in Seq(Edge)
      /\ sp \in Seq(Seq(Token)) /\ Len(sp) = Len(tree)
      /\ sp[n] \in Seq(Token) /\ t \in Seq(Token)
  BY ShapeOfNode, ConcatProperties
<1>2. /\ edges \in Seq(Edge)
      /\ \A j \in 1..Len(edges) :
            \/ /\ j \in 1..Len(tree[n].edges)
               /\ edges[j].pattern = tree[n].edges[j].pattern
               /\ edges[j].child = tree[n].edges[j].child
            \/ edges[j].pattern = pattern /\ edges[j].child = c
  <2> HIDE DEF c
  <2> QED BY <1>1, ConnectEdges
<1> HIDE DEF edges
<1>3. node \in Node /\ node.edges = edges /\ node.routes = tree[n].routes
  BY <1>1, <1>2 DEF Node
<1>4. /\ Len(text) = c /\ text[c] = t
      /\ \A m \in 1..Len(sp) : text[m] = sp[m]
  <2> HIDE DEF t
  <2>1. sp \in Seq(Seq(Token)) /\ t \in Seq(Token) /\ c = Len(sp) + 1
    BY <1>1
  <2> HIDE DEF c
  <2> QED BY <2>1, AppendText
<1>5. Spells(tree[n], sp[n], sp)
  BY ShapeOfNode
<1> HIDE DEF t
<1>6. Spells(node, sp[n], text)
  <2>3. 1..Len(sp) \subseteq 1..Len(text)
    <3>1. Len(sp) \in Nat /\ Len(text) = Len(sp) + 1
      BY <1>1, <1>4
    <3> HIDE DEF text
    <3> QED BY <3>1
  <2> HIDE DEF node, text
  <2>1. ASSUME NEW j \in 1..Len(edges)
        PROVE  /\ edges[j].pattern # <<>>
               /\ edges[j].child \in 1..Len(text)
               /\ text[edges[j].child] = sp[n] \o edges[j].pattern
    <3>1. CASE edges[j].pattern = pattern /\ edges[j].child = c
      BY <3>1, <1>1, <1>4 DEF t
    <3>2. CASE /\ j \in 1..Len(tree[n].edges)
               /\ edges[j].pattern = tree[n].edges[j].pattern
               /\ edges[j].child = tree[n].edges[j].child
      <4>1. /\ tree[n].edges[j].pattern # <<>>
            /\ tree[n].edges[j].child \in 1..Len(sp)
            /\ sp[tree[n].edges[j].child] = sp[n] \o tree[n].edges[j].pattern
        BY <3>2, <1>5 DEF Spells
      <4>2. tree[n].edges[j].child \in 1..Len(text)
        BY <4>1, <2>3
      <4>3. text[tree[n].edges[j].child] = sp[tree[n].edges[j].child]
        BY <4>1, <1>4
      <4> QED BY <4>1, <4>2, <4>3, <3>2
    <3> QED BY <3>1, <3>2, <1>2
  <2>2. \A r \in 1..Len(node.routes) : node.routes[r].slugs = SlugsOf(sp[n])
    BY <1>3, <1>5 DEF Spells
  <2> QED BY <2>1, <2>2, <1>3 DEF Spells
<1>7. Spells(EmptyNode, t, text)
  BY DEF Spells, EmptyNode
<1>8. Graft(tree, n, pattern, opcode) = Append([tree EXCEPT ![n] = node], EmptyNode)
  BY DEF Graft, edges
<1> HIDE DEF node, text
<1>9. /\ Shape(Append([tree EXCEPT ![n] = node], EmptyNode), text)
      /\ Len(Append([tree EXCEPT ![n] = node], EmptyNode)) = Len(tree) + 1
  <2> HIDE DEF Shape, c
  <2>1. node \in Node /\ EmptyNode \in Node /\ t \in Seq(Token)
    BY <1>1, <1>3, EmptyNodeType
  <2>2. /\ Spells(node, sp[n], Append(sp, t))
        /\ Spells(EmptyNode, t, Append(sp, t))
    BY <1>6, <1>7 DEF text
  <2> QED BY <2>1, <2>2, GrowShape DEF text
<1> QED BY <1>8, <1>9 DEF text, t

\* Mounting a route at the node that stands for its pattern.
LEMMA MountShape ==
    ASSUME NEW tree, NEW sp, Shape(tree, sp), NEW n \in 1..Len(tree),
           NEW route \in Route, route.slugs = SlugsOf(sp[n])
    PROVE  /\ Shape(Mount(tree, n, route), sp)
           /\ Len(Mount(tree, n, route)) = Len(tree)
<1> DEFINE routes == Append(tree[n].routes, route)
           node == [tree[n] EXCEPT !.endpoint = @ + 1, !.routes = routes]
<1>1. /\ tree[n] \in Node /\ tree[n].routes \in Seq(Route)
      /\ tree[n].endpoint \in Nat
  BY ShapeOfNode
<1>2. /\ routes \in Seq(Route) /\ Len(routes) = Len(tree[n].routes) + 1
      /\ routes[Len(routes)] = route
      /\ \A r \in 1..Len(tree[n].routes) : routes[r] = tree[n].routes[r]
  BY <1>1
<1>3. Mount(tree, n, route) = [tree EXCEPT ![n] = node]
  BY DEF Mount
<1> HIDE DEF routes
<1>4. node \in Node /\ node.edges = tree[n].edges /\ node.routes = routes
  <2> DEFINE endpoint == tree[n].endpoint + 1
  <2>1. endpoint \in Nat
    BY <1>1
  <2>2. node = [tree[n] EXCEPT !.endpoint = endpoint, !.routes = routes]
    BY DEF node
  <2> HIDE DEF endpoint, node
  <2> QED BY <2>1, <2>2, <1>1, <1>2 DEF Node
<1>5. Spells(tree[n], sp[n], sp)
  BY ShapeOfNode
<1>6. \A r \in 1..Len(routes) : routes[r].slugs = SlugsOf(sp[n])
  <2> TAKE r \in 1..Len(routes)
  <2>1. CASE r = Len(routes)
    BY <2>1, <1>2
  <2>2. CASE r # Len(routes)
    <3>1. r \in 1..Len(tree[n].routes)
      BY <2>2, <1>1, <1>2
    <3> QED BY <3>1, <1>2, <1>5 DEF Spells
  <2> QED BY <2>1, <2>2
<1> HIDE DEF node
<1>7. Spells(node, sp[n], sp)
  BY <1>4, <1>5, <1>6 DEF Spells
<1>8. /\ Shape([tree EXCEPT ![n] = node], sp)
      /\ Len([tree EXCEPT ![n] = node]) = Len(tree)
  BY <1>4, <1>7, ReplaceShape
<1> QED BY <1>3, <1>8

\* Splitting edge i of node n behind its first k tokens: the new node's text is
\* n's with those tokens, and the child keeps its own.
LEMMA EdgeBranchShape ==
    ASSUME NEW tree, NEW sp, Shape(tree, sp), NEW n \in 1..Len(tree),
           NEW i \in 1..Len(tree[n].edges),
           NEW k \in 1..(Len(tree[n].edges[i].pattern) - 1)
    PROVE  LET t == sp[n] \o Upto(tree[n].edges[i].pattern, k) IN
           /\ Shape(EdgeBranch(tree, n, i, k), Append(sp, t))
           /\ Len(EdgeBranch(tree, n, i, k)) = Len(tree) + 1
<1> DEFINE c == Len(tree) + 1
           edge == tree[n].edges[i]
           upper == Upto(edge.pattern, k)
           lower == After(edge.pattern, k)
           short == [edge EXCEPT !.pattern = upper, !.child = c]
           edges == [tree[n].edges EXCEPT ![i] = short]
           node == [tree[n] EXCEPT !.edges = edges]
           rest == NewEdge(lower, edge.child, "NONE")
           leaf == [EmptyNode EXCEPT !.edges = <<rest>>]
           t == sp[n] \o upper
           text == Append(sp, t)
<1>1. /\ Len(tree) \in Nat /\ c \in Nat /\ Len(sp) = Len(tree)
      /\ sp \in Seq(Seq(Token)) /\ sp[n] \in Seq(Token)
      /\ tree[n] \in Node /\ tree[n].edges \in Seq(Edge)
      /\ Spells(tree[n], sp[n], sp)
  BY ShapeOfNode
<1>2. /\ edge \in Edge
      /\ edge.child \in 1..Len(sp)
      /\ sp[edge.child] = sp[n] \o edge.pattern
  BY <1>1, ElementOfSeq DEF Spells
<1>3. edge.pattern \in Seq(Token) /\ edge.opcode \in Opcodes /\ edge.child \in Nat
  BY <1>2 DEF Edge
<1> HIDE DEF edge
<1>4. /\ upper \in Seq(Token) /\ lower \in Seq(Token)
      /\ upper # <<>> /\ lower # <<>>
      /\ upper \o lower = edge.pattern
  <2>1. k \in 1..Len(edge.pattern) /\ k + 1 <= Len(edge.pattern)
    BY <1>3 DEF edge
  <2>2. upper \in Seq(Token) /\ Len(upper) = k
    BY <1>3, <2>1 DEF Upto
  <2>3. lower \in Seq(Token) /\ Len(lower) = Len(edge.pattern) - k
    BY <1>3, <2>1 DEF After
  <2>4. upper \o lower = edge.pattern
    BY <1>3, <2>1, ConcatAdjacentSubSeq, SubSeqFull DEF Upto, After
  <2> QED BY <2>1, <2>2, <2>3, <2>4, EmptySeq, <1>3
<1> HIDE DEF upper, lower, c
<1>5. short \in Edge /\ short.pattern = upper /\ short.child = c
  BY <1>1, <1>2, <1>4 DEF Edge
<1> HIDE DEF short
<1>6. /\ edges \in Seq(Edge) /\ Len(edges) = Len(tree[n].edges)
      /\ edges[i] = short
      /\ \A j \in 1..Len(tree[n].edges) : j # i => edges[j] = tree[n].edges[j]
  BY <1>1, <1>5, ExceptSeq
<1> HIDE DEF edges
<1>7. node \in Node /\ node.edges = edges /\ node.routes = tree[n].routes
  BY <1>1, <1>6 DEF Node
<1>8. "NONE" \in Opcodes
  BY DEF Opcodes
<1>9. rest \in Edge /\ rest.pattern = lower /\ rest.child = edge.child
  BY <1>3, <1>4, <1>8, NewEdgeType DEF NewEdge
<1> HIDE DEF rest
<1>10. /\ leaf \in Node /\ Len(leaf.edges) = 1 /\ leaf.edges[1] = rest
       /\ leaf.routes = <<>>
  <2>1. leaf = [edges |-> <<rest>>, routes |-> <<>>, endpoint |-> 0,
                compare_type |-> "PCRE"]
    BY DEF EmptyNode
  <2>2. <<rest>> \in Seq(Edge) /\ Len(<<rest>>) = 1 /\ <<rest>>[1] = rest
    BY <1>9
  <2>3. <<>> \in Seq(Route)
    BY EmptySeq
  <2> HIDE DEF leaf
  <2> QED BY <2>1, <2>2, <2>3 DEF Node
<1>11. /\ t \in Seq(Token)
       /\ sp[n] \o edge.pattern = t \o lower
  <2>1. sp[n] \in Seq(Token)
    BY <1>1
  <2>2. (sp[n] \o upper) \o lower = sp[n] \o (upper \o lower)
    <3>1. upper \in Seq(Token) /\ lower \in Seq(Token)
      BY <1>4
    <3> QED BY <3>1, <2>1, TextsAssociative, Zenon
  <2>3. sp[n] \o upper \in Seq(Token)
    BY <2>1, <1>4, ConcatProperties
  <2> QED BY <2>2, <2>3, <1>4
<1> HIDE DEF t
<1>12. /\ Len(text) = Len(sp) + 1 /\ text[c] = t
       /\ \A m \in 1..Len(sp) : text[m] = sp[m]
  <2>1. sp \in Seq(Seq(Token)) /\ t \in Seq(Token) /\ c = Len(sp) + 1
    BY <1>1, <1>11 DEF c
  <2> QED BY <2>1, AppendText
<1> HIDE DEF text, node, leaf
<1>13. /\ 1..Len(sp) \subseteq 1..Len(text)
       /\ c \in 1..Len(text)
  <2>1. Len(sp) \in Nat /\ Len(text) = Len(sp) + 1 /\ c = Len(sp) + 1
    BY <1>1, <1>12 DEF c
  <2> QED BY <2>1
<1>14. Spells(node, sp[n], text)
  <2>1. ASSUME NEW j \in 1..Len(edges)
        PROVE  /\ edges[j].pattern # <<>>
               /\ edges[j].child \in 1..Len(text)
               /\ text[edges[j].child] = sp[n] \o edges[j].pattern
    <3>1. CASE j = i
      <4>1. edges[j].pattern = upper /\ edges[j].child = c
        BY <3>1, <1>5, <1>6
      <4>2. text[c] = sp[n] \o upper
        BY <1>12 DEF t
      <4> QED BY <4>1, <4>2, <1>4, <1>13
    <3>2. CASE j # i
      <4>1. /\ tree[n].edges[j].pattern # <<>>
            /\ tree[n].edges[j].child \in 1..Len(sp)
            /\ sp[tree[n].edges[j].child] = sp[n] \o tree[n].edges[j].pattern
        BY <1>1, <1>6 DEF Spells
      <4>2. edges[j] = tree[n].edges[j]
        BY <3>2, <1>6
      <4>3. tree[n].edges[j].child \in 1..Len(text)
        BY <4>1, <1>13
      <4> QED BY <4>1, <4>2, <4>3, <1>12
    <3> QED BY <3>1, <3>2
  <2>2. \A r \in 1..Len(node.routes) : node.routes[r].slugs = SlugsOf(sp[n])
    BY <1>1, <1>7 DEF Spells
  <2> QED BY <2>1, <2>2, <1>7 DEF Spells
<1>15. Spells(leaf, t, text)
  <2>1. edge.child \in 1..Len(text) /\ text[edge.child] = t \o lower
    BY <1>2, <1>11, <1>12, <1>13
  <2>2. \A j \in 1..Len(leaf.edges) : leaf.edges[j] = rest
    BY <1>10
  <2>3. \A r \in 1..Len(leaf.routes) : FALSE
    BY <1>10
  <2> QED BY <2>1, <2>2, <2>3, <1>4, <1>9 DEF Spells
<1>16. EdgeBranch(tree, n, i, k) = Append([tree EXCEPT ![n] = node], leaf)
  <2>1. [tree EXCEPT ![n] = node] = [tree EXCEPT ![n].edges[i] = short]
    BY Zenon DEF node, edges
  <2>2. short = [tree[n].edges[i] EXCEPT
                    !.pattern = Upto(tree[n].edges[i].pattern, k),
                    !.child = Len(tree) + 1]
    BY DEF short, upper, edge, c
  <2>3. leaf = [EmptyNode EXCEPT !.edges = <<rest>>]
    BY DEF leaf
  <2>4. rest = NewEdge(After(tree[n].edges[i].pattern, k),
                       tree[n].edges[i].child, "NONE")
    BY DEF rest, lower, edge
  <2> HIDE DEF short, rest
  <2> QED BY <2>1, <2>2, <2>3, <2>4, Zenon DEF EdgeBranch
<1>17. /\ Shape(Append([tree EXCEPT ![n] = node], leaf), text)
       /\ Len(Append([tree EXCEPT ![n] = node], leaf)) = Len(tree) + 1
  <2>1. /\ Spells(node, sp[n], Append(sp, t))
        /\ Spells(leaf, t, Append(sp, t))
    BY <1>14, <1>15 DEF text
  <2> QED BY <2>1, <1>7, <1>10, <1>11, GrowShape DEF text
<1> QED BY <1>16, <1>17 DEF text, t, upper, edge

\* r3_tree_compile_patterns touches has_slug and compare_type only.
LEMMA CompiledEdges ==
    ASSUME NEW node \in Node
    PROVE  LET new == CompiledNode(node) IN
           /\ new \in Node
           /\ new.routes = node.routes /\ new.endpoint = node.endpoint
           /\ Len(new.edges) = Len(node.edges)
           /\ \A i \in 1..Len(node.edges) :
                /\ new.edges[i].pattern = node.edges[i].pattern
                /\ new.edges[i].child = node.edges[i].child
                /\ new.edges[i].opcode = node.edges[i].opcode
                /\ new.edges[i].has_slug = HasBrace(node.edges[i].pattern)
<1> DEFINE edge(i) == [node.edges[i] EXCEPT
                        !.has_slug = HasBrace(node.edges[i].pattern)]
           edges == [i \in 1..Len(node.edges) |-> edge(i)]
           compiled == CompiledNode(node)
<1>1. node.edges \in Seq(Edge) /\ Len(node.edges) \in Nat
  BY LenProperties DEF Node
<1>2. ASSUME NEW i \in 1..Len(node.edges)
      PROVE  /\ edge(i) \in Edge
             /\ edge(i).pattern = node.edges[i].pattern
             /\ edge(i).child = node.edges[i].child
             /\ edge(i).opcode = node.edges[i].opcode
             /\ edge(i).has_slug = HasBrace(node.edges[i].pattern)
  <2> DEFINE h == HasBrace(node.edges[i].pattern)
  <2>1. node.edges[i] \in Edge
    BY <1>1, ElementOfSeq
  <2>2. edge(i) \in Edge
    BY <2>1, HasSlugRefreshed
  <2>3. edge(i) = [node.edges[i] EXCEPT !.has_slug = h]
    OBVIOUS
  <2> HIDE DEF h, edge
  <2>4. /\ edge(i).pattern = node.edges[i].pattern
        /\ edge(i).child = node.edges[i].child
        /\ edge(i).opcode = node.edges[i].opcode
        /\ edge(i).has_slug = h
    BY <2>1, <2>3, Zenon DEF Edge
  <2> QED BY <2>2, <2>4 DEF h
<1>3. \E type \in {node.compare_type, "PCRE", "OPCODE"} :
        compiled = [node EXCEPT !.edges = edges, !.compare_type = type]
  BY Zenon DEF CompiledNode
<1> HIDE DEF edge
<1>4. /\ edges \in Seq(Edge) /\ Len(edges) = Len(node.edges)
      /\ \A i \in 1..Len(node.edges) : edges[i] = edge(i)
  BY <1>1, <1>2
<1> HIDE DEF edges, compiled
<1>5. node.compare_type \in {"PCRE", "OPCODE"}
  BY DEF Node
<1>6. /\ compiled \in Node /\ compiled.edges = edges
      /\ compiled.routes = node.routes /\ compiled.endpoint = node.endpoint
  BY <1>3, <1>4, <1>5 DEF Node
<1>7. /\ compiled \in Node
      /\ compiled.routes = node.routes /\ compiled.endpoint = node.endpoint
      /\ Len(compiled.edges) = Len(node.edges)
      /\ \A i \in 1..Len(node.edges) :
            /\ compiled.edges[i].pattern = node.edges[i].pattern
            /\ compiled.edges[i].child = node.edges[i].child
            /\ compiled.edges[i].opcode = node.edges[i].opcode
            /\ compiled.edges[i].has_slug = HasBrace(node.edges[i].pattern)
  BY <1>2, <1>4, <1>6
<1> QED BY <1>7 DEF compiled

\* Some of the nodes compiled: all of them, or those a compilation has reached
\* that does not succeed.
CompiledAt(tree, visited) ==
    [n \in 1..Len(tree) |->
        IF n \in visited THEN CompiledNode(tree[n]) ELSE tree[n]]

LEMMA CompiledAtNodes ==
    ASSUME NEW tree, NEW sp, Shape(tree, sp), NEW visited
    PROVE  LET new == CompiledAt(tree, visited) IN
           /\ new \in Seq(Node) /\ Len(new) = Len(tree)
           /\ \A n \in 1..Len(tree) :
                new[n] = IF n \in visited THEN CompiledNode(tree[n]) ELSE tree[n]
<1> DEFINE node(n) == IF n \in visited THEN CompiledNode(tree[n]) ELSE tree[n]
           new == CompiledAt(tree, visited)
<1>1. Len(tree) \in Nat
  BY LenProperties DEF Shape
<1>2. \A n \in 1..Len(tree) : node(n) \in Node
  BY ShapeOfNode, CompiledEdges
<1>3. new = [n \in 1..Len(tree) |-> node(n)]
  BY DEF CompiledAt
<1> HIDE DEF node, new
<1>4. /\ new \in Seq(Node) /\ Len(new) = Len(tree)
      /\ \A n \in 1..Len(tree) : new[n] = node(n)
  BY <1>1, <1>2, <1>3
<1> QED BY <1>4 DEF node, new

LEMMA CompiledAtShape ==
    ASSUME NEW tree, NEW sp, Shape(tree, sp), NEW visited
    PROVE  Shape(CompiledAt(tree, visited), sp)
<1> DEFINE new == CompiledAt(tree, visited)
<1>1. /\ new \in Seq(Node) /\ Len(new) = Len(tree)
      /\ \A n \in 1..Len(tree) :
            new[n] = IF n \in visited THEN CompiledNode(tree[n]) ELSE tree[n]
  BY CompiledAtNodes
<1> HIDE DEF new
<1>2. ASSUME NEW n \in 1..Len(tree)
      PROVE  Spells(new[n], sp[n], sp)
  <2>1. tree[n] \in Node /\ Spells(tree[n], sp[n], sp)
    BY ShapeOfNode
  <2>2. Spells(CompiledNode(tree[n]), sp[n], sp)
    <3> DEFINE compiled == CompiledNode(tree[n])
    <3>1. /\ compiled.routes = tree[n].routes
          /\ Len(compiled.edges) = Len(tree[n].edges)
          /\ \A i \in 1..Len(tree[n].edges) :
                /\ compiled.edges[i].pattern = tree[n].edges[i].pattern
                /\ compiled.edges[i].child = tree[n].edges[i].child
      BY <2>1, CompiledEdges
    <3> HIDE DEF compiled
    <3>2. Spells(compiled, sp[n], sp)
      BY <2>1, <3>1 DEF Spells
    <3> QED BY <3>2 DEF compiled
  <2> QED BY <2>1, <2>2, <1>1
<1>3. Shape(new, sp)
  BY <1>1, <1>2 DEF Shape
<1> QED BY <1>3 DEF new

LEMMA CompiledShape ==
    ASSUME NEW tree, NEW sp, Shape(tree, sp)
    PROVE  /\ Shape(CompiledTree(tree), sp)
           /\ Len(CompiledTree(tree)) = Len(tree)
           /\ CompiledTree(tree) = CompiledAt(tree, 1..Len(tree))
<1>1. CompiledTree(tree) = CompiledAt(tree, 1..Len(tree))
  BY DEF CompiledTree, CompiledAt
<1> QED BY <1>1, CompiledAtNodes, CompiledAtShape

-----------------------------------------------------------------------------
(* The invariant                                                           *)

\* What a pattern cut behind its first k tokens is made of.
LEMMA CutText ==
    ASSUME NEW path \in Seq(Token), NEW k \in 0..Len(path)
    PROVE  /\ Upto(path, k) \in Seq(Token) /\ Len(Upto(path, k)) = k
           /\ After(path, k) \in Seq(Token) /\ Len(After(path, k)) = Len(path) - k
           /\ Upto(path, k) \o After(path, k) = path
<1>1. Len(path) \in Nat
  BY LenProperties
<1>2. Upto(path, k) \in Seq(Token) /\ Len(Upto(path, k)) = k
  BY <1>1 DEF Upto
<1>3. After(path, k) \in Seq(Token) /\ Len(After(path, k)) = Len(path) - k
  BY <1>1 DEF After
<1>4. Upto(path, k) \o After(path, k) = path
  <2>1. /\ 1 \in 1..(Len(path) + 1) /\ k \in (1 - 1)..Len(path)
        /\ Len(path) \in k..Len(path)
    BY <1>1
  <2>2. SubSeq(path, 1, k) \o SubSeq(path, k + 1, Len(path))
            = SubSeq(path, 1, Len(path))
    BY <2>1, ConcatAdjacentSubSeq
  <2>3. SubSeq(path, 1, Len(path)) = path
    BY SubSeqFull
  <2> QED BY <2>2, <2>3 DEF Upto, After
<1> QED BY <1>2, <1>3, <1>4

\* The front of a text with its next token is the longer front.
LEMMA CutBefore ==
    ASSUME NEW path \in Seq(Token), NEW s \in 1..Len(path)
    PROVE  Upto(path, s - 1) \o <<path[s]>> = Upto(path, s)
<1>0. Len(path) \in Nat /\ path[s] \in Token
      /\ s \in 0..Len(path) /\ s - 1 \in 0..Len(path)
  BY LenProperties, ElementOfSeq
<1>1. /\ Upto(path, s - 1) \in Seq(Token) /\ Len(Upto(path, s - 1)) = s - 1
      /\ Upto(path, s) \in Seq(Token) /\ Len(Upto(path, s)) = s
  BY <1>0, CutText
<1>2. /\ \A i \in 1..s : Upto(path, s)[i] = path[i]
      /\ \A i \in 1..s-1 : Upto(path, s - 1)[i] = path[i]
  BY <1>0 DEF Upto
<1> DEFINE upto == Upto(path, s - 1)
           last == <<path[s]>>
<1>3. last \in Seq(Token) /\ Len(last) = 1 /\ last[1] = path[s]
  BY <1>0
<1> HIDE DEF upto, last
<1>4. /\ upto \o last \in Seq(Token)
      /\ Len(upto \o last) = Len(upto) + Len(last)
      /\ \A i \in 1..Len(upto) + Len(last) :
          (upto \o last)[i] = IF i <= Len(upto) THEN upto[i]
                                              ELSE last[i - Len(upto)]
  BY <1>1, <1>3, ConcatProperties DEF upto
<1>5. Len(upto \o last) = s /\ \A i \in 1..s : (upto \o last)[i] = path[i]
  BY <1>0, <1>1, <1>2, <1>3, <1>4 DEF upto
<1>6. upto \o last = Upto(path, s)
  <2> DEFINE full == Upto(path, s)
             joined == upto \o last
  <2>1. /\ full \in Seq(Token) /\ Len(full) = s
        /\ joined \in Seq(Token) /\ Len(joined) = s
        /\ \A i \in 1..s : joined[i] = full[i]
    BY <1>1, <1>2, <1>4, <1>5
  <2> HIDE DEF full, joined
  <2>2. joined = full
    BY <2>1, SeqEqual
  <2> QED BY <2>2 DEF full, joined
<1> QED BY <1>6 DEF upto, last

\* What a pattern cut around its token s is made of.
LEMMA CutToken ==
    ASSUME NEW path \in Seq(Token), NEW s \in 1..Len(path)
    PROVE  (Upto(path, s - 1) \o <<path[s]>>) \o After(path, s) = path
<1>1. s \in 0..Len(path)
  BY LenProperties
<1> QED BY <1>1, CutBefore, CutText

\* The inductive invariant: the shape of the tree, which alone would say
\* nothing of the frame that mounts the next route, and the text of the frame.
IInv ==
    /\ Shape(nodes, spell)
    /\ adds \in 0..MaxAdds
    /\ call \in Call \cup {Idle}
    /\ call.node \in NodeIds
    /\ CallSpells

\* The invariant is the conjunction of what the runs check.
LEMMA IInvMeaning ==
    IInv <=> TypeOK /\ TrieSpells /\ RouteSlugsSpelled /\ CallSpells
<1>1. IInv => TypeOK /\ TrieSpells /\ RouteSlugsSpelled /\ CallSpells
  <2> SUFFICES ASSUME IInv
               PROVE  TypeOK /\ TrieSpells /\ RouteSlugsSpelled
    BY DEF IInv
  <2>1. nodes \in Seq(Node) /\ Len(spell) = Len(nodes)
    BY DEF IInv, Shape
  <2>2. TypeOK
    BY DEF IInv, Shape, TypeOK
  <2>3. TrieSpells
    BY <2>1 DEF IInv, Shape, Spells, TrieSpells, NodeIds, EdgeIds
  <2>4. RouteSlugsSpelled
    BY <2>1 DEF IInv, Shape, Spells, RouteSlugsSpelled, NodeIds
  <2> QED BY <2>2, <2>3, <2>4
<1>2. TypeOK /\ TrieSpells /\ RouteSlugsSpelled /\ CallSpells => IInv
  BY DEF IInv, Shape, Spells, TypeOK, TrieSpells, RouteSlugsSpelled, NodeIds,
         EdgeIds
<1> QED BY <1>1, <1>2

\* The frame of an insertion in progress.
LEMMA Frame ==
    ASSUME IInv, Inserting
    PROVE  /\ call \in Call
           /\ call.node \in 1..Len(nodes)
           /\ call.rest \in Seq(Token) /\ call.path \in Paths
           /\ spell[call.node] \in Seq(Token)
           /\ spell[call.node] \o call.rest = call.path
           /\ NewRoute \in Route /\ NewRoute.slugs = SlugsOf(call.path)
<1>1. call \in Call
  BY DEF IInv, Inserting, Idle
<1>2. call.node \in 1..Len(nodes) /\ Shape(nodes, spell)
  BY DEF IInv, NodeIds
<1>3. spell[call.node] \in Seq(Token)
  BY <1>2, ShapeOfNode
<1>4. spell[call.node] \o call.rest = call.path
  BY DEF IInv, CallSpells
<1>5. NewRoute \in Route /\ NewRoute.slugs = SlugsOf(call.path)
  BY <1>1 DEF NewRoute, Route, Call
<1> QED BY <1>1, <1>2, <1>3, <1>4, <1>5 DEF Call

\* The edge find_common_prefix found: its first k tokens are those of the rest.
LEMMA SharedPrefix ==
    ASSUME IInv, Inserting, NEW i \in 1..Len(EdgesHere),
           NEW k \in 1..Len(call.rest), CommonPrefix(i, k)
    PROVE  /\ k <= Len(EdgesHere[i].pattern)
           /\ EdgesHere[i].pattern \in Seq(Token)
           /\ EdgesHere[i].child \in 1..Len(nodes)
           /\ Upto(EdgesHere[i].pattern, k) = Upto(call.rest, k)
           /\ spell[EdgesHere[i].child]
                = spell[call.node] \o EdgesHere[i].pattern
<1> DEFINE edge == EdgesHere[i]
<1>1. /\ nodes[call.node].edges \in Seq(Edge)
      /\ Spells(nodes[call.node], spell[call.node], spell)
      /\ Len(spell) = Len(nodes)
  BY Frame, ShapeOfNode DEF IInv
<1>2. edge \in Edge
  BY <1>1, ElementOfSeq DEF EdgesHere
<1>3. edge.pattern \in Seq(Token)
  BY <1>2 DEF Edge
<1>4. /\ edge.child \in 1..Len(nodes)
      /\ spell[edge.child] = spell[call.node] \o edge.pattern
  BY <1>1 DEF Spells, EdgesHere
<1>5. /\ k <= Len(edge.pattern)
      /\ \A j \in 1..k : edge.pattern[j] = call.rest[j]
  BY <1>3 DEF CommonPrefix, Share
<1>6. Upto(edge.pattern, k) = Upto(call.rest, k)
  <2> HIDE DEF edge
  <2>1. call.rest \in Seq(Token) /\ k \in 0..Len(call.rest)
        /\ k \in 0..Len(edge.pattern)
    BY <1>3, <1>5, Frame
  <2>2. /\ Upto(edge.pattern, k) \in Seq(Token) /\ Len(Upto(edge.pattern, k)) = k
        /\ Upto(call.rest, k) \in Seq(Token) /\ Len(Upto(call.rest, k)) = k
    BY <1>3, <1>5, <2>1, CutText
  <2>3. \A j \in 1..k : Upto(edge.pattern, k)[j] = Upto(call.rest, k)[j]
    BY <1>3, <1>5, <2>1 DEF Upto
  <2> QED BY <2>2, <2>3, SeqEqual
<1> QED BY <1>3, <1>4, <1>5, <1>6

\* The tree has grown by one node, which stands for text t.
Grown(tree, sp, new, text, t) ==
    /\ Shape(new, text)
    /\ Len(tree) \in Nat /\ Len(new) = Len(tree) + 1
    /\ t \in Seq(Token)
    /\ text[Len(new)] = t
    /\ \A n \in 1..Len(tree) : text[n] = sp[n]

LEMMA GraftGrows ==
    ASSUME NEW tree, NEW sp, Shape(tree, sp), NEW n \in 1..Len(tree),
           NEW pattern \in Seq(Token), pattern # <<>>, NEW opcode \in Opcodes
    PROVE  Grown(tree, sp, Graft(tree, n, pattern, opcode),
                 Append(sp, sp[n] \o pattern), sp[n] \o pattern)
<1> DEFINE new == Graft(tree, n, pattern, opcode)
           t == sp[n] \o pattern
<1>1. /\ Len(tree) \in Nat /\ Len(sp) = Len(tree)
      /\ sp \in Seq(Seq(Token)) /\ sp[n] \in Seq(Token)
  BY ShapeOfNode
<1>2. t \in Seq(Token)
  BY <1>1, ConcatProperties
<1>3. Shape(new, Append(sp, t)) /\ Len(new) = Len(tree) + 1
  BY GraftShape
<1> HIDE DEF new, t
<1>4. /\ \A m \in 1..Len(sp) : Append(sp, t)[m] = sp[m]
      /\ Append(sp, t)[Len(sp) + 1] = t
  BY <1>1, <1>2, AppendText
<1>5. Grown(tree, sp, new, Append(sp, t), t)
  BY <1>1, <1>2, <1>3, <1>4 DEF Grown
<1> QED BY <1>5 DEF new, t

\* The new node is the last one.
LEMMA GrownNode ==
    ASSUME NEW tree, NEW sp, NEW new, NEW text, NEW t,
           Grown(tree, sp, new, text, t)
    PROVE  /\ Shape(new, text) /\ Len(tree) + 1 \in 1..Len(new)
           /\ text[Len(tree) + 1] = t /\ t \in Seq(Token)
           /\ \A n \in 1..Len(tree) : n \in 1..Len(new) /\ text[n] = sp[n]
BY DEF Grown

\* A step that returns keeps the invariant if the tree keeps its shape.
LEMMA ReturnInvariant ==
    ASSUME IInv, Return, adds' = adds, Shape(nodes, spell)'
    PROVE  IInv'
<1>1. call' = Idle /\ Idle.node = Root /\ Idle.pc = "idle"
  BY DEF Return, Idle
<1>2. Root \in 1..Len(nodes')
  BY DEF Shape, Root
<1> QED BY <1>1, <1>2 DEF IInv, CallSpells, Inserting, NodeIds

\* So does a step that goes on at a node, if the texts of the node and of the
\* rest make up the pattern.
LEMMA RecurseInvariant ==
    ASSUME IInv, Inserting, adds' = adds, Shape(nodes, spell)',
           NEW node \in 1..Len(nodes'), NEW rest \in Seq(Token),
           Recurse(node, rest), spell'[node] \o rest = call.path
    PROVE  IInv'
<1>1. call \in Call
  BY Frame
<1>2. node \in Nat
  OBVIOUS
<1>3. /\ call' \in Call /\ call'.node = node /\ call'.rest = rest
      /\ call'.path = call.path
  BY <1>1, <1>2 DEF Recurse, Call
<1> QED BY <1>3 DEF IInv, CallSpells, NodeIds

-----------------------------------------------------------------------------
(* The steps of an insertion keep the invariant                            *)

LEMMA InsertHereInvariant == IInv /\ InsertHere => IInv'
<1> SUFFICES ASSUME IInv, InsertHere
             PROVE  IInv'
  OBVIOUS
<1>1. /\ Inserting /\ call.rest = <<>> /\ Return
      /\ nodes' = Mount(nodes, call.node, NewRoute)
      /\ adds' = adds /\ spell' = spell
  BY DEF InsertHere
<1>2. NewRoute \in Route /\ NewRoute.slugs = SlugsOf(spell[call.node])
  <2>1. spell[call.node] \o <<>> = spell[call.node]
    BY <1>1, Frame, ConcatEmptySeq
  <2> QED BY <2>1, <1>1, Frame
<1>3. Shape(Mount(nodes, call.node, NewRoute), spell)
  BY <1>1, <1>2, Frame, MountShape DEF IInv
<1>4. Shape(nodes, spell)'
  BY <1>1, <1>3
<1> QED BY <1>1, <1>4, ReturnInvariant

LEMMA RefusedInvariant ==
    ASSUME IInv, Return, UNCHANGED <<nodes, adds, spell>>
    PROVE  IInv'
<1>1. Shape(nodes, spell)'
  BY DEF IInv
<1> QED BY <1>1, ReturnInvariant

LEMMA InsertFirstOfManyInvariant == IInv /\ InsertFirstOfMany => IInv'
<1> SUFFICES ASSUME IInv, InsertFirstOfMany
             PROVE  IInv'
  OBVIOUS
<1>1. Inserting /\ adds' = adds
  BY DEF InsertFirstOfMany, Grows
<1>2. PICK j \in BreakPoints(call.rest) :
        LET first == Upto(call.rest, j - 1) IN
        /\ nodes' = Graft(nodes, call.node, first, "NONE")
        /\ spell' = Append(spell, spell[call.node] \o first)
        /\ Recurse(Len(nodes) + 1, After(call.rest, j - 1))
  BY DEF InsertFirstOfMany
<1> DEFINE first == Upto(call.rest, j - 1)
           rest == After(call.rest, j - 1)
           t == spell[call.node] \o first
<1>3. j \in 1..Len(call.rest) /\ j > 1
  BY Frame DEF BreakPoints, SlugPositions
<1>4. /\ first \in Seq(Token) /\ Len(first) = j - 1
      /\ rest \in Seq(Token) /\ first \o rest = call.rest
  <2>1. j - 1 \in 0..Len(call.rest)
    BY <1>1, <1>3, Frame
  <2> QED BY <1>1, <2>1, Frame, CutText
<1>5. first # <<>>
  BY <1>3, <1>4
<1>6. nodes' = Graft(nodes, call.node, first, "NONE") /\ spell' = Append(spell, t)
  BY <1>2
<1>7. Recurse(Len(nodes) + 1, rest)
  BY <1>2
<1> HIDE DEF first, rest
<1>8. /\ t \in Seq(Token) /\ t \o rest = call.path
  <2>1. spell[call.node] \in Seq(Token)
    BY <1>1, Frame
  <2>2. t \o rest = spell[call.node] \o (first \o rest)
    BY <2>1, <1>4, TextsAssociative, Zenon
  <2>3. t \in Seq(Token)
    BY <2>1, <1>4, ConcatProperties
  <2> QED BY <2>2, <2>3, <1>1, <1>4, Frame
<1>9. Grown(nodes, spell, nodes', spell', t)
  <2>1. /\ Shape(nodes, spell) /\ call.node \in 1..Len(nodes)
        /\ "NONE" \in Opcodes
    BY <1>1, Frame DEF IInv, Opcodes
  <2> QED BY <2>1, <1>4, <1>5, <1>6, GraftGrows
<1> HIDE DEF t
<1>10. /\ Shape(nodes', spell') /\ spell'[Len(nodes) + 1] = t
       /\ Len(nodes) + 1 \in 1..Len(nodes')
  BY <1>9, GrownNode
<1> QED BY <1>1, <1>4, <1>7, <1>8, <1>10, RecurseInvariant

\* An assertion or a loop the call does not get out of.
LEMMA InsertEndsInvariant == IInv /\ (InsertAborts \/ ParseAstray) => IInv'
<1> SUFFICES ASSUME IInv, InsertAborts \/ ParseAstray
             PROVE  IInv'
  OBVIOUS
<1>1. PICK pc \in {"aborted", "astray"} :
        /\ Inserting /\ call' = [call EXCEPT !.pc = pc]
        /\ nodes' = nodes /\ adds' = adds /\ spell' = spell
  BY DEF InsertAborts, ParseAstray, Grows
<1>2. call \in Call
  BY <1>1, Frame
<1>3. call' \in Call /\ call'.node = call.node /\ call'.pc # "insert"
  BY <1>1, <1>2 DEF Call
<1> QED BY <1>1, <1>3 DEF IInv, CallSpells, Inserting, NodeIds

LEMMA InsertLiteralInvariant == IInv /\ InsertLiteral => IInv'
<1> SUFFICES ASSUME IInv, InsertLiteral
             PROVE  IInv'
  OBVIOUS
<1> DEFINE t == spell[call.node] \o call.rest
           grafted == Graft(nodes, call.node, call.rest, "NONE")
           c == Len(nodes) + 1
<1>1. /\ Inserting /\ Return /\ adds' = adds /\ call.rest # <<>>
      /\ nodes' = Mount(grafted, c, NewRoute)
      /\ spell' = Append(spell, t)
  BY DEF InsertLiteral, Grows
<1>2. call.rest \in Seq(Token) /\ t \in Seq(Token) /\ t = call.path
  BY <1>1, Frame, ConcatProperties
<1>3. Grown(nodes, spell, grafted, Append(spell, t), t)
  <2>1. /\ Shape(nodes, spell) /\ call.node \in 1..Len(nodes)
        /\ "NONE" \in Opcodes
    BY <1>1, Frame DEF IInv, Opcodes
  <2> QED BY <2>1, <1>1, <1>2, GraftGrows
<1> HIDE DEF t, grafted
<1>4. /\ Shape(grafted, Append(spell, t)) /\ Append(spell, t)[c] = t
      /\ c \in 1..Len(grafted)
  <2> DEFINE text == Append(spell, t)
  <2>1. Grown(nodes, spell, grafted, text, t)
    BY <1>3
  <2> HIDE DEF text
  <2>2. /\ Shape(grafted, text) /\ text[Len(nodes) + 1] = t
        /\ Len(nodes) + 1 \in 1..Len(grafted)
    BY <2>1, GrownNode
  <2> QED BY <2>2 DEF text
<1>5. NewRoute \in Route /\ NewRoute.slugs = SlugsOf(Append(spell, t)[c])
  BY <1>1, <1>2, <1>4, Frame
<1> HIDE DEF c
<1>6. Shape(Mount(grafted, c, NewRoute), Append(spell, t))
  BY <1>4, <1>5, MountShape
<1>7. Shape(nodes, spell)'
  BY <1>1, <1>6
<1> QED BY <1>1, <1>7, ReturnInvariant

\* A pattern of one slug: two grafts if literals come before it.
LEMMA InsertSlugInvariant == IInv /\ InsertSlug => IInv'
<1> SUFFICES ASSUME IInv, InsertSlug
             PROVE  IInv'
  OBVIOUS
<1>1. Inserting /\ adds' = adds
  BY DEF InsertSlug, Grows
<1> USE DEF Root
<1>2. PICK s \in CountedSlugs(call.rest) :
        LET before == Upto(call.rest, s - 1)
            slug == call.rest[s]
            after == After(call.rest, s)
            c1 == IF s > 1 THEN Len(nodes) + 1 ELSE call.node
            tree1 == IF s > 1 THEN Graft(nodes, call.node, before, "NONE")
                              ELSE nodes
            spell1 == IF s > 1 THEN Append(spell, spell[call.node] \o before)
                               ELSE spell
            c2 == Len(tree1) + 1
            tree2 == Graft(tree1, c1, <<slug>>, SlugOpcode[slug])
        IN  /\ spell' = Append(spell1, spell1[c1] \o <<slug>>)
            /\ \/ /\ after # <<>>
                  /\ nodes' = tree2
                  /\ Recurse(c2, after)
               \/ /\ after = <<>>
                  /\ nodes' = Mount(tree2, c2, NewRoute)
                  /\ Return
  BY DEF InsertSlug
<1> DEFINE before == Upto(call.rest, s - 1)
           slug == call.rest[s]
           after == After(call.rest, s)
           c1 == IF s > 1 THEN Len(nodes) + 1 ELSE call.node
           tree1 == IF s > 1 THEN Graft(nodes, call.node, before, "NONE")
                             ELSE nodes
           spell1 == IF s > 1 THEN Append(spell, spell[call.node] \o before)
                              ELSE spell
           c2 == Len(tree1) + 1
           tree2 == Graft(tree1, c1, <<slug>>, SlugOpcode[slug])
           t == spell1[c1] \o <<slug>>
           text == Append(spell1, t)
<1>3. /\ spell' = text
      /\ \/ after # <<>> /\ nodes' = tree2 /\ Recurse(c2, after)
         \/ after = <<>> /\ nodes' = Mount(tree2, c2, NewRoute) /\ Return
  BY <1>2
<1>4. /\ call.rest \in Seq(Token) /\ spell[call.node] \in Seq(Token)
      /\ call.node \in 1..Len(nodes) /\ Shape(nodes, spell)
      /\ spell[call.node] \o call.rest = call.path
      /\ NewRoute \in Route /\ NewRoute.slugs = SlugsOf(call.path)
      /\ "NONE" \in Opcodes
  BY <1>1, Frame DEF IInv, Opcodes
<1>5. /\ s \in 1..Len(call.rest) /\ slug \in Slugs /\ slug \in Token
      /\ SlugOpcode[slug] \in Opcodes
  BY SlugOpcodeAssumption DEF CountedSlugs, SlugPositions, Token
<1>6. /\ before \in Seq(Token) /\ Len(before) = s - 1
      /\ after \in Seq(Token) /\ <<slug>> \in Seq(Token) /\ <<slug>> # <<>>
      /\ (before \o <<slug>>) \o after = call.rest
  <2>1. s - 1 \in 0..Len(call.rest) /\ s \in 0..Len(call.rest)
    BY <1>4, <1>5
  <2>2. before \in Seq(Token) /\ Len(before) = s - 1 /\ after \in Seq(Token)
    BY <1>4, <2>1, CutText
  <2>3. (before \o <<slug>>) \o after = call.rest
    BY <1>4, <1>5, CutToken
  <2>4. <<slug>> \in Seq(Token) /\ <<slug>> # <<>>
    BY <1>5
  <2> QED BY <2>2, <2>3, <2>4
<1>7. /\ Shape(tree1, spell1) /\ c1 \in 1..Len(tree1)
      /\ spell1[c1] = spell[call.node] \o before
  <2>1. CASE s > 1
    <3> DEFINE t1 == spell[call.node] \o before
               new == Graft(nodes, call.node, before, "NONE")
               text1 == Append(spell, t1)
    <3>1. before # <<>>
      <4> HIDE DEF before
      <4>1. Len(before) = s - 1 /\ s - 1 > 0
        BY <1>5, <1>6, <2>1
      <4> QED BY <4>1
    <3>2. Grown(nodes, spell, new, text1, t1)
      <4> HIDE DEF before
      <4> QED BY <1>4, <1>6, <3>1, GraftGrows
    <3> HIDE DEF t1, new, text1
    <3>3. /\ Shape(new, text1) /\ text1[Len(nodes) + 1] = t1
          /\ Len(nodes) + 1 \in 1..Len(new)
      BY <3>2, GrownNode
    <3>4. tree1 = new /\ spell1 = text1 /\ c1 = Len(nodes) + 1
      BY <2>1 DEF new, text1, t1
    <3> QED BY <3>3, <3>4 DEF t1
  <2>2. CASE ~(s > 1)
    <3>1. tree1 = nodes /\ spell1 = spell /\ c1 = call.node
      BY <2>2
    <3>2. before = <<>>
      BY <1>5, <1>6, <2>2, EmptySeq
    <3>3. spell[call.node] \o <<>> = spell[call.node]
      BY <1>4, ConcatEmptySeq
    <3> QED BY <1>4, <3>1, <3>2, <3>3
  <2> QED BY <2>1, <2>2
<1> HIDE DEF before, slug, after, c1, tree1, spell1
<1>8. Grown(tree1, spell1, tree2, text, t)
  BY <1>5, <1>6, <1>7, GraftGrows
<1> HIDE DEF tree2, text
<1>9. /\ Shape(tree2, text) /\ text[c2] = t /\ c2 \in 1..Len(tree2)
      /\ t \in Seq(Token)
  <2> HIDE DEF t
  <2> QED BY <1>8, GrownNode
<1>10. t \o after = call.path
  <2> DEFINE here == spell[call.node]
             sl == <<slug>>
  <2>1. here \in Seq(Token) /\ sl \in Seq(Token)
    BY <1>4, <1>6
  <2>2. t = (here \o before) \o sl
    BY <1>7
  <2>3. here \o ((before \o sl) \o after) = call.path
    BY <1>4, <1>6
  <2> HIDE DEF here, sl, t
  <2>4. (here \o before) \o sl = here \o (before \o sl)
    BY <2>1, <1>6, TextsAssociative, Zenon
  <2> DEFINE first == before \o sl
  <2>5. first \in Seq(Token) /\ after \in Seq(Token)
    BY <2>1, <1>6, ConcatProperties
  <2> HIDE DEF first
  <2>6. (here \o first) \o after = here \o (first \o after)
    BY <2>1, <2>5, TextsAssociative, Zenon
  <2> QED BY <2>2, <2>3, <2>4, <2>6 DEF first
<1> HIDE DEF t, c2
<1>11. CASE after # <<>> /\ nodes' = tree2 /\ Recurse(c2, after)
  <2>1. Shape(nodes, spell)' /\ c2 \in 1..Len(nodes') /\ spell'[c2] = t
    BY <1>3, <1>9, <1>11
  <2> QED BY <1>1, <1>6, <1>10, <1>11, <2>1, RecurseInvariant
<1>12. CASE after = <<>> /\ nodes' = Mount(tree2, c2, NewRoute) /\ Return
  <2>1. t = call.path
    BY <1>9, <1>10, <1>12, ConcatEmptySeq
  <2>2. NewRoute \in Route /\ NewRoute.slugs = SlugsOf(text[c2])
    BY <1>4, <1>9, <2>1
  <2>3. Shape(Mount(tree2, c2, NewRoute), text)
    BY <1>9, <2>2, MountShape
  <2>4. Shape(nodes, spell)'
    BY <1>3, <1>12, <2>3
  <2> QED BY <1>1, <1>12, <2>4, ReturnInvariant
<1> QED BY <1>3, <1>11, <1>12

LEMMA DescendInvariant == IInv /\ Descend => IInv'
<1> SUFFICES ASSUME IInv, Descend
             PROVE  IInv'
  OBVIOUS
<1>1. PICK i \in 1..Len(EdgesHere), k \in 1..Len(call.rest) :
        /\ Inserting /\ CommonPrefix(i, k)
        /\ k = Len(EdgesHere[i].pattern)
        /\ Recurse(EdgesHere[i].child, After(call.rest, k))
        /\ nodes' = nodes /\ adds' = adds /\ spell' = spell
  BY DEF Descend, Follows
<1> DEFINE edge == EdgesHere[i]
           rest == After(call.rest, k)
<1>2. /\ edge.pattern \in Seq(Token) /\ edge.child \in 1..Len(nodes)
      /\ Upto(edge.pattern, k) = Upto(call.rest, k)
      /\ spell[edge.child] = spell[call.node] \o edge.pattern
  BY <1>1, SharedPrefix
<1>3. /\ spell[call.node] \in Seq(Token) /\ call.rest \in Seq(Token)
      /\ spell[call.node] \o call.rest = call.path
      /\ k \in 0..Len(call.rest)
  <2>1. call.rest \in Seq(Token)
    BY <1>1, Frame
  <2>2. k \in 0..Len(call.rest)
    BY <2>1
  <2> QED BY <1>1, <2>1, <2>2, Frame
<1>4. Recurse(edge.child, rest) /\ k = Len(edge.pattern)
  BY <1>1
<1> HIDE DEF edge
<1>5. edge.pattern = Upto(call.rest, k)
  BY <1>2, <1>4, SubSeqFull DEF Upto
<1>6. /\ rest \in Seq(Token)
      /\ edge.pattern \o rest = call.rest
  BY <1>3, <1>5, CutText
<1> HIDE DEF rest
<1>7. spell[edge.child] \o rest = call.path
  <2>1. (spell[call.node] \o edge.pattern) \o rest
            = spell[call.node] \o (edge.pattern \o rest)
    BY <1>2, <1>3, <1>6, TextsAssociative, Zenon
  <2> QED BY <2>1, <1>2, <1>3, <1>6
<1>8. Shape(nodes, spell)' /\ edge.child \in 1..Len(nodes')
  BY <1>1, <1>2 DEF IInv
<1>9. Inserting /\ adds' = adds /\ spell'[edge.child] \o rest = call.path
  BY <1>1, <1>7
<1> QED BY <1>4, <1>6, <1>8, <1>9, RecurseInvariant

LEMMA InsertExistingInvariant == IInv /\ InsertExisting => IInv'
<1> SUFFICES ASSUME IInv, InsertExisting
             PROVE  IInv'
  OBVIOUS
<1>1. PICK i \in 1..Len(EdgesHere), k \in 1..Len(call.rest) :
        /\ Inserting /\ CommonPrefix(i, k)
        /\ k = Len(EdgesHere[i].pattern) /\ k = Len(call.rest)
        /\ nodes' = Mount(nodes, EdgesHere[i].child, NewRoute)
        /\ Return /\ adds' = adds /\ spell' = spell
  BY DEF InsertExisting, Follows
<1> DEFINE edge == EdgesHere[i]
<1>2. /\ edge.pattern \in Seq(Token) /\ edge.child \in 1..Len(nodes)
      /\ Upto(edge.pattern, k) = Upto(call.rest, k)
      /\ spell[edge.child] = spell[call.node] \o edge.pattern
  BY <1>1, SharedPrefix
<1>3. /\ k = Len(edge.pattern) /\ k = Len(call.rest)
      /\ nodes' = Mount(nodes, edge.child, NewRoute)
  BY <1>1
<1>4. /\ call.rest \in Seq(Token) /\ spell[call.node] \o call.rest = call.path
      /\ NewRoute \in Route /\ NewRoute.slugs = SlugsOf(call.path)
  BY <1>1, Frame
<1> HIDE DEF edge
<1>5. edge.pattern = call.rest
  BY <1>2, <1>3, <1>4, SubSeqFull DEF Upto
<1>6. NewRoute.slugs = SlugsOf(spell[edge.child])
  BY <1>2, <1>4, <1>5
<1>7. Shape(Mount(nodes, edge.child, NewRoute), spell)
  BY <1>2, <1>4, <1>6, MountShape DEF IInv
<1>8. Shape(nodes, spell)'
  BY <1>1, <1>3, <1>7
<1> QED BY <1>1, <1>8, ReturnInvariant

LEMMA BranchInvariant == IInv /\ Branch => IInv'
<1> SUFFICES ASSUME IInv, Branch
             PROVE  IInv'
  OBVIOUS
<1>1. PICK i \in 1..Len(EdgesHere), k \in 1..Len(call.rest) :
        /\ Inserting /\ CommonPrefix(i, k)
        /\ k < Len(EdgesHere[i].pattern)
        /\ nodes' = EdgeBranch(nodes, call.node, i, k)
        /\ spell' = Append(spell, spell[call.node] \o Upto(call.rest, k))
        /\ Recurse(Len(nodes) + 1, After(call.rest, k))
        /\ adds' = adds
  BY DEF Branch, Follows
<1> DEFINE pattern == nodes[call.node].edges[i].pattern
           first == Upto(call.rest, k)
           rest == After(call.rest, k)
           t == spell[call.node] \o first
           new == EdgeBranch(nodes, call.node, i, k)
           text == Append(spell, t)
<1>2. pattern \in Seq(Token) /\ Upto(pattern, k) = first
  BY <1>1, SharedPrefix DEF EdgesHere
<1>3. /\ spell[call.node] \in Seq(Token) /\ call.rest \in Seq(Token)
      /\ spell[call.node] \o call.rest = call.path
      /\ k \in 0..Len(call.rest) /\ Shape(nodes, spell)
      /\ call.node \in 1..Len(nodes)
      /\ Len(nodes) \in Nat /\ Len(spell) = Len(nodes)
      /\ spell \in Seq(Seq(Token))
  <2>1. call.node \in 1..Len(nodes) /\ Shape(nodes, spell)
    BY <1>1, Frame DEF IInv
  <2>2. call.rest \in Seq(Token)
    BY <1>1, Frame
  <2>3. k \in 0..Len(call.rest)
    BY <2>2
  <2> QED BY <1>1, <2>1, <2>2, <2>3, Frame, ShapeOfNode
<1>4. /\ nodes' = new /\ spell' = text /\ Recurse(Len(nodes) + 1, rest)
      /\ k < Len(pattern) /\ k \in Nat /\ k >= 1
  BY <1>1 DEF EdgesHere
<1>5. Shape(new, text) /\ Len(new) = Len(nodes) + 1
  <2>1. /\ i \in 1..Len(nodes[call.node].edges)
        /\ k \in 1..(Len(nodes[call.node].edges[i].pattern) - 1)
    BY <1>2, <1>4 DEF EdgesHere
  <2>2. LET upper == spell[call.node] \o Upto(pattern, k) IN
        Shape(new, Append(spell, upper)) /\ Len(new) = Len(nodes) + 1
    BY <1>3, <2>1, EdgeBranchShape
  <2> QED BY <1>2, <2>2
<1> HIDE DEF pattern, new
<1>6. /\ first \in Seq(Token) /\ rest \in Seq(Token)
      /\ first \o rest = call.rest
  BY <1>3, CutText
<1> HIDE DEF first, rest
<1>7. t \in Seq(Token) /\ t \o rest = call.path
  <2>1. t \in Seq(Token)
    BY <1>3, <1>6, ConcatProperties
  <2>2. t \o rest = spell[call.node] \o (first \o rest)
    BY <1>3, <1>6, TextsAssociative, Zenon
  <2> QED BY <2>1, <2>2, <1>3, <1>6
<1> HIDE DEF t
<1>8. text[Len(nodes) + 1] = t
  BY <1>3, <1>7, AppendText
<1> HIDE DEF text
<1>9. /\ Shape(nodes, spell)' /\ Len(nodes) + 1 \in 1..Len(nodes')
      /\ spell'[Len(nodes) + 1] \o rest = call.path
  <2>1. Len(nodes) + 1 \in 1..Len(new)
    BY <1>3, <1>5
  <2>2. text[Len(nodes) + 1] \o rest = call.path
    BY <1>7, <1>8
  <2> QED BY <1>4, <1>5, <2>1, <2>2
<1>10. Inserting /\ adds' = adds
  BY <1>1
<1> QED BY <1>4, <1>6, <1>9, <1>10, RecurseInvariant

-----------------------------------------------------------------------------
(* Theorems                                                                *)

LEMMA Initially == Init => IInv
<1> SUFFICES ASSUME Init
             PROVE  IInv
  OBVIOUS
<1>1. /\ nodes \in Seq(Node) /\ Len(nodes) = 1 /\ nodes[1] = EmptyNode
      /\ Len(spell) = 1 /\ spell[1] = <<>> /\ call = Idle /\ adds = 0
  BY EmptyNodeType DEF Init
<1>2. spell \in Seq(Seq(Token))
  <2> DEFINE T == Seq(Token)
  <2>1. <<>> \in T
    OBVIOUS
  <2> HIDE DEF T
  <2>2. spell \in Seq(T)
    BY <2>1 DEF Init
  <2> QED BY <2>2 DEF T
<1>3. Spells(nodes[1], spell[1], spell)
  BY <1>1 DEF Spells, EmptyNode
<1>4. Shape(nodes, spell)
  BY <1>1, <1>2, <1>3 DEF Shape, Root
<1>5. call.node = Root /\ ~Inserting
  BY <1>1 DEF Idle, Inserting
<1> QED BY <1>1, <1>4, <1>5, MaxAddsAssumption
        DEF IInv, CallSpells, NodeIds, Root

LEMMA AddInvariant ==
    ASSUME IInv, NEW path \in Paths, NEW method \in Methods, NEW data \in Nat,
           Add(path, method, data)
    PROVE  IInv'
<1>1. /\ adds < MaxAdds /\ adds' = adds + 1
      /\ call' = [pc |-> "insert", node |-> Root, rest |-> path, path |-> path,
                  method |-> method, data |-> data]
      /\ nodes' = nodes /\ spell' = spell
  BY DEF Add
<1>2. adds' \in 0..MaxAdds
  BY <1>1, MaxAddsAssumption DEF IInv
<1>3. path \in Seq(Token)
  BY PathsAssumption
<1>4. call' \in Call
  BY <1>1, <1>2, <1>3 DEF Call, Root
<1>5. spell[Root] \o path = path
  BY <1>3, ConcatEmptySeq DEF IInv, Shape
<1>6. Root \in 1..Len(nodes)
  BY DEF IInv, Shape, Root
<1>7. CallSpells' /\ call'.node \in 1..Len(nodes')
  BY <1>1, <1>5, <1>6 DEF CallSpells
<1> QED BY <1>1, <1>2, <1>4, <1>7 DEF IInv, NodeIds

\* Every step keeps the invariant.
LEMMA Inductive == IInv /\ [Next]_vars => IInv'
<1> SUFFICES ASSUME IInv, [Next]_vars
             PROVE  IInv'
  OBVIOUS
<1>1. CASE \E path \in Paths, method \in Methods : Add(path, method, adds + 1)
  <2>1. adds + 1 \in Nat
    BY MaxAddsAssumption DEF IInv
  <2> QED BY <1>1, <2>1, AddInvariant
<1>2. CASE InsertHere
  BY <1>2, InsertHereInvariant
<1>3. CASE ParseRefuses
  BY <1>3, RefusedInvariant DEF ParseRefuses
<1>4. CASE CountRefuses
  BY <1>4, RefusedInvariant DEF CountRefuses
<1>5. CASE InsertFirstOfMany
  BY <1>5, InsertFirstOfManyInvariant
<1>6. CASE InsertAborts \/ ParseAstray
  BY <1>6, InsertEndsInvariant
<1>7. CASE InsertSlug
  BY <1>7, InsertSlugInvariant
<1>8. CASE InsertLiteral
  BY <1>8, InsertLiteralInvariant
<1>9. CASE Descend
  BY <1>9, DescendInvariant
<1>10. CASE InsertExisting
  BY <1>10, InsertExistingInvariant
<1>11. CASE Branch
  BY <1>11, BranchInvariant
<1>12. CASE Compile
  <2>1. /\ nodes' = CompiledTree(nodes)
        /\ call' = call /\ adds' = adds /\ spell' = spell
    BY <1>12 DEF Compile
  <2>2. Shape(nodes, spell)' /\ Len(nodes') = Len(nodes)
    BY <2>1, CompiledShape DEF IInv
  <2> QED BY <2>1, <2>2 DEF IInv, NodeIds, CallSpells, Inserting
<1>13. CASE UNCHANGED vars
  BY <1>13 DEF vars, IInv, NodeIds, CallSpells, Inserting, Shape, Spells
<1> QED BY <1>1, <1>2, <1>3, <1>4, <1>5, <1>6, <1>7, <1>8, <1>9, <1>10, <1>11,
           <1>12, <1>13 DEF Next, InsertStep

LEMMA Invariance == Spec => []IInv
BY Initially, Inductive, PTL DEF Spec

\* Type correctness of the tree, the frame and the texts.
THEOREM TypeCorrect == Spec => []TypeOK
<1>1. IInv => TypeOK
  BY IInvMeaning
<1> QED BY <1>1, Invariance, PTL

\* Whatever is added in whatever order, and however often edges are split:
\* every edge leads from the text of its node to the text of its child.
THEOREM TreeIsTrie == Spec => []TrieSpells
<1>1. IInv => TrieSpells
  BY IInvMeaning
<1> QED BY <1>1, Invariance, PTL

\* Every route hangs at a node whose text has exactly the route's slugs.
THEOREM SlugsOfRoutes == Spec => []RouteSlugsSpelled
<1>1. IInv => RouteSlugsSpelled
  BY IInvMeaning
<1> QED BY <1>1, Invariance, PTL

\* The walk of an insertion never loses a part of its pattern.
THEOREM InsertionSpells == Spec => []CallSpells
<1>1. IInv => CallSpells
  BY IInvMeaning
<1> QED BY <1>1, Invariance, PTL

\* The rest behind at least one token is shorter.
LEMMA AfterShorter ==
    ASSUME NEW path \in Seq(Token), NEW k \in 1..Len(path)
    PROVE  Len(After(path, k)) < Len(path)
<1>1. Len(path) \in Nat /\ k \in 0..Len(path)
  BY LenProperties
<1> QED BY <1>1, CutText

\* An insertion ends: each step that goes on has less left to insert.
LEMMA Shrinks ==
    ASSUME IInv, Next, Inserting, Inserting'
    PROVE  Len(call'.rest) < Len(call.rest)
<1>1. call \in Call /\ call.rest \in Seq(Token)
  BY Frame
<1>2. ~(call = Idle) /\ ~Return
  BY DEF Inserting, Return, Idle
<1>3. ASSUME NEW node, NEW k \in 1..Len(call.rest),
             Recurse(node, After(call.rest, k))
      PROVE  Len(call'.rest) < Len(call.rest)
  <2>1. call'.rest = After(call.rest, k)
    BY <1>1, <1>3 DEF Recurse, Call
  <2> QED BY <1>1, <2>1, AfterShorter
<1>4. CASE InsertFirstOfMany
  <2>1. PICK j \in BreakPoints(call.rest) :
            Recurse(Len(nodes) + 1, After(call.rest, j - 1))
    BY <1>4 DEF InsertFirstOfMany
  <2>2. j - 1 \in 1..Len(call.rest)
    BY <1>1 DEF BreakPoints, SlugPositions
  <2> QED BY <1>3, <2>1, <2>2
<1>5. CASE InsertAborts \/ ParseAstray
  BY <1>1, <1>5 DEF InsertAborts, ParseAstray, Call, Inserting
<1>6. CASE InsertSlug
  <2>1. PICK s \in CountedSlugs(call.rest), node \in Nat :
            Recurse(node, After(call.rest, s)) \/ Return
    BY <1>6 DEF InsertSlug
  <2>2. s \in 1..Len(call.rest)
    BY DEF CountedSlugs, SlugPositions
  <2> QED BY <1>2, <1>3, <2>1, <2>2
<1>7. CASE Descend
  <2>1. PICK i \in 1..Len(EdgesHere), k \in 1..Len(call.rest) :
            Recurse(EdgesHere[i].child, After(call.rest, k))
    BY <1>7 DEF Descend
  <2> QED BY <1>3, <2>1
<1>8. CASE Branch
  <2>1. PICK k \in 1..Len(call.rest) :
            Recurse(Len(nodes) + 1, After(call.rest, k))
    BY <1>8 DEF Branch
  <2> QED BY <1>3, <2>1
<1> QED BY <1>2, <1>4, <1>5, <1>6, <1>7, <1>8
        DEF Next, InsertStep, Add, Compile, InsertHere, ParseRefuses,
            CountRefuses, InsertLiteral, InsertExisting

\* No pattern, however its slugs and its text lie, sends an insertion round in
\* a circle.
THEOREM InsertionShrinks == Spec => RestShrinks
<1>1. IInv /\ [Next]_vars
        => [Inserting /\ Inserting' => Len(call'.rest) < Len(call.rest)]_vars
  BY Shrinks
<1> QED BY <1>1, Invariance, PTL DEF Spec, RestShrinks

-----------------------------------------------------------------------------
(* Single nodes                                                            *)


\* An opcode is that of the one slug that is the pattern.
OpcodeFits(pattern, opcode) ==
    opcode # "NONE" =>
        \E slug \in Slugs : pattern = <<slug>> /\ opcode = SlugOpcode[slug]

EdgeSound(edge) ==
    /\ HasBrace(edge.pattern) => edge.has_slug
    /\ OpcodeFits(edge.pattern, edge.opcode)

FirstsDiffer(edges) ==
    \A i, j \in 1..Len(edges) :
        i # j => edges[i].pattern[1] # edges[j].pattern[1]

NodeSound(node) ==
    /\ \A i \in 1..Len(node.edges) : EdgeSound(node.edges[i])
    /\ node.compare_type = "OPCODE" =>
            \E i \in 1..Len(node.edges) : node.edges[i].opcode # "NONE"
    /\ node.endpoint = Len(node.routes)
    /\ FirstsDiffer(node.edges)

Sound(tree) == \A n \in 1..Len(tree) : NodeSound(tree[n])

-----------------------------------------------------------------------------
(* Trees in which one node changed                                         *)

LEMMA ReplaceSound ==
    ASSUME NEW tree \in Seq(Node), Sound(tree), NEW n \in 1..Len(tree),
           NEW node \in Node, NodeSound(node)
    PROVE  Sound([tree EXCEPT ![n] = node])
<1> DEFINE new == [tree EXCEPT ![n] = node]
<1>1. /\ new \in Seq(Node) /\ Len(new) = Len(tree)
      /\ \A m \in 1..Len(tree) : new[m] = IF m = n THEN node ELSE tree[m]
  BY ExceptSeq
<1> HIDE DEF new
<1>2. Sound(new)
  BY <1>1 DEF Sound
<1> QED BY <1>2 DEF new

\* One changed and one was added.
LEMMA GrowSound ==
    ASSUME NEW tree \in Seq(Node), Sound(tree), NEW n \in 1..Len(tree),
           NEW node \in Node, NodeSound(node), NEW leaf \in Node, NodeSound(leaf)
    PROVE  Sound(Append([tree EXCEPT ![n] = node], leaf))
<1> DEFINE changed == [tree EXCEPT ![n] = node]
           new == Append(changed, leaf)
<1>1. changed \in Seq(Node) /\ Len(changed) = Len(tree)
  BY ExceptSeq
<1>2. Sound(changed)
  BY ReplaceSound
<1> HIDE DEF changed
<1>3. /\ Len(new) = Len(changed) + 1
      /\ \A m \in 1..Len(changed) : new[m] = changed[m]
      /\ new[Len(changed) + 1] = leaf
  BY <1>1, AppendProperties
<1> HIDE DEF new
<1>4. Sound(new)
  BY <1>1, <1>2, <1>3 DEF Sound
<1> QED BY <1>4 DEF new, changed

\* A new node is sound.
LEMMA EmptyNodeSound == NodeSound(EmptyNode)
BY DEF NodeSound, EmptyNode, FirstsDiffer

\* So is an edge the code has just made.
LEMMA NewEdgeSound ==
    ASSUME NEW pattern \in Seq(Token), NEW child, NEW opcode,
           OpcodeFits(pattern, opcode)
    PROVE  EdgeSound(NewEdge(pattern, child, opcode))
BY DEF EdgeSound, NewEdge, OpcodeFits

-----------------------------------------------------------------------------
(* The functions on trees keep the nodes sound                             *)

\* A pattern that shares no token with the edges of a node gets an edge of its
\* own: the node grafted is not dropped.
LEMMA ConnectAppends ==
    ASSUME NEW edges, NEW pattern, NEW child, NEW opcode,
           \A i \in 1..Len(edges) : edges[i].pattern[1] # pattern[1]
    PROVE  Connect(edges, pattern, child, opcode)
            = Append(edges, NewEdge(pattern, child, opcode))
<1>1. ~\E i \in 1..Len(edges) : edges[i].pattern = pattern
  BY Zenon
<1> QED BY <1>1, Zenon DEF Connect

LEMMA GraftSound ==
    ASSUME NEW tree, NEW sp, Shape(tree, sp), Sound(tree), NEW n \in 1..Len(tree),
           NEW pattern \in Seq(Token), NEW opcode \in Opcodes,
           OpcodeFits(pattern, opcode),
           \A i \in 1..Len(tree[n].edges) :
                tree[n].edges[i].pattern[1] # pattern[1]
    PROVE  Sound(Graft(tree, n, pattern, opcode))
<1> DEFINE new == NewEdge(pattern, Len(tree) + 1, opcode)
           edges == Connect(tree[n].edges, pattern, Len(tree) + 1, opcode)
           node == [tree[n] EXCEPT !.edges = edges]
<1>9. Graft(tree, n, pattern, opcode)
        = Append([tree EXCEPT ![n] = node], EmptyNode)
  BY DEF Graft
<1>0. edges = Append(tree[n].edges, new)
  BY ConnectAppends
<1>1. /\ tree \in Seq(Node) /\ tree[n] \in Node /\ tree[n].edges \in Seq(Edge)
      /\ Len(tree) \in Nat
  BY ShapeOfNode DEF Shape
<1>2. new \in Edge /\ EdgeSound(new) /\ new.pattern = pattern
  BY <1>1, NewEdgeType, NewEdgeSound DEF NewEdge
<1>3. NodeSound(tree[n])
  BY DEF Sound
<1> HIDE DEF new, edges
<1>4. /\ edges \in Seq(Edge) /\ Len(edges) = Len(tree[n].edges) + 1
      /\ \A i \in 1..Len(tree[n].edges) : edges[i] = tree[n].edges[i]
      /\ edges[Len(tree[n].edges) + 1] = new
      /\ Len(tree[n].edges) \in Nat
  BY <1>0, <1>1, <1>2
<1>5. /\ node \in Node /\ node.edges = edges /\ node.routes = tree[n].routes
      /\ node.endpoint = tree[n].endpoint
      /\ node.compare_type = tree[n].compare_type
  BY <1>1, <1>4 DEF Node
<1> HIDE DEF node
<1>6. \A i \in 1..Len(edges) : EdgeSound(edges[i])
  <2> TAKE i \in 1..Len(edges)
  <2>1. CASE i = Len(tree[n].edges) + 1
    BY <2>1, <1>2, <1>4
  <2>2. CASE i # Len(tree[n].edges) + 1
    <3>1. i \in 1..Len(tree[n].edges)
      BY <2>2, <1>4
    <3> QED BY <3>1, <1>3, <1>4 DEF NodeSound
  <2> QED BY <2>1, <2>2
<1>7. FirstsDiffer(edges)
  <2> SUFFICES ASSUME NEW i \in 1..Len(edges), NEW j \in 1..Len(edges), i # j
               PROVE  edges[i].pattern[1] # edges[j].pattern[1]
    BY DEF FirstsDiffer
  <2>1. \A a \in 1..Len(edges) :
            a \in 1..Len(tree[n].edges) \/ a = Len(tree[n].edges) + 1
    BY <1>4
  <2>2. \A a, b \in 1..Len(tree[n].edges) :
            a # b => tree[n].edges[a].pattern[1] # tree[n].edges[b].pattern[1]
    BY <1>3 DEF NodeSound, FirstsDiffer
  <2> DEFINE last == Len(tree[n].edges) + 1
  <2>3. CASE i # last /\ j # last
    <3>1. i \in 1..Len(tree[n].edges) /\ j \in 1..Len(tree[n].edges)
      BY <2>1, <2>3
    <3>2. edges[i] = tree[n].edges[i] /\ edges[j] = tree[n].edges[j]
      BY <3>1, <1>4
    <3>3. tree[n].edges[i].pattern[1] # tree[n].edges[j].pattern[1]
      BY <3>1, <2>2
    <3> QED BY <3>2, <3>3
  <2>4. CASE i = last
    <3>1. j \in 1..Len(tree[n].edges)
      BY <2>1, <2>4
    <3>2. edges[j] = tree[n].edges[j] /\ edges[i] = new
      BY <3>1, <2>4, <1>4
    <3> QED BY <3>1, <3>2, <1>2
  <2>5. CASE j = last
    <3>1. i \in 1..Len(tree[n].edges)
      BY <2>1, <2>5
    <3>2. edges[i] = tree[n].edges[i] /\ edges[j] = new
      BY <3>1, <2>5, <1>4
    <3> QED BY <3>1, <3>2, <1>2
  <2> QED BY <2>3, <2>4, <2>5
<1>8. NodeSound(node)
  <2>1. node.compare_type = "OPCODE" =>
            \E i \in 1..Len(node.edges) : node.edges[i].opcode # "NONE"
    <3> SUFFICES ASSUME tree[n].compare_type = "OPCODE"
                 PROVE  \E i \in 1..Len(edges) : edges[i].opcode # "NONE"
      BY <1>5
    <3>1. PICK i \in 1..Len(tree[n].edges) : tree[n].edges[i].opcode # "NONE"
      BY <1>3 DEF NodeSound
    <3>2. i \in 1..Len(edges) /\ edges[i] = tree[n].edges[i]
      BY <1>4
    <3> QED BY <3>1, <3>2
  <2>2. node.endpoint = Len(node.routes)
    BY <1>3, <1>5 DEF NodeSound
  <2> QED BY <2>1, <2>2, <1>5, <1>6, <1>7 DEF NodeSound
<1> QED BY <1>1, <1>5, <1>8, <1>9, GrowSound, EmptyNodeSound, EmptyNodeType

\* A route is appended and counted.
LEMMA MountSound ==
    ASSUME NEW tree, NEW sp, Shape(tree, sp), Sound(tree), NEW n \in 1..Len(tree),
           NEW route \in Route
    PROVE  Sound(Mount(tree, n, route))
<1> DEFINE routes == Append(tree[n].routes, route)
           endpoint == tree[n].endpoint + 1
           node == [tree[n] EXCEPT !.endpoint = endpoint, !.routes = routes]
<1>1. /\ tree \in Seq(Node) /\ tree[n] \in Node /\ tree[n].endpoint \in Nat
      /\ tree[n].routes \in Seq(Route)
  BY ShapeOfNode DEF Shape
<1>2. routes \in Seq(Route) /\ Len(routes) = Len(tree[n].routes) + 1
  BY <1>1
<1>3. endpoint \in Nat
  BY <1>1
<1>4. NodeSound(tree[n])
  BY DEF Sound
<1>5. endpoint = Len(routes)
  BY <1>2, <1>4 DEF NodeSound
<1>6. Mount(tree, n, route) = [tree EXCEPT ![n] = node]
  BY DEF Mount
<1> HIDE DEF routes, endpoint
<1>7. /\ node \in Node /\ node.edges = tree[n].edges /\ node.routes = routes
      /\ node.endpoint = endpoint /\ node.compare_type = tree[n].compare_type
  BY <1>1, <1>2, <1>3 DEF Node
<1> HIDE DEF node
<1>8. NodeSound(node)
  BY <1>4, <1>5, <1>7 DEF NodeSound
<1> QED BY <1>1, <1>6, <1>7, <1>8, ReplaceSound

\* A pattern of several tokens has no opcode.
LEMMA LongHasNoOpcode ==
    ASSUME NEW pattern \in Seq(Token), Len(pattern) > 1, NEW opcode,
           OpcodeFits(pattern, opcode)
    PROVE  opcode = "NONE"
<1>1. ASSUME opcode # "NONE"
      PROVE  FALSE
  <2>1. PICK slug \in Slugs : pattern = <<slug>>
    BY <1>1 DEF OpcodeFits
  <2>2. Len(<<slug>>) = 1
    OBVIOUS
  <2> QED BY <2>1, <2>2
<1> QED BY <1>1

\* A slug begins with a brace.
LEMMA SlugIsBrace == ASSUME NEW pattern PROVE HasSlug(pattern) => HasBrace(pattern)
BY DEF HasSlug, SlugPositions, HasBrace

\* The braces of a cut pattern are braces of the pattern, and the first token of
\* a part cut from the front is the pattern's.
LEMMA CutSlugs ==
    ASSUME NEW pattern \in Seq(Token), NEW k \in 1..Len(pattern)
    PROVE  /\ HasBrace(Upto(pattern, k)) => HasBrace(pattern)
           /\ Upto(pattern, k)[1] = pattern[1]
<1> DEFINE upper == Upto(pattern, k)
<1>1. Len(pattern) \in Nat /\ k \in 0..Len(pattern)
  BY LenProperties
<1>2. Len(upper) = k
  BY <1>1, CutText
<1>3. \A i \in 1..k : upper[i] = pattern[i] /\ i \in 1..Len(pattern)
  BY <1>1 DEF Upto
<1> HIDE DEF upper
<1>4. HasBrace(upper) => HasBrace(pattern)
  BY <1>1, <1>2, <1>3 DEF HasBrace
<1>5. upper[1] = pattern[1]
  BY <1>1, <1>3
<1> QED BY <1>4, <1>5 DEF upper

\* An edge is split: its opcode does not survive on a part of its pattern,
\* because an edge with an opcode has nothing to split.
LEMMA EdgeBranchSound ==
    ASSUME NEW tree, NEW sp, Shape(tree, sp), Sound(tree), NEW n \in 1..Len(tree),
           NEW i \in 1..Len(tree[n].edges),
           NEW k \in 1..(Len(tree[n].edges[i].pattern) - 1)
    PROVE  Sound(EdgeBranch(tree, n, i, k))
<1> DEFINE c == Len(tree) + 1
           edge == tree[n].edges[i]
           upper == Upto(edge.pattern, k)
           lower == After(edge.pattern, k)
           short == [edge EXCEPT !.pattern = upper, !.child = c]
           edges == [tree[n].edges EXCEPT ![i] = short]
           node == [tree[n] EXCEPT !.edges = edges]
           rest == NewEdge(lower, edge.child, "NONE")
           leaf == [EmptyNode EXCEPT !.edges = <<rest>>]
<1>1. /\ tree \in Seq(Node) /\ c \in Nat
      /\ tree[n] \in Node /\ tree[n].edges \in Seq(Edge)
  <2>1. /\ tree \in Seq(Node) /\ Len(tree) \in Nat
        /\ tree[n] \in Node /\ tree[n].edges \in Seq(Edge)
    BY ShapeOfNode DEF Shape
  <2> QED BY <2>1
<1>2. NodeSound(tree[n])
  BY DEF Sound
<1>3. EdgeBranch(tree, n, i, k) = Append([tree EXCEPT ![n] = node], leaf)
  <2>1. [tree EXCEPT ![n] = node] = [tree EXCEPT ![n].edges[i] = short]
    BY Zenon
  <2> QED BY <2>1, Zenon DEF EdgeBranch
<1>4. edge \in Edge /\ EdgeSound(edge)
  BY <1>1, <1>2, ElementOfSeq DEF NodeSound
<1>5. edge.pattern \in Seq(Token) /\ edge.child \in Nat
  BY <1>4 DEF Edge
<1>6. k \in 1..Len(edge.pattern) /\ Len(edge.pattern) > 1
  BY <1>5
<1> HIDE DEF edge
<1>7. /\ upper \in Seq(Token) /\ lower \in Seq(Token)
      /\ HasBrace(upper) => HasBrace(edge.pattern)
      /\ upper[1] = edge.pattern[1]
  <2>1. k \in 0..Len(edge.pattern)
    BY <1>6
  <2> QED BY <2>1, <1>5, <1>6, CutText, CutSlugs
<1>8. edge.opcode = "NONE"
  BY <1>4, <1>5, <1>6, LongHasNoOpcode DEF EdgeSound
<1> HIDE DEF upper, lower, c
<1>9. /\ short \in Edge /\ short.pattern = upper
      /\ short.opcode = edge.opcode /\ short.has_slug = edge.has_slug
  BY <1>1, <1>4, <1>7 DEF Edge
<1> HIDE DEF short
<1>10. EdgeSound(short)
  BY <1>4, <1>7, <1>8, <1>9 DEF EdgeSound, OpcodeFits
<1>11. /\ edges \in Seq(Edge) /\ Len(edges) = Len(tree[n].edges)
       /\ edges[i] = short
       /\ \A j \in 1..Len(tree[n].edges) : j # i => edges[j] = tree[n].edges[j]
  BY <1>1, <1>9, ExceptSeq
<1> HIDE DEF edges
<1>12. /\ node \in Node /\ node.edges = edges /\ node.routes = tree[n].routes
       /\ node.endpoint = tree[n].endpoint
       /\ node.compare_type = tree[n].compare_type
  BY <1>1, <1>11 DEF Node
<1> HIDE DEF node
<1>13. \A j \in 1..Len(edges) :
            /\ edges[j].pattern[1] = tree[n].edges[j].pattern[1]
            /\ edges[j].opcode = tree[n].edges[j].opcode
  BY <1>7, <1>9, <1>11 DEF edge
<1>14. NodeSound(node)
  <2>1. \A j \in 1..Len(edges) : EdgeSound(edges[j])
    BY <1>2, <1>10, <1>11 DEF NodeSound
  <2>2. FirstsDiffer(edges)
    BY <1>2, <1>11, <1>13 DEF NodeSound, FirstsDiffer
  <2>3. node.compare_type = "OPCODE" =>
            \E j \in 1..Len(edges) : edges[j].opcode # "NONE"
    BY <1>2, <1>11, <1>12, <1>13 DEF NodeSound
  <2>4. node.endpoint = Len(node.routes)
    BY <1>2, <1>12 DEF NodeSound
  <2> QED BY <2>1, <2>2, <2>3, <2>4, <1>12 DEF NodeSound
<1>15. rest \in Edge /\ EdgeSound(rest)
  <2>1. "NONE" \in Opcodes /\ OpcodeFits(lower, "NONE")
    BY DEF Opcodes, OpcodeFits
  <2> QED BY <2>1, <1>5, <1>7, NewEdgeType, NewEdgeSound
<1> HIDE DEF rest
<1>16. /\ leaf \in Node /\ Len(leaf.edges) = 1 /\ leaf.edges[1] = rest
       /\ leaf.routes = <<>> /\ leaf.endpoint = 0 /\ leaf.compare_type = "PCRE"
  <2>1. leaf = [edges |-> <<rest>>, routes |-> <<>>, endpoint |-> 0,
                compare_type |-> "PCRE"]
    BY DEF EmptyNode
  <2>2. <<rest>> \in Seq(Edge) /\ Len(<<rest>>) = 1 /\ <<rest>>[1] = rest
    BY <1>15
  <2>3. <<>> \in Seq(Route)
    BY EmptySeq
  <2> HIDE DEF leaf
  <2> QED BY <2>1, <2>2, <2>3 DEF Node
<1> HIDE DEF leaf
<1>17. NodeSound(leaf)
  BY <1>15, <1>16 DEF NodeSound, FirstsDiffer
<1> QED BY <1>1, <1>3, <1>12, <1>14, <1>16, <1>17, GrowSound

\* Compiling refreshes what it changes.
LEMMA CompiledNodeSound ==
    ASSUME NEW node \in Node, NodeSound(node)
    PROVE  NodeSound(CompiledNode(node))
<1> DEFINE compiled == CompiledNode(node)
<1>1. /\ compiled.routes = node.routes /\ compiled.endpoint = node.endpoint
      /\ Len(compiled.edges) = Len(node.edges)
      /\ \A i \in 1..Len(node.edges) :
            /\ compiled.edges[i].pattern = node.edges[i].pattern
            /\ compiled.edges[i].opcode = node.edges[i].opcode
            /\ compiled.edges[i].has_slug = HasBrace(node.edges[i].pattern)
  BY CompiledEdges
<1>2. compiled.compare_type = "OPCODE" =>
        \E i \in 1..Len(node.edges) : node.edges[i].opcode # "NONE"
  <2> DEFINE edges == [i \in 1..Len(node.edges) |->
                          [node.edges[i] EXCEPT
                              !.has_slug = HasBrace(node.edges[i].pattern)]]
             has_slug_edges == \E i \in 1..Len(edges) : edges[i].has_slug
             all_opcodes == \A i \in 1..Len(edges) : edges[i].opcode # "NONE"
             type == IF all_opcodes THEN "OPCODE" ELSE "PCRE"
             compare == IF has_slug_edges THEN type ELSE node.compare_type
  <2>1. compiled = [node EXCEPT !.edges = edges, !.compare_type = compare]
    BY Zenon DEF CompiledNode
  <2>2. compare = "OPCODE" =>
            \/ \E i \in 1..Len(edges) : edges[i].opcode # "NONE"
            \/ node.compare_type = "OPCODE"
    OBVIOUS
  <2> HIDE DEF edges, compare, compiled
  <2>3. compiled.edges = edges /\ compiled.compare_type = compare
    BY <2>1 DEF Node
  <2> QED BY <2>2, <2>3, <1>1 DEF NodeSound
<1> HIDE DEF compiled
<1>3. \A i \in 1..Len(compiled.edges) : EdgeSound(compiled.edges[i])
  BY <1>1 DEF NodeSound, EdgeSound
<1>4. FirstsDiffer(compiled.edges)
  <2>1. FirstsDiffer(node.edges)
    BY DEF NodeSound
  <2> QED BY <2>1, <1>1 DEF FirstsDiffer
<1>5. NodeSound(compiled)
  BY <1>1, <1>2, <1>3, <1>4 DEF NodeSound
<1> QED BY <1>5 DEF compiled

LEMMA CompiledAtSound ==
    ASSUME NEW tree, NEW sp, Shape(tree, sp), Sound(tree), NEW visited
    PROVE  Sound(CompiledAt(tree, visited))
<1> DEFINE new == CompiledAt(tree, visited)
<1>1. /\ Len(new) = Len(tree)
      /\ \A n \in 1..Len(tree) :
            new[n] = IF n \in visited THEN CompiledNode(tree[n]) ELSE tree[n]
  BY CompiledAtNodes
<1>2. \A n \in 1..Len(tree) :
        NodeSound(tree[n]) /\ NodeSound(CompiledNode(tree[n]))
  BY ShapeOfNode, CompiledNodeSound DEF Sound
<1> HIDE DEF new
<1>3. Sound(new)
  BY <1>1, <1>2 DEF Sound
<1> QED BY <1>3 DEF new

LEMMA CompiledSound ==
    ASSUME NEW tree, NEW sp, Shape(tree, sp), Sound(tree)
    PROVE  Sound(CompiledTree(tree))
BY CompiledShape, CompiledAtSound

-----------------------------------------------------------------------------
(* The steps keep the nodes sound                                          *)

\* A grafted node has no edges.
LEMMA GraftLeaf ==
    ASSUME NEW tree, NEW sp, Shape(tree, sp), NEW n \in 1..Len(tree),
           NEW pattern \in Seq(Token), NEW opcode \in Opcodes
    PROVE  Graft(tree, n, pattern, opcode)[Len(tree) + 1] = EmptyNode
<1> DEFINE c == Len(tree) + 1
           edges == Connect(tree[n].edges, pattern, c, opcode)
           node == [tree[n] EXCEPT !.edges = edges]
<1>1. Graft(tree, n, pattern, opcode)
        = Append([tree EXCEPT ![n] = node], EmptyNode)
  BY DEF Graft
<1>2. /\ tree \in Seq(Node) /\ tree[n] \in Node /\ tree[n].edges \in Seq(Edge)
      /\ Len(tree) \in Nat
  BY ShapeOfNode DEF Shape
<1>3. c \in Nat
  BY <1>2
<1> HIDE DEF c
<1>4. edges \in Seq(Edge)
  BY <1>2, <1>3, ConnectEdges
<1> HIDE DEF edges
<1>5. node \in Node
  BY <1>2, <1>4 DEF Node
<1> HIDE DEF node
<1>6. [tree EXCEPT ![n] = node] \in Seq(Node)
      /\ Len([tree EXCEPT ![n] = node]) = Len(tree)
  BY <1>2, <1>5, ExceptSeq
<1> QED BY <1>1, <1>6, EmptyNodeType, AppendProperties

\* An insertion that finds no prefix begins unlike every edge of its node.
LEMMA GrowsUnlike ==
    ASSUME IInv, Grows, NEW i \in 1..Len(nodes[call.node].edges)
    PROVE  nodes[call.node].edges[i].pattern[1] # call.rest[1]
<1> DEFINE pattern == nodes[call.node].edges[i].pattern
<1>1. Inserting /\ call.rest # <<>> /\ ~Share(pattern, call.rest, 1)
  BY DEF Grows, NoCommonPrefix, EdgesHere
<1>2. /\ call.rest \in Seq(Token) /\ call.node \in 1..Len(nodes)
      /\ Shape(nodes, spell)
  BY <1>1, Frame DEF IInv
<1>3. /\ nodes[call.node].edges \in Seq(Edge)
      /\ Spells(nodes[call.node], spell[call.node], spell)
  BY <1>2, ShapeOfNode
<1>4. nodes[call.node].edges[i] \in Edge /\ pattern # <<>>
  BY <1>3, ElementOfSeq DEF Spells
<1>5. pattern \in Seq(Token)
  BY <1>4 DEF Edge
<1> HIDE DEF pattern
<1>6. Len(pattern) \in Nat \ {0} /\ Len(call.rest) \in Nat \ {0}
  BY <1>1, <1>2, <1>4, <1>5, EmptySeq
<1>7. 1 \in 0..Len(pattern) /\ 1 <= Len(call.rest)
  BY <1>6
<1>8. pattern[1] # call.rest[1]
  BY <1>1, <1>7 DEF Share
<1> QED BY <1>8 DEF pattern

LEMMA InsertFirstOfManySound ==
    ASSUME IInv, Sound(nodes), InsertFirstOfMany
    PROVE  Sound(nodes')
<1>1. Grows /\ Inserting
  BY DEF InsertFirstOfMany, Grows
<1>2. PICK j \in BreakPoints(call.rest) :
        nodes' = Graft(nodes, call.node, Upto(call.rest, j - 1), "NONE")
  BY DEF InsertFirstOfMany
<1> DEFINE first == Upto(call.rest, j - 1)
<1>3. /\ call.rest \in Seq(Token) /\ call.node \in 1..Len(nodes)
      /\ Shape(nodes, spell) /\ "NONE" \in Opcodes
  BY <1>1, Frame DEF IInv, Opcodes
<1>4. j - 1 \in 1..Len(call.rest)
  BY <1>3 DEF BreakPoints, SlugPositions
<1>5. first \in Seq(Token) /\ first[1] = call.rest[1]
  <2>1. j - 1 \in 0..Len(call.rest)
    BY <1>4
  <2> QED BY <2>1, <1>3, <1>4, CutText, CutSlugs
<1> HIDE DEF first
<1>6. \A i \in 1..Len(nodes[call.node].edges) :
            nodes[call.node].edges[i].pattern[1] # first[1]
  BY <1>1, <1>5, GrowsUnlike
<1>7. OpcodeFits(first, "NONE")
  BY DEF OpcodeFits
<1> QED BY <1>2, <1>3, <1>5, <1>6, <1>7, GraftSound DEF first

LEMMA InsertLiteralSound ==
    ASSUME IInv, Sound(nodes), InsertLiteral
    PROVE  Sound(nodes')
<1> DEFINE grafted == Graft(nodes, call.node, call.rest, "NONE")
           text == Append(spell, spell[call.node] \o call.rest)
           c == Len(nodes) + 1
<1>1. /\ Grows /\ Inserting /\ call.rest # <<>>
      /\ nodes' = Mount(grafted, c, NewRoute)
  BY DEF InsertLiteral, Grows
<1>2. /\ call.rest \in Seq(Token) /\ call.node \in 1..Len(nodes)
      /\ Shape(nodes, spell) /\ "NONE" \in Opcodes /\ NewRoute \in Route
      /\ OpcodeFits(call.rest, "NONE")
  BY <1>1, Frame DEF IInv, Opcodes, OpcodeFits
<1>3. \A i \in 1..Len(nodes[call.node].edges) :
            nodes[call.node].edges[i].pattern[1] # call.rest[1]
  BY <1>1, GrowsUnlike
<1>4. Sound(grafted)
  BY <1>2, <1>3, GraftSound
<1>5. Shape(grafted, text) /\ Len(grafted) = Len(nodes) + 1
  BY <1>1, <1>2, GraftShape
<1>6. Len(nodes) \in Nat
  BY <1>2, ShapeOfNode
<1> HIDE DEF grafted, text
<1>7. c \in 1..Len(grafted)
  BY <1>5, <1>6
<1> QED BY <1>1, <1>2, <1>4, <1>5, <1>7, MountSound

LEMMA InsertSlugSound ==
    ASSUME IInv, Sound(nodes), InsertSlug
    PROVE  Sound(nodes')
<1>1. Grows /\ Inserting
  BY DEF InsertSlug, Grows
<1>2. PICK s \in CountedSlugs(call.rest) :
        LET before == Upto(call.rest, s - 1)
            slug == call.rest[s]
            c1 == IF s > 1 THEN Len(nodes) + 1 ELSE call.node
            tree1 == IF s > 1 THEN Graft(nodes, call.node, before, "NONE")
                              ELSE nodes
            c2 == Len(tree1) + 1
            tree2 == Graft(tree1, c1, <<slug>>, SlugOpcode[slug])
        IN  nodes' = tree2 \/ nodes' = Mount(tree2, c2, NewRoute)
  BY DEF InsertSlug
<1> DEFINE before == Upto(call.rest, s - 1)
           slug == call.rest[s]
           opcode == SlugOpcode[slug]
           pattern == <<slug>>
           c1 == IF s > 1 THEN Len(nodes) + 1 ELSE call.node
           tree1 == IF s > 1 THEN Graft(nodes, call.node, before, "NONE")
                             ELSE nodes
           spell1 == IF s > 1 THEN Append(spell, spell[call.node] \o before)
                              ELSE spell
           c2 == Len(tree1) + 1
           tree2 == Graft(tree1, c1, pattern, opcode)
           text == Append(spell1, spell1[c1] \o pattern)
<1>3. nodes' = tree2 \/ nodes' = Mount(tree2, c2, NewRoute)
  BY <1>2
<1>4. /\ call.rest \in Seq(Token) /\ call.node \in 1..Len(nodes)
      /\ Shape(nodes, spell) /\ "NONE" \in Opcodes /\ NewRoute \in Route
  BY <1>1, Frame DEF IInv, Opcodes
<1>5. /\ s \in 1..Len(call.rest) /\ slug \in Slugs /\ slug \in Token
      /\ opcode \in Opcodes
  BY SlugOpcodeAssumption DEF CountedSlugs, SlugPositions, Token
<1>6. /\ pattern \in Seq(Token) /\ pattern # <<>> /\ pattern[1] = slug
      /\ OpcodeFits(pattern, opcode)
  BY <1>5 DEF OpcodeFits
<1>7. Len(nodes) \in Nat
  BY <1>4, ShapeOfNode
<1> HIDE DEF pattern, opcode
<1>8. /\ Shape(tree1, spell1) /\ Sound(tree1) /\ c1 \in 1..Len(tree1)
      /\ \A i \in 1..Len(tree1[c1].edges) :
            tree1[c1].edges[i].pattern[1] # pattern[1]
  <2>1. CASE s > 1
    <3> DEFINE grafted == Graft(nodes, call.node, before, "NONE")
               text1 == Append(spell, spell[call.node] \o before)
    <3>1. s - 1 \in 1..Len(call.rest) /\ s - 1 \in 0..Len(call.rest)
      BY <1>5, <2>1
    <3>2. /\ before \in Seq(Token) /\ before[1] = call.rest[1]
          /\ Len(before) = s - 1
      BY <1>4, <3>1, CutText, CutSlugs
    <3> HIDE DEF before
    <3>3. before # <<>>
      BY <3>1, <3>2
    <3>4. Shape(grafted, text1) /\ Len(grafted) = Len(nodes) + 1
      BY <1>4, <3>2, <3>3, GraftShape
    <3>5. \A i \in 1..Len(nodes[call.node].edges) :
                nodes[call.node].edges[i].pattern[1] # before[1]
      BY <1>1, <3>2, GrowsUnlike
    <3>6. OpcodeFits(before, "NONE")
      BY DEF OpcodeFits
    <3>7. Sound(grafted)
      BY <1>4, <3>2, <3>5, <3>6, GraftSound
    <3>8. grafted[Len(nodes) + 1] = EmptyNode
      BY <1>4, <3>2, GraftLeaf
    <3> HIDE DEF grafted, text1
    <3>9. tree1 = grafted /\ spell1 = text1 /\ c1 = Len(nodes) + 1
      BY <2>1 DEF grafted, text1
    <3>10. Len(nodes) + 1 \in 1..Len(grafted) /\ Len(EmptyNode.edges) = 0
      BY <1>7, <3>4 DEF EmptyNode
    <3> HIDE DEF tree1, spell1, c1
    <3> QED BY <3>4, <3>7, <3>8, <3>9, <3>10
  <2>2. CASE ~(s > 1)
    <3>1. tree1 = nodes /\ spell1 = spell /\ c1 = call.node
      BY <2>2
    <3>2. pattern[1] = call.rest[1]
      BY <2>2, <1>5, <1>6
    <3> HIDE DEF tree1, spell1, c1
    <3> QED BY <1>1, <1>4, <3>1, <3>2, GrowsUnlike
  <2> QED BY <2>1, <2>2
<1> HIDE DEF tree1, spell1, c1
<1>9. Sound(tree2)
  BY <1>5, <1>6, <1>8, GraftSound
<1>10. Shape(tree2, text) /\ Len(tree2) = Len(tree1) + 1
  BY <1>5, <1>6, <1>8, GraftShape
<1>11. Len(tree1) \in Nat
  BY <1>8, ShapeOfNode
<1> HIDE DEF tree2, text
<1>12. c2 \in 1..Len(tree2)
  BY <1>10, <1>11
<1> HIDE DEF c2
<1>13. Sound(Mount(tree2, c2, NewRoute))
  BY <1>4, <1>9, <1>10, <1>12, MountSound
<1> QED BY <1>3, <1>9, <1>13

LEMMA InsertExistingSound ==
    ASSUME IInv, Sound(nodes), InsertExisting
    PROVE  Sound(nodes')
<1>1. PICK i \in 1..Len(EdgesHere), k \in 1..Len(call.rest) :
        /\ Inserting /\ CommonPrefix(i, k)
        /\ nodes' = Mount(nodes, EdgesHere[i].child, NewRoute)
  BY DEF InsertExisting, Follows
<1>2. EdgesHere[i].child \in 1..Len(nodes) /\ NewRoute \in Route
  BY <1>1, SharedPrefix, Frame
<1> QED BY <1>1, <1>2, MountSound DEF IInv

LEMMA BranchSound ==
    ASSUME IInv, Sound(nodes), Branch
    PROVE  Sound(nodes')
<1>1. PICK i \in 1..Len(EdgesHere), k \in 1..Len(call.rest) :
        /\ Inserting /\ CommonPrefix(i, k)
        /\ k < Len(EdgesHere[i].pattern)
        /\ nodes' = EdgeBranch(nodes, call.node, i, k)
  BY DEF Branch, Follows
<1>2. EdgesHere[i].pattern \in Seq(Token) /\ call.node \in 1..Len(nodes)
  BY <1>1, SharedPrefix, Frame
<1>3. k \in 1..(Len(EdgesHere[i].pattern) - 1)
  BY <1>1, <1>2
<1> QED BY <1>1, <1>2, <1>3, EdgeBranchSound DEF IInv, EdgesHere

LEMMA InsertHereSound ==
    ASSUME IInv, Sound(nodes), InsertHere
    PROVE  Sound(nodes')
BY Frame, MountSound DEF InsertHere, IInv

\* The new tree starts sound, and no step of the program makes it otherwise.
LEMMA SoundInductive ==
    ASSUME IInv, Sound(nodes), [Next]_vars
    PROVE  Sound(nodes')
<1>1. CASE InsertHere
  BY <1>1, InsertHereSound
<1>2. CASE InsertFirstOfMany
  BY <1>2, InsertFirstOfManySound
<1>3. CASE InsertSlug
  BY <1>3, InsertSlugSound
<1>4. CASE InsertLiteral
  BY <1>4, InsertLiteralSound
<1>5. CASE InsertExisting
  BY <1>5, InsertExistingSound
<1>6. CASE Branch
  BY <1>6, BranchSound
<1>7. CASE Compile
  BY <1>7, CompiledSound DEF Compile, IInv
<1>8. CASE UNCHANGED nodes
  BY <1>8
<1> QED BY <1>1, <1>2, <1>3, <1>4, <1>5, <1>6, <1>7, <1>8
        DEF Next, InsertStep, Add, ParseRefuses, ParseAstray, CountRefuses,
            InsertAborts, Descend, vars

LEMMA SoundInitially == Init => Sound(nodes)
<1> SUFFICES ASSUME Init
             PROVE  Sound(nodes)
  OBVIOUS
<1>1. Len(nodes) = 1 /\ nodes[1] = EmptyNode
  BY DEF Init
<1>2. \A n \in 1..Len(nodes) : nodes[n] = EmptyNode
  BY <1>1
<1> QED BY <1>2, EmptyNodeSound DEF Sound

LEMMA SoundInvariance == Spec => []Sound(nodes)
<1>1. IInv /\ Sound(nodes) /\ [Next]_vars => Sound(nodes)'
  BY SoundInductive
<1> QED BY <1>1, SoundInitially, Invariance, PTL DEF Spec

-----------------------------------------------------------------------------
(* Theorems                                                                *)

\* A cached has_slug never hides a slug, though a split leaves it out of date.
THEOREM HasSlugSafe == Spec => []HasSlugNeverMissed
<1>1. Sound(nodes) => HasSlugNeverMissed
  BY SlugIsBrace DEF Sound, NodeSound, EdgeSound, HasSlugNeverMissed, NodeIds, EdgeIds
<1> QED BY <1>1, SoundInvariance, PTL

\* No split leaves an opcode on a part of a pattern, and compiling makes a node
\* compare by opcode only if it has one.
THEOREM OpcodesAreSlugs == Spec => []OpcodesSound
<1>1. Sound(nodes) => OpcodesSound
  BY DEF Sound, NodeSound, EdgeSound, OpcodeFits, OpcodesSound, NodeIds, EdgeIds
<1> QED BY <1>1, SoundInvariance, PTL

\* The edges of a node begin with different tokens: the first edge a search
\* finds is the only one.
THEOREM SiblingsUnlike == Spec => []SiblingsDiffer
<1>1. Sound(nodes) => SiblingsDiffer
  BY DEF Sound, NodeSound, FirstsDiffer, SiblingsDiffer, NodeIds, EdgeIds
<1> QED BY <1>1, SoundInvariance, PTL

-----------------------------------------------------------------------------
(***************************************************************************)
(* The tree as a whole: a text leads to one node only, every node hangs at *)
(* one edge, and nothing malformed gets in but with a pattern that makes   *)
(* up for it.  That two nodes never stand for the same text is not         *)
(* inductive, and says nothing of the edges between them.  Reached does:   *)
(* whenever the text of a node goes on to that of another, an edge of the  *)
(* node goes that way.  The texts are compared token by token, by Prefix.  *)
(***************************************************************************)

Prefix(s, t) == Len(s) <= Len(t) /\ \A i \in 1..Len(s) : s[i] = t[i]

Child(tree, n, c) ==
    \E i \in 1..Len(tree[n].edges) : tree[n].edges[i].child = c

\* The way from a text to a longer one that some node stands for has begun.
Reached(tree, sp) ==
    \A n, m \in 1..Len(tree) : n # m /\ Prefix(sp[n], sp[m]) =>
        \E c \in 1..Len(tree) : Child(tree, n, c) /\ Prefix(sp[c], sp[m])

\* Every node but the root hangs at an edge.
Parented(tree) ==
    \A c \in 1..Len(tree) :
        c # Root => \E n \in 1..Len(tree) : Child(tree, n, c)

\* What every function on trees preserves, besides Shape and Sound.
Whole(tree, sp) ==
    /\ Reached(tree, sp)
    /\ Parented(tree)
    /\ \A n \in 1..Len(sp) : Excused(sp[n])

-----------------------------------------------------------------------------
(* Prefixes                                                                *)

LEMMA PrefixTransitive ==
    ASSUME NEW a \in Seq(Token), NEW b \in Seq(Token), NEW d \in Seq(Token),
           Prefix(a, b), Prefix(b, d)
    PROVE  Prefix(a, d)
BY DEF Prefix

\* Two prefixes of one text: the shorter is a prefix of the longer.
LEMMA PrefixesCompare ==
    ASSUME NEW a \in Seq(Token), NEW b \in Seq(Token), NEW d \in Seq(Token),
           Prefix(a, d), Prefix(b, d), Len(a) <= Len(b)
    PROVE  Prefix(a, b)
BY DEF Prefix

\* A text put in front is a prefix; what follows comes next.
LEMMA ConcatPrefix ==
    ASSUME NEW a \in Seq(Token), NEW b \in Seq(Token), b # <<>>
    PROVE  /\ Prefix(a, a \o b) /\ Len(a \o b) = Len(a) + Len(b)
           /\ Len(a \o b) > Len(a) /\ (a \o b)[Len(a) + 1] = b[1]
<1>1. Len(a) \in Nat /\ Len(b) \in Nat /\ Len(b) > 0
  BY EmptySeq, LenProperties
<1>2. Len(a \o b) = Len(a) + Len(b)
  OBVIOUS
<1>3. \A i \in 1..Len(a) : (a \o b)[i] = a[i]
  BY <1>1
<1>4. (a \o b)[Len(a) + 1] = b[1]
  BY <1>1
<1> QED BY <1>1, <1>2, <1>3, <1>4 DEF Prefix

-----------------------------------------------------------------------------
(* Parents and children                                                    *)

LEMMA TextType ==
    ASSUME NEW tree, NEW sp, Shape(tree, sp), NEW n \in 1..Len(tree)
    PROVE  sp[n] \in Seq(Token) /\ Len(sp[n]) \in Nat
BY ShapeOfNode, LenProperties

\* The text of a child is its parent's with more behind it.
LEMMA ChildText ==
    ASSUME NEW tree, NEW sp, Shape(tree, sp), NEW n \in 1..Len(tree), NEW c,
           Child(tree, n, c)
    PROVE  /\ c \in 1..Len(tree)
           /\ Len(sp[c]) > Len(sp[n]) /\ Prefix(sp[n], sp[c])
<1>1. PICK i \in 1..Len(tree[n].edges) : tree[n].edges[i].child = c
  BY DEF Child
<1> DEFINE pattern == tree[n].edges[i].pattern
<1>2. /\ Spells(tree[n], sp[n], sp) /\ Len(sp) = Len(tree)
      /\ tree[n].edges[i] \in Edge /\ sp[n] \in Seq(Token)
  BY ShapeOfNode, ElementOfSeq
<1>3. pattern \in Seq(Token)
  BY <1>2 DEF Edge
<1>4. pattern # <<>> /\ c \in 1..Len(tree) /\ sp[c] = sp[n] \o pattern
  BY <1>1, <1>2 DEF Spells
<1> HIDE DEF pattern
<1> QED BY <1>2, <1>3, <1>4, ConcatPrefix

\* The next token tells the children of a node apart.
LEMMA OneWayDown ==
    ASSUME NEW tree, NEW sp, Shape(tree, sp), Sound(tree),
           NEW n \in 1..Len(tree), NEW i \in 1..Len(tree[n].edges),
           NEW j \in 1..Len(tree[n].edges),
           sp[tree[n].edges[i].child][Len(sp[n]) + 1]
                = sp[tree[n].edges[j].child][Len(sp[n]) + 1]
    PROVE  i = j
<1>1. ASSUME NEW k \in 1..Len(tree[n].edges)
      PROVE  sp[tree[n].edges[k].child][Len(sp[n]) + 1]
                = tree[n].edges[k].pattern[1]
  <2> DEFINE pattern == tree[n].edges[k].pattern
  <2>1. /\ Spells(tree[n], sp[n], sp) /\ tree[n].edges[k] \in Edge
        /\ sp[n] \in Seq(Token)
    BY ShapeOfNode, ElementOfSeq
  <2>2. pattern \in Seq(Token)
    BY <2>1 DEF Edge
  <2>3. pattern # <<>> /\ sp[tree[n].edges[k].child] = sp[n] \o pattern
    BY <2>1 DEF Spells
  <2>4. (sp[n] \o pattern)[Len(sp[n]) + 1] = pattern[1]
    <3> HIDE DEF pattern
    <3> QED BY <2>1, <2>2, <2>3, ConcatPrefix
  <2> QED BY <2>3, <2>4
<1>2. FirstsDiffer(tree[n].edges)
  BY DEF Sound, NodeSound
<1>3. tree[n].edges[i].pattern[1] = tree[n].edges[j].pattern[1]
  BY <1>1
<1> QED BY <1>2, <1>3 DEF FirstsDiffer

\* Two nodes with the same text are the same node.
LEMMA OneText ==
    ASSUME NEW tree, NEW sp, Shape(tree, sp), Reached(tree, sp),
           NEW n \in 1..Len(tree), NEW m \in 1..Len(tree), sp[n] = sp[m]
    PROVE  n = m
<1> SUFFICES ASSUME n # m
             PROVE  FALSE
  OBVIOUS
<1>1. Len(sp[n]) \in Nat /\ Prefix(sp[n], sp[m])
  BY TextType DEF Prefix
<1>2. PICK c \in 1..Len(tree) : Child(tree, n, c) /\ Prefix(sp[c], sp[m])
  BY <1>1 DEF Reached
<1>3. Len(sp[c]) > Len(sp[n]) /\ Len(sp[c]) \in Nat
  BY <1>2, ChildText, TextType
<1>4. Len(sp[c]) <= Len(sp[m])
  BY <1>2 DEF Prefix
<1> QED BY <1>1, <1>3, <1>4

\* Two edges never lead to the same node.
LEMMA OneEdge ==
    ASSUME NEW tree, NEW sp, Shape(tree, sp), Sound(tree), Reached(tree, sp),
           NEW n \in 1..Len(tree), NEW m \in 1..Len(tree),
           NEW i \in 1..Len(tree[n].edges), NEW j \in 1..Len(tree[m].edges),
           tree[n].edges[i].child = tree[m].edges[j].child
    PROVE  n = m /\ i = j
<1> DEFINE d == tree[n].edges[i].child
<1>1. /\ Child(tree, n, d) /\ Child(tree, m, d)
  BY DEF Child
<1>2. /\ d \in 1..Len(tree)
      /\ Len(sp[d]) > Len(sp[n]) /\ Prefix(sp[n], sp[d])
      /\ Len(sp[d]) > Len(sp[m]) /\ Prefix(sp[m], sp[d])
      /\ Len(sp[d]) \in Nat /\ Len(sp[n]) \in Nat /\ Len(sp[m]) \in Nat
      /\ sp[d] \in Seq(Token) /\ sp[n] \in Seq(Token) /\ sp[m] \in Seq(Token)
  BY <1>1, ChildText, TextType
<1> HIDE DEF d
\* The edge of the node higher up would lead past the other node.
<1>3. ASSUME NEW a \in 1..Len(tree), NEW b \in 1..Len(tree), a # b,
             Prefix(sp[a], sp[b]), Prefix(sp[b], sp[d]), Len(sp[b]) < Len(sp[d]),
             Child(tree, a, d)
      PROVE  FALSE
  <2>1. PICK c \in 1..Len(tree) : Child(tree, a, c) /\ Prefix(sp[c], sp[b])
    BY <1>3 DEF Reached
  <2>2. /\ Len(sp[c]) > Len(sp[a]) /\ Len(sp[a]) \in Nat /\ Len(sp[c]) \in Nat
        /\ Len(sp[b]) \in Nat /\ Len(sp[d]) \in Nat
    BY <1>2, <2>1, ChildText, TextType
  <2>3. Prefix(sp[c], sp[d])
    <3>1. sp[c] \in Seq(Token) /\ sp[b] \in Seq(Token) /\ sp[d] \in Seq(Token)
      BY <1>2, TextType
    <3> QED BY <1>3, <2>1, <3>1, PrefixTransitive
  <2>4. Len(sp[a]) + 1 \in 1..Len(sp[c])
    <3> DEFINE above == Len(sp[a])
               below == Len(sp[c])
    <3>1. below > above /\ above \in Nat /\ below \in Nat
      BY <2>2
    <3> HIDE DEF above, below
    <3>2. above + 1 \in 1..below
      BY <3>1
    <3> QED BY <3>2 DEF above, below
  <2>5. sp[c][Len(sp[a]) + 1] = sp[d][Len(sp[a]) + 1]
    <3>1. \A x \in 1..Len(sp[c]) : sp[c][x] = sp[d][x]
      BY <2>3, Zenon DEF Prefix
    <3> QED BY <2>4, <3>1
  <2>6. c = d
    <3>1. PICK k \in 1..Len(tree[a].edges) : tree[a].edges[k].child = c
      BY <2>1 DEF Child
    <3>2. PICK l \in 1..Len(tree[a].edges) : tree[a].edges[l].child = d
      BY <1>3 DEF Child
    <3>3. sp[tree[a].edges[k].child][Len(sp[a]) + 1]
            = sp[tree[a].edges[l].child][Len(sp[a]) + 1]
      BY <2>5, <3>1, <3>2
    <3>4. k = l
      BY <3>3, OneWayDown
    <3> QED BY <3>1, <3>2, <3>4
  <2>7. Len(sp[d]) <= Len(sp[b])
    BY <2>1, <2>6 DEF Prefix
  <2> QED BY <1>3, <2>2, <2>7
<1>4. n = m
  <2>1. CASE Len(sp[n]) <= Len(sp[m])
    <3>1. Prefix(sp[n], sp[m])
      BY <1>2, <2>1, PrefixesCompare
    <3> QED BY <1>1, <1>2, <1>3, <3>1
  <2>2. CASE Len(sp[m]) <= Len(sp[n])
    <3>1. Prefix(sp[m], sp[n])
      BY <1>2, <2>2, PrefixesCompare
    <3> QED BY <1>1, <1>2, <1>3, <3>1
  <2> QED BY <1>2, <2>1, <2>2
<1>5. i = j
  BY <1>4, OneWayDown DEF d
<1> QED BY <1>4, <1>5

-----------------------------------------------------------------------------
(* A tree that grows by one node                                           *)

\* Node n has become "node" and "leaf" has been added.
GrownWith(tree, n, node, leaf, new) ==
    /\ Len(tree) \in Nat /\ Len(new) = Len(tree) + 1
    /\ new[Len(tree) + 1] = leaf
    /\ \A m \in 1..Len(tree) : \A c :
        m # n /\ Child(tree, m, c) => Child(new, m, c)
    /\ \A i \in 1..Len(node.edges) : Child(new, n, node.edges[i].child)

\* No child of either is lost.
LEMMA GrowChildren ==
    ASSUME NEW tree \in Seq(Node), NEW n \in 1..Len(tree), NEW node \in Node,
           NEW leaf \in Node, NEW new,
           new = Append([tree EXCEPT ![n] = node], leaf)
    PROVE  GrownWith(tree, n, node, leaf, new)
<1> DEFINE changed == [tree EXCEPT ![n] = node]
<1>0. new = Append(changed, leaf)
  OBVIOUS
<1>1. /\ changed \in Seq(Node) /\ Len(changed) = Len(tree)
      /\ \A m \in 1..Len(tree) : changed[m] = IF m = n THEN node ELSE tree[m]
      /\ Len(tree) \in Nat
  BY ExceptSeq, LenProperties
<1> HIDE DEF changed
<1>2. /\ Len(new) = Len(changed) + 1
      /\ \A m \in 1..Len(changed) : new[m] = changed[m]
      /\ new[Len(changed) + 1] = leaf
  BY <1>0, <1>1, AppendProperties
<1>3. /\ \A m \in 1..Len(tree) : new[m] = IF m = n THEN node ELSE tree[m]
      /\ Len(new) = Len(tree) + 1 /\ new[Len(tree) + 1] = leaf
  BY <1>1, <1>2
<1>4. \A m \in 1..Len(tree) : \A c :
            m # n /\ Child(tree, m, c) => Child(new, m, c)
  BY <1>3 DEF Child
<1>5. \A i \in 1..Len(node.edges) : Child(new, n, node.edges[i].child)
  <2>1. new[n] = node
    BY <1>3
  <2> QED BY <2>1 DEF Child
<1> QED BY <1>1, <1>3, <1>4, <1>5 DEF GrownWith

LEMMA GraftChildren ==
    ASSUME NEW tree, NEW sp, Shape(tree, sp), NEW n \in 1..Len(tree),
           NEW pattern \in Seq(Token), NEW opcode \in Opcodes,
           \A i \in 1..Len(tree[n].edges) :
                tree[n].edges[i].pattern[1] # pattern[1]
    PROVE  LET new == Graft(tree, n, pattern, opcode)
               c == Len(tree) + 1 IN
           /\ Len(tree) \in Nat /\ Len(new) = c
           /\ Child(new, n, c)
           /\ \A m \in 1..Len(tree) : \A d :
                Child(tree, m, d) => Child(new, m, d)
<1> DEFINE c == Len(tree) + 1
           new == NewEdge(pattern, c, opcode)
           edges == Connect(tree[n].edges, pattern, c, opcode)
           node == [tree[n] EXCEPT !.edges = edges]
           grown == Append([tree EXCEPT ![n] = node], EmptyNode)
<1>1. Graft(tree, n, pattern, opcode) = grown
  BY DEF Graft
<1>2. edges = Append(tree[n].edges, new)
  BY ConnectAppends
<1>3. /\ tree \in Seq(Node) /\ tree[n] \in Node /\ tree[n].edges \in Seq(Edge)
      /\ Len(tree) \in Nat
  BY ShapeOfNode DEF Shape
<1>4. c \in Nat
  BY <1>3
<1> HIDE DEF c
<1>5. new \in Edge /\ new.child = c
  BY <1>4, NewEdgeType DEF NewEdge
<1> HIDE DEF new, edges
<1>6. /\ edges \in Seq(Edge) /\ Len(edges) = Len(tree[n].edges) + 1
      /\ \A i \in 1..Len(tree[n].edges) :
            i \in 1..Len(edges) /\ edges[i] = tree[n].edges[i]
      /\ Len(edges) \in 1..Len(edges) /\ edges[Len(edges)] = new
  BY <1>2, <1>3, <1>5
<1>7. node \in Node /\ node.edges = edges
  BY <1>3, <1>6 DEF Node
<1> HIDE DEF node
<1>8. /\ Len(grown) = Len(tree) + 1
      /\ \A m \in 1..Len(tree) : \A d :
            m # n /\ Child(tree, m, d) => Child(grown, m, d)
      /\ \A i \in 1..Len(node.edges) : Child(grown, n, node.edges[i].child)
  <2>1. EmptyNode \in Node
    BY EmptyNodeType
  <2>2. grown = Append([tree EXCEPT ![n] = node], EmptyNode)
    OBVIOUS
  <2> HIDE DEF grown
  <2>3. GrownWith(tree, n, node, EmptyNode, grown)
    BY <1>3, <1>7, <2>1, <2>2, GrowChildren
  <2> QED BY <2>3 DEF GrownWith
<1> HIDE DEF grown
<1>9. \A d : Child(tree, n, d) => Child(grown, n, d)
  <2> SUFFICES ASSUME NEW d, Child(tree, n, d)
               PROVE  Child(grown, n, d)
    OBVIOUS
  <2>1. PICK i \in 1..Len(tree[n].edges) : tree[n].edges[i].child = d
    BY DEF Child
  <2> QED BY <2>1, <1>6, <1>7, <1>8
<1>10. Child(grown, n, c)
  BY <1>5, <1>6, <1>7, <1>8
<1> QED BY <1>1, <1>3, <1>8, <1>9, <1>10 DEF c

\* The split edge is handed on: what it led to is a child of the new node.
LEMMA BranchChildren ==
    ASSUME NEW tree, NEW sp, Shape(tree, sp), NEW n \in 1..Len(tree),
           NEW i \in 1..Len(tree[n].edges),
           NEW k \in 1..(Len(tree[n].edges[i].pattern) - 1)
    PROVE  LET new == EdgeBranch(tree, n, i, k)
               c == Len(tree) + 1 IN
           /\ Len(tree) \in Nat /\ Len(new) = c
           /\ Child(new, n, c)
           /\ Child(new, c, tree[n].edges[i].child)
           /\ \A m \in 1..Len(tree) : \A d :
                m # n /\ Child(tree, m, d) => Child(new, m, d)
           /\ \A j \in 1..Len(tree[n].edges) :
                j # i => Child(new, n, tree[n].edges[j].child)
<1> DEFINE c == Len(tree) + 1
           edge == tree[n].edges[i]
           upper == Upto(edge.pattern, k)
           lower == After(edge.pattern, k)
           short == [edge EXCEPT !.pattern = upper, !.child = c]
           edges == [tree[n].edges EXCEPT ![i] = short]
           node == [tree[n] EXCEPT !.edges = edges]
           rest == NewEdge(lower, edge.child, "NONE")
           leaf == [EmptyNode EXCEPT !.edges = <<rest>>]
           grown == Append([tree EXCEPT ![n] = node], leaf)
<1>1. /\ tree \in Seq(Node) /\ Len(tree) \in Nat
      /\ tree[n] \in Node /\ tree[n].edges \in Seq(Edge)
  BY ShapeOfNode DEF Shape
<1>2. EdgeBranch(tree, n, i, k) = grown
  <2>1. [tree EXCEPT ![n] = node] = [tree EXCEPT ![n].edges[i] = short]
    BY Zenon
  <2> QED BY <2>1, Zenon DEF EdgeBranch
<1>3. edge \in Edge
  BY <1>1, ElementOfSeq
<1>4. edge.pattern \in Seq(Token) /\ edge.child \in Nat /\ c \in Nat
  <2>1. edge.pattern \in Seq(Token) /\ edge.child \in Nat
    <3> HIDE DEF edge
    <3> QED BY <1>3 DEF Edge
  <2>2. c \in Nat
    BY <1>1
  <2> QED BY <2>1, <2>2
<1>5. k \in 0..Len(edge.pattern)
  BY <1>4
<1> HIDE DEF edge
<1>6. upper \in Seq(Token) /\ lower \in Seq(Token)
  BY <1>4, <1>5, CutText
<1> HIDE DEF upper, lower, c
<1>7. short \in Edge /\ short.child = c
  BY <1>3, <1>4, <1>6 DEF Edge
<1> HIDE DEF short
<1>8. /\ edges \in Seq(Edge) /\ Len(edges) = Len(tree[n].edges)
      /\ edges[i] = short
      /\ \A j \in 1..Len(tree[n].edges) : j # i => edges[j] = tree[n].edges[j]
  BY <1>1, <1>7, ExceptSeq
<1> HIDE DEF edges
<1>9. node \in Node /\ node.edges = edges
  BY <1>1, <1>8 DEF Node
<1> HIDE DEF node
<1>10. rest \in Edge /\ rest.child = edge.child
  <2>1. "NONE" \in Opcodes
    BY DEF Opcodes
  <2> QED BY <2>1, <1>4, <1>6, NewEdgeType DEF NewEdge
<1> HIDE DEF rest
<1>11. leaf \in Node /\ Len(leaf.edges) = 1 /\ leaf.edges[1] = rest
  <2>1. leaf = [edges |-> <<rest>>, routes |-> <<>>, endpoint |-> 0,
                compare_type |-> "PCRE"]
    BY DEF EmptyNode
  <2>2. <<rest>> \in Seq(Edge) /\ Len(<<rest>>) = 1 /\ <<rest>>[1] = rest
    BY <1>10
  <2>3. <<>> \in Seq(Route)
    BY EmptySeq
  <2> HIDE DEF leaf
  <2> QED BY <2>1, <2>2, <2>3 DEF Node
<1> HIDE DEF leaf
<1>12. /\ Len(grown) = Len(tree) + 1 /\ grown[Len(tree) + 1] = leaf
       /\ \A m \in 1..Len(tree) : \A d :
            m # n /\ Child(tree, m, d) => Child(grown, m, d)
       /\ \A j \in 1..Len(node.edges) : Child(grown, n, node.edges[j].child)
  <2>1. grown = Append([tree EXCEPT ![n] = node], leaf)
    OBVIOUS
  <2> HIDE DEF grown
  <2>2. GrownWith(tree, n, node, leaf, grown)
    BY <1>1, <1>9, <1>11, <2>1, GrowChildren
  <2> QED BY <2>2 DEF GrownWith
<1> HIDE DEF grown
<1>13. Child(grown, n, c)
  BY <1>7, <1>8, <1>9, <1>12
<1>14. Child(grown, c, edge.child)
  <2>1. grown[c] = leaf /\ 1 \in 1..Len(leaf.edges)
    BY <1>11, <1>12 DEF c
  <2> QED BY <2>1, <1>10, <1>11 DEF Child
<1>15. \A j \in 1..Len(tree[n].edges) :
            j # i => Child(grown, n, tree[n].edges[j].child)
  BY <1>8, <1>9, <1>12
<1> QED BY <1>1, <1>2, <1>12, <1>13, <1>14, <1>15 DEF c, edge

-----------------------------------------------------------------------------
(* A grown tree still reaches every text                                   *)

\* The indices of one more node.
LEMMA OneMore ==
    ASSUME NEW len \in Nat
    PROVE  /\ \A m \in 1..(len + 1) : m = len + 1 \/ m \in 1..len
           /\ \A m \in 1..len : m \in 1..(len + 1)
           /\ len + 1 \notin 1..len /\ len + 1 \in 1..(len + 1)
OBVIOUS

\* The text of a child agrees with every text it is a prefix of on the token
\* behind its parent's.
LEMMA NextToken ==
    ASSUME NEW tree, NEW sp, Shape(tree, sp), NEW n \in 1..Len(tree), NEW d,
           Child(tree, n, d), NEW u, Prefix(sp[d], u)
    PROVE  sp[d][Len(sp[n]) + 1] = u[Len(sp[n]) + 1]
<1>1. /\ Len(sp[d]) > Len(sp[n]) /\ Len(sp[n]) \in Nat /\ Len(sp[d]) \in Nat
  BY ChildText, TextType
<1>2. Len(sp[n]) + 1 \in 1..Len(sp[d])
  BY <1>1
<1> QED BY <1>2 DEF Prefix

\* No edge of n begins like the text of the node grafted.
LEMMA GraftReached ==
    ASSUME NEW tree, NEW sp, Shape(tree, sp), Reached(tree, sp),
           NEW n \in 1..Len(tree),
           NEW pattern \in Seq(Token), pattern # <<>>, NEW opcode \in Opcodes,
           \A i \in 1..Len(tree[n].edges) :
                tree[n].edges[i].pattern[1] # pattern[1]
    PROVE  Reached(Graft(tree, n, pattern, opcode),
                   Append(sp, sp[n] \o pattern))
<1> DEFINE new == Graft(tree, n, pattern, opcode)
           t == sp[n] \o pattern
           text == Append(sp, t)
           c == Len(tree) + 1
           here == Len(sp[n])
<1>1. /\ Len(sp) = Len(tree) /\ sp \in Seq(Seq(Token)) /\ sp[n] \in Seq(Token)
      /\ Len(tree) \in Nat /\ here \in Nat
  BY ShapeOfNode, TextType
<1>2. /\ t \in Seq(Token) /\ Prefix(sp[n], t) /\ Len(t) > here
      /\ t[here + 1] = pattern[1]
  BY <1>1, ConcatPrefix, ConcatProperties
<1>3. \A d \in 1..Len(tree) : Child(tree, n, d) => sp[d][here + 1] # t[here + 1]
  <2> SUFFICES ASSUME NEW d \in 1..Len(tree), Child(tree, n, d)
               PROVE  sp[d][here + 1] # t[here + 1]
    OBVIOUS
  <2>1. PICK i \in 1..Len(tree[n].edges) : tree[n].edges[i].child = d
    BY DEF Child
  <2> DEFINE own == tree[n].edges[i].pattern
  <2>2. Spells(tree[n], sp[n], sp) /\ tree[n].edges[i] \in Edge
    BY ShapeOfNode, ElementOfSeq
  <2>3. own \in Seq(Token) /\ own # <<>> /\ sp[d] = sp[n] \o own
    BY <2>1, <2>2 DEF Edge, Spells
  <2>4. own[1] # pattern[1]
    OBVIOUS
  <2> HIDE DEF own, t
  <2>5. (sp[n] \o own)[here + 1] = own[1]
    BY <1>1, <2>3, ConcatPrefix
  <2> QED BY <1>2, <2>3, <2>4, <2>5
<1>4. /\ Len(new) = c /\ Child(new, n, c)
      /\ \A m \in 1..Len(tree) : \A d : Child(tree, m, d) => Child(new, m, d)
  BY GraftChildren
<1> HIDE DEF t, new
<1>5. /\ text[c] = t
      /\ \A m \in 1..Len(tree) : text[m] = sp[m]
  <2>1. sp \in Seq(Seq(Token)) /\ t \in Seq(Token) /\ c = Len(sp) + 1
    BY <1>1, <1>2
  <2> HIDE DEF c
  <2>2. /\ text[Len(sp) + 1] = t
        /\ \A m \in 1..Len(sp) : text[m] = sp[m]
    BY <2>1, AppendText
  <2> QED BY <1>1, <2>1, <2>2
<1> HIDE DEF text
<1>6. \A m \in 1..c : m = c \/ m \in 1..Len(tree)
  BY <1>1, OneMore
<1>7. c \notin 1..Len(tree) /\ c \in 1..c /\ \A m \in 1..Len(tree) : m \in 1..c
  BY <1>1, OneMore
<1>8. Prefix(t, t)
  BY <1>2 DEF Prefix
<1>9. \A m \in 1..Len(tree) : sp[m] \in Seq(Token) /\ Len(sp[m]) \in Nat
  BY TextType
<1> HIDE DEF c, here
<1>10. ASSUME NEW a \in 1..c, NEW b \in 1..c, a # b, Prefix(text[a], text[b])
       PROVE  \E d \in 1..c : Child(new, a, d) /\ Prefix(text[d], text[b])
  <2>1. CASE a \in 1..Len(tree) /\ b \in 1..Len(tree)
    <3>1. PICK d \in 1..Len(tree) : Child(tree, a, d) /\ Prefix(sp[d], sp[b])
      BY <1>5, <1>10, <2>1 DEF Reached
    <3> QED BY <2>1, <3>1, <1>4, <1>5, <1>7
  <2>2. CASE a \in 1..Len(tree) /\ b = c
    <3>1. Prefix(sp[a], t)
      BY <1>5, <1>10, <2>2
    <3>2. CASE Len(sp[a]) <= here
      <4>1. Prefix(sp[a], sp[n])
        BY <1>1, <1>2, <1>9, <2>2, <3>1, <3>2, PrefixesCompare DEF here
      <4>2. CASE a = n
        BY <4>2, <1>4, <1>5, <1>7, <1>8, <2>2
      <4>3. CASE a # n
        <5>1. PICK d \in 1..Len(tree) : Child(tree, a, d) /\ Prefix(sp[d], sp[n])
          BY <2>2, <4>1, <4>3 DEF Reached
        <5>2. Prefix(sp[d], t)
          BY <1>1, <1>2, <1>9, <5>1, PrefixTransitive
        <5> QED BY <2>2, <5>1, <5>2, <1>4, <1>5, <1>7
      <4> QED BY <4>2, <4>3
    <3>3. CASE ~(Len(sp[a]) <= here)
      <4>1. Len(sp[a]) > here
        BY <1>1, <1>9, <2>2, <3>3
      <4>2. Prefix(sp[n], sp[a]) /\ n # a
        <5>1. here <= Len(sp[a]) /\ n # a
          BY <1>1, <1>9, <2>2, <4>1 DEF here
        <5> QED BY <5>1, <1>1, <1>2, <1>9, <2>2, <3>1, PrefixesCompare DEF here
      <4>3. PICK d \in 1..Len(tree) : Child(tree, n, d) /\ Prefix(sp[d], sp[a])
        BY <2>2, <4>2 DEF Reached
      <4>4. Prefix(sp[d], t)
        BY <1>2, <1>9, <2>2, <3>1, <4>3, PrefixTransitive
      <4>5. sp[d][here + 1] = t[here + 1]
        BY <4>3, <4>4, NextToken DEF here
      <4> QED BY <1>3, <4>3, <4>5
    <3> QED BY <3>2, <3>3
  <2>3. CASE a = c /\ b \in 1..Len(tree)
    <3>1. Prefix(t, sp[b])
      BY <1>5, <1>10, <2>3
    <3>2. Prefix(sp[n], sp[b]) /\ n # b
      <4>1. Prefix(sp[n], sp[b])
        BY <1>1, <1>2, <1>9, <2>3, <3>1, PrefixTransitive
      <4>2. Len(t) <= Len(sp[b])
        BY <3>1 DEF Prefix
      <4>3. Len(t) \in Nat /\ here = Len(sp[n])
        BY <1>2 DEF here
      <4> QED BY <1>1, <1>2, <1>9, <4>1, <4>2, <4>3
    <3>3. PICK d \in 1..Len(tree) : Child(tree, n, d) /\ Prefix(sp[d], sp[b])
      BY <2>3, <3>2 DEF Reached
    <3>4. sp[d][here + 1] = sp[b][here + 1]
      BY <3>3, NextToken DEF here
    <3>5. t[here + 1] = sp[b][here + 1]
      <4>1. here + 1 \in 1..Len(t)
        BY <1>1, <1>2
      <4> QED BY <3>1, <4>1 DEF Prefix
    <3> QED BY <1>3, <3>3, <3>4, <3>5
  <2> QED BY <1>6, <1>10, <2>1, <2>2, <2>3
<1>11. Reached(new, text)
  BY <1>4, <1>10 DEF Reached
<1> QED BY <1>11 DEF new, text, t

\* The text of the node that splits an edge lies between those of its ends.
LEMMA BetweenText ==
    ASSUME NEW tree, NEW sp, Shape(tree, sp), NEW n \in 1..Len(tree),
           NEW i \in 1..Len(tree[n].edges),
           NEW k \in 1..(Len(tree[n].edges[i].pattern) - 1),
           NEW t, t = sp[n] \o Upto(tree[n].edges[i].pattern, k)
    PROVE  LET old == tree[n].edges[i].child IN
           /\ old \in 1..Len(tree) /\ t \in Seq(Token)
           /\ Prefix(sp[n], t) /\ Len(sp[n]) < Len(t)
           /\ Prefix(t, sp[old]) /\ Len(t) < Len(sp[old])
<1> DEFINE old == tree[n].edges[i].child
           pattern == tree[n].edges[i].pattern
           upper == Upto(pattern, k)
           lower == After(pattern, k)
<1>1. /\ Spells(tree[n], sp[n], sp) /\ tree[n].edges[i] \in Edge
      /\ sp[n] \in Seq(Token) /\ Len(sp) = Len(tree)
  BY ShapeOfNode, ElementOfSeq
<1>2. /\ pattern \in Seq(Token) /\ old \in 1..Len(tree)
      /\ sp[old] = sp[n] \o pattern /\ k \in 1..(Len(pattern) - 1)
      /\ t = sp[n] \o upper
  BY <1>1 DEF Edge, Spells
<1> HIDE DEF pattern, old
<1>3. k \in 0..Len(pattern) /\ k > 0 /\ Len(pattern) - k > 0
  BY <1>2
<1>4. /\ upper \in Seq(Token) /\ lower \in Seq(Token)
      /\ upper # <<>> /\ lower # <<>> /\ upper \o lower = pattern
  <2>1. /\ upper \in Seq(Token) /\ Len(upper) = k
        /\ lower \in Seq(Token) /\ Len(lower) = Len(pattern) - k
        /\ upper \o lower = pattern
    BY <1>2, <1>3, CutText
  <2> HIDE DEF upper, lower
  <2> QED BY <2>1, <1>3
<1> HIDE DEF upper, lower
<1>5. t \in Seq(Token) /\ Prefix(sp[n], t) /\ Len(t) > Len(sp[n])
  <2>1. t \in Seq(Token)
    BY <1>1, <1>2, <1>4, ConcatProperties
  <2>2. Prefix(sp[n], sp[n] \o upper) /\ Len(sp[n] \o upper) > Len(sp[n])
    BY <1>1, <1>4, ConcatPrefix
  <2> QED BY <2>1, <2>2, <1>2
<1>6. sp[old] = t \o lower
  <2>1. (sp[n] \o upper) \o lower = sp[n] \o (upper \o lower)
    <3>1. sp[n] \in Seq(Token) /\ upper \in Seq(Token) /\ lower \in Seq(Token)
      BY <1>1, <1>4
    <3> QED BY <3>1, TextsAssociative, Zenon
  <2> QED BY <2>1, <1>2, <1>4
<1>7. Prefix(t, sp[old]) /\ Len(sp[old]) > Len(t)
  BY <1>4, <1>5, <1>6, ConcatPrefix
<1> QED BY <1>1, <1>2, <1>5, <1>7, TextType DEF old

LEMMA BranchReached ==
    ASSUME NEW tree, NEW sp, Shape(tree, sp), Sound(tree), Reached(tree, sp),
           NEW n \in 1..Len(tree), NEW i \in 1..Len(tree[n].edges),
           NEW k \in 1..(Len(tree[n].edges[i].pattern) - 1)
    PROVE  Reached(EdgeBranch(tree, n, i, k),
                   Append(sp, sp[n] \o Upto(tree[n].edges[i].pattern, k)))
<1> DEFINE new == EdgeBranch(tree, n, i, k)
           t == sp[n] \o Upto(tree[n].edges[i].pattern, k)
           text == Append(sp, t)
           old == tree[n].edges[i].child
           c == Len(tree) + 1
           here == Len(sp[n])
<1>1. /\ Len(sp) = Len(tree) /\ sp \in Seq(Seq(Token)) /\ sp[n] \in Seq(Token)
      /\ Len(tree) \in Nat /\ here \in Nat
  BY ShapeOfNode, TextType
<1>2. /\ old \in 1..Len(tree) /\ t \in Seq(Token)
      /\ Prefix(sp[n], t) /\ here < Len(t)
      /\ Prefix(t, sp[old]) /\ Len(t) < Len(sp[old])
  BY BetweenText
<1>3. \A m \in 1..Len(tree) : sp[m] \in Seq(Token) /\ Len(sp[m]) \in Nat
  BY TextType
<1>4. here + 1 \in 1..Len(t) /\ Len(t) \in Nat
  <2> HIDE DEF t
  <2>1. Len(t) \in Nat
    BY <1>2
  <2> QED BY <1>1, <1>2, <2>1
\* The split edge is the only way towards t.
<1>5. ASSUME NEW d \in 1..Len(tree), Child(tree, n, d),
             sp[d][here + 1] = t[here + 1]
      PROVE  d = old
  <2>1. t[here + 1] = sp[old][here + 1]
    <3> HIDE DEF t, old, here
    <3> QED BY <1>2, <1>4 DEF Prefix
  <2>2. PICK j \in 1..Len(tree[n].edges) : tree[n].edges[j].child = d
    BY <1>5 DEF Child
  <2>3. sp[tree[n].edges[j].child][here + 1] = sp[tree[n].edges[i].child][here + 1]
    BY <1>5, <2>1, <2>2
  <2>4. j = i
    BY <2>3, OneWayDown
  <2> QED BY <2>2, <2>4
<1>6. /\ Len(new) = c /\ Child(new, n, c) /\ Child(new, c, old)
      /\ \A m \in 1..Len(tree) : \A d :
            m # n /\ Child(tree, m, d) => Child(new, m, d)
      /\ \A d : d # old /\ Child(tree, n, d) => Child(new, n, d)
  <2>1. /\ Len(new) = c /\ Child(new, n, c) /\ Child(new, c, old)
        /\ \A m \in 1..Len(tree) : \A d :
            m # n /\ Child(tree, m, d) => Child(new, m, d)
        /\ \A j \in 1..Len(tree[n].edges) :
            j # i => Child(new, n, tree[n].edges[j].child)
    BY BranchChildren
  <2>2. ASSUME NEW d, d # old, Child(tree, n, d)
        PROVE  Child(new, n, d)
    <3> HIDE DEF new
    <3>1. PICK j \in 1..Len(tree[n].edges) : tree[n].edges[j].child = d
      BY <2>2 DEF Child
    <3> QED BY <2>1, <2>2, <3>1
  <2> QED BY <2>1, <2>2
<1> HIDE DEF t, new, old
<1>7. /\ text[c] = t
      /\ \A m \in 1..Len(tree) : text[m] = sp[m]
  <2>1. sp \in Seq(Seq(Token)) /\ t \in Seq(Token) /\ c = Len(sp) + 1
    BY <1>1, <1>2
  <2> HIDE DEF c
  <2>2. /\ text[Len(sp) + 1] = t
        /\ \A m \in 1..Len(sp) : text[m] = sp[m]
    BY <2>1, AppendText
  <2> QED BY <1>1, <2>1, <2>2
<1> HIDE DEF text
<1>8. \A m \in 1..c : m = c \/ m \in 1..Len(tree)
  BY <1>1, OneMore
<1>9. c \notin 1..Len(tree) /\ c \in 1..c /\ \A m \in 1..Len(tree) : m \in 1..c
  BY <1>1, OneMore
<1>10. Prefix(t, t)
  BY <1>2 DEF Prefix
<1> HIDE DEF c, here
<1>11. ASSUME NEW a \in 1..c, NEW b \in 1..c, a # b, Prefix(text[a], text[b])
       PROVE  \E d \in 1..c : Child(new, a, d) /\ Prefix(text[d], text[b])
  <2>1. CASE a \in 1..Len(tree) /\ b \in 1..Len(tree)
    <3>1. PICK d \in 1..Len(tree) : Child(tree, a, d) /\ Prefix(sp[d], sp[b])
      BY <1>7, <1>11, <2>1 DEF Reached
    <3>2. CASE a # n \/ d # old
      BY <2>1, <3>1, <3>2, <1>6, <1>7, <1>9
    <3>3. CASE a = n /\ d = old
      <4>1. Prefix(t, sp[b])
        BY <1>2, <1>3, <2>1, <3>1, <3>3, PrefixTransitive
      <4> QED BY <2>1, <3>3, <4>1, <1>6, <1>7, <1>9
    <3> QED BY <3>2, <3>3
  <2>2. CASE a \in 1..Len(tree) /\ b = c
    <3>1. Prefix(sp[a], t)
      BY <1>7, <1>11, <2>2
    <3>2. CASE a = n
      BY <3>2, <1>6, <1>7, <1>9, <1>10, <2>2
    <3>3. CASE a # n /\ Len(sp[a]) <= here
      <4>1. Prefix(sp[a], sp[n])
        BY <1>1, <1>2, <1>3, <2>2, <3>1, <3>3, PrefixesCompare DEF here
      <4>2. PICK d \in 1..Len(tree) : Child(tree, a, d) /\ Prefix(sp[d], sp[n])
        BY <2>2, <3>3, <4>1 DEF Reached
      <4>3. Prefix(sp[d], t)
        BY <1>1, <1>2, <1>3, <4>2, PrefixTransitive
      <4> QED BY <2>2, <3>3, <4>2, <4>3, <1>6, <1>7, <1>9
    <3>4. CASE a # n /\ ~(Len(sp[a]) <= here)
      <4>1. here <= Len(sp[a])
        BY <1>1, <1>3, <2>2, <3>4
      <4>2. Prefix(sp[n], sp[a])
        BY <4>1, <1>1, <1>2, <1>3, <2>2, <3>1, PrefixesCompare DEF here
      <4>3. PICK d \in 1..Len(tree) : Child(tree, n, d) /\ Prefix(sp[d], sp[a])
        BY <2>2, <3>4, <4>2 DEF Reached
      <4>4. Prefix(sp[d], t)
        BY <1>2, <1>3, <2>2, <3>1, <4>3, PrefixTransitive
      <4>5. sp[d][here + 1] = t[here + 1]
        BY <4>3, <4>4, NextToken DEF here
      <4>6. d = old
        BY <1>5, <4>3, <4>5
      <4>7. Len(sp[old]) <= Len(t)
        BY <4>4, <4>6 DEF Prefix
      <4> QED BY <1>2, <1>3, <1>4, <4>7
    <3> QED BY <3>2, <3>3, <3>4
  <2>3. CASE a = c /\ b \in 1..Len(tree)
    <3>1. Prefix(t, sp[b])
      BY <1>7, <1>11, <2>3
    <3>2. Prefix(sp[n], sp[b]) /\ n # b
      <4>1. Prefix(sp[n], sp[b])
        BY <1>1, <1>2, <1>3, <2>3, <3>1, PrefixTransitive
      <4>2. Len(t) <= Len(sp[b])
        BY <3>1 DEF Prefix
      <4>3. here = Len(sp[n])
        BY DEF here
      <4> QED BY <1>2, <1>3, <1>4, <4>1, <4>2, <4>3
    <3>3. PICK d \in 1..Len(tree) : Child(tree, n, d) /\ Prefix(sp[d], sp[b])
      BY <2>3, <3>2 DEF Reached
    <3>4. sp[d][here + 1] = sp[b][here + 1]
      BY <3>3, NextToken DEF here
    <3>5. t[here + 1] = sp[b][here + 1]
      BY <3>1, <1>4 DEF Prefix
    <3>6. d = old
      BY <1>5, <3>3, <3>4, <3>5
    <3> QED BY <2>3, <3>3, <3>6, <1>6, <1>7, <1>9
  <2> QED BY <1>8, <1>11, <2>1, <2>2, <2>3
<1>12. Reached(new, text)
  BY <1>6, <1>11 DEF Reached
<1> QED BY <1>12 DEF new, text, t

-----------------------------------------------------------------------------
(* Excused texts                                                           *)

LEMMA LeastNatural ==
    ASSUME NEW T, T \subseteq Nat, T # {}
    PROVE  Min(T) \in T /\ \A y \in T : Min(T) <= y
<1> DEFINE Less == OpToRel(<, Nat)
<1>1. IsWellFoundedOn(Less, Nat)
  BY NatLessThanWellFounded
<1>2. \A x, y \in Nat : x < y => <<x, y>> \in Less
  BY DEF OpToRel
<1> HIDE DEF Less
<1>3. PICK x \in T : \A y \in T : ~(<<y, x>> \in Less)
  BY <1>1, WFMin
<1>4. \A y \in T : x <= y
  <2> TAKE y \in T
  <2>1. x \in Nat /\ y \in Nat
    OBVIOUS
  <2>2. ~(y < x)
    BY <2>1, <1>2, <1>3
  <2> QED BY <2>1, <2>2
<1> QED BY <1>4 DEF Min

\* A malformed text has a first malformed token.
LEMMA FirstFlawExists ==
    ASSUME NEW text \in Seq(Token), HasMalformed(text)
    PROVE  \E b \in 1..Len(text) : FirstFlaw(text, b)
<1> DEFINE flaws == {i \in 1..Len(text) : text[i] \in Malformed}
<1>1. flaws \subseteq Nat /\ flaws # {}
  BY DEF HasMalformed
<1>2. PICK b \in flaws : \A i \in flaws : b <= i
  <2> HIDE DEF flaws
  <2> QED BY <1>1, LeastNatural
<1>3. \A i \in 1..b-1 : i \in 1..Len(text) /\ ~(b <= i)
  BY LenProperties
<1> QED BY <1>2, <1>3 DEF FirstFlaw

\* If the malformed patterns are refused, an excused text is well formed.
LEMMA ExcusedIsClean ==
    ASSUME NoneMakesUp, NEW text \in Seq(Token), Excused(text)
    PROVE  ~HasMalformed(text)
BY FirstFlawExists DEF Excused, NoneMakesUp

\* The beginning of an excused text is excused.
LEMMA ExcusedPrefix ==
    ASSUME NEW a \in Seq(Token), NEW b \in Seq(Token), Prefix(a, b), Excused(b)
    PROVE  Excused(a)
<1> SUFFICES ASSUME NEW f \in 1..Len(a), FirstFlaw(a, f)
             PROVE  \E path \in Paths : MakesUp(path) /\ Share(a, path, f)
  BY DEF Excused
<1>1. Len(a) \in Nat /\ Len(b) \in Nat
  BY LenProperties
<1>2. \A i \in 1..f : i \in 1..Len(a) /\ i \in 1..Len(b) /\ a[i] = b[i]
  BY <1>1 DEF Prefix
<1>3. FirstFlaw(b, f) /\ f \in 1..Len(b)
  BY <1>1, <1>2 DEF FirstFlaw
<1>4. PICK path \in Paths : MakesUp(path) /\ Share(b, path, f)
  BY <1>3 DEF Excused
<1>5. Share(a, path, f)
  BY <1>1, <1>2, <1>4 DEF Share
<1> QED BY <1>4, <1>5

\* The texts of the nodes and a new one.
LEMMA AppendExcused ==
    ASSUME NEW sp \in Seq(Seq(Token)), NEW t \in Seq(Token),
           \A n \in 1..Len(sp) : Excused(sp[n]), Excused(t)
    PROVE  \A n \in 1..Len(Append(sp, t)) : Excused(Append(sp, t)[n])
<1> DEFINE text == Append(sp, t)
<1>1. /\ Len(text) = Len(sp) + 1 /\ text[Len(sp) + 1] = t
      /\ \A m \in 1..Len(sp) : text[m] = sp[m]
  BY AppendText
<1> HIDE DEF text
<1>2. Len(sp) \in Nat
  BY LenProperties
<1>3. \A m \in 1..Len(text) : m = Len(sp) + 1 \/ m \in 1..Len(sp)
  BY <1>1, <1>2, OneMore
<1>4. \A n \in 1..Len(text) : Excused(text[n])
  BY <1>1, <1>3
<1> QED BY <1>4 DEF text

\* Behind a text without malformed tokens a malformed one occurs as often.
LEMMA OccurrencesBehind ==
    ASSUME NEW here \in Seq(Token), NEW rest \in Seq(Token),
           ~HasMalformed(here), NEW token \in Malformed
    PROVE  Cardinality(Occurrences(token, here \o rest))
                = Cardinality(Occurrences(token, rest))
<1> DEFINE text == here \o rest
           n == Len(here)
           S == Occurrences(token, rest)
           T == Occurrences(token, text)
           F == [i \in S |-> n + i]
<1>1. /\ n \in Nat /\ Len(rest) \in Nat /\ Len(text) = n + Len(rest)
      /\ \A i \in 1..n : text[i] = here[i]
      /\ \A i \in 1..Len(rest) : text[n + i] = rest[i]
  BY ConcatProperties, LenProperties
<1>2. \A i \in 1..n : here[i] # token
  BY DEF HasMalformed
<1> HIDE DEF text, n
<1>3. /\ S \subseteq Int
      /\ \A i : i \in S <=> i \in 1..Len(rest) /\ rest[i] = token
      /\ \A i : i \in T <=> i \in 1..Len(text) /\ text[i] = token
  BY DEF Occurrences
<1> HIDE DEF S, T
<1>4. \A i \in S : n + i \in T
  BY <1>1, <1>3
<1>5. \A t \in T : \E i \in S : n + i = t
  <2> TAKE t \in T
  <2>1. t \in 1..(n + Len(rest)) /\ text[t] = token
    BY <1>1, <1>3
  <2>2. t \notin 1..n
    BY <1>1, <1>2, <2>1
  <2>3. t - n \in 1..Len(rest) /\ n + (t - n) = t
    BY <1>1, <2>1, <2>2
  <2>4. t - n \in S
    BY <1>1, <1>3, <2>1, <2>3
  <2> QED BY <2>3, <2>4
<1>6. F \in [S -> T] /\ \A i \in S : F[i] = n + i
  BY <1>4
<1>7. \A i, j \in S : F[i] = F[j] => i = j
  BY <1>1, <1>3, <1>6
<1>8. \A t \in T : \E i \in S : F[i] = t
  BY <1>5, <1>6
<1> HIDE DEF F
<1>9. F \in Bijection(S, T)
  BY <1>6, <1>7, <1>8 DEF Bijection, Injection, Surjection, IsInjective
<1>10. IsFiniteSet(S)
  <2>1. IsFiniteSet(1..Len(rest))
    BY <1>1, FS_Interval
  <2>2. S \in SUBSET (1..Len(rest))
    BY <1>3
  <2> QED BY <2>1, <2>2, FS_Subset
<1>11. Cardinality(T) = Cardinality(S)
  BY <1>9, <1>10, FS_Bijection DEF ExistsBijection
<1> QED BY <1>11 DEF S, T, text

\* If an insertion goes on where nothing is shared, the flaws of its pattern make
\* up for each other or lie in the text of the node reached.
LEMMA GrowsExcused ==
    ASSUME IInv, Inserting, ~CountFails(call.rest), Excused(spell[call.node]),
           NEW t \in Seq(Token), NEW u \in Seq(Token), t \o u = call.path
    PROVE  Excused(t)
<1> DEFINE here == spell[call.node]
           rest == call.rest
           path == call.path
<1>1. /\ here \in Seq(Token) /\ rest \in Seq(Token) /\ path \in Paths
      /\ here \o rest = path
  BY Frame
<1>2. Excused(here) /\ ~CountFails(rest) /\ t \o u = path
  OBVIOUS
<1> HIDE DEF here, rest, path
<1> SUFFICES ASSUME NEW f \in 1..Len(t), FirstFlaw(t, f)
             PROVE  \E p \in Paths : MakesUp(p) /\ Share(t, p, f)
  BY DEF Excused
<1>3. /\ Len(t) \in Nat /\ Len(here) \in Nat
      /\ Len(path) = Len(t) + Len(u) /\ Len(u) \in Nat
      /\ \A i \in 1..Len(t) : path[i] = t[i]
      /\ Len(path) = Len(here) + Len(rest) /\ Len(rest) \in Nat
      /\ \A i \in 1..Len(here) : path[i] = here[i]
  <2>1. /\ Len(t) \in Nat /\ Len(u) \in Nat
        /\ Len(here) \in Nat /\ Len(rest) \in Nat
    BY <1>1, LenProperties
  <2>2. /\ Len(path) = Len(t) + Len(u)
        /\ \A i \in 1..Len(t) : path[i] = t[i]
    BY <1>2, <2>1, ConcatProperties
  <2>3. /\ Len(path) = Len(here) + Len(rest)
        /\ \A i \in 1..Len(here) : path[i] = here[i]
    BY <1>1, <2>1, ConcatProperties
  <2> QED BY <2>1, <2>2, <2>3
<1>4. t[f] \in Malformed /\ \A i \in 1..f-1 : t[i] \notin Malformed
  BY DEF FirstFlaw
<1>5. CASE f <= Len(here)
  <2>1. \A i \in 1..f : i \in 1..Len(t) /\ i \in 1..Len(here) /\ here[i] = t[i]
    BY <1>3, <1>5
  <2>2. FirstFlaw(here, f) /\ f \in 1..Len(here)
    BY <1>4, <1>5, <2>1 DEF FirstFlaw
  <2>3. PICK p \in Paths : MakesUp(p) /\ Share(here, p, f)
    BY <1>2, <2>2 DEF Excused
  <2>4. f <= Len(p) /\ \A i \in 1..f : here[i] = p[i]
    BY <2>3 DEF Share
  <2>5. f \in 0..Len(t) /\ \A i \in 1..f : t[i] = p[i]
    BY <1>3, <2>1, <2>4
  <2> QED BY <2>3, <2>4, <2>5 DEF Share
<1>6. CASE ~(f <= Len(here))
  <2>1. \A i \in 1..Len(here) : i \in 1..f-1 /\ i \in 1..Len(t)
    BY <1>3, <1>6
  <2>2. ~HasMalformed(here)
    BY <1>3, <1>4, <2>1 DEF HasMalformed
  <2>3. StrayClose \in Malformed /\ Unclosed \in Malformed
    BY DEF Malformed
  <2>4. ~CountFails(path)
    <3>1. Cardinality(Occurrences(StrayClose, here \o rest))
            = Cardinality(Occurrences(StrayClose, rest))
      BY <1>1, <2>2, <2>3, OccurrencesBehind
    <3>2. Cardinality(Occurrences(Unclosed, here \o rest))
            = Cardinality(Occurrences(Unclosed, rest))
      BY <1>1, <2>2, <2>3, OccurrencesBehind
    <3> QED BY <1>1, <1>2, <3>1, <3>2, Zenon DEF CountFails
  <2>5. HasMalformed(path)
    BY <1>3, <1>4 DEF HasMalformed
  <2>6. Share(t, path, f)
    BY <1>3 DEF Share
  <2> QED BY <1>1, <2>4, <2>5, <2>6 DEF MakesUp, CountFails
<1> QED BY <1>5, <1>6

\* If the malformed patterns are refused, an insertion grows the tree only with
\* a well formed one.
LEMMA GrowsClean ==
    ASSUME IInv, NoneMakesUp, Inserting, ~CountFails(call.rest),
           Excused(spell[call.node])
    PROVE  ~HasMalformed(call.path)
<1>1. call.path \in Seq(Token)
  BY Frame, PathsAssumption
<1>2. <<>> \in Seq(Token) /\ call.path \o <<>> = call.path
  BY <1>1, ConcatProperties
<1>3. Excused(call.path)
  BY <1>1, <1>2, GrowsExcused
<1> QED BY <1>1, <1>3, ExcusedIsClean

-----------------------------------------------------------------------------
(* The functions on trees keep the tree whole                              *)

\* A new node hangs at an edge, and so does what hung at a split one.
LEMMA GrownParented ==
    ASSUME NEW tree, Parented(tree), NEW new, NEW c, NEW n \in 1..Len(tree),
           Len(tree) \in Nat, c = Len(tree) + 1, Len(new) = c, Child(new, n, c),
           \A m \in 1..Len(tree) : \A d :
                Child(tree, m, d) => Child(new, m, d) \/ Child(new, c, d)
    PROVE  Parented(new)
<1>1. /\ \A m \in 1..c : m = c \/ m \in 1..Len(tree)
      /\ \A m \in 1..Len(tree) : m \in 1..c
      /\ c \in 1..c
  BY OneMore
<1>2. ASSUME NEW d \in 1..c, d # Root
      PROVE  \E m \in 1..c : Child(new, m, d)
  <2>1. CASE d = c
    BY <2>1, <1>1
  <2>2. CASE d \in 1..Len(tree)
    <3>1. PICK m \in 1..Len(tree) : Child(tree, m, d)
      BY <1>2, <2>2 DEF Parented
    <3> QED BY <3>1, <1>1
  <2> QED BY <1>1, <1>2, <2>1, <2>2
<1> QED BY <1>2 DEF Parented

LEMMA GraftWhole ==
    ASSUME NEW tree, NEW sp, Shape(tree, sp), Whole(tree, sp),
           NEW n \in 1..Len(tree),
           NEW pattern \in Seq(Token), pattern # <<>>, NEW opcode \in Opcodes,
           \A i \in 1..Len(tree[n].edges) :
                tree[n].edges[i].pattern[1] # pattern[1],
           Excused(sp[n] \o pattern)
    PROVE  Whole(Graft(tree, n, pattern, opcode), Append(sp, sp[n] \o pattern))
<1> DEFINE new == Graft(tree, n, pattern, opcode)
           t == sp[n] \o pattern
           c == Len(tree) + 1
<1>1. Reached(new, Append(sp, t))
  BY GraftReached DEF Whole
<1>2. /\ Len(tree) \in Nat /\ Len(new) = c /\ Child(new, n, c)
      /\ \A m \in 1..Len(tree) : \A d : Child(tree, m, d) => Child(new, m, d)
  BY GraftChildren
<1>3. /\ sp \in Seq(Seq(Token)) /\ sp[n] \in Seq(Token) /\ Len(sp) = Len(tree)
  BY ShapeOfNode
<1>4. t \in Seq(Token) /\ Excused(t)
  BY <1>3, ConcatProperties
<1> HIDE DEF new, t
<1>5. Parented(new)
  BY <1>2, GrownParented DEF Whole
<1>6. \A m \in 1..Len(Append(sp, t)) : Excused(Append(sp, t)[m])
  BY <1>3, <1>4, AppendExcused DEF Whole
<1>7. Whole(new, Append(sp, t))
  BY <1>1, <1>5, <1>6 DEF Whole
<1> QED BY <1>7 DEF new, t

LEMMA BranchWhole ==
    ASSUME NEW tree, NEW sp, Shape(tree, sp), Sound(tree), Whole(tree, sp),
           NEW n \in 1..Len(tree), NEW i \in 1..Len(tree[n].edges),
           NEW k \in 1..(Len(tree[n].edges[i].pattern) - 1)
    PROVE  Whole(EdgeBranch(tree, n, i, k),
                 Append(sp, sp[n] \o Upto(tree[n].edges[i].pattern, k)))
<1> DEFINE new == EdgeBranch(tree, n, i, k)
           t == sp[n] \o Upto(tree[n].edges[i].pattern, k)
           c == Len(tree) + 1
           old == tree[n].edges[i].child
<1>1. Reached(new, Append(sp, t))
  BY BranchReached DEF Whole
<1>2. /\ Len(tree) \in Nat /\ Len(new) = c
      /\ Child(new, n, c) /\ Child(new, c, old)
      /\ \A m \in 1..Len(tree) : \A d :
            m # n /\ Child(tree, m, d) => Child(new, m, d)
      /\ \A j \in 1..Len(tree[n].edges) :
            j # i => Child(new, n, tree[n].edges[j].child)
  BY BranchChildren
<1>3. /\ old \in 1..Len(tree) /\ t \in Seq(Token) /\ Prefix(t, sp[old])
  BY BetweenText
<1>4. /\ sp \in Seq(Seq(Token)) /\ Len(sp) = Len(tree) /\ sp[old] \in Seq(Token)
  BY <1>3, ShapeOfNode
<1> HIDE DEF new, t, c
<1>5. ASSUME NEW m \in 1..Len(tree), NEW d, Child(tree, m, d)
      PROVE  Child(new, m, d) \/ Child(new, c, d)
  <2>1. CASE m # n
    BY <1>2, <1>5, <2>1
  <2>2. CASE m = n
    <3>1. PICK j \in 1..Len(tree[n].edges) : tree[n].edges[j].child = d
      BY <1>5, <2>2 DEF Child
    <3> QED BY <1>2, <2>2, <3>1
  <2> QED BY <2>1, <2>2
<1>6. Parented(new)
  <2>1. c = Len(tree) + 1
    BY DEF c
  <2> QED BY <1>2, <1>5, <2>1, GrownParented DEF Whole
<1>7. Excused(t)
  BY <1>3, <1>4, ExcusedPrefix DEF Whole
<1>8. \A m \in 1..Len(Append(sp, t)) : Excused(Append(sp, t)[m])
  BY <1>3, <1>4, <1>7, AppendExcused DEF Whole
<1>9. Whole(new, Append(sp, t))
  BY <1>1, <1>6, <1>8 DEF Whole
<1> QED BY <1>9 DEF new, t

\* A tree with the same children is as whole.
LEMMA SameWhole ==
    ASSUME NEW tree, NEW sp, Whole(tree, sp), NEW new, Len(new) = Len(tree),
           \A n \in 1..Len(tree) : \A d : Child(tree, n, d) => Child(new, n, d)
    PROVE  Whole(new, sp)
<1>1. Reached(new, sp)
  BY DEF Whole, Reached
<1>2. Parented(new)
  BY DEF Whole, Parented
<1> QED BY <1>1, <1>2 DEF Whole

LEMMA MountWhole ==
    ASSUME NEW tree, NEW sp, Shape(tree, sp), Whole(tree, sp),
           NEW n \in 1..Len(tree), NEW route
    PROVE  Whole(Mount(tree, n, route), sp)
<1> DEFINE new == Mount(tree, n, route)
           routes == Append(tree[n].routes, route)
           endpoint == tree[n].endpoint + 1
           node == [tree[n] EXCEPT !.endpoint = endpoint, !.routes = routes]
<1>1. tree \in Seq(Node) /\ tree[n] \in Node
  BY ShapeOfNode DEF Shape
<1>2. new = [tree EXCEPT ![n] = node]
  BY DEF Mount
<1> HIDE DEF routes, endpoint
<1>3. node.edges = tree[n].edges
  BY <1>1 DEF Node
<1> HIDE DEF node, new
<1>4. /\ Len(new) = Len(tree)
      /\ \A m \in 1..Len(tree) : new[m].edges = tree[m].edges
  BY <1>1, <1>2, <1>3
<1>5. \A m \in 1..Len(tree) : \A d : Child(tree, m, d) => Child(new, m, d)
  BY <1>4 DEF Child
<1> QED BY <1>4, <1>5, SameWhole DEF new

LEMMA CompiledAtWhole ==
    ASSUME NEW tree, NEW sp, Shape(tree, sp), Whole(tree, sp), NEW visited
    PROVE  Whole(CompiledAt(tree, visited), sp)
<1> DEFINE new == CompiledAt(tree, visited)
<1>1. /\ Len(new) = Len(tree)
      /\ \A n \in 1..Len(tree) :
            new[n] = IF n \in visited THEN CompiledNode(tree[n]) ELSE tree[n]
  BY CompiledAtNodes
<1> HIDE DEF new
<1>2. ASSUME NEW n \in 1..Len(tree), NEW d, Child(tree, n, d)
      PROVE  Child(new, n, d)
  <2>1. PICK i \in 1..Len(tree[n].edges) : tree[n].edges[i].child = d
    BY <1>2 DEF Child
  <2>2. /\ Len(CompiledNode(tree[n]).edges) = Len(tree[n].edges)
        /\ CompiledNode(tree[n]).edges[i].child = d
    BY <2>1, ShapeOfNode, CompiledEdges
  <2> QED BY <1>1, <2>1, <2>2 DEF Child
<1> QED BY <1>1, <1>2, SameWhole DEF new

LEMMA CompiledWhole ==
    ASSUME NEW tree, NEW sp, Shape(tree, sp), Whole(tree, sp)
    PROVE  Whole(CompiledTree(tree), sp)
BY CompiledShape, CompiledAtWhole

-----------------------------------------------------------------------------
(* The steps keep the tree whole                                           *)

\* A node whose text the insertion spells on from the node it has reached.
LEMMA SpelledExcused ==
    ASSUME IInv, Whole(nodes, spell), Grows,
           NEW a \in Seq(Token), NEW b \in Seq(Token), a \o b = call.rest
    PROVE  Excused(spell[call.node] \o a)
<1> DEFINE here == spell[call.node]
<1>1. Inserting /\ ~CountFails(call.rest)
  BY DEF Grows
<1>2. /\ here \in Seq(Token) /\ here \o (a \o b) = call.path
      /\ call.node \in 1..Len(spell)
  BY <1>1, Frame, ShapeOfNode DEF IInv
<1>3. Excused(here)
  BY <1>2 DEF Whole
<1> HIDE DEF here
<1>4. here \o a \in Seq(Token) /\ (here \o a) \o b = call.path
  BY <1>2, ConcatProperties, TextsAssociative
<1> QED BY <1>1, <1>3, <1>4, GrowsExcused DEF here

LEMMA InsertFirstOfManyWhole ==
    ASSUME IInv, Whole(nodes, spell), InsertFirstOfMany
    PROVE  Whole(nodes', spell')
<1>1. Grows /\ Inserting
  BY DEF InsertFirstOfMany, Grows
<1>2. PICK j \in BreakPoints(call.rest) :
        LET first == Upto(call.rest, j - 1) IN
        /\ nodes' = Graft(nodes, call.node, first, "NONE")
        /\ spell' = Append(spell, spell[call.node] \o first)
  BY DEF InsertFirstOfMany
<1> DEFINE first == Upto(call.rest, j - 1)
<1>3. /\ call.rest \in Seq(Token) /\ call.node \in 1..Len(nodes)
      /\ Shape(nodes, spell) /\ "NONE" \in Opcodes
  BY <1>1, Frame DEF IInv, Opcodes
<1>4. j - 1 \in 1..Len(call.rest)
  BY <1>3 DEF BreakPoints, SlugPositions
<1>5. /\ first \in Seq(Token) /\ first[1] = call.rest[1] /\ Len(first) = j - 1
      /\ Excused(spell[call.node] \o first)
  <2>1. j - 1 \in 0..Len(call.rest)
    BY <1>4
  <2>2. /\ first \in Seq(Token) /\ After(call.rest, j - 1) \in Seq(Token)
        /\ first \o After(call.rest, j - 1) = call.rest
    BY <2>1, <1>3, CutText
  <2>3. Excused(spell[call.node] \o first)
    BY <1>1, <2>2, SpelledExcused
  <2> QED BY <2>1, <2>3, <1>3, <1>4, CutText, CutSlugs
<1>6. /\ nodes' = Graft(nodes, call.node, first, "NONE")
      /\ spell' = Append(spell, spell[call.node] \o first)
  BY <1>2
<1> HIDE DEF first
<1>7. first # <<>>
  BY <1>4, <1>5
<1>8. \A i \in 1..Len(nodes[call.node].edges) :
            nodes[call.node].edges[i].pattern[1] # first[1]
  BY <1>1, <1>5, GrowsUnlike
<1> QED BY <1>3, <1>5, <1>6, <1>7, <1>8, GraftWhole

LEMMA InsertLiteralWhole ==
    ASSUME IInv, Whole(nodes, spell), InsertLiteral
    PROVE  Whole(nodes', spell')
<1> DEFINE grafted == Graft(nodes, call.node, call.rest, "NONE")
           text == Append(spell, spell[call.node] \o call.rest)
           c == Len(nodes) + 1
<1>1. /\ Grows /\ Inserting /\ call.rest # <<>>
      /\ nodes' = Mount(grafted, c, NewRoute) /\ spell' = text
  BY DEF InsertLiteral, Grows
<1>2. /\ call.rest \in Seq(Token) /\ call.node \in 1..Len(nodes)
      /\ Shape(nodes, spell) /\ "NONE" \in Opcodes
  BY <1>1, Frame DEF IInv, Opcodes
<1>3. \A i \in 1..Len(nodes[call.node].edges) :
            nodes[call.node].edges[i].pattern[1] # call.rest[1]
  BY <1>1, GrowsUnlike
<1>4. Whole(grafted, text)
  <2>1. <<>> \in Seq(Token) /\ call.rest \o <<>> = call.rest
    BY <1>2, ConcatEmptySeq
  <2>2. Excused(spell[call.node] \o call.rest)
    BY <1>1, <1>2, <2>1, SpelledExcused
  <2> QED BY <1>1, <1>2, <1>3, <2>2, GraftWhole
<1>5. Shape(grafted, text) /\ Len(grafted) = Len(nodes) + 1
  BY <1>1, <1>2, GraftShape
<1>6. Len(nodes) \in Nat
  BY <1>2, ShapeOfNode
<1> HIDE DEF grafted, text
<1>7. c \in 1..Len(grafted)
  BY <1>5, <1>6
<1> QED BY <1>1, <1>4, <1>5, <1>7, MountWhole

LEMMA InsertSlugWhole ==
    ASSUME IInv, Sound(nodes), Whole(nodes, spell), InsertSlug
    PROVE  Whole(nodes', spell')
<1>1. Grows /\ Inserting
  BY DEF InsertSlug, Grows
<1>2. PICK s \in CountedSlugs(call.rest) :
        LET before == Upto(call.rest, s - 1)
            slug == call.rest[s]
            c1 == IF s > 1 THEN Len(nodes) + 1 ELSE call.node
            tree1 == IF s > 1 THEN Graft(nodes, call.node, before, "NONE")
                              ELSE nodes
            spell1 == IF s > 1 THEN Append(spell, spell[call.node] \o before)
                               ELSE spell
            c2 == Len(tree1) + 1
            tree2 == Graft(tree1, c1, <<slug>>, SlugOpcode[slug])
        IN  /\ spell' = Append(spell1, spell1[c1] \o <<slug>>)
            /\ nodes' = tree2 \/ nodes' = Mount(tree2, c2, NewRoute)
  BY DEF InsertSlug
<1> DEFINE before == Upto(call.rest, s - 1)
           slug == call.rest[s]
           opcode == SlugOpcode[slug]
           pattern == <<slug>>
           c1 == IF s > 1 THEN Len(nodes) + 1 ELSE call.node
           tree1 == IF s > 1 THEN Graft(nodes, call.node, before, "NONE")
                             ELSE nodes
           spell1 == IF s > 1 THEN Append(spell, spell[call.node] \o before)
                              ELSE spell
           c2 == Len(tree1) + 1
           tree2 == Graft(tree1, c1, pattern, opcode)
           text == Append(spell1, spell1[c1] \o pattern)
<1>3. /\ spell' = text
      /\ nodes' = tree2 \/ nodes' = Mount(tree2, c2, NewRoute)
  BY <1>2
<1>4. /\ call.rest \in Seq(Token) /\ call.node \in 1..Len(nodes)
      /\ Shape(nodes, spell) /\ "NONE" \in Opcodes
  BY <1>1, Frame DEF IInv, Opcodes
<1>5. /\ s \in 1..Len(call.rest) /\ slug \in Slugs /\ slug \in Token
      /\ opcode \in Opcodes
  BY SlugOpcodeAssumption DEF CountedSlugs, SlugPositions, Token
<1>6. pattern \in Seq(Token) /\ pattern # <<>> /\ pattern[1] = slug
  BY <1>5
<1>7. Len(nodes) \in Nat
  BY <1>4, ShapeOfNode
<1> DEFINE after == After(call.rest, s)
<1>8. /\ before \in Seq(Token) /\ Len(before) = s - 1 /\ after \in Seq(Token)
       /\ before \o (pattern \o after) = call.rest
       /\ (before \o pattern) \o after = call.rest
       /\ before \o pattern \in Seq(Token) /\ pattern \o after \in Seq(Token)
  <2>1. s - 1 \in 0..Len(call.rest) /\ s \in 0..Len(call.rest)
    BY <1>4, <1>5
  <2>2. before \in Seq(Token) /\ Len(before) = s - 1 /\ after \in Seq(Token)
    BY <1>4, <2>1, CutText
  <2>3. (before \o pattern) \o after = call.rest
    BY <1>4, <1>5, CutToken
  <2> HIDE DEF before, pattern, after
  <2> QED BY <2>2, <2>3, <1>6, TextsAssociative, ConcatProperties
<1> HIDE DEF pattern, opcode, after
<1>9. /\ Excused(spell[call.node] \o before)
       /\ Excused(spell[call.node] \o (before \o pattern))
  <2> HIDE DEF before
  <2> QED BY <1>1, <1>8, SpelledExcused
<1>10. /\ Shape(tree1, spell1) /\ Whole(tree1, spell1) /\ c1 \in 1..Len(tree1)
      /\ spell1[c1] = spell[call.node] \o before
      /\ \A i \in 1..Len(tree1[c1].edges) :
            tree1[c1].edges[i].pattern[1] # pattern[1]
  <2>1. CASE s > 1
    <3> DEFINE grafted == Graft(nodes, call.node, before, "NONE")
               text1 == Append(spell, spell[call.node] \o before)
    <3>1. s - 1 \in 1..Len(call.rest) /\ s - 1 \in 0..Len(call.rest)
      BY <1>5, <2>1
    <3>2. /\ before \in Seq(Token) /\ before[1] = call.rest[1]
          /\ Len(before) = s - 1
      BY <1>4, <3>1, CutText, CutSlugs
    <3> HIDE DEF before
    <3>3. before # <<>>
      BY <3>1, <3>2
    <3>4. Shape(grafted, text1) /\ Len(grafted) = Len(nodes) + 1
      BY <1>4, <3>2, <3>3, GraftShape
    <3>5. \A i \in 1..Len(nodes[call.node].edges) :
                nodes[call.node].edges[i].pattern[1] # before[1]
      BY <1>1, <3>2, GrowsUnlike
    <3>6. Whole(grafted, text1)
      BY <1>4, <1>9, <3>2, <3>3, <3>5, GraftWhole
    <3>7. grafted[Len(nodes) + 1] = EmptyNode
      BY <1>4, <3>2, GraftLeaf
    <3>10. text1[Len(nodes) + 1] = spell[call.node] \o before
      <4> DEFINE t1 == spell[call.node] \o before
      <4>1. /\ spell \in Seq(Seq(Token)) /\ spell[call.node] \in Seq(Token)
            /\ Len(spell) = Len(nodes)
        BY <1>4, ShapeOfNode
      <4>2. t1 \in Seq(Token)
        BY <4>1, <3>2, ConcatProperties
      <4> HIDE DEF t1
      <4>3. Append(spell, t1)[Len(spell) + 1] = t1
        BY <4>1, <4>2, AppendText
      <4> QED BY <4>1, <4>3 DEF t1
    <3> HIDE DEF grafted, text1
    <3>8. tree1 = grafted /\ spell1 = text1 /\ c1 = Len(nodes) + 1
      BY <2>1 DEF grafted, text1
    <3>9. Len(nodes) + 1 \in 1..Len(grafted) /\ Len(EmptyNode.edges) = 0
      BY <1>7, <3>4 DEF EmptyNode
    <3> HIDE DEF tree1, spell1, c1
    <3> QED BY <3>4, <3>6, <3>7, <3>8, <3>9, <3>10
  <2>2. CASE ~(s > 1)
    <3>1. tree1 = nodes /\ spell1 = spell /\ c1 = call.node
      BY <2>2
    <3>2. pattern[1] = call.rest[1]
      BY <2>2, <1>5, <1>6
    <3>3. spell[call.node] = spell[call.node] \o before
      <4> HIDE DEF before
      <4>1. before = <<>>
        BY <1>5, <1>8, <2>2, EmptySeq
      <4>2. spell[call.node] \in Seq(Token)
        BY <1>4, ShapeOfNode
      <4> QED BY <4>1, <4>2, ConcatEmptySeq
    <3> HIDE DEF tree1, spell1, c1, before
    <3> QED BY <1>1, <1>4, <3>1, <3>2, <3>3, GrowsUnlike
  <2> QED BY <2>1, <2>2
<1> HIDE DEF tree1, spell1, c1, before
<1>11. Excused(spell1[c1] \o pattern)
  <2> DEFINE here == spell[call.node]
  <2>1. here \in Seq(Token)
    BY <1>4, ShapeOfNode
  <2> HIDE DEF here
  <2>2. (here \o before) \o pattern = here \o (before \o pattern)
    BY <2>1, <1>6, <1>8, TextsAssociative
  <2> QED BY <2>2, <1>10, <1>9 DEF here
<1>12. Whole(tree2, text)
  BY <1>5, <1>6, <1>10, <1>11, GraftWhole
<1>13. Shape(tree2, text) /\ Len(tree2) = Len(tree1) + 1
  BY <1>5, <1>6, <1>10, GraftShape
<1>14. Len(tree1) \in Nat
  BY <1>10, ShapeOfNode
<1> HIDE DEF tree2, text
<1>15. c2 \in 1..Len(tree2)
  BY <1>13, <1>14
<1> HIDE DEF c2
<1>16. Whole(Mount(tree2, c2, NewRoute), text)
  BY <1>12, <1>13, <1>15, MountWhole
<1> QED BY <1>3, <1>12, <1>16

LEMMA InsertHereWhole ==
    ASSUME IInv, Whole(nodes, spell), InsertHere
    PROVE  Whole(nodes', spell')
BY Frame, MountWhole DEF InsertHere, IInv

LEMMA InsertExistingWhole ==
    ASSUME IInv, Whole(nodes, spell), InsertExisting
    PROVE  Whole(nodes', spell')
<1>1. PICK i \in 1..Len(EdgesHere), k \in 1..Len(call.rest) :
        /\ Inserting /\ CommonPrefix(i, k) /\ spell' = spell
        /\ nodes' = Mount(nodes, EdgesHere[i].child, NewRoute)
  BY DEF InsertExisting, Follows
<1>2. EdgesHere[i].child \in 1..Len(nodes)
  BY <1>1, SharedPrefix
<1> QED BY <1>1, <1>2, MountWhole DEF IInv

LEMMA BranchKeepsWhole ==
    ASSUME IInv, Sound(nodes), Whole(nodes, spell), Branch
    PROVE  Whole(nodes', spell')
<1>1. PICK i \in 1..Len(EdgesHere), k \in 1..Len(call.rest) :
        /\ Inserting /\ CommonPrefix(i, k)
        /\ k < Len(EdgesHere[i].pattern)
        /\ nodes' = EdgeBranch(nodes, call.node, i, k)
        /\ spell' = Append(spell, spell[call.node] \o Upto(call.rest, k))
  BY DEF Branch, Follows
<1>2. /\ nodes[call.node].edges[i].pattern \in Seq(Token)
      /\ call.node \in 1..Len(nodes) /\ i \in 1..Len(nodes[call.node].edges)
      /\ Upto(nodes[call.node].edges[i].pattern, k) = Upto(call.rest, k)
  BY <1>1, SharedPrefix, Frame DEF EdgesHere
<1>3. k \in 1..(Len(nodes[call.node].edges[i].pattern) - 1)
  <2> DEFINE length == Len(nodes[call.node].edges[i].pattern)
  <2>1. length \in Nat
    BY <1>2, LenProperties
  <2>2. k \in Nat /\ 1 <= k
    OBVIOUS
  <2>3. k < length
    BY <1>1 DEF EdgesHere
  <2> HIDE DEF length
  <2>4. k \in 1..(length - 1)
    BY <2>1, <2>2, <2>3
  <2> QED BY <2>4 DEF length
<1>4. Whole(EdgeBranch(nodes, call.node, i, k),
            Append(spell, spell[call.node]
                            \o Upto(nodes[call.node].edges[i].pattern, k)))
  BY <1>2, <1>3, BranchWhole DEF IInv
<1> QED BY <1>1, <1>2, <1>4

LEMMA WholeInductive ==
    ASSUME IInv, Sound(nodes), Whole(nodes, spell), [Next]_vars
    PROVE  Whole(nodes', spell')
<1>1. CASE InsertHere
  BY <1>1, InsertHereWhole
<1>2. CASE InsertFirstOfMany
  BY <1>2, InsertFirstOfManyWhole
<1>3. CASE InsertSlug
  BY <1>3, InsertSlugWhole
<1>4. CASE InsertLiteral
  BY <1>4, InsertLiteralWhole
<1>5. CASE InsertExisting
  BY <1>5, InsertExistingWhole
<1>6. CASE Branch
  BY <1>6, BranchKeepsWhole
<1>7. CASE Compile
  BY <1>7, CompiledWhole DEF Compile, IInv
<1>8. CASE UNCHANGED <<nodes, spell>>
  BY <1>8
<1> QED BY <1>1, <1>2, <1>3, <1>4, <1>5, <1>6, <1>7, <1>8
        DEF Next, InsertStep, Add, ParseRefuses, ParseAstray, CountRefuses,
            InsertAborts, Descend, vars

LEMMA WholeInitially == Init => Whole(nodes, spell)
<1> SUFFICES ASSUME Init
             PROVE  Whole(nodes, spell)
  OBVIOUS
<1>1. Len(nodes) = 1 /\ Len(spell) = 1 /\ spell[1] = <<>>
  BY DEF Init
<1>2. Excused(<<>>)
  BY DEF Excused
<1> QED BY <1>1, <1>2 DEF Whole, Reached, Parented, Root

LEMMA WholeInvariance == Spec => [](IInv /\ Sound(nodes) /\ Whole(nodes, spell))
<1>1. IInv /\ Sound(nodes) /\ Whole(nodes, spell) /\ [Next]_vars
        => Whole(nodes, spell)'
  BY WholeInductive
<1> QED BY <1>1, WholeInitially, Invariance, SoundInvariance, PTL DEF Spec

-----------------------------------------------------------------------------
(* Theorems                                                                *)

\* A pattern added again finds the node of the first time, whatever was split
\* or added in between.
THEOREM TextsDiffer == Spec => []OneNodePerText
<1>1. IInv /\ Whole(nodes, spell) => OneNodePerText
  BY OneText DEF IInv, Whole, OneNodePerText, NodeIds
<1> QED BY <1>1, WholeInvariance, PTL

\* Every node but the root hangs at one edge: compile reaches each node and free
\* frees it once.
THEOREM ParentsUnique == Spec => []OneParent
<1>1. ASSUME IInv, Sound(nodes), Whole(nodes, spell)
      PROVE  OneParent
  <2> SUFFICES ASSUME NEW c \in NodeIds
               PROVE  IF c = Root THEN Parents(c) = {}
                      ELSE \E place \in Parents(c) : Parents(c) = {place}
    BY DEF OneParent
  <2>1. \A place : place \in Parents(c) <=>
            \E n \in NodeIds : \E i \in EdgeIds(n) :
                place = <<n, i>> /\ nodes[n].edges[i].child = c
    BY DEF Parents
  <2>2. CASE c = Root
    <3>1. ASSUME NEW n \in NodeIds, NEW i \in EdgeIds(n),
                 nodes[n].edges[i].child = c
          PROVE  FALSE
      <4>1. Child(nodes, n, Root)
        BY <2>2, <3>1 DEF Child, EdgeIds
      <4>2. Len(spell[Root]) > Len(spell[n]) /\ Len(spell[n]) \in Nat
        BY <1>1, <4>1, ChildText, TextType DEF IInv, NodeIds
      <4>3. spell[Root] = <<>>
        BY <1>1 DEF IInv, Shape
      <4> QED BY <4>2, <4>3
    <3> QED BY <2>1, <2>2, <3>1
  <2>3. CASE c # Root
    <3>1. PICK n \in NodeIds : Child(nodes, n, c)
      BY <1>1, <2>3 DEF Whole, Parented, NodeIds
    <3>2. PICK i \in EdgeIds(n) : nodes[n].edges[i].child = c
      BY <3>1 DEF Child, EdgeIds
    <3>3. <<n, i>> \in Parents(c)
      BY <2>1, <3>2
    <3>4. ASSUME NEW m \in NodeIds, NEW j \in EdgeIds(m),
                 nodes[m].edges[j].child = c
          PROVE  n = m /\ i = j
      <4>1. Shape(nodes, spell) /\ Sound(nodes) /\ Reached(nodes, spell)
        BY <1>1 DEF IInv, Whole
      <4>2. /\ n \in 1..Len(nodes) /\ i \in 1..Len(nodes[n].edges)
            /\ m \in 1..Len(nodes) /\ j \in 1..Len(nodes[m].edges)
        BY DEF NodeIds, EdgeIds
      <4>3. nodes[n].edges[i].child = nodes[m].edges[j].child
        BY <3>2, <3>4
      <4> QED BY <4>1, <4>2, <4>3, OneEdge
    <3>5. \A place \in Parents(c) : place = <<n, i>>
      <4> TAKE place \in Parents(c)
      <4>1. PICK m \in NodeIds : \E j \in EdgeIds(m) :
                place = <<m, j>> /\ nodes[m].edges[j].child = c
        BY <2>1, Zenon
      <4>2. PICK j \in EdgeIds(m) :
                place = <<m, j>> /\ nodes[m].edges[j].child = c
        BY <4>1
      <4>3. n = m /\ i = j
        BY <4>2, <3>4
      <4> QED BY <4>2, <4>3
    <3>6. Parents(c) = {<<n, i>>}
      BY <3>3, <3>5
    <3> QED BY <2>3, <3>3, <3>6
  <2> QED BY <2>2, <2>3
<1> QED BY <1>1, WholeInvariance, PTL

\* What is malformed of a text in the tree is so of a pattern whose flaws make up
\* for each other: of the others, none gets in.
THEOREM MalformedExcused == Spec => []MalformedMakesUp
<1>1. IInv /\ Whole(nodes, spell) => MalformedMakesUp
  BY DEF IInv, Shape, Whole, MalformedMakesUp, NodeIds
<1> QED BY <1>1, WholeInvariance, PTL

-----------------------------------------------------------------------------
(* What the tree promises                                                  *)

Entry(text, route) ==
    [path |-> text, method |-> route.method, data |-> route.data]

MountedIn(tree, sp) ==
    UNION {{Entry(sp[n], tree[n].routes[r]) : r \in 1..Len(tree[n].routes)} :
            n \in 1..Len(tree)}

\* No route was mounted, and none moved.
Keeps(tree, sp, new, text) ==
    /\ \A n \in 1..Len(tree) :
        /\ n \in 1..Len(new)
        /\ new[n].routes = tree[n].routes
        /\ text[n] = sp[n]
    /\ \A n \in 1..Len(new) : n \in 1..Len(tree) \/ new[n].routes = <<>>

\* None moved.
Permanent(tree, sp, new, text) ==
    \A n \in 1..Len(tree) :
        /\ text[n] = sp[n]
        /\ IsPrefix(tree[n].routes, new[n].routes)

-----------------------------------------------------------------------------
(* Trees with the same routes                                              *)

\* What is mounted, one entry at a time.
LEMMA MountedEntry ==
    ASSUME NEW tree, NEW sp, NEW e
    PROVE  e \in MountedIn(tree, sp) <=>
            \E n \in 1..Len(tree) : \E r \in 1..Len(tree[n].routes) :
                e = Entry(sp[n], tree[n].routes[r])
BY DEF MountedIn

LEMMA MountedIsMountedIn == Mounted = MountedIn(nodes, spell)
BY DEF Mounted, MountedIn, Entry, NodeIds

LEMMA KeepsMounted ==
    ASSUME NEW tree, NEW sp, NEW new, NEW text, Keeps(tree, sp, new, text)
    PROVE  MountedIn(new, text) = MountedIn(tree, sp)
<1>1. ASSUME NEW e, e \in MountedIn(tree, sp)
      PROVE  e \in MountedIn(new, text)
  <2>1. PICK n \in 1..Len(tree) : \E r \in 1..Len(tree[n].routes) :
                e = Entry(sp[n], tree[n].routes[r])
    BY <1>1, MountedEntry
  <2>2. n \in 1..Len(new) /\ new[n].routes = tree[n].routes /\ text[n] = sp[n]
    BY DEF Keeps
  <2>3. \E r \in 1..Len(new[n].routes) : e = Entry(text[n], new[n].routes[r])
    BY <2>1, <2>2
  <2> QED BY <2>2, <2>3, MountedEntry
<1>2. ASSUME NEW e, e \in MountedIn(new, text)
      PROVE  e \in MountedIn(tree, sp)
  <2>1. PICK n \in 1..Len(new) : \E r \in 1..Len(new[n].routes) :
                e = Entry(text[n], new[n].routes[r])
    BY <1>2, MountedEntry
  <2>2. n \in 1..Len(tree)
    <3>1. new[n].routes # <<>>
      BY <2>1
    <3> QED BY <3>1 DEF Keeps
  <2>3. new[n].routes = tree[n].routes /\ text[n] = sp[n]
    BY <2>2 DEF Keeps
  <2>4. \E r \in 1..Len(tree[n].routes) : e = Entry(sp[n], tree[n].routes[r])
    BY <2>1, <2>3
  <2> QED BY <2>2, <2>4, MountedEntry
<1> QED BY <1>1, <1>2

LEMMA KeepsTransitive ==
    ASSUME NEW a, NEW as, NEW b, NEW bs, NEW d, NEW ds,
           Keeps(a, as, b, bs), Keeps(b, bs, d, ds)
    PROVE  Keeps(a, as, d, ds)
BY DEF Keeps

\* Every sequence of routes is a prefix of itself, and of itself with one more.
LEMMA RoutesPrefix ==
    ASSUME NEW routes \in Seq(Route), NEW route \in Route
    PROVE  /\ IsPrefix(routes, routes)
           /\ IsPrefix(routes, Append(routes, route))
<1>1. Len(routes) \in Nat /\ Len(Append(routes, route)) = Len(routes) + 1
  BY LenProperties, AppendProperties
<1>2. SubSeq(routes, 1, Len(routes)) = routes
  BY SubSeqFull
<1>3. SubSeq(Append(routes, route), 1, Len(routes)) = routes
  <2> DEFINE more == Append(routes, route)
             cut == SubSeq(more, 1, Len(routes))
  <2>1. /\ more \in Seq(Route) /\ Len(more) = Len(routes) + 1
        /\ \A i \in 1..Len(routes) : more[i] = routes[i]
    BY AppendProperties
  <2> HIDE DEF more
  <2>2. /\ cut \in Seq(Route) /\ Len(cut) = Len(routes)
        /\ \A i \in 1..Len(routes) : cut[i] = more[i]
    BY <1>1, <2>1
  <2> HIDE DEF cut
  <2>3. cut = routes
    BY <2>1, <2>2, SeqEqual
  <2> QED BY <2>3 DEF cut, more
<1> QED BY <1>1, <1>2, <1>3 DEF IsPrefix

-----------------------------------------------------------------------------
(* The functions on trees                                                  *)

\* One node got other edges and one without routes was added.
LEMMA GrowKeeps ==
    ASSUME NEW tree, NEW sp, Shape(tree, sp), NEW n \in 1..Len(tree),
           NEW node \in Node, node.routes = tree[n].routes,
           NEW leaf \in Node, leaf.routes = <<>>, NEW new,
           new = Append([tree EXCEPT ![n] = node], leaf),
           NEW t \in Seq(Token)
    PROVE  Keeps(tree, sp, new, Append(sp, t))
<1> DEFINE changed == [tree EXCEPT ![n] = node]
           text == Append(sp, t)
<1>0. tree \in Seq(Node) /\ new = Append(changed, leaf)
  BY DEF Shape
<1>1. /\ changed \in Seq(Node) /\ Len(changed) = Len(tree)
      /\ \A m \in 1..Len(tree) : changed[m] = IF m = n THEN node ELSE tree[m]
      /\ Len(tree) \in Nat
  BY <1>0, ExceptSeq, LenProperties
<1> HIDE DEF changed
<1>2. /\ Len(new) = Len(tree) + 1
      /\ \A m \in 1..Len(tree) : new[m] = changed[m]
      /\ new[Len(tree) + 1] = leaf
  BY <1>0, <1>1, AppendProperties
<1>3. \A m \in 1..Len(tree) : text[m] = sp[m]
  <2>1. sp \in Seq(Seq(Token)) /\ Len(sp) = Len(tree)
    BY DEF Shape
  <2> QED BY <2>1, AppendText
<1> HIDE DEF text
<1>4. \A m \in 1..Len(tree) : /\ m \in 1..Len(new)
                              /\ new[m].routes = tree[m].routes
  <2> TAKE m \in 1..Len(tree)
  <2>1. m \in 1..Len(new)
    BY <1>1, <1>2
  <2>2. new[m] = changed[m]
    BY <1>2
  <2>3. CASE m = n
    BY <2>2, <2>3, <1>1
  <2>4. CASE m # n
    BY <2>2, <2>4, <1>1
  <2> QED BY <2>1, <2>3, <2>4
<1>5. \A m \in 1..Len(new) : m \in 1..Len(tree) \/ new[m].routes = <<>>
  BY <1>1, <1>2
<1>6. Keeps(tree, sp, new, text)
  BY <1>3, <1>4, <1>5 DEF Keeps
<1> QED BY <1>6 DEF text

LEMMA GraftKeeps ==
    ASSUME NEW tree, NEW sp, Shape(tree, sp), NEW n \in 1..Len(tree),
           NEW pattern \in Seq(Token), NEW opcode \in Opcodes
    PROVE  Keeps(tree, sp, Graft(tree, n, pattern, opcode),
                 Append(sp, sp[n] \o pattern))
<1> DEFINE c == Len(tree) + 1
           edges == Connect(tree[n].edges, pattern, c, opcode)
           node == [tree[n] EXCEPT !.edges = edges]
           new == Graft(tree, n, pattern, opcode)
           t == sp[n] \o pattern
<1>1. new = Append([tree EXCEPT ![n] = node], EmptyNode)
  BY DEF Graft
<1>2. /\ tree[n] \in Node /\ tree[n].edges \in Seq(Edge)
      /\ Len(tree) \in Nat /\ sp[n] \in Seq(Token)
  BY ShapeOfNode
<1>3. c \in Nat
  BY <1>2
<1> HIDE DEF c
<1>4. edges \in Seq(Edge)
  BY <1>2, <1>3, ConnectEdges
<1> HIDE DEF edges
<1>5. node \in Node /\ node.routes = tree[n].routes
  BY <1>2, <1>4 DEF Node
<1>6. EmptyNode \in Node /\ EmptyNode.routes = <<>>
  BY EmptyNodeType DEF EmptyNode
<1>7. t \in Seq(Token)
  BY <1>2, ConcatProperties
<1> HIDE DEF node, new, t
<1>8. Keeps(tree, sp, new, Append(sp, t))
  BY <1>1, <1>5, <1>6, <1>7, GrowKeeps
<1> QED BY <1>8 DEF new, t

LEMMA BranchKeeps ==
    ASSUME NEW tree, NEW sp, Shape(tree, sp), NEW n \in 1..Len(tree),
           NEW i \in 1..Len(tree[n].edges),
           NEW k \in 1..(Len(tree[n].edges[i].pattern) - 1),
           NEW t \in Seq(Token)
    PROVE  Keeps(tree, sp, EdgeBranch(tree, n, i, k), Append(sp, t))
<1> DEFINE c == Len(tree) + 1
           edge == tree[n].edges[i]
           upper == Upto(edge.pattern, k)
           lower == After(edge.pattern, k)
           short == [edge EXCEPT !.pattern = upper, !.child = c]
           edges == [tree[n].edges EXCEPT ![i] = short]
           node == [tree[n] EXCEPT !.edges = edges]
           rest == NewEdge(lower, edge.child, "NONE")
           leaf == [EmptyNode EXCEPT !.edges = <<rest>>]
           new == EdgeBranch(tree, n, i, k)
<1>1. /\ Len(tree) \in Nat /\ tree[n] \in Node /\ tree[n].edges \in Seq(Edge)
  BY ShapeOfNode
<1>2. new = Append([tree EXCEPT ![n] = node], leaf)
  <2>1. [tree EXCEPT ![n] = node] = [tree EXCEPT ![n].edges[i] = short]
    BY Zenon
  <2> QED BY <2>1, Zenon DEF EdgeBranch
<1>3. edge \in Edge
  BY <1>1, ElementOfSeq
<1>4. edge.pattern \in Seq(Token) /\ edge.child \in Nat /\ c \in Nat
  <2>1. edge.pattern \in Seq(Token) /\ edge.child \in Nat
    <3> HIDE DEF edge
    <3> QED BY <1>3 DEF Edge
  <2>2. c \in Nat
    BY <1>1
  <2> QED BY <2>1, <2>2
<1>5. k \in 0..Len(edge.pattern)
  BY <1>4
<1> HIDE DEF edge
<1>6. upper \in Seq(Token) /\ lower \in Seq(Token)
  BY <1>4, <1>5, CutText
<1> HIDE DEF upper, lower, c
<1>7. short \in Edge
  BY <1>3, <1>4, <1>6 DEF Edge
<1> HIDE DEF short
<1>8. edges \in Seq(Edge)
  BY <1>1, <1>7, ExceptSeq
<1> HIDE DEF edges
<1>9. node \in Node /\ node.routes = tree[n].routes
  BY <1>1, <1>8 DEF Node
<1> HIDE DEF node
<1>10. rest \in Edge
  <2>1. "NONE" \in Opcodes
    BY DEF Opcodes
  <2> QED BY <2>1, <1>4, <1>6, NewEdgeType
<1> HIDE DEF rest
<1>11. leaf \in Node /\ leaf.routes = <<>>
  <2>1. leaf = [edges |-> <<rest>>, routes |-> <<>>, endpoint |-> 0,
                compare_type |-> "PCRE"]
    BY DEF EmptyNode
  <2>2. <<rest>> \in Seq(Edge) /\ <<>> \in Seq(Route)
    BY <1>10, EmptySeq
  <2> HIDE DEF leaf
  <2> QED BY <2>1, <2>2 DEF Node
<1> HIDE DEF leaf, new
<1>12. Keeps(tree, sp, new, Append(sp, t))
  BY <1>2, <1>9, <1>11, GrowKeeps
<1> QED BY <1>12 DEF new

LEMMA CompiledKeeps ==
    ASSUME NEW tree, NEW sp, Shape(tree, sp)
    PROVE  Keeps(tree, sp, CompiledTree(tree), sp)
<1> DEFINE new == CompiledTree(tree)
<1>1. Len(new) = Len(tree)
  BY CompiledShape
<1>2. ASSUME NEW n \in 1..Len(tree)
      PROVE  new[n].routes = tree[n].routes
  <2>1. new[n] = CompiledNode(tree[n])
    BY DEF CompiledTree
  <2>2. tree[n] \in Node
    BY ShapeOfNode
  <2> HIDE DEF new
  <2>3. \E edges, type : CompiledNode(tree[n])
                    = [tree[n] EXCEPT !.edges = edges, !.compare_type = type]
    BY Zenon DEF CompiledNode
  <2> QED BY <2>1, <2>2, <2>3 DEF Node
<1> HIDE DEF new
<1>3. Keeps(tree, sp, new, sp)
  BY <1>1, <1>2 DEF Keeps
<1> QED BY <1>3 DEF new

\* The one function that mounts a route.
LEMMA MountAdds ==
    ASSUME NEW tree, NEW sp, Shape(tree, sp), NEW n \in 1..Len(tree),
           NEW route \in Route, NEW new, new = Mount(tree, n, route)
    PROVE  /\ Len(new) = Len(tree)
           /\ \A m \in 1..Len(tree) : m # n => new[m].routes = tree[m].routes
           /\ new[n].routes = Append(tree[n].routes, route)
           /\ MountedIn(new, sp) = MountedIn(tree, sp) \cup {Entry(sp[n], route)}
<1> DEFINE routes == Append(tree[n].routes, route)
           endpoint == tree[n].endpoint + 1
           node == [tree[n] EXCEPT !.endpoint = endpoint, !.routes = routes]
<1>1. /\ tree \in Seq(Node) /\ tree[n] \in Node
      /\ tree[n].routes \in Seq(Route)
  BY ShapeOfNode DEF Shape
<1>2. new = [tree EXCEPT ![n] = node]
  BY DEF Mount
<1>3. /\ routes \in Seq(Route) /\ Len(routes) = Len(tree[n].routes) + 1
      /\ \A r \in 1..Len(tree[n].routes) : routes[r] = tree[n].routes[r]
      /\ routes[Len(tree[n].routes) + 1] = route
      /\ Len(tree[n].routes) \in Nat
  BY <1>1, AppendProperties, LenProperties
<1> HIDE DEF routes, endpoint
<1>4. node.routes = routes
  BY <1>1 DEF Node
<1> HIDE DEF node
<1>5. /\ Len(new) = Len(tree) /\ new[n].routes = routes
      /\ \A m \in 1..Len(tree) : m # n => new[m].routes = tree[m].routes
  BY <1>1, <1>2, <1>4
<1>6. ASSUME NEW e, e \in MountedIn(tree, sp)
      PROVE  e \in MountedIn(new, sp)
  <2>1. PICK m \in 1..Len(tree) : \E r \in 1..Len(tree[m].routes) :
                e = Entry(sp[m], tree[m].routes[r])
    BY <1>6, MountedEntry
  <2>2. PICK r \in 1..Len(tree[m].routes) : e = Entry(sp[m], tree[m].routes[r])
    BY <2>1
  <2>3. r \in 1..Len(new[m].routes) /\ new[m].routes[r] = tree[m].routes[r]
    BY <1>3, <1>5
  <2> QED BY <1>5, <2>2, <2>3, MountedEntry
<1>7. Entry(sp[n], route) \in MountedIn(new, sp)
  <2>1. /\ Len(routes) \in 1..Len(new[n].routes)
        /\ new[n].routes[Len(routes)] = route
    BY <1>3, <1>5
  <2> QED BY <1>5, <2>1, MountedEntry
<1>8. ASSUME NEW e, e \in MountedIn(new, sp)
      PROVE  e \in MountedIn(tree, sp) \/ e = Entry(sp[n], route)
  <2>1. PICK m \in 1..Len(tree) : \E r \in 1..Len(new[m].routes) :
                e = Entry(sp[m], new[m].routes[r])
    BY <1>5, <1>8, MountedEntry
  <2>2. PICK r \in 1..Len(new[m].routes) : e = Entry(sp[m], new[m].routes[r])
    BY <2>1
  <2>3. CASE m = n /\ r = Len(routes)
    BY <1>3, <1>5, <2>2, <2>3
  <2>4. CASE ~(m = n /\ r = Len(routes))
    <3>1. r \in 1..Len(tree[m].routes) /\ new[m].routes[r] = tree[m].routes[r]
      BY <1>3, <1>5, <2>4
    <3> QED BY <2>2, <3>1, MountedEntry
  <2> QED BY <2>3, <2>4
<1>9. MountedIn(new, sp) = MountedIn(tree, sp) \cup {Entry(sp[n], route)}
  BY <1>6, <1>7, <1>8
<1> QED BY <1>5, <1>9 DEF routes

-----------------------------------------------------------------------------
(* The steps                                                               *)

TableInv == IInv /\ Sound(nodes) /\ Whole(nodes, spell)

\* The routes of a node; one that is not there yet has none.
RoutesAt(tree, n) == IF n \in 1..Len(tree) THEN tree[n].routes ELSE <<>>

\* A step that mounts nothing.
KeepsTable ==
    /\ Mounted' = Mounted
    /\ Keeps(nodes, spell, nodes', spell')
    /\ Permanent(nodes, spell, nodes', spell')

\* The pending route becomes the last of node n, and no other node gets one.
MountsAt(n) ==
    /\ n \in 1..Len(nodes') /\ spell'[n] = call.path
    /\ nodes'[n].routes = Append(RoutesAt(nodes, n), NewRoute)
    /\ \A m \in 1..Len(nodes') :
        m # n => nodes'[m].routes = RoutesAt(nodes, m)
    /\ \A m \in 1..Len(nodes) : m \in 1..Len(nodes') /\ spell'[m] = spell[m]

\* A step that mounts the pending route, at a node that stands for its pattern.
MountsPending ==
    /\ Mounted' = Mounted \cup {Pending}
    /\ \E n : MountsAt(n)
    /\ Permanent(nodes, spell, nodes', spell')

LEMMA KeepsStep ==
    ASSUME TableInv, Keeps(nodes, spell, nodes', spell')
    PROVE  KeepsTable
<1>1. MountedIn(nodes', spell') = MountedIn(nodes, spell)
  BY KeepsMounted
<1>2. Mounted' = MountedIn(nodes', spell')
  BY DEF Mounted, MountedIn, Entry, NodeIds
<1>3. ASSUME NEW n \in 1..Len(nodes)
      PROVE  spell'[n] = spell[n] /\ IsPrefix(nodes[n].routes, nodes'[n].routes)
  <2>1. nodes'[n].routes = nodes[n].routes /\ spell'[n] = spell[n]
    BY DEF Keeps
  <2>2. nodes[n].routes \in Seq(Route)
    BY ShapeOfNode DEF TableInv, IInv
  <2>3. SubSeq(nodes[n].routes, 1, Len(nodes[n].routes)) = nodes[n].routes
        /\ Len(nodes[n].routes) \in Nat
    BY <2>2, SubSeqFull, LenProperties
  <2> QED BY <2>1, <2>3 DEF IsPrefix
<1> QED BY <1>1, <1>2, <1>3, MountedIsMountedIn DEF KeepsTable, Permanent

LEMMA MountStep ==
    ASSUME TableInv, Inserting, NEW tree, NEW text,
           Keeps(nodes, spell, tree, text), Shape(tree, text),
           NEW n \in 1..Len(tree), text[n] = call.path,
           nodes' = Mount(tree, n, NewRoute), spell' = text
    PROVE  MountsPending
<1>1. NewRoute \in Route
  BY Frame DEF TableInv
<1>2. /\ Len(nodes') = Len(tree)
      /\ \A m \in 1..Len(tree) : m # n => nodes'[m].routes = tree[m].routes
      /\ nodes'[n].routes = Append(tree[n].routes, NewRoute)
      /\ MountedIn(nodes', text)
            = MountedIn(tree, text) \cup {Entry(text[n], NewRoute)}
  BY <1>1, MountAdds
<1>3. MountedIn(tree, text) = MountedIn(nodes, spell)
  BY KeepsMounted
<1>4. Entry(text[n], NewRoute) = Pending
  BY DEF Entry, NewRoute, Pending
<1>5. Mounted' = MountedIn(nodes', spell')
  BY DEF Mounted, MountedIn, Entry, NodeIds
<1>6. Mounted' = Mounted \cup {Pending}
  BY <1>2, <1>3, <1>4, <1>5, MountedIsMountedIn
<1>7. ASSUME NEW m \in 1..Len(nodes)
      PROVE  spell'[m] = spell[m] /\ IsPrefix(nodes[m].routes, nodes'[m].routes)
  <2>1. m \in 1..Len(tree) /\ tree[m].routes = nodes[m].routes
        /\ spell'[m] = spell[m]
    BY DEF Keeps
  <2>2. nodes[m].routes \in Seq(Route)
    BY ShapeOfNode DEF TableInv, IInv
  <2>3. \/ nodes'[m].routes = nodes[m].routes
        \/ nodes'[m].routes = Append(nodes[m].routes, NewRoute)
    BY <1>2, <2>1
  <2> QED BY <1>1, <2>1, <2>2, <2>3, RoutesPrefix
<1>8. \A m \in 1..Len(tree) : tree[m].routes = RoutesAt(nodes, m)
  BY DEF Keeps, RoutesAt
<1>9. MountsAt(n)
  BY <1>2, <1>7, <1>8 DEF MountsAt, Keeps
<1> QED BY <1>6, <1>7, <1>9 DEF MountsPending, Permanent

LEMMA InsertHereMounts == TableInv /\ InsertHere => MountsPending
<1> SUFFICES ASSUME TableInv, InsertHere
             PROVE  MountsPending
  OBVIOUS
<1>1. /\ Inserting /\ call.rest = <<>> /\ spell' = spell
      /\ nodes' = Mount(nodes, call.node, NewRoute)
  BY DEF InsertHere
<1>2. /\ call.node \in 1..Len(nodes) /\ Shape(nodes, spell)
      /\ spell[call.node] \in Seq(Token)
      /\ spell[call.node] \o call.rest = call.path
  BY <1>1, Frame DEF TableInv, IInv
<1>3. spell[call.node] = call.path
  BY <1>1, <1>2, ConcatEmptySeq
<1>4. Keeps(nodes, spell, nodes, spell)
  BY DEF Keeps
<1> QED BY <1>1, <1>2, <1>3, <1>4, MountStep

LEMMA InsertExistingMounts == TableInv /\ InsertExisting => MountsPending
<1> SUFFICES ASSUME TableInv, InsertExisting
             PROVE  MountsPending
  OBVIOUS
<1>1. PICK i \in 1..Len(EdgesHere), k \in 1..Len(call.rest) :
        /\ Inserting /\ CommonPrefix(i, k) /\ spell' = spell
        /\ k = Len(EdgesHere[i].pattern) /\ k = Len(call.rest)
        /\ nodes' = Mount(nodes, EdgesHere[i].child, NewRoute)
  BY DEF InsertExisting, Follows
<1> DEFINE edge == EdgesHere[i]
<1>2. /\ edge.pattern \in Seq(Token) /\ edge.child \in 1..Len(nodes)
      /\ Upto(edge.pattern, k) = Upto(call.rest, k)
      /\ spell[edge.child] = spell[call.node] \o edge.pattern
  BY <1>1, SharedPrefix DEF TableInv
<1>3. /\ k = Len(edge.pattern) /\ k = Len(call.rest)
      /\ nodes' = Mount(nodes, edge.child, NewRoute)
  BY <1>1
<1>4. /\ call.rest \in Seq(Token) /\ spell[call.node] \o call.rest = call.path
      /\ Shape(nodes, spell)
  BY <1>1, Frame DEF TableInv, IInv
<1> HIDE DEF edge
<1>5. edge.pattern = call.rest
  BY <1>2, <1>3, <1>4, SubSeqFull DEF Upto
<1>6. spell[edge.child] = call.path
  BY <1>2, <1>4, <1>5
<1>7. Keeps(nodes, spell, nodes, spell)
  BY DEF Keeps
<1> QED BY <1>1, <1>2, <1>3, <1>4, <1>6, <1>7, MountStep

LEMMA InsertLiteralMounts == TableInv /\ InsertLiteral => MountsPending
<1> SUFFICES ASSUME TableInv, InsertLiteral
             PROVE  MountsPending
  OBVIOUS
<1> DEFINE t == spell[call.node] \o call.rest
           grafted == Graft(nodes, call.node, call.rest, "NONE")
           text == Append(spell, t)
           c == Len(nodes) + 1
<1>1. /\ Inserting /\ call.rest # <<>>
      /\ nodes' = Mount(grafted, c, NewRoute) /\ spell' = text
  BY DEF InsertLiteral, Grows
<1>2. /\ call.rest \in Seq(Token) /\ t = call.path
      /\ Shape(nodes, spell) /\ call.node \in 1..Len(nodes)
      /\ "NONE" \in Opcodes
  BY <1>1, Frame DEF TableInv, IInv, Opcodes
<1>3. Grown(nodes, spell, grafted, text, t)
  BY <1>1, <1>2, GraftGrows
<1>4. Keeps(nodes, spell, grafted, text)
  BY <1>2, GraftKeeps
<1> HIDE DEF grafted, text, t
<1>5. /\ Shape(grafted, text) /\ c \in 1..Len(grafted) /\ text[c] = t
  BY <1>3, GrownNode
<1> HIDE DEF c
<1> QED BY <1>1, <1>2, <1>4, <1>5, MountStep

LEMMA InsertFirstOfManyKeeps == TableInv /\ InsertFirstOfMany => KeepsTable
<1> SUFFICES ASSUME TableInv, InsertFirstOfMany
             PROVE  KeepsTable
  OBVIOUS
<1>1. PICK j \in BreakPoints(call.rest) :
        LET first == Upto(call.rest, j - 1) IN
        /\ Inserting
        /\ nodes' = Graft(nodes, call.node, first, "NONE")
        /\ spell' = Append(spell, spell[call.node] \o first)
  BY DEF InsertFirstOfMany, Grows
<1> DEFINE first == Upto(call.rest, j - 1)
<1>2. /\ nodes' = Graft(nodes, call.node, first, "NONE")
      /\ spell' = Append(spell, spell[call.node] \o first)
  BY <1>1
<1>3. /\ call.rest \in Seq(Token) /\ call.node \in 1..Len(nodes)
      /\ Shape(nodes, spell) /\ "NONE" \in Opcodes
  BY <1>1, Frame DEF TableInv, IInv, Opcodes
<1>4. first \in Seq(Token)
  <2>1. j - 1 \in 0..Len(call.rest)
    BY <1>3 DEF BreakPoints, SlugPositions
  <2> QED BY <1>3, <2>1, CutText
<1> HIDE DEF first
<1>5. Keeps(nodes, spell, nodes', spell')
  BY <1>2, <1>3, <1>4, GraftKeeps
<1> QED BY <1>5, KeepsStep

LEMMA BranchKeepsTable == TableInv /\ Branch => KeepsTable
<1> SUFFICES ASSUME TableInv, Branch
             PROVE  KeepsTable
  OBVIOUS
<1>1. PICK i \in 1..Len(EdgesHere), k \in 1..Len(call.rest) :
        /\ Inserting /\ CommonPrefix(i, k)
        /\ k < Len(EdgesHere[i].pattern)
        /\ nodes' = EdgeBranch(nodes, call.node, i, k)
        /\ spell' = Append(spell, spell[call.node] \o Upto(call.rest, k))
  BY DEF Branch, Follows
<1>2. /\ nodes[call.node].edges[i].pattern \in Seq(Token)
      /\ call.node \in 1..Len(nodes) /\ i \in 1..Len(nodes[call.node].edges)
      /\ call.rest \in Seq(Token) /\ spell[call.node] \in Seq(Token)
      /\ Shape(nodes, spell)
  BY <1>1, SharedPrefix, Frame DEF EdgesHere, TableInv, IInv
<1>3. k \in 1..(Len(nodes[call.node].edges[i].pattern) - 1)
  <2>1. k < Len(nodes[call.node].edges[i].pattern)
    BY <1>1 DEF EdgesHere
  <2>2. /\ Len(nodes[call.node].edges[i].pattern) \in Nat
        /\ Len(call.rest) \in Nat
    BY <1>2, LenProperties
  <2> QED BY <2>1, <2>2
<1>4. spell[call.node] \o Upto(call.rest, k) \in Seq(Token)
  <2>1. k \in 0..Len(call.rest)
    BY <1>2
  <2>2. Upto(call.rest, k) \in Seq(Token)
    BY <1>2, <2>1, CutText
  <2> QED BY <1>2, <2>2, ConcatProperties
<1>5. Keeps(nodes, spell, nodes', spell')
  BY <1>1, <1>2, <1>3, <1>4, BranchKeeps
<1> QED BY <1>5, KeepsStep

\* It grafts up to two nodes, and either goes on or mounts.
LEMMA InsertSlugMounts ==
    TableInv /\ InsertSlug =>
        \/ KeepsTable /\ Inserting' /\ Pending' = Pending
        \/ MountsPending /\ Return
<1> SUFFICES ASSUME TableInv, InsertSlug
             PROVE  \/ KeepsTable /\ Inserting' /\ Pending' = Pending
                    \/ MountsPending /\ Return
  OBVIOUS
<1>1. Inserting
  BY DEF InsertSlug, Grows
<1>2. PICK s \in CountedSlugs(call.rest) :
        LET before == Upto(call.rest, s - 1)
            slug == call.rest[s]
            after == After(call.rest, s)
            c1 == IF s > 1 THEN Len(nodes) + 1 ELSE call.node
            tree1 == IF s > 1 THEN Graft(nodes, call.node, before, "NONE")
                              ELSE nodes
            spell1 == IF s > 1 THEN Append(spell, spell[call.node] \o before)
                               ELSE spell
            c2 == Len(tree1) + 1
            tree2 == Graft(tree1, c1, <<slug>>, SlugOpcode[slug])
        IN  /\ spell' = Append(spell1, spell1[c1] \o <<slug>>)
            /\ \/ /\ after # <<>>
                  /\ nodes' = tree2
                  /\ Recurse(c2, after)
               \/ /\ after = <<>>
                  /\ nodes' = Mount(tree2, c2, NewRoute)
                  /\ Return
  BY DEF InsertSlug
<1> DEFINE before == Upto(call.rest, s - 1)
           slug == call.rest[s]
           after == After(call.rest, s)
           opcode == SlugOpcode[slug]
           pattern == <<slug>>
           c1 == IF s > 1 THEN Len(nodes) + 1 ELSE call.node
           tree1 == IF s > 1 THEN Graft(nodes, call.node, before, "NONE")
                             ELSE nodes
           spell1 == IF s > 1 THEN Append(spell, spell[call.node] \o before)
                              ELSE spell
           c2 == Len(tree1) + 1
           tree2 == Graft(tree1, c1, pattern, opcode)
           t == spell1[c1] \o pattern
           text == Append(spell1, t)
<1>3. /\ spell' = text
      /\ \/ after # <<>> /\ nodes' = tree2 /\ Recurse(c2, after)
         \/ after = <<>> /\ nodes' = Mount(tree2, c2, NewRoute) /\ Return
  BY <1>2
<1>4. /\ call \in Call /\ call.rest \in Seq(Token)
      /\ spell[call.node] \in Seq(Token)
      /\ call.node \in 1..Len(nodes) /\ Shape(nodes, spell)
      /\ spell[call.node] \o call.rest = call.path /\ "NONE" \in Opcodes
  BY <1>1, Frame DEF TableInv, IInv, Opcodes
<1>5. /\ s \in 1..Len(call.rest) /\ slug \in Slugs /\ slug \in Token
      /\ opcode \in Opcodes
  BY SlugOpcodeAssumption DEF CountedSlugs, SlugPositions, Token
<1>6. /\ before \in Seq(Token) /\ Len(before) = s - 1
      /\ after \in Seq(Token) /\ pattern \in Seq(Token) /\ pattern # <<>>
      /\ (before \o pattern) \o after = call.rest
  <2>1. s - 1 \in 0..Len(call.rest) /\ s \in 0..Len(call.rest)
    BY <1>4, <1>5
  <2>2. before \in Seq(Token) /\ Len(before) = s - 1 /\ after \in Seq(Token)
    BY <1>4, <2>1, CutText
  <2>3. (before \o pattern) \o after = call.rest
    BY <1>4, <1>5, CutToken
  <2>4. pattern \in Seq(Token) /\ pattern # <<>>
    BY <1>5
  <2> QED BY <2>2, <2>3, <2>4
<1>7. Len(nodes) \in Nat
  BY <1>4, ShapeOfNode
<1> HIDE DEF pattern, opcode, slug, after
<1>8. /\ Shape(tree1, spell1) /\ c1 \in 1..Len(tree1)
      /\ Keeps(nodes, spell, tree1, spell1)
      /\ spell1[c1] = spell[call.node] \o before
  <2>1. CASE s > 1
    <3> DEFINE t1 == spell[call.node] \o before
               new == Graft(nodes, call.node, before, "NONE")
               text1 == Append(spell, t1)
    <3>1. before # <<>>
      <4> HIDE DEF before
      <4>1. Len(before) > 0
        BY <1>5, <1>6, <2>1
      <4> QED BY <4>1
    <3> HIDE DEF before
    <3>2. Grown(nodes, spell, new, text1, t1)
      BY <1>4, <1>6, <3>1, GraftGrows
    <3>3. Keeps(nodes, spell, new, text1)
      BY <1>4, <1>6, GraftKeeps
    <3> HIDE DEF t1, new, text1
    <3>4. /\ Shape(new, text1) /\ text1[Len(nodes) + 1] = t1
          /\ Len(nodes) + 1 \in 1..Len(new)
      BY <3>2, GrownNode
    <3>5. tree1 = new /\ spell1 = text1 /\ c1 = Len(nodes) + 1
      BY <2>1 DEF new, text1, t1
    <3> HIDE DEF tree1, spell1, c1
    <3> QED BY <3>3, <3>4, <3>5 DEF t1
  <2>2. CASE ~(s > 1)
    <3>1. tree1 = nodes /\ spell1 = spell /\ c1 = call.node
      BY <2>2
    <3>2. before = <<>>
      BY <1>5, <1>6, <2>2, EmptySeq
    <3>3. spell[call.node] \o <<>> = spell[call.node]
      BY <1>4, ConcatEmptySeq
    <3>4. Keeps(nodes, spell, nodes, spell)
      BY DEF Keeps
    <3> HIDE DEF tree1, spell1, c1, before
    <3> QED BY <1>4, <3>1, <3>2, <3>3, <3>4
  <2> QED BY <2>1, <2>2
<1> HIDE DEF before, c1, tree1, spell1
<1>9. Grown(tree1, spell1, tree2, text, t)
  BY <1>5, <1>6, <1>8, GraftGrows
<1>10. Keeps(tree1, spell1, tree2, text)
  BY <1>5, <1>6, <1>8, GraftKeeps
<1> HIDE DEF tree2, text
<1>11. /\ Shape(tree2, text) /\ text[c2] = t /\ c2 \in 1..Len(tree2)
       /\ t \in Seq(Token)
  <2> HIDE DEF t
  <2> QED BY <1>9, GrownNode
<1>12. Keeps(nodes, spell, tree2, text)
  BY <1>8, <1>10, KeepsTransitive
<1>13. t \o after = call.path
  <2> DEFINE here == spell[call.node]
             first == before \o pattern
  <2>1. here \in Seq(Token) /\ first \in Seq(Token)
    BY <1>4, <1>6, ConcatProperties
  <2>2. t = (here \o before) \o pattern
    BY <1>8
  <2>3. (here \o before) \o pattern = here \o first
    BY <1>4, <1>6, TextsAssociative, Zenon
  <2>4. here \o (first \o after) = call.path
    BY <1>4, <1>6
  <2> HIDE DEF here, first, t
  <2>5. (here \o first) \o after = here \o (first \o after)
    BY <2>1, <1>6, TextsAssociative, Zenon
  <2> QED BY <2>2, <2>3, <2>4, <2>5
<1> HIDE DEF t, c2
<1>14. CASE after # <<>> /\ nodes' = tree2 /\ Recurse(c2, after)
  <2>1. KeepsTable
    BY <1>3, <1>12, <1>14, KeepsStep
  <2>2. Inserting' /\ Pending' = Pending
    BY <1>1, <1>4, <1>14 DEF Recurse, Inserting, Pending, Call
  <2> QED BY <2>1, <2>2
<1>15. CASE after = <<>> /\ nodes' = Mount(tree2, c2, NewRoute) /\ Return
  <2>1. t = call.path
    BY <1>11, <1>13, <1>15, ConcatEmptySeq
  <2>2. MountsPending
    BY <1>1, <1>3, <1>11, <1>12, <1>15, <2>1, MountStep
  <2> QED BY <1>15, <2>2
<1> QED BY <1>3, <1>14, <1>15

-----------------------------------------------------------------------------
(* The table                                                               *)

Request == IF call = Idle THEN Idle ELSE Pending

\* A frame in progress is not Idle, nor is its request.
LEMMA PendingIsNotIdle ==
    /\ Inserting => call # Idle
    /\ Pending # Idle
<1>1. Inserting => call # Idle
  BY DEF Inserting, Idle
<1>2. Pending # Idle
  <2>1. DOMAIN Pending = {"path", "method", "data"}
    BY DEF Pending
  <2>2. "pc" \in DOMAIN Idle
    BY DEF Idle
  <2> QED BY <2>1, <2>2
<1> QED BY <1>1, <1>2

\* The pattern that was refused holds something malformed.
LEMMA RefusedIsMalformed ==
    ASSUME IInv, Inserting, NEW b \in 1..Len(call.rest),
           call.rest[b] \in Malformed
    PROVE  HasMalformed(call.path)
<1> DEFINE here == spell[call.node]
           rest == call.rest
<1>1. here \in Seq(Token) /\ rest \in Seq(Token) /\ call.path = here \o rest
  BY Frame
<1>2. b \in 1..Len(rest) /\ rest[b] \in Malformed
  OBVIOUS
<1> HIDE DEF here, rest
<1>3. Len(here) \in Nat /\ Len(rest) \in Nat
  BY <1>1, LenProperties
<1>4. /\ Len(here) + b \in 1..Len(here \o rest)
      /\ (here \o rest)[Len(here) + b] = rest[b]
  BY <1>1, <1>2, <1>3
<1> QED BY <1>1, <1>2, <1>4 DEF HasMalformed

\* If r3_slug_count finds an error, something is malformed.
LEMMA CountFailsMalformed ==
    ASSUME NEW path, CountFails(path)
    PROVE  HasMalformed(path)
<1> SUFFICES ASSUME ~HasMalformed(path)
             PROVE  FALSE
  OBVIOUS
<1>1. Occurrences(StrayClose, path) = {} /\ Occurrences(Unclosed, path) = {}
  BY DEF Occurrences, HasMalformed, Malformed
<1> QED BY <1>1 DEF CountFails

LEMMA AcceptStep ==
    ASSUME TableInv, Inserting, MountsPending, Return, Whole(nodes', spell'),
           Shape(nodes', spell'), NoneMakesUp
    PROVE  Table!Accept
<1>1. PICK n \in 1..Len(nodes') : spell'[n] = call.path
  BY DEF MountsPending, MountsAt
<1>2. ~HasMalformed(call.path)
  <2>1. Excused(call.path) /\ call.path \in Seq(Token)
    BY <1>1, ShapeOfNode DEF Whole, Shape
  <2> QED BY <2>1, ExcusedIsClean
<1>3. Request = Pending /\ Request' = Idle
  BY PendingIsNotIdle DEF Request, Return
<1> QED BY <1>2, <1>3, PendingIsNotIdle DEF Table!Accept, MountsPending, Request, Pending

LEMMA RefuseStep ==
    ASSUME TableInv, Inserting, Return, UNCHANGED <<nodes, spell>>,
           HasMalformed(call.path)
    PROVE  Table!Refuse
<1>1. Mounted' = Mounted
  BY DEF Mounted, NodeIds
<1>2. Request = Pending /\ Request' = Idle
  BY PendingIsNotIdle DEF Request, Return
<1> QED BY <1>1, <1>2, PendingIsNotIdle DEF Table!Refuse, Request, Pending

LEMMA StutterStep ==
    ASSUME Mounted' = Mounted, Request' = Request
    PROVE  UNCHANGED Table!vars
BY DEF Table!vars, Request

LEMMA TableInvariance == Spec => []TableInv
BY WholeInvariance, PTL DEF TableInv

\* What an insertion does in a step: it goes on, or it returns, with the route
\* mounted or with everything as it was.
LEMMA InsertOutcome ==
    ASSUME TableInv, InsertStep
    PROVE  /\ Inserting
           /\ \/ KeepsTable /\ call' # Idle /\ Pending' = Pending
              \/ MountsPending /\ Return
              \/ /\ UNCHANGED <<nodes, spell>> /\ Return
                 /\ HasMalformed(call.path)
<1>1. ASSUME Inserting, NEW node, NEW rest, Recurse(node, rest)
      PROVE  call' # Idle /\ Pending' = Pending
  <2>1. call \in Call
    BY <1>1, Frame DEF TableInv
  <2> QED BY <1>1, <2>1 DEF Recurse, Inserting, Pending, Call, Idle
<1>2. ASSUME UNCHANGED <<nodes, spell>>
      PROVE  KeepsTable
  <2>1. Keeps(nodes, spell, nodes', spell')
    BY <1>2 DEF Keeps
  <2> QED BY <2>1, KeepsStep
<1>3. CASE InsertHere
  BY <1>3, InsertHereMounts DEF InsertHere
<1>4. CASE ParseRefuses
  <2>1. PICK k \in 1..Len(call.rest) : ParseFails(call.rest, k)
    BY <1>4 DEF ParseRefuses
  <2>2. Inserting /\ Return /\ UNCHANGED <<nodes, spell>>
    BY <1>4 DEF ParseRefuses
  <2>3. PICK b \in 1..Len(call.rest) : call.rest[b] \in Malformed
    BY <2>1 DEF ParseFails, Stumbles, FirstFlaw
  <2> QED BY <2>2, <2>3, RefusedIsMalformed DEF TableInv
<1>5. CASE CountRefuses
  <2>1. Inserting /\ Return /\ UNCHANGED <<nodes, spell>>
    BY <1>5 DEF CountRefuses
  <2>2. PICK b \in 1..Len(call.rest) : call.rest[b] \in Malformed
    BY <1>5, CountFailsMalformed DEF CountRefuses, HasMalformed
  <2> QED BY <2>1, <2>2, RefusedIsMalformed DEF TableInv
<1>6. CASE InsertFirstOfMany
  <2>1. Inserting /\ \E node, rest : Recurse(node, rest)
    BY <1>6 DEF InsertFirstOfMany, Grows
  <2> QED BY <1>1, <1>6, <2>1, InsertFirstOfManyKeeps
<1>7. CASE InsertAborts \/ ParseAstray
  <2>1. /\ UNCHANGED <<nodes, spell>> /\ Inserting
        /\ \E pc \in {"aborted", "astray"} : call' = [call EXCEPT !.pc = pc]
    BY <1>7 DEF InsertAborts, ParseAstray, Grows
  <2>2. call \in Call
    BY <2>1, Frame DEF TableInv
  <2>3. call' # Idle /\ Pending' = Pending
    BY <2>1, <2>2 DEF Idle, Pending, Call
  <2> QED BY <1>2, <2>1, <2>3
<1>8. CASE InsertSlug
  <2>1. Inserting
    BY <1>8 DEF InsertSlug, Grows
  <2> QED BY <1>8, <2>1, InsertSlugMounts, PendingIsNotIdle DEF Inserting, Idle
<1>9. CASE InsertLiteral
  BY <1>9, InsertLiteralMounts DEF InsertLiteral, Grows
<1>10. CASE Descend
  <2>1. /\ UNCHANGED <<nodes, spell>> /\ Inserting
        /\ \E node, rest : Recurse(node, rest)
    BY <1>10 DEF Descend, Follows
  <2> QED BY <1>1, <1>2, <2>1
<1>11. CASE InsertExisting
  BY <1>11, InsertExistingMounts DEF InsertExisting, Follows
<1>12. CASE Branch
  <2>1. Inserting /\ \E node, rest : Recurse(node, rest)
    BY <1>12 DEF Branch, Follows
  <2> QED BY <1>1, <1>12, <2>1, BranchKeepsTable
<1> QED BY <1>3, <1>4, <1>5, <1>6, <1>7, <1>8, <1>9, <1>10, <1>11, <1>12
        DEF InsertStep

\* A step of the tree is a step of the table, or none, if the malformed patterns
\* are refused; and no route moves.
LEMMA TableStep ==
    ASSUME TableInv, TableInv', [Next]_vars
    PROVE  /\ NoneMakesUp => [Table!Next]_(Table!vars)
           /\ Permanent(nodes, spell, nodes', spell')
<1>1. Shape(nodes', spell') /\ Whole(nodes', spell')
  BY DEF TableInv, IInv
<1>2. ASSUME UNCHANGED <<nodes, spell>>
      PROVE  /\ Mounted' = Mounted
             /\ Permanent(nodes, spell, nodes', spell')
  <2>1. Keeps(nodes, spell, nodes', spell')
    BY <1>2 DEF Keeps
  <2> QED BY <2>1, KeepsStep DEF KeepsTable
<1>3. CASE \E path \in Paths, method \in Methods : Add(path, method, adds + 1)
  <2>1. PICK path \in Paths, method \in Methods : Add(path, method, adds + 1)
    BY <1>3
  <2>2. /\ call = Idle /\ UNCHANGED <<nodes, spell>>
        /\ call' = [pc |-> "insert", node |-> Root, rest |-> path,
                    path |-> path, method |-> method, data |-> adds + 1]
    BY <2>1 DEF Add
  <2>3. call' # Idle
    BY <2>2 DEF Idle
  <2>4. adds + 1 \in Nat
    BY MaxAddsAssumption DEF TableInv, IInv
  <2>5. Request = Idle /\ Request' = Pending'
    BY <2>2, <2>3 DEF Request
  <2>6. Pending' \in Table!RouteEntry
    BY <2>2, <2>4 DEF Pending, Table!RouteEntry
  <2>7. Table!Submit
    BY <1>2, <2>2, <2>5, <2>6 DEF Table!Submit, Request
  <2> QED BY <1>2, <2>2, <2>7 DEF Table!Next
<1>4. CASE InsertStep
  <2>1. /\ Inserting
        /\ \/ KeepsTable /\ call' # Idle /\ Pending' = Pending
           \/ MountsPending /\ Return
           \/ UNCHANGED <<nodes, spell>> /\ Return /\ HasMalformed(call.path)
    BY <1>4, InsertOutcome
  <2>2. CASE KeepsTable /\ call' # Idle /\ Pending' = Pending
    <3>1. Request' = Request
      BY <2>1, <2>2, PendingIsNotIdle DEF Request
    <3> QED BY <2>2, <3>1, StutterStep DEF KeepsTable
  <2>3. CASE MountsPending /\ Return
    BY <1>1, <2>1, <2>3, AcceptStep DEF MountsPending, Table!Next
  <2>4. CASE UNCHANGED <<nodes, spell>> /\ Return /\ HasMalformed(call.path)
    BY <1>2, <2>1, <2>4, RefuseStep DEF Table!Next
  <2> QED BY <2>1, <2>2, <2>3, <2>4
<1>5. CASE Compile
  <2>1. call' = call /\ Keeps(nodes, spell, nodes', spell')
    BY <1>5, CompiledKeeps DEF Compile, TableInv, IInv
  <2>2. Request' = Request
    BY <2>1 DEF Request, Pending
  <2> QED BY <2>1, <2>2, KeepsStep, StutterStep DEF KeepsTable
<1>6. CASE UNCHANGED vars
  <2>1. UNCHANGED <<nodes, spell, call>>
    BY <1>6 DEF vars
  <2>2. Request' = Request
    BY <2>1 DEF Request, Pending
  <2> QED BY <1>2, <2>1, <2>2, StutterStep
<1> QED BY <1>3, <1>4, <1>5, <1>6 DEF Next

-----------------------------------------------------------------------------
(* Theorems                                                                *)

\* A node keeps its text and the routes it has, in their order, for ever: the
\* index into @data a route was mounted with stays where a match looks for it.
THEOREM RoutesStay == Spec => RoutesPermanent
<1>1. TableInv /\ TableInv' /\ [Next]_vars
        => [\A n \in NodeIds :
                /\ spell'[n] = spell[n]
                /\ IsPrefix(nodes[n].routes, nodes'[n].routes)]_vars
  BY TableStep DEF Permanent, NodeIds
<1> QED BY <1>1, TableInvariance, PTL DEF Spec, RoutesPermanent

\* If the malformed patterns are refused: adding a route, step by step, is adding
\* it to the table at once, a malformed pattern adds nothing, and no other is
\* refused.  This is ImplementsRouteTable without its fairness.
THEOREM TableRefined ==
    NoneMakesUp => (Spec => Table!Init /\ [][Table!Next]_(Table!vars))
<1>1. Init => Table!Init
  <2> SUFFICES ASSUME Init
               PROVE  Table!Init
    OBVIOUS
  <2>1. Len(nodes) = 1 /\ nodes[1].routes = <<>> /\ call = Idle
    BY DEF Init, EmptyNode
  <2>2. Mounted = {}
    <3>1. \A e : e \notin MountedIn(nodes, spell)
      <4> SUFFICES ASSUME NEW e, e \in MountedIn(nodes, spell)
                   PROVE  FALSE
        OBVIOUS
      <4>1. PICK n \in 1..Len(nodes) : \E r \in 1..Len(nodes[n].routes) :
                    e = Entry(spell[n], nodes[n].routes[r])
        BY MountedEntry
      <4>2. n = 1
        BY <2>1
      <4> QED BY <2>1, <4>1, <4>2
    <3> QED BY <3>1, MountedIsMountedIn
  <2> QED BY <2>1, <2>2 DEF Table!Init
<1> SUFFICES ASSUME NoneMakesUp
             PROVE  Spec => Table!Init /\ [][Table!Next]_(Table!vars)
  OBVIOUS
<1>2. TableInv /\ TableInv' /\ [Next]_vars => [Table!Next]_(Table!vars)
  BY TableStep
<1> QED BY <1>1, <1>2, TableInvariance, PTL DEF Spec
=============================================================================
