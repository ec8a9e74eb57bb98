-------------------------- MODULE R3BindingProofs ---------------------------
(***************************************************************************)
(* Theorems about R3Binding: the strings the tree points into are kept, a  *)
(* refused pattern is never one of them, the tree is freed once, and the   *)
(* state keeps its types; and the binding is a dispatcher.                 *)
(*                                                                         *)
(* The tree copies no text.  A new edge points into the pattern being      *)
(* added, and the parts of a split edge into the pattern of the old one;   *)
(* so what has to be known of a step of the tree is where the text of each *)
(* node it adds comes from.                                                *)
(*                                                                         *)
(* The dispatcher is seen through the nodes, their texts and @data at once.*)
(* Of the tree it takes what R3TreeProofs says a step mounts, and of a     *)
(* match what R3AnswerProofs says an answer is.                            *)
(***************************************************************************)
EXTENDS R3Binding, R3TreeProofs, R3AnswerProofs, FunctionTheorems

-----------------------------------------------------------------------------
(* Prefixes                                                                *)

LEMMA PrefixIsPrefix ==
    ASSUME NEW a \in Seq(Token), NEW b \in Seq(Token), Prefix(a, b)
    PROVE  IsPrefix(a, b)
<1> DEFINE cut == SubSeq(b, 1, Len(a))
<1>1. Len(a) \in Nat /\ Len(b) \in Nat /\ Len(a) <= Len(b)
  BY LenProperties DEF Prefix
<1>2. /\ cut \in Seq(Token) /\ Len(cut) = Len(a)
      /\ \A i \in 1..Len(a) : cut[i] = b[i]
  BY <1>1
<1>3. \A i \in 1..Len(a) : a[i] = b[i]
  BY DEF Prefix
<1> HIDE DEF cut
<1>4. a = cut
  BY <1>2, <1>3, SeqEqual
<1>5. SubSeq(a, 1, Len(a)) = a
  BY SubSeqFull
<1> QED BY <1>1, <1>4, <1>5 DEF cut, IsPrefix

LEMMA FrontIsPrefix ==
    ASSUME NEW a \in Seq(Token), NEW b \in Seq(Token)
    PROVE  Prefix(a, a \o b)
<1>1. CASE b = <<>>
  <2>1. a \o b = a
    BY <1>1, ConcatEmptySeq
  <2>2. Len(a) \in Nat
    BY LenProperties
  <2> QED BY <2>1, <2>2 DEF Prefix
<1>2. CASE b # <<>>
  BY <1>2, ConcatPrefix
<1> QED BY <1>1, <1>2

-----------------------------------------------------------------------------
(* The texts of new nodes                                                  *)

\* What the pattern of an insertion is that adds an edge.
Acceptable(path) == NoneMakesUp => ~HasMalformed(path)

\* Every node added stands for a beginning of the pattern, which is acceptable.
NewTextsFromPattern ==
    \A n \in 1..Len(spell') :
        \/ n \in 1..Len(spell)
        \/ Prefix(spell'[n], call.path) /\ Acceptable(call.path)

LEMMA GrowsAcceptable ==
    ASSUME TableInv, Grows
    PROVE  Acceptable(call.path)
<1> SUFFICES ASSUME NoneMakesUp
             PROVE  ~HasMalformed(call.path)
  BY DEF Acceptable
<1>1. IInv /\ Inserting /\ ~CountFails(call.rest)
  BY DEF Grows, TableInv
<1>2. call.node \in 1..Len(nodes)
  BY <1>1, Frame
<1>3. Excused(spell[call.node])
  BY <1>1, <1>2 DEF TableInv, IInv, Shape, Whole
<1> QED BY <1>1, <1>3, GrowsClean

\* The text reached, with the front of what is left, is a beginning of the
\* pattern.
LEMMA PartOfPattern ==
    ASSUME TableInv, Inserting, NEW k \in 0..Len(call.rest)
    PROVE  /\ spell[call.node] \o Upto(call.rest, k) \in Seq(Token)
           /\ Prefix(spell[call.node] \o Upto(call.rest, k), call.path)
<1> DEFINE here == spell[call.node]
           front == Upto(call.rest, k)
           back == After(call.rest, k)
<1>1. /\ here \in Seq(Token) /\ call.rest \in Seq(Token)
      /\ here \o call.rest = call.path
  BY Frame DEF TableInv
<1>2. /\ front \in Seq(Token) /\ back \in Seq(Token)
      /\ front \o back = call.rest
  BY <1>1, CutText
<1> HIDE DEF here, front, back
<1>3. (here \o front) \o back = call.path
  <2>1. (here \o front) \o back = here \o (front \o back)
    BY <1>1, <1>2, TextsAssociative, Zenon
  <2> QED BY <2>1, <1>1, <1>2
<1>4. here \o front \in Seq(Token)
  BY <1>1, <1>2, ConcatProperties
<1>5. Prefix(here \o front, (here \o front) \o back)
  BY <1>2, <1>4, FrontIsPrefix
<1> QED BY <1>3, <1>4, <1>5 DEF here, front

\* The texts with one more.
LEMMA OneNewText ==
    ASSUME TableInv, Grows, NEW t \in Seq(Token), Prefix(t, call.path),
           spell' = Append(spell, t)
    PROVE  NewTextsFromPattern
<1>1. spell \in Seq(Seq(Token)) /\ Len(spell) \in Nat
  BY LenProperties DEF TableInv, IInv, Shape
<1>2. Len(spell') = Len(spell) + 1 /\ spell'[Len(spell) + 1] = t
  BY <1>1, AppendText
<1>3. \A n \in 1..Len(spell') : n = Len(spell) + 1 \/ n \in 1..Len(spell)
  BY <1>1, <1>2, OneMore
<1> QED BY <1>2, <1>3, GrowsAcceptable DEF NewTextsFromPattern

LEMMA InsertFirstOfManyTexts ==
    ASSUME TableInv, InsertFirstOfMany
    PROVE  NewTextsFromPattern
<1>1. Grows /\ Inserting
  BY DEF InsertFirstOfMany, Grows
<1>2. PICK j \in BreakPoints(call.rest) :
        spell' = Append(spell, spell[call.node] \o Upto(call.rest, j - 1))
  BY DEF InsertFirstOfMany
<1>3. j - 1 \in 0..Len(call.rest)
  <2>1. call.rest \in Seq(Token)
    BY <1>1, Frame DEF TableInv
  <2>2. Len(call.rest) \in Nat
    BY <2>1, LenProperties
  <2> QED BY <2>2 DEF BreakPoints, SlugPositions
<1> QED BY <1>1, <1>2, <1>3, PartOfPattern, OneNewText

LEMMA InsertLiteralTexts ==
    ASSUME TableInv, InsertLiteral
    PROVE  NewTextsFromPattern
<1>1. /\ Grows /\ Inserting
      /\ spell' = Append(spell, spell[call.node] \o call.rest)
  BY DEF InsertLiteral, Grows
<1>2. /\ spell[call.node] \o call.rest = call.path
      /\ call.path \in Seq(Token)
  BY <1>1, Frame, PathsAssumption DEF TableInv
<1>3. Prefix(call.path, call.path)
  BY <1>2, LenProperties DEF Prefix
<1> QED BY <1>1, <1>2, <1>3, OneNewText

LEMMA InsertSlugTexts ==
    ASSUME TableInv, InsertSlug
    PROVE  NewTextsFromPattern
<1>1. Grows /\ Inserting
  BY DEF InsertSlug, Grows
<1>2. PICK s \in CountedSlugs(call.rest) :
        LET before == Upto(call.rest, s - 1)
            slug == call.rest[s]
            c1 == IF s > 1 THEN Len(nodes) + 1 ELSE call.node
            spell1 == IF s > 1 THEN Append(spell, spell[call.node] \o before)
                               ELSE spell
        IN  spell' = Append(spell1, spell1[c1] \o <<slug>>)
  BY DEF InsertSlug
<1> DEFINE here == spell[call.node]
           before == Upto(call.rest, s - 1)
           pattern == <<call.rest[s]>>
           t == here \o Upto(call.rest, s)
<1>3. /\ call.rest \in Seq(Token) /\ here \in Seq(Token)
      /\ call.node \in 1..Len(nodes) /\ Len(spell) = Len(nodes)
      /\ spell \in Seq(Seq(Token))
  BY <1>1, Frame DEF TableInv, IInv, Shape
<1>4. /\ Len(call.rest) \in Nat /\ Len(spell) \in Nat
      /\ s \in 1..Len(call.rest) /\ s \in 0..Len(call.rest)
      /\ s - 1 \in 0..Len(call.rest)
  BY <1>3, LenProperties DEF CountedSlugs, SlugPositions
<1>5. t \in Seq(Token) /\ Prefix(t, call.path)
  BY <1>1, <1>4, PartOfPattern
<1>6. here \o before \in Seq(Token) /\ Prefix(here \o before, call.path)
  BY <1>1, <1>4, PartOfPattern
<1>7. /\ before \in Seq(Token) /\ pattern \in Seq(Token)
      /\ before \o pattern = Upto(call.rest, s)
  <2>1. call.rest[s] \in Token
    BY <1>3, <1>4, ElementOfSeq
  <2>2. pattern \in Seq(Token)
    BY <2>1
  <2>3. before \in Seq(Token)
    BY <1>3, <1>4, CutText
  <2>4. before \o pattern = Upto(call.rest, s)
    BY <1>3, <1>4, CutBefore
  <2> QED BY <2>2, <2>3, <2>4
<1>8. (here \o before) \o pattern = t
  <2> HIDE DEF here, before, pattern
  <2>1. (here \o before) \o pattern = here \o (before \o pattern)
    BY <1>3, <1>7, TextsAssociative, Zenon
  <2> QED BY <2>1, <1>7
<1>9. CASE s > 1
  <2> DEFINE text1 == Append(spell, here \o before)
  <2> HIDE DEF here, before, pattern, t
  <2>1. /\ text1 \in Seq(Seq(Token)) /\ Len(text1) = Len(spell) + 1
        /\ text1[Len(spell) + 1] = here \o before
    BY <1>3, <1>6, AppendText
  <2>2. spell' = Append(text1, text1[Len(nodes) + 1] \o pattern)
    BY <1>2, <1>9 DEF here, before, pattern
  <2> HIDE DEF text1
  <2>3. spell' = Append(text1, t)
    BY <2>1, <2>2, <1>3, <1>8
  <2>4. /\ Len(spell') = Len(spell) + 2 /\ spell'[Len(spell) + 2] = t
        /\ spell'[Len(spell) + 1] = here \o before
    <3>1. /\ Len(spell') = Len(text1) + 1 /\ spell'[Len(text1) + 1] = t
          /\ \A m \in 1..Len(text1) : spell'[m] = text1[m]
      BY <2>1, <2>3, <1>5, AppendText
    <3>2. Len(spell) + 1 \in 1..Len(text1)
      BY <2>1, <1>4
    <3>3. Len(text1) + 1 = Len(spell) + 2
      BY <2>1, <1>4
    <3>4. spell'[Len(spell) + 1] = here \o before
      BY <2>1, <3>1, <3>2
    <3> QED BY <3>1, <3>3, <3>4
  <2>5. \A n \in 1..Len(spell') : \/ n \in 1..Len(spell)
                                  \/ n = Len(spell) + 1
                                  \/ n = Len(spell) + 2
    BY <2>4, <1>4
  <2> QED BY <2>4, <2>5, <1>1, <1>5, <1>6, GrowsAcceptable
          DEF NewTextsFromPattern
<1>10. CASE ~(s > 1)
  <2>1. s = 1
    BY <1>4, <1>10
  <2>2. before = <<>>
    <3>1. Len(before) = 0
      BY <2>1, <1>3, <1>4, CutText
    <3> QED BY <3>1, <1>7, EmptySeq
  <2>3. here \o before = here
    <3> HIDE DEF here, before
    <3> QED BY <2>2, <1>3, ConcatEmptySeq
  <2>4. spell' = Append(spell, here \o pattern)
    BY <1>2, <1>10
  <2>5. spell' = Append(spell, t)
    <3> HIDE DEF here, before, pattern, t
    <3> QED BY <2>3, <2>4, <1>8
  <2> QED BY <2>5, <1>1, <1>5, OneNewText
<1> QED BY <1>9, <1>10

\* The node a split adds has the lower part of the old edge below it.
LEMMA BranchTexts ==
    ASSUME TableInv, Branch
    PROVE  \A n \in 1..Len(nodes') :
            \/ n \in 1..Len(nodes)
            \/ \E m \in 1..Len(nodes) : Child(nodes', n, m)
<1>1. PICK i \in 1..Len(EdgesHere), k \in 1..Len(call.rest) :
        /\ Inserting /\ CommonPrefix(i, k)
        /\ k < Len(EdgesHere[i].pattern)
        /\ nodes' = EdgeBranch(nodes, call.node, i, k)
  BY DEF Branch, Follows
<1>2. /\ nodes[call.node].edges[i].pattern \in Seq(Token)
      /\ nodes[call.node].edges[i].child \in 1..Len(nodes)
      /\ call.node \in 1..Len(nodes) /\ i \in 1..Len(nodes[call.node].edges)
      /\ call.rest \in Seq(Token) /\ Shape(nodes, spell)
  BY <1>1, SharedPrefix, Frame DEF EdgesHere, TableInv, IInv
<1>3. k \in 1..(Len(nodes[call.node].edges[i].pattern) - 1)
  <2>1. k < Len(nodes[call.node].edges[i].pattern)
    BY <1>1 DEF EdgesHere
  <2>2. /\ Len(nodes[call.node].edges[i].pattern) \in Nat
        /\ Len(call.rest) \in Nat
    BY <1>2, LenProperties
  <2> QED BY <2>1, <2>2
<1>4. /\ Len(nodes) \in Nat /\ Len(nodes') = Len(nodes) + 1
      /\ Child(nodes', Len(nodes) + 1, nodes[call.node].edges[i].child)
  BY <1>1, <1>2, <1>3, BranchChildren
<1>5. \A n \in 1..Len(nodes') : n = Len(nodes) + 1 \/ n \in 1..Len(nodes)
  BY <1>4, OneMore
<1> QED BY <1>2, <1>4, <1>5

-----------------------------------------------------------------------------
(* A step of the tree                                                      *)

\* What the nodes of a tree stand for, after a step: the old nodes for what they
\* stood for, and each new one for the beginning of the text of an old node
\* below it, or of the pattern.
TextsKnown ==
    /\ \A n \in 1..Len(nodes) : spell'[n] = spell[n]
    /\ \A n \in 1..Len(nodes') :
        \/ n \in 1..Len(nodes)
        \/ \E m \in 1..Len(nodes) : Child(nodes', n, m)
        \/ Prefix(spell'[n], call.path) /\ Acceptable(call.path)

LEMMA TreeInvInductive ==
    ASSUME TableInv, [Next]_vars
    PROVE  TableInv'
<1>1. IInv' /\ Sound(nodes') /\ Whole(nodes', spell')
  BY Inductive, SoundInductive, WholeInductive DEF TableInv
<1> QED BY <1>1 DEF TableInv

\* Whatever the data: the binding passes the length of @data.
LEMMA AddTreeInv ==
    ASSUME TableInv, NEW path \in Paths, NEW method \in Methods, NEW data \in Nat,
           Add(path, method, data)
    PROVE  TableInv'
<1>1. IInv'
  BY AddInvariant DEF TableInv
<1>2. nodes' = nodes /\ spell' = spell
  BY DEF Add
<1> QED BY <1>1, <1>2 DEF TableInv

LEMMA StepTexts ==
    ASSUME TableInv, InsertStep
    PROVE  TextsKnown
<1>1. [Next]_vars
  BY DEF Next
<1>2. TableInv'
  BY <1>1, TreeInvInductive
<1>3. \A n \in 1..Len(nodes) : spell'[n] = spell[n]
  BY <1>1, <1>2, TableStep DEF Permanent
<1>4. Len(spell) = Len(nodes) /\ Len(spell') = Len(nodes')
  BY <1>2 DEF TableInv, IInv, Shape
<1>5. CASE spell' = spell
  BY <1>3, <1>4, <1>5 DEF TextsKnown
<1>6. CASE NewTextsFromPattern
  BY <1>3, <1>4, <1>6 DEF TextsKnown, NewTextsFromPattern
<1>7. CASE Branch
  BY <1>3, <1>7, BranchTexts DEF TextsKnown
<1>8. CASE InsertFirstOfMany
  BY <1>6, <1>8, InsertFirstOfManyTexts
<1>9. CASE InsertLiteral
  BY <1>6, <1>9, InsertLiteralTexts
<1>10. CASE InsertSlug
  BY <1>6, <1>10, InsertSlugTexts
<1> QED BY <1>5, <1>7, <1>8, <1>9, <1>10
        DEF InsertStep, InsertHere, ParseRefuses, ParseAstray, CountRefuses,
            InsertAborts, Descend, InsertExisting

\* The frame keeps its pattern until the call returns.
LEMMA StepFrame ==
    ASSUME TableInv, InsertStep
    PROVE  /\ Inserting /\ adds' = adds
           /\ call' = Idle \/ call'.path = call.path
<1>1. Inserting
  BY DEF InsertStep, InsertHere, ParseRefuses, ParseAstray, CountRefuses,
         InsertFirstOfMany, InsertAborts, InsertSlug, InsertLiteral, Descend, InsertExisting,
         Branch, Grows, Follows
<1>2. adds' = adds
  BY DEF InsertStep, InsertHere, ParseRefuses, ParseAstray, CountRefuses,
         InsertFirstOfMany, InsertAborts, InsertSlug, InsertLiteral, Descend, InsertExisting, Branch
<1>3. call \in Call
  BY <1>1, Frame DEF TableInv
<1>4. \A node, rest : [call EXCEPT !.node = node, !.rest = rest].path = call.path
  BY <1>3 DEF Call
<1>5. \A pc : [call EXCEPT !.pc = pc].path = call.path
  BY <1>3 DEF Call
<1>6. \/ call' = Idle
      \/ \E node, rest : call' = [call EXCEPT !.node = node, !.rest = rest]
      \/ \E pc : call' = [call EXCEPT !.pc = pc]
  <2>1. CASE InsertFirstOfMany
    BY <2>1 DEF InsertFirstOfMany, Recurse
  <2>2. CASE InsertSlug
    BY <2>2 DEF InsertSlug, Recurse, Return
  <2>3. CASE Descend
    BY <2>3 DEF Descend, Recurse
  <2>4. CASE Branch
    BY <2>4 DEF Branch, Recurse
  <2>5. CASE InsertAborts \/ ParseAstray
    BY <2>5 DEF InsertAborts, ParseAstray
  <2>6. CASE Return
    BY <2>6 DEF Return
  <2> QED BY <2>1, <2>2, <2>3, <2>4, <2>5, <2>6
          DEF InsertStep, InsertHere, ParseRefuses, CountRefuses, InsertLiteral,
              InsertExisting
<1> QED BY <1>1, <1>2, <1>4, <1>5, <1>6

-----------------------------------------------------------------------------
(* The invariant of the binding                                            *)

Stored == [kind : {"data", "nil", "pattern"}, of : Nat]
Listed == [method : {{}} \cup Methods, path : Paths]

\* The numbers of the additions so far, the one in progress included, and the
\* pattern of each.
Numbers == 1..(IF op = NoOp THEN Len(listing) ELSE Len(listing) + 1)
PatternOf(of) == IF op # NoOp /\ of = op.of THEN op.path ELSE listing[of].path

\* Every edge points into the pattern of an addition.
Held ==
    \A n \in 1..Len(nodes) : n # Root =>
        /\ borrowed[n] \in Numbers
        /\ Prefix(spell[n], PatternOf(borrowed[n]))
        /\ Acceptable(PatternOf(borrowed[n]))

\* What is listed has its pattern in @data.
Kept ==
    \A of \in 1..Len(listing) :
        \E i \in 1..Len(dataAry) : dataAry[i] = PatternString(of)

\* The call of add in progress and the frame of the insertion it has made.
OpFits ==
    /\ op = NoOp => call = Idle /\ adds = Len(listing)
    /\ op # NoOp => /\ op.path \in Paths /\ op.method \in Methods
                    /\ op.of = Len(listing) + 1 /\ adds = op.of
    /\ call # Idle => call.path = op.path

Open ==
    /\ dataAry \in Seq(Stored) /\ listing \in Seq(Listed)
    /\ OpFits /\ Kept /\ Held

BindingInv == TableInv /\ (handle = "tree" => Open)

LEMMA PatternType ==
    ASSUME Open, NEW of \in Numbers
    PROVE  PatternOf(of) \in Paths /\ PatternOf(of) \in Seq(Token)
<1>1. CASE op # NoOp /\ of = op.of
  BY <1>1, PathsAssumption DEF Open, OpFits, PatternOf
<1>2. CASE ~(op # NoOp /\ of = op.of)
  <2>1. of \in 1..Len(listing)
    <3>1. listing \in Seq(Listed)
      BY DEF Open
    <3>2. Len(listing) \in Nat
      BY <3>1, LenProperties
    <3> QED BY <1>2, <3>2 DEF Open, OpFits, Numbers
  <2>2. listing[of] \in Listed
    BY <2>1, ElementOfSeq DEF Open
  <2> QED BY <1>2, <2>2, PathsAssumption DEF PatternOf, Listed
<1> QED BY <1>1, <1>2

\* Nothing moves in the tree, and no addition changes its pattern.
LEMMA HeldStays ==
    ASSUME Held, Len(nodes') = Len(nodes), spell' = spell, borrowed' = borrowed,
           \A of \in Numbers : of \in Numbers' /\ PatternOf(of)' = PatternOf(of)
    PROVE  Held'
<1> SUFFICES ASSUME NEW n \in 1..Len(nodes), n # Root
             PROVE  /\ borrowed'[n] \in Numbers'
                    /\ Prefix(spell'[n], PatternOf(borrowed[n])')
                    /\ Acceptable(PatternOf(borrowed[n])')
  BY DEF Held
<1>1. /\ borrowed[n] \in Numbers
      /\ Prefix(spell[n], PatternOf(borrowed[n]))
      /\ Acceptable(PatternOf(borrowed[n]))
  BY DEF Held
<1> QED BY <1>1

\* @data is only appended to: what was in it is there, and the new value too.
LEMMA DataAppended ==
    ASSUME dataAry \in Seq(Stored), NEW value \in Stored,
           dataAry' = Append(dataAry, value)
    PROVE  /\ dataAry' \in Seq(Stored) /\ Len(dataAry') = Len(dataAry) + 1
           /\ Len(dataAry) \in Nat /\ Len(dataAry') \in 1..Len(dataAry')
           /\ dataAry'[Len(dataAry')] = value
           /\ \A i \in 1..Len(dataAry) :
                i \in 1..Len(dataAry') /\ dataAry'[i] = dataAry[i]
<1>1. /\ dataAry' \in Seq(Stored) /\ Len(dataAry') = Len(dataAry) + 1
      /\ dataAry'[Len(dataAry) + 1] = value
      /\ \A i \in 1..Len(dataAry) : dataAry'[i] = dataAry[i]
  BY AppendProperties
<1>2. Len(dataAry) \in Nat
  BY LenProperties
<1> QED BY <1>1, <1>2

\* The tree sees the pattern without the slash behind it.
LEMMA Chomped ==
    ASSUME NEW path \in RawPaths
    PROVE  Chomp(path) \in Paths
<1>1. CASE path \in Paths /\ (Len(path) > 1 => path[Len(path)] # Slash)
  BY <1>1 DEF Chomp
<1>2. CASE \E short \in Paths : short # <<>> /\ path = Append(short, Slash)
  <2>1. PICK short \in Paths : short # <<>> /\ path = Append(short, Slash)
    BY <1>2
  <2> DEFINE Char == Token \cup {Slash}
  <2>2. short \in Seq(Char) /\ Slash \in Char
    BY <2>1, PathsAssumption
  <2> HIDE DEF Char
  <2>3. Len(short) \in Nat /\ Len(short) > 0
    BY <2>1, <2>2, LenProperties, EmptySeq
  <2>4. /\ path \in Seq(Char) /\ Len(path) = Len(short) + 1
        /\ path[Len(path)] = Slash
        /\ \A i \in 1..Len(short) : path[i] = short[i]
    BY <2>1, <2>2, AppendProperties
  <2>5. Chomp(path) = SubSeq(path, 1, Len(short))
    BY <2>3, <2>4 DEF Chomp
  <2>6. SubSeq(path, 1, Len(short)) = short
    <3> DEFINE cut == SubSeq(path, 1, Len(short))
    <3>1. /\ cut \in Seq(Char) /\ Len(cut) = Len(short)
          /\ \A i \in 1..Len(short) : cut[i] = path[i]
      BY <2>3, <2>4
    <3> HIDE DEF cut
    <3>2. cut = short
      BY <3>1, <2>2, <2>4, SeqEqual
    <3> QED BY <3>2 DEF cut
  <2> QED BY <2>1, <2>5, <2>6
<1> QED BY <1>1, <1>2, RawPathsAssumption

LEMMA BeginAddInvariant ==
    ASSUME BindingInv, NEW rawPath \in RawPaths, NEW method \in Methods,
           NEW given \in Given, BeginAdd(rawPath, method, given)
    PROVE  BindingInv'
<1> DEFINE path == Chomp(rawPath)
           value == DataValue(given, adds + 1)
           pushed == IF given = "none" THEN dataAry ELSE Append(dataAry, value)
           data == IF given = "none" THEN 0 ELSE Len(pushed)
<1>1. /\ handle = "tree" /\ op = NoOp /\ call = Idle /\ Open /\ TableInv
      /\ op' = [path |-> path, method |-> method, value |-> value, of |-> adds + 1]
      /\ dataAry' = pushed /\ Add(path, method, data)
      /\ listing' = listing /\ borrowed' = borrowed
  BY DEF BeginAdd, Ready, BindingInv
<1>2. path \in Paths
  BY Chomped
<1>3. /\ adds \in Nat /\ adds = Len(listing)
      /\ listing \in Seq(Listed) /\ dataAry \in Seq(Stored)
  BY <1>1, MaxAddsAssumption DEF TableInv, IInv, Open, OpFits
<1>4. value \in Stored
  BY <1>3 DEF DataValue, NilValue, Stored
<1> HIDE DEF path, value
<1>5. /\ pushed \in Seq(Stored) /\ data \in Nat
      /\ \A i \in 1..Len(dataAry) : i \in 1..Len(pushed) /\ pushed[i] = dataAry[i]
  <2>1. CASE given = "none"
    BY <2>1, <1>3
  <2>2. CASE given # "none"
    <3>1. dataAry' = Append(dataAry, value)
      BY <2>2, <1>1
    <3>2. pushed = dataAry' /\ data = Len(pushed)
      BY <2>2, <1>1
    <3> HIDE DEF pushed, data
    <3> QED BY <3>1, <3>2, <1>3, <1>4, DataAppended
  <2> QED BY <2>1, <2>2
<1> HIDE DEF pushed, data
<1>6. TableInv'
  BY <1>1, <1>2, <1>5, AddTreeInv
<1>7. /\ op'.path = path /\ op'.method = method /\ op'.of = adds + 1
      /\ op' # NoOp
  <2>1. op'.of # NoOp.of
    BY <1>1, <1>3 DEF NoOp
  <2> QED BY <2>1, <1>1
<1>8. /\ nodes' = nodes /\ spell' = spell /\ adds' = adds + 1 /\ call'.path = path
  BY <1>1 DEF Add
<1>9. OpFits'
  BY <1>1, <1>2, <1>3, <1>7, <1>8 DEF OpFits
<1>10. Kept'
  <2> SUFFICES ASSUME NEW of \in 1..Len(listing)
               PROVE  \E i \in 1..Len(pushed) : pushed[i] = PatternString(of)
    BY <1>1 DEF Kept
  <2>1. PICK i \in 1..Len(dataAry) : dataAry[i] = PatternString(of)
    BY <1>1 DEF Open, Kept
  <2> QED BY <2>1, <1>5
<1>11. Held'
  <2>1. \A of \in Numbers : of \in Numbers' /\ PatternOf(of)' = PatternOf(of)
    <3> TAKE of \in Numbers
    <3>1. of \in 1..Len(listing)
      BY <1>1 DEF Numbers
    <3>2. of \in 1..(Len(listing) + 1) /\ of # adds + 1
      BY <3>1, <1>3
    <3>3. of \in Numbers'
      BY <3>2, <1>1, <1>7 DEF Numbers
    <3>4. PatternOf(of)' = listing'[of] .path
      BY <3>2, <1>7 DEF PatternOf
    <3>5. PatternOf(of) = listing[of].path
      BY <1>1 DEF PatternOf
    <3> QED BY <3>3, <3>4, <3>5, <1>1
  <2> QED BY <2>1, <1>1, <1>8, HeldStays DEF Open
<1> QED BY <1>1, <1>3, <1>5, <1>6, <1>9, <1>10, <1>11 DEF BindingInv, Open

\* A new node borrows from the node below it, whose text goes on from its own,
\* or from the pattern being added.
LEMMA TreeWorksInvariant ==
    ASSUME BindingInv, TreeWorks
    PROVE  BindingInv'
<1> DEFINE split(n) == {m \in 1..Len(nodes) :
                            \E i \in 1..Len(nodes'[n].edges) :
                                nodes'[n].edges[i].child = m}
<1>1. /\ InsertStep /\ TableInv
      /\ dataAry' = dataAry /\ listing' = listing /\ handle' = handle /\ op' = op
  BY DEF TreeWorks, BindingInv, bindingOnly
<1>2. \A n \in 1..Len(nodes') :
        /\ n \in 1..Len(nodes) => borrowed'[n] = borrowed[n]
        /\ n \notin 1..Len(nodes) /\ split(n) # {} =>
                borrowed'[n] = borrowed[CHOOSE m \in split(n) : TRUE]
        /\ n \notin 1..Len(nodes) /\ split(n) = {} => borrowed'[n] = op.of
  <2>1. Len(nodes) \in Nat /\ Len(nodes') \in Nat
    <3>1. TableInv'
      BY <1>1, TreeInvInductive DEF Next
    <3> QED BY <3>1, <1>1, LenProperties DEF TableInv, IInv, Shape
  <2>2. borrowed' = [n \in 1..Len(nodes') |->
                        CASE n <= Len(nodes) -> borrowed[n]
                          [] n > Len(nodes) /\ split(n) # {} ->
                                borrowed[CHOOSE m \in split(n) : TRUE]
                          [] n > Len(nodes) /\ split(n) = {} -> op.of]
    BY DEF TreeWorks
  <2> HIDE DEF split
  <2> TAKE n \in 1..Len(nodes')
  <2>3. borrowed'[n] = CASE n <= Len(nodes) -> borrowed[n]
                         [] n > Len(nodes) /\ split(n) # {} ->
                                borrowed[CHOOSE m \in split(n) : TRUE]
                         [] n > Len(nodes) /\ split(n) = {} -> op.of
    BY <2>2
  <2>4. CASE n \in 1..Len(nodes)
    BY <2>1, <2>3, <2>4
  <2>5. CASE n \notin 1..Len(nodes) /\ split(n) # {}
    BY <2>1, <2>3, <2>5
  <2>6. CASE n \notin 1..Len(nodes) /\ split(n) = {}
    BY <2>1, <2>3, <2>6
  <2> QED BY <2>4, <2>5, <2>6
<1>3. TableInv'
  BY <1>1, TreeInvInductive DEF Next
<1>4. TextsKnown /\ Inserting /\ adds' = adds
      /\ (call' = Idle \/ call'.path = call.path)
  BY <1>1, StepTexts, StepFrame
<1>5. SUFFICES ASSUME handle = "tree"
               PROVE  OpFits' /\ Kept' /\ Held'
  BY <1>1, <1>3 DEF BindingInv, Open
<1>6. Open
  BY <1>5 DEF BindingInv
<1>7. call # Idle /\ op # NoOp /\ call.path = op.path /\ op.of = Len(listing) + 1
  BY <1>4, <1>6, PendingIsNotIdle DEF Open, OpFits
<1>8. OpFits'
  BY <1>1, <1>4, <1>6, <1>7 DEF Open, OpFits
<1>9. Kept'
  BY <1>1, <1>6 DEF Open, Kept
<1>10. \A of : Numbers' = Numbers /\ PatternOf(of)' = PatternOf(of)
  BY <1>1 DEF Numbers, PatternOf
<1>11. Shape(nodes', spell') /\ Shape(nodes, spell)
  BY <1>1, <1>3 DEF TableInv, IInv
<1>12. ASSUME NEW n \in 1..Len(nodes'), n # Root
       PROVE  LET of == borrowed'[n] IN
              /\ of \in Numbers
              /\ Prefix(spell'[n], PatternOf(of)) /\ Acceptable(PatternOf(of))
  <2>1. CASE n \in 1..Len(nodes)
    <3>1. borrowed'[n] = borrowed[n] /\ spell'[n] = spell[n]
      BY <2>1, <1>2, <1>4 DEF TextsKnown
    <3> QED BY <2>1, <3>1, <1>6, <1>12 DEF Open, Held
  <2>2. CASE n \notin 1..Len(nodes) /\ split(n) # {}
    <3> DEFINE m == CHOOSE m \in split(n) : TRUE
    <3>1. m \in split(n)
      BY <2>2
    <3>2. m \in 1..Len(nodes) /\ Child(nodes', n, m)
      BY <3>1 DEF Child
    <3>3. borrowed'[n] = borrowed[m]
      BY <2>2, <1>2
    <3> HIDE DEF m, split
    <3>4. /\ m \in 1..Len(nodes') /\ Prefix(spell'[n], spell'[m])
          /\ Len(spell'[m]) > Len(spell'[n])
      BY <3>2, <1>11, ChildText
    <3>5. spell'[m] = spell[m]
      BY <3>2, <1>4 DEF TextsKnown
    <3>6. m # Root
      <4> SUFFICES ASSUME m = Root
                   PROVE  FALSE
        OBVIOUS
      <4>1. Len(spell'[m]) = 0
        BY <1>11 DEF Shape
      <4>2. Len(spell'[n]) \in Nat
        BY <1>11, TextType
      <4> QED BY <3>4, <4>1, <4>2
    <3>7. /\ borrowed[m] \in Numbers /\ Prefix(spell[m], PatternOf(borrowed[m]))
          /\ Acceptable(PatternOf(borrowed[m]))
      BY <3>2, <3>6, <1>6 DEF Open, Held
    <3>8. /\ spell'[n] \in Seq(Token) /\ spell[m] \in Seq(Token)
          /\ PatternOf(borrowed[m]) \in Seq(Token)
      BY <3>2, <3>7, <1>6, <1>11, TextType, PatternType
    <3>9. Prefix(spell'[n], spell[m])
      BY <3>4, <3>5
    <3>10. Prefix(spell'[n], PatternOf(borrowed[m]))
      BY <3>7, <3>8, <3>9, PrefixTransitive
    <3> QED BY <3>3, <3>7, <3>10
  <2>3. CASE n \notin 1..Len(nodes) /\ split(n) = {}
    <3>1. ~\E m \in 1..Len(nodes) : Child(nodes', n, m)
      BY <2>3 DEF Child
    <3>2. borrowed'[n] = op.of
      BY <2>3, <1>2
    <3> HIDE DEF split
    <3>3. Prefix(spell'[n], call.path) /\ Acceptable(call.path)
      BY <2>3, <3>1, <1>4 DEF TextsKnown
    <3>4. PatternOf(op.of) = call.path
      BY <1>7 DEF PatternOf
    <3>5. op.of \in Numbers
      <4>1. Len(listing) \in Nat
        BY <1>6, LenProperties DEF Open
      <4> QED BY <4>1, <1>7 DEF Numbers
    <3> QED BY <3>2, <3>3, <3>4, <3>5
  <2> QED BY <2>1, <2>2, <2>3
<1>13. Held'
  <2> HIDE DEF split
  <2> SUFFICES ASSUME NEW n \in 1..Len(nodes'), n # Root
               PROVE  /\ borrowed'[n] \in Numbers'
                      /\ Prefix(spell'[n], PatternOf(borrowed[n])')
                      /\ Acceptable(PatternOf(borrowed[n])')
    BY DEF Held
  <2>1. PatternOf(borrowed[n])' = PatternOf(borrowed'[n])
    BY <1>1 DEF PatternOf
  <2> QED BY <2>1, <1>10, <1>12
<1> QED BY <1>8, <1>9, <1>13

\* The pattern moves from the call of add to @data and to the list.
LEMMA EndAddInvariant ==
    ASSUME BindingInv, EndAdd
    PROVE  BindingInv'
<1> DEFINE listed == [method |-> IF Cardinality(op.method) = 1 THEN op.method
                                 ELSE {},
                      path |-> op.path]
<1>1. /\ op # NoOp /\ call = Idle /\ op' = NoOp /\ handle' = handle
      /\ dataAry' = Append(dataAry, PatternString(op.of))
      /\ listing' = Append(listing, listed)
      /\ nodes' = nodes /\ call' = call /\ adds' = adds /\ spell' = spell
      /\ borrowed' = borrowed /\ TableInv
  BY DEF EndAdd, SaveRoute, vars, BindingInv
<1>2. TableInv'
  <2>1. [Next]_vars
    BY <1>1 DEF vars
  <2> QED BY <2>1, <1>1, TreeInvInductive
<1> SUFFICES ASSUME handle = "tree"
             PROVE  Open'
  BY <1>1, <1>2 DEF BindingInv
<1>3. Open
  BY DEF BindingInv
<1>4. /\ op.path \in Paths /\ op.method \in Methods
      /\ op.of = Len(listing) + 1 /\ adds = op.of
      /\ dataAry \in Seq(Stored) /\ listing \in Seq(Listed)
  BY <1>1, <1>3 DEF Open, OpFits
<1>5. Len(listing) \in Nat
  BY <1>4, LenProperties
<1>6. listed \in Listed /\ listed.path = op.path
  BY <1>4 DEF Listed
<1>7. PatternString(op.of) \in Stored
  BY <1>4, <1>5 DEF PatternString, Stored
<1> HIDE DEF listed
<1>8. /\ listing' \in Seq(Listed) /\ Len(listing') = Len(listing) + 1
      /\ listing'[Len(listing) + 1] = listed
      /\ \A of \in 1..Len(listing) : listing'[of] = listing[of]
  BY <1>1, <1>4, <1>6, AppendProperties
<1>9. /\ dataAry' \in Seq(Stored) /\ Len(dataAry') \in 1..Len(dataAry')
      /\ dataAry'[Len(dataAry')] = PatternString(op.of)
      /\ \A i \in 1..Len(dataAry) :
            i \in 1..Len(dataAry') /\ dataAry'[i] = dataAry[i]
  BY <1>1, <1>4, <1>7, DataAppended
<1>10. OpFits'
  BY <1>1, <1>4, <1>8 DEF OpFits
<1>11. \A of \in 1..Len(listing') : of = op.of \/ of \in 1..Len(listing)
  BY <1>4, <1>5, <1>8, OneMore
<1>12. Kept'
  <2> SUFFICES ASSUME NEW of \in 1..Len(listing')
               PROVE  \E i \in 1..Len(dataAry') : dataAry'[i] = PatternString(of)
    BY DEF Kept, PatternString
  <2>1. CASE of = op.of
    BY <2>1, <1>9
  <2>2. CASE of \in 1..Len(listing)
    <3>1. PICK i \in 1..Len(dataAry) : dataAry[i] = PatternString(of)
      BY <2>2, <1>3 DEF Open, Kept
    <3> QED BY <3>1, <1>9
  <2> QED BY <2>1, <2>2, <1>11
<1>13. Held'
  <2>1. Numbers' = Numbers /\ Numbers = 1..Len(listing')
    BY <1>1, <1>8 DEF Numbers
  <2>2. \A of \in Numbers : of \in Numbers' /\ PatternOf(of)' = PatternOf(of)
    <3> TAKE of \in Numbers
    <3>1. PatternOf(of)' = listing'[of].path
      BY <1>1 DEF PatternOf
    <3>2. CASE of = op.of
      BY <3>1, <3>2, <2>1, <1>1, <1>4, <1>6, <1>8 DEF PatternOf
    <3>3. CASE of # op.of
      <4>1. of \in 1..Len(listing)
        BY <3>3, <2>1, <1>11
      <4>2. PatternOf(of) = listing[of].path
        BY <3>3 DEF PatternOf
      <4> QED BY <3>1, <4>1, <4>2, <2>1, <1>8
    <3> QED BY <3>2, <3>3
  <2> QED BY <2>2, <1>1, <1>3, HeldStays DEF Open
<1> QED BY <1>8, <1>9, <1>10, <1>12, <1>13 DEF Open

LEMMA CompileInvariant ==
    ASSUME BindingInv, CompileTree
    PROVE  BindingInv'
<1>1. /\ Compile /\ handle = "tree" /\ op = NoOp /\ Open /\ TableInv
      /\ dataAry' = dataAry /\ listing' = listing /\ op' = op
      /\ borrowed' = borrowed
  BY DEF CompileTree, Ready, bindingOnly, BindingInv
<1>2. TableInv'
  BY <1>1, TreeInvInductive DEF Next
<1>3. /\ nodes' = CompiledTree(nodes) /\ call' = call /\ adds' = adds
      /\ spell' = spell
  BY <1>1 DEF Compile
<1>4. Len(nodes') = Len(nodes)
  BY <1>1, <1>3, CompiledShape DEF TableInv, IInv
<1>5. OpFits' /\ Kept'
  BY <1>1, <1>3 DEF Open, OpFits, Kept
<1>6. Held'
  <2>1. \A of \in Numbers : of \in Numbers' /\ PatternOf(of)' = PatternOf(of)
    BY <1>1 DEF Numbers, PatternOf
  <2> QED BY <2>1, <1>1, <1>3, <1>4, HeldStays DEF Open
<1> QED BY <1>1, <1>2, <1>5, <1>6 DEF BindingInv, Open

\* The other calls leave the tree and its strings, or end the life of the tree.
LEMMA TreeUntouched ==
    ASSUME BindingInv, UNCHANGED <<vars, op, borrowed>>,
           \/ handle' # "tree"
           \/ handle' = handle /\ dataAry' = dataAry /\ listing' = listing
    PROVE  BindingInv'
<1>1. TableInv'
  <2>1. TableInv /\ [Next]_vars
    BY DEF BindingInv
  <2> QED BY <2>1, TreeInvInductive
<1>2. CASE handle' # "tree"
  BY <1>1, <1>2 DEF BindingInv
<1>3. CASE handle' = handle /\ dataAry' = dataAry /\ listing' = listing
  <2>1. /\ nodes' = nodes /\ spell' = spell /\ call' = call /\ adds' = adds
        /\ op' = op /\ borrowed' = borrowed
    BY DEF vars
  <2> SUFFICES ASSUME Open
               PROVE  Open'
    BY <1>1, <1>3 DEF BindingInv
  <2>2. OpFits' /\ Kept'
    BY <1>3, <2>1 DEF Open, OpFits, Kept
  <2>3. \A of \in Numbers : of \in Numbers' /\ PatternOf(of)' = PatternOf(of)
    BY <1>3, <2>1 DEF Numbers, PatternOf
  <2>4. Held'
    BY <2>1, <2>3, HeldStays DEF Open
  <2> QED BY <1>3, <2>2, <2>4 DEF Open
<1> QED BY <1>2, <1>3

LEMMA BindingInductive == BindingInv /\ [BindingNext]_bindingVars => BindingInv'
<1> SUFFICES ASSUME BindingInv, [BindingNext]_bindingVars
             PROVE  BindingInv'
  OBVIOUS
<1>1. CASE \E path \in RawPaths, method \in Methods, given \in Given :
                BeginAdd(path, method, given)
  BY <1>1, BeginAddInvariant
<1>2. CASE TreeWorks
  BY <1>2, TreeWorksInvariant
<1>3. CASE EndAdd
  BY <1>3, EndAddInvariant
<1>4. CASE CompileTree
  BY <1>4, CompileInvariant
<1>5. CASE \E method \in {"match", "match?", "mismatch?"}, request \in Requests :
                Query(method, request)
  BY <1>5, TreeUntouched DEF Query
<1>6. CASE TakeReply
  BY <1>6, TreeUntouched DEF TakeReply
<1>7. CASE Free
  BY <1>7, TreeUntouched DEF Free
<1>8. CASE UseAfterFree
  BY <1>8, TreeUntouched DEF UseAfterFree
<1>9. CASE Collect
  BY <1>9, TreeUntouched DEF Collect
<1>10. CASE UNCHANGED bindingVars
  BY <1>10, TreeUntouched DEF bindingVars
<1> QED BY <1>1, <1>2, <1>3, <1>4, <1>5, <1>6, <1>7, <1>8, <1>9, <1>10
        DEF BindingNext

LEMMA BindingInitially == BindingInit => BindingInv
<1> SUFFICES ASSUME BindingInit
             PROVE  BindingInv
  OBVIOUS
<1>1. /\ Init /\ dataAry = <<>> /\ listing = <<>> /\ op = NoOp
      /\ call = Idle /\ adds = 0 /\ Len(nodes) = 1
  BY DEF BindingInit, MatchInit, Init
<1>2. TableInv
  BY <1>1, Initially, SoundInitially, WholeInitially DEF TableInv
<1>3. OpFits /\ Kept
  BY <1>1 DEF OpFits, Kept
<1>4. Held
  BY <1>1 DEF Held, Root
<1>5. dataAry \in Seq(Stored) /\ listing \in Seq(Listed)
  BY <1>1, EmptySeq
<1> QED BY <1>2, <1>3, <1>4, <1>5 DEF BindingInv, Open

LEMMA BindingInvariance == BindingSpec => []BindingInv
BY BindingInitially, BindingInductive, PTL DEF BindingSpec

-----------------------------------------------------------------------------
(* Types, also once the tree is gone                                       *)

\* What @data holds stands for an addition made, or for none.
Stamped == \A i \in 1..Len(dataAry) : dataAry[i].of \in 0..adds

Typed ==
    /\ handle \in {"tree", "NULL", "crashed", "collected"}
    /\ handle # "tree" => op = NoOp
    /\ Stamped
    /\ \A i \in 1..Len(listing) : listing[i] \in Listed
    /\ op.of \in 0..adds
    /\ Len(borrowed) = Len(nodes)

\* As long as there is a tree, most of it follows from BindingInv.
OpenAndStamped ==
    /\ BindingInv /\ handle = "tree"
    /\ Stamped /\ Len(borrowed) = Len(nodes)

LEMMA OpenTyped == OpenAndStamped => Typed
<1> SUFFICES ASSUME OpenAndStamped
             PROVE  Typed
  OBVIOUS
<1>1. /\ listing \in Seq(Listed) /\ OpFits /\ adds \in Nat
  BY MaxAddsAssumption DEF OpenAndStamped, BindingInv, Open, TableInv, IInv
<1>2. \A i \in 1..Len(listing) : listing[i] \in Listed
  BY <1>1, ElementOfSeq
<1>3. op.of \in 0..adds
  BY <1>1 DEF OpFits, NoOp
<1> QED BY <1>2, <1>3 DEF OpenAndStamped, Typed

\* Something is pushed to @data.
LEMMA StillStamped ==
    ASSUME Stamped, dataAry \in Seq(Stored), adds \in Nat, adds' \in Nat,
           adds <= adds', NEW value \in Stored, value.of \in 0..adds',
           dataAry' = Append(dataAry, value)
    PROVE  Stamped'
<1>1. /\ Len(dataAry) \in Nat /\ Len(dataAry') = Len(dataAry) + 1
      /\ dataAry'[Len(dataAry')] = value
      /\ \A i \in 1..Len(dataAry) : dataAry'[i] = dataAry[i]
  BY DataAppended
<1> SUFFICES ASSUME NEW i \in 1..Len(dataAry')
             PROVE  dataAry'[i].of \in 0..adds'
  BY DEF Stamped
<1>2. CASE i = Len(dataAry')
  BY <1>1, <1>2
<1>3. CASE i \in 1..Len(dataAry)
  <2>1. dataAry[i].of \in 0..adds
    BY <1>3 DEF Stamped
  <2> QED BY <2>1, <1>1, <1>3
<1> QED BY <1>1, <1>2, <1>3

LEMMA TypedInductive ==
    ASSUME BindingInv, BindingInv', Typed, [BindingNext]_bindingVars
    PROVE  Typed'
<1>1. adds \in Nat /\ adds' \in Nat
  BY MaxAddsAssumption DEF BindingInv, TableInv, IInv
<1>2. ASSUME UNCHANGED <<handle, dataAry, listing, op, adds, borrowed>>,
             Len(nodes') = Len(nodes)
      PROVE  Typed'
  BY <1>2 DEF Typed, Stamped
<1> OpenAndStamped' => Typed'
  BY OpenTyped, PTL
<1>3. ASSUME NEW path \in RawPaths, NEW method \in Methods, NEW given \in Given,
             BeginAdd(path, method, given)
      PROVE  Typed'
  <2> DEFINE value == DataValue(given, adds + 1)
  <2>1. /\ handle = "tree" /\ handle' = "tree" /\ dataAry \in Seq(Stored)
        /\ adds' = adds + 1 /\ nodes' = nodes /\ borrowed' = borrowed
        /\ dataAry' = dataAry \/ dataAry' = Append(dataAry, value)
    BY <1>3 DEF BeginAdd, Ready, Add, BindingInv, Open
  <2>2. value \in Stored /\ value.of \in 0..adds'
    BY <1>1, <2>1 DEF DataValue, NilValue, Stored
  <2> HIDE DEF value
  <2>3. Stamped'
    <3>1. CASE dataAry' = dataAry
      BY <3>1, <1>1, <2>1 DEF Typed, Stamped
    <3>2. CASE dataAry' = Append(dataAry, value)
      BY <3>2, <1>1, <2>1, <2>2, StillStamped DEF Typed
    <3> QED BY <3>1, <3>2, <2>1
  <2>4. Len(borrowed') = Len(nodes')
    BY <2>1 DEF Typed
  <2> QED BY <2>1, <2>3, <2>4 DEF OpenAndStamped
<1>4. CASE TreeWorks
  <2>1. /\ UNCHANGED <<op, dataAry, listing, handle>> /\ adds' = adds
    BY <1>4, StepFrame DEF TreeWorks, bindingOnly, BindingInv
  <2>2. Len(nodes') \in Nat
    BY LenProperties DEF BindingInv, TableInv, IInv, Shape
  <2>3. Len(borrowed') = Len(nodes')
    <3> DEFINE split(n) == {m \in 1..Len(nodes) :
                                \E i \in 1..Len(nodes'[n].edges) :
                                    nodes'[n].edges[i].child = m}
               owner(n) == CASE n <= Len(nodes) -> borrowed[n]
                             [] n > Len(nodes) /\ split(n) # {} ->
                                    borrowed[CHOOSE m \in split(n) : TRUE]
                             [] n > Len(nodes) /\ split(n) = {} -> op.of
    <3>1. borrowed' = [n \in 1..Len(nodes') |-> owner(n)]
      BY <1>4 DEF TreeWorks
    <3> HIDE DEF owner
    <3> QED BY <3>1, <2>2
  <2> QED BY <2>1, <2>3 DEF Typed, Stamped
<1>5. CASE EndAdd
  <2>1. /\ op # NoOp /\ handle' = handle /\ adds' = adds /\ borrowed' = borrowed
        /\ nodes' = nodes /\ dataAry' = Append(dataAry, PatternString(op.of))
    BY <1>5 DEF EndAdd, vars
  <2>2. handle = "tree" /\ dataAry \in Seq(Stored)
    BY <2>1 DEF Typed, BindingInv, Open
  <2>3. /\ PatternString(op.of) \in Stored
        /\ PatternString(op.of).of \in 0..adds'
    BY <1>1, <2>1 DEF PatternString, Stored, Typed
  <2>4. Stamped'
    BY <1>1, <2>1, <2>2, <2>3, StillStamped DEF Typed
  <2>5. Len(borrowed') = Len(nodes')
    BY <2>1 DEF Typed
  <2> QED BY <2>1, <2>2, <2>4, <2>5 DEF OpenAndStamped
<1>6. CASE CompileTree
  <2>1. UNCHANGED <<handle, dataAry, listing, op, adds, borrowed>>
    BY <1>6 DEF CompileTree, Compile, bindingOnly
  <2>2. Len(nodes') = Len(nodes)
    BY <1>6, CompiledShape DEF CompileTree, Compile, BindingInv, TableInv, IInv
  <2> QED BY <2>1, <2>2, <1>2
<1>7. CASE \E method \in {"match", "match?", "mismatch?"}, request \in Requests :
                Query(method, request)
  BY <1>2, <1>7 DEF Query, vars
<1>8. CASE TakeReply
  BY <1>2, <1>8 DEF TakeReply, vars
<1>9. CASE Free
  BY <1>9 DEF Free, Ready, vars, Typed, Stamped
<1>10. CASE UseAfterFree
  BY <1>10 DEF UseAfterFree, vars, Typed, Stamped
<1>11. CASE Collect
  BY <1>11 DEF Collect, vars, Typed, Stamped
<1>12. CASE UNCHANGED bindingVars
  BY <1>2, <1>12 DEF bindingVars, vars
<1> QED BY <1>3, <1>4, <1>5, <1>6, <1>7, <1>8, <1>9, <1>10, <1>11, <1>12
        DEF BindingNext

LEMMA TypedInvariance == BindingSpec => [](BindingInv /\ Typed)
<1>1. BindingInit => BindingInv /\ Typed
  <2> SUFFICES ASSUME BindingInit
               PROVE  BindingInv /\ Typed
    OBVIOUS
  <2>1. /\ handle = "tree" /\ dataAry = <<>>
        /\ Len(borrowed) = 1 /\ Len(nodes) = 1
    BY DEF BindingInit, MatchInit, Init
  <2> QED BY <2>1, BindingInitially, OpenTyped DEF Stamped, OpenAndStamped
<1>2. BindingInv /\ Typed /\ [BindingNext]_bindingVars => (BindingInv /\ Typed)'
  BY BindingInductive, TypedInductive
<1> QED BY <1>1, <1>2, PTL DEF BindingSpec

-----------------------------------------------------------------------------
(* The routes of the binding, with the data of each                        *)

ValueIn(ary, route) == IF route.data = 0 THEN NilValue ELSE ary[route.data]

Ranked(text, r, route, ary) ==
    [path |-> text, rank |-> r, method |-> route.method,
     data |-> ValueIn(ary, route)]

RankedIn(tree, sp, ary) ==
    UNION {{Ranked(sp[n], r, tree[n].routes[r], ary) :
                r \in 1..Len(tree[n].routes)} :
            n \in 1..Len(tree)}

\* Every route of the tree has an index into the array, or none.
Indexed(tree, ary) ==
    \A n \in 1..Len(tree) : \A r \in 1..Len(tree[n].routes) :
        tree[n].routes[r].data \in 0..Len(ary)

\* The array is the other with values pushed.
Extends(ary, longer) ==
    /\ Len(ary) \in Nat /\ Len(longer) \in Nat /\ Len(ary) <= Len(longer)
    /\ \A i \in 1..Len(ary) : longer[i] = ary[i]

\* What is mounted, one route at a time.
LEMMA RankedEntry ==
    ASSUME NEW tree, NEW sp, NEW ary, NEW e
    PROVE  e \in RankedIn(tree, sp, ary) <=>
            \E n \in 1..Len(tree) : \E r \in 1..Len(tree[n].routes) :
                e = Ranked(sp[n], r, tree[n].routes[r], ary)
BY DEF RankedIn

LEMMA MountedIsRanked == RoutesMounted = RankedIn(nodes, spell, dataAry)
BY DEF RoutesMounted, RankedIn, Ranked, ValueIn, DataOf, NodeIds

\* A value pushed moves no other.
LEMMA SameValue ==
    ASSUME NEW ary, NEW longer, Extends(ary, longer), NEW route,
           route.data \in 0..Len(ary)
    PROVE  ValueIn(longer, route) = ValueIn(ary, route)
BY DEF Extends, ValueIn

\* Where nothing is mounted and @data only grows, the routes stay, data and all.
LEMMA RankedKept ==
    ASSUME NEW tree, NEW sp, NEW new, NEW text, Keeps(tree, sp, new, text),
           NEW ary, NEW longer, Extends(ary, longer), Indexed(tree, ary)
    PROVE  /\ RankedIn(new, text, longer) = RankedIn(tree, sp, ary)
           /\ Indexed(new, longer)
<1>1. ASSUME NEW n \in 1..Len(tree), NEW r \in 1..Len(tree[n].routes)
      PROVE  Ranked(text[n], r, new[n].routes[r], longer)
                = Ranked(sp[n], r, tree[n].routes[r], ary)
  <2>1. new[n].routes = tree[n].routes /\ text[n] = sp[n]
    BY DEF Keeps
  <2>2. tree[n].routes[r].data \in 0..Len(ary)
    BY DEF Indexed
  <2> QED BY <2>1, <2>2, SameValue DEF Ranked
<1>2. ASSUME NEW n \in 1..Len(new), NEW r \in 1..Len(new[n].routes)
      PROVE  n \in 1..Len(tree) /\ r \in 1..Len(tree[n].routes)
             /\ new[n].routes = tree[n].routes
  <2>1. n \in 1..Len(tree)
    <3>1. new[n].routes # <<>>
      OBVIOUS
    <3> QED BY <3>1 DEF Keeps
  <2> QED BY <2>1 DEF Keeps
<1>3. ASSUME NEW e, e \in RankedIn(tree, sp, ary)
      PROVE  e \in RankedIn(new, text, longer)
  <2>1. PICK n \in 1..Len(tree) : \E r \in 1..Len(tree[n].routes) :
                e = Ranked(sp[n], r, tree[n].routes[r], ary)
    BY <1>3, RankedEntry
  <2>4. PICK r \in 1..Len(tree[n].routes) :
                e = Ranked(sp[n], r, tree[n].routes[r], ary)
    BY <2>1
  <2>2. n \in 1..Len(new) /\ r \in 1..Len(new[n].routes)
    BY DEF Keeps
  <2>3. e = Ranked(text[n], r, new[n].routes[r], longer)
    BY <2>4, <1>1
  <2> QED BY <2>2, <2>3, RankedEntry
<1>4. ASSUME NEW e, e \in RankedIn(new, text, longer)
      PROVE  e \in RankedIn(tree, sp, ary)
  <2>1. PICK n \in 1..Len(new) : \E r \in 1..Len(new[n].routes) :
                e = Ranked(text[n], r, new[n].routes[r], longer)
    BY <1>4, RankedEntry
  <2>4. PICK r \in 1..Len(new[n].routes) :
                e = Ranked(text[n], r, new[n].routes[r], longer)
    BY <2>1
  <2>2. n \in 1..Len(tree) /\ r \in 1..Len(tree[n].routes)
    BY <1>2
  <2>3. e = Ranked(sp[n], r, tree[n].routes[r], ary)
    BY <2>4, <2>2, <1>1
  <2> QED BY <2>2, <2>3, RankedEntry
<1>5. Indexed(new, longer)
  <2> SUFFICES ASSUME NEW n \in 1..Len(new), NEW r \in 1..Len(new[n].routes)
               PROVE  new[n].routes[r].data \in 0..Len(longer)
    BY DEF Indexed
  <2>1. new[n].routes[r].data \in 0..Len(ary)
    BY <1>2 DEF Indexed
  <2> QED BY <2>1 DEF Extends
<1> QED BY <1>3, <1>4, <1>5

\* A set whose elements are numbered from 1.
LEMMA CountNumbered ==
    ASSUME NEW L \in Nat, NEW S, NEW f \in [1..L -> S],
           \A r \in 1..L : f[r].rank = r, \A e \in S : \E r \in 1..L : f[r] = e
    PROVE  Cardinality(S) = L
<1>1. f \in Bijection(1..L, S)
  <2>1. \A a, b \in 1..L : f[a] = f[b] => a = b
    OBVIOUS
  <2> QED BY <2>1, Fun_IsBij
<1>2. ExistsBijection(1..L, S)
  BY <1>1, Fun_ExistsBij
<1>3. IsFiniteSet(1..L) /\ Cardinality(1..L) = L
  <2>1. 1 \in Int /\ L \in Int
    OBVIOUS
  <2>2. IsFiniteSet(1..L) /\ Cardinality(1..L) = IF 1 > L THEN 0 ELSE L-1+1
    BY <2>1, FS_Interval
  <2> QED BY <2>2
<1> QED BY <1>2, <1>3, FS_Bijection

\* The route mounted comes after the others of its pattern, and nowhere else.
LEMMA RankedMounted ==
    ASSUME TableInv, TableInv', Inserting, NEW n, MountsAt(n),
           NEW ary, Indexed(nodes, ary), NewRoute.data \in 0..Len(ary)
    PROVE  LET old == RankedIn(nodes, spell, ary)
               before == {e \in old : e.path = call.path} IN
           /\ RankedIn(nodes', spell', ary)
                = old \cup {Ranked(call.path, Cardinality(before) + 1, NewRoute, ary)}
           /\ Indexed(nodes', ary)
<1> DEFINE old == RankedIn(nodes, spell, ary)
           before == {e \in old : e.path = call.path}
           here == RoutesAt(nodes, n)
           L == Len(here)
           last == Ranked(call.path, L + 1, NewRoute, ary)
<1>1. /\ n \in 1..Len(nodes') /\ spell'[n] = call.path
      /\ nodes'[n].routes = Append(here, NewRoute)
      /\ \A m \in 1..Len(nodes') : m # n => nodes'[m].routes = RoutesAt(nodes, m)
      /\ \A m \in 1..Len(nodes) : m \in 1..Len(nodes') /\ spell'[m] = spell[m]
  BY DEF MountsAt
<1>2. /\ Shape(nodes, spell) /\ Shape(nodes', spell') /\ Reached(nodes', spell')
      /\ NewRoute \in Route
  BY Frame DEF TableInv, IInv, Whole
<1>3. here \in Seq(Route) /\ L \in Nat
  <2>1. here \in Seq(Route)
    BY <1>2, ShapeOfNode, EmptySeq DEF RoutesAt
  <2> HIDE DEF here
  <2> QED BY <2>1, LenProperties
<1> HIDE DEF here
<1>4. /\ Len(nodes'[n].routes) = L + 1
      /\ nodes'[n].routes[L + 1] = NewRoute
      /\ \A r \in 1..L : nodes'[n].routes[r] = here[r]
  BY <1>1, <1>2, <1>3, AppendProperties
<1>5. ASSUME NEW r \in 1..L
      PROVE  n \in 1..Len(nodes) /\ here = nodes[n].routes /\ spell[n] = call.path
  <2>1. n \in 1..Len(nodes)
    BY EmptySeq DEF here, RoutesAt
  <2> QED BY <2>1, <1>1 DEF here, RoutesAt
<1>6. ASSUME NEW m \in 1..Len(nodes)
      PROVE  /\ m \in 1..Len(nodes') /\ spell'[m] = spell[m]
             /\ \A r \in 1..Len(nodes[m].routes) :
                    /\ r \in 1..Len(nodes'[m].routes)
                    /\ nodes'[m].routes[r] = nodes[m].routes[r]
  <2>1. m \in 1..Len(nodes') /\ spell'[m] = spell[m]
    BY <1>1
  <2>2. CASE m # n
    BY <2>1, <2>2, <1>1 DEF RoutesAt
  <2>3. CASE m = n
    <3>1. here = nodes[m].routes
      BY <2>3 DEF here, RoutesAt
    <3> QED BY <2>1, <2>3, <3>1, <1>3, <1>4
  <2> QED BY <2>1, <2>2, <2>3
<1>7. ASSUME NEW m \in 1..Len(nodes'), NEW r \in 1..Len(nodes'[m].routes)
      PROVE  \/ m = n /\ r = L + 1
             \/ /\ m \in 1..Len(nodes) /\ r \in 1..Len(nodes[m].routes)
                /\ nodes'[m].routes[r] = nodes[m].routes[r]
  <2>1. CASE m # n
    <3>1. nodes'[m].routes = RoutesAt(nodes, m)
      BY <2>1, <1>1
    <3>2. m \in 1..Len(nodes)
      BY <3>1, EmptySeq DEF RoutesAt
    <3> QED BY <3>1, <3>2 DEF RoutesAt
  <2>2. CASE m = n /\ r \in 1..L
    BY <2>2, <1>4, <1>5
  <2> QED BY <2>1, <2>2, <1>3, <1>4
<1>8. Cardinality(before) = L
  <2> DEFINE f == [r \in 1..L |-> Ranked(call.path, r, here[r], ary)]
  <2>1. ASSUME NEW r \in 1..L
        PROVE  Ranked(call.path, r, here[r], ary) \in before
    <3>1. Ranked(call.path, r, here[r], ary) \in old
      BY <1>5, RankedEntry
    <3> QED BY <3>1 DEF Ranked
  <2>2. f \in [1..L -> before] /\ \A r \in 1..L : f[r].rank = r
    <3> HIDE DEF before
    <3> QED BY <2>1 DEF Ranked
  <2>3. ASSUME NEW e \in before
        PROVE  \E r \in 1..L : f[r] = e
    <3>1. PICK m \in 1..Len(nodes) : \E r \in 1..Len(nodes[m].routes) :
                e = Ranked(spell[m], r, nodes[m].routes[r], ary)
      BY RankedEntry
    <3>2. PICK r \in 1..Len(nodes[m].routes) :
                e = Ranked(spell[m], r, nodes[m].routes[r], ary)
      BY <3>1
    <3>3. spell[m] = call.path
      BY <3>2 DEF Ranked
    <3>4. m = n
      <4>1. m \in 1..Len(nodes') /\ spell'[m] = spell'[n]
        BY <3>3, <1>1
      <4> QED BY <4>1, <1>1, <1>2, OneText
    <3>5. here = nodes[m].routes
      BY <3>4 DEF here, RoutesAt
    <3> QED BY <3>2, <3>3, <3>5
  <2> HIDE DEF f, before
  <2> QED BY <2>2, <2>3, <1>3, CountNumbered
<1>9. ASSUME NEW e, e \in old
      PROVE  e \in RankedIn(nodes', spell', ary)
  <2>1. PICK m \in 1..Len(nodes) : \E r \in 1..Len(nodes[m].routes) :
                e = Ranked(spell[m], r, nodes[m].routes[r], ary)
    BY <1>9, RankedEntry
  <2>2. \E r \in 1..Len(nodes'[m].routes) :
                e = Ranked(spell'[m], r, nodes'[m].routes[r], ary)
    BY <2>1, <1>6
  <2> QED BY <2>2, <1>6, RankedEntry
<1>10. last \in RankedIn(nodes', spell', ary)
  <2>1. L + 1 \in 1..Len(nodes'[n].routes)
    BY <1>3, <1>4
  <2> QED BY <2>1, <1>1, <1>4, RankedEntry
<1>11. ASSUME NEW e, e \in RankedIn(nodes', spell', ary)
       PROVE  e \in old \/ e = last
  <2>1. PICK m \in 1..Len(nodes') : \E r \in 1..Len(nodes'[m].routes) :
                e = Ranked(spell'[m], r, nodes'[m].routes[r], ary)
    BY <1>11, RankedEntry
  <2>2. PICK r \in 1..Len(nodes'[m].routes) :
                e = Ranked(spell'[m], r, nodes'[m].routes[r], ary)
    BY <2>1
  <2>3. CASE m = n /\ r = L + 1
    BY <2>2, <2>3, <1>1, <1>4
  <2>4. CASE ~(m = n /\ r = L + 1)
    <3>1. /\ m \in 1..Len(nodes) /\ r \in 1..Len(nodes[m].routes)
          /\ nodes'[m].routes[r] = nodes[m].routes[r]
      BY <2>4, <1>7
    <3>2. e = Ranked(spell[m], r, nodes[m].routes[r], ary)
      BY <2>2, <3>1, <1>1
    <3> QED BY <3>1, <3>2, RankedEntry
  <2> QED BY <2>3, <2>4
<1>12. Indexed(nodes', ary)
  <2> SUFFICES ASSUME NEW m \in 1..Len(nodes'), NEW r \in 1..Len(nodes'[m].routes)
               PROVE  nodes'[m].routes[r].data \in 0..Len(ary)
    BY DEF Indexed
  <2>1. CASE m = n /\ r = L + 1
    BY <2>1, <1>4
  <2>2. CASE ~(m = n /\ r = L + 1)
    BY <2>2, <1>7 DEF Indexed
  <2> QED BY <2>1, <2>2
<1> HIDE DEF old, L
<1>13. RankedIn(nodes', spell', ary) = old \cup {last}
  BY <1>9, <1>10, <1>11
<1> QED BY <1>8, <1>12, <1>13 DEF old

-----------------------------------------------------------------------------
(* The binding is a dispatcher                                             *)

\* The tree is given what the data of the addition is found by.
Passes ==
    call # Idle => /\ call.method = op.method
                   /\ call.data \in 0..Len(dataAry)
                   /\ ValueIn(dataAry, call) = op.value

Dispatching ==
    /\ handle = "tree" => Indexed(nodes, dataAry) /\ Passes
    /\ handle # "tree" => listing = <<>>

\* What Service is instantiated with.
TheRoutes == IF handle = "tree" THEN RoutesMounted ELSE {}
TheAddition ==
    IF op = NoOp THEN NoOp
    ELSE [new |-> [path |-> op.path, method |-> op.method, data |-> op.value],
          done |-> call = Idle]

\* An addition in progress is not NoOp, nor is its image.
LEMMA AdditionInProgress ==
    ASSUME op # NoOp
    PROVE  /\ TheAddition # NoOp
           /\ TheAddition.new = [path |-> op.path, method |-> op.method,
                                 data |-> op.value]
           /\ TheAddition.done <=> call = Idle
           /\ \A done : done = (call = Idle) =>
                TheAddition = [new |-> [path |-> op.path, method |-> op.method,
                                        data |-> op.value],
                               done |-> done]
<1> DEFINE done == call = Idle
           new == [path |-> op.path, method |-> op.method, data |-> op.value]
<1>1. TheAddition = [new |-> new, done |-> done]
  BY DEF TheAddition
<1> HIDE DEF new, done
<1>2. "new" \in DOMAIN TheAddition /\ "new" \notin DOMAIN NoOp
  BY <1>1 DEF NoOp
<1>3. TheAddition.new = new /\ TheAddition.done = done
  BY <1>1
<1> QED BY <1>1, <1>2, <1>3 DEF new, done

\* Dispatcher has its own name for what it counts with.
LEMMA SameCount == \A S : Service!Cardinality(S) = Cardinality(S)
BY Zenon DEF Service!Cardinality, Cardinality

\* The provers set the Boolean field of a record through variables only.
LEMMA DoneNow ==
    ASSUME NEW a, NEW new, a = [new |-> new, done |-> FALSE]
    PROVE  [a EXCEPT !.done = TRUE] = [new |-> new, done |-> TRUE]
<1>1. PICK x : x = FALSE
  OBVIOUS
<1>2. PICK y : y = TRUE
  OBVIOUS
<1>3. a = [new |-> new, done |-> x]
  BY <1>1
<1>4. [a EXCEPT !.done = y] = [new |-> new, done |-> y]
  BY <1>3
<1> QED BY <1>2, <1>4, Zenon

\* What the dispatcher does not see.
LEMMA ServiceStutters ==
    ASSUME TheRoutes' = TheRoutes, TheAddition' = TheAddition,
           listing' = listing, reply' = reply,
           handle' = "tree" <=> handle = "tree"
    PROVE  UNCHANGED Service!vars
<1>1. (handle' = "tree") = (handle = "tree")
  OBVIOUS
<1> QED BY <1>1 DEF Service!vars, TheRoutes, TheAddition

\* Nothing is mounted, and the data in use stays.
LEMMA RoutesUnmoved ==
    ASSUME Dispatching, handle = "tree", handle' = "tree",
           Keeps(nodes, spell, nodes', spell'), Extends(dataAry, dataAry')
    PROVE  TheRoutes' = TheRoutes /\ Indexed(nodes', dataAry')
<1>1. /\ RankedIn(nodes', spell', dataAry') = RankedIn(nodes, spell, dataAry)
      /\ Indexed(nodes', dataAry')
  BY RankedKept DEF Dispatching
<1>2. RoutesMounted' = RankedIn(nodes', spell', dataAry')
  BY DEF RoutesMounted, RankedIn, Ranked, ValueIn, DataOf, NodeIds
<1> QED BY <1>1, <1>2, MountedIsRanked DEF TheRoutes

LEMMA DataExtends ==
    ASSUME dataAry \in Seq(Stored),
           \/ dataAry' = dataAry
           \/ \E value \in Stored : dataAry' = Append(dataAry, value)
    PROVE  Extends(dataAry, dataAry')
<1>1. CASE dataAry' = dataAry
  BY <1>1, LenProperties DEF Extends
<1>2. CASE \E value \in Stored : dataAry' = Append(dataAry, value)
  <2>1. /\ Len(dataAry') = Len(dataAry) + 1 /\ Len(dataAry) \in Nat
        /\ \A i \in 1..Len(dataAry) : dataAry'[i] = dataAry[i]
    BY <1>2, DataAppended
  <2> QED BY <2>1 DEF Extends
<1> QED BY <1>1, <1>2

\* add begins: the length of @data is what the new value is found by.
LEMMA BeginAddSubmits ==
    ASSUME BindingInv, Dispatching, NEW rawPath \in RawPaths,
           NEW method \in Methods, NEW given \in Given,
           BeginAdd(rawPath, method, given)
    PROVE  Service!Next /\ Dispatching'
<1> DEFINE path == Chomp(rawPath)
           value == DataValue(given, adds + 1)
           pushed == IF given = "none" THEN dataAry ELSE Append(dataAry, value)
           data == IF given = "none" THEN 0 ELSE Len(pushed)
           new == [path |-> path, method |-> method, data |-> value]
<1>1. /\ handle = "tree" /\ op = NoOp /\ call = Idle /\ reply = NoReply
      /\ op' = [path |-> path, method |-> method, value |-> value, of |-> adds + 1]
      /\ dataAry' = pushed /\ Add(path, method, data)
      /\ UNCHANGED <<listing, handle, reply>>
  BY DEF BeginAdd, Ready
<1>2. /\ adds \in Nat /\ adds < MaxAdds /\ dataAry \in Seq(Stored)
      /\ nodes' = nodes /\ spell' = spell
      /\ call' = [pc |-> "insert", node |-> Root, rest |-> path, path |-> path,
                  method |-> method, data |-> data]
  BY <1>1, MaxAddsAssumption DEF BindingInv, TableInv, IInv, Open, Add
<1>3. new \in [path : Paths, method : Methods,
               data : {DataValue(g, n) : g \in Given, n \in 1..MaxAdds}]
  <2>1. adds + 1 \in 1..MaxAdds
    BY <1>2, MaxAddsAssumption
  <2>2. path \in Paths
    BY Chomped
  <2> HIDE DEF path
  <2> QED BY <2>1, <2>2
<1>4. value \in Stored
  BY <1>2 DEF DataValue, NilValue, Stored
<1> HIDE DEF path, value
<1>5. op' # NoOp /\ call' # Idle
  <2>1. op'.of # NoOp.of
    BY <1>1, <1>2 DEF NoOp
  <2> QED BY <2>1, <1>2 DEF Idle
<1>6. ASSUME given = "none"
      PROVE  Extends(dataAry, dataAry') /\ Passes'
  <2>1. dataAry' = dataAry /\ call'.data = 0
    BY <1>1, <1>2, <1>6
  <2>2. value = NilValue
    BY <1>6 DEF value, DataValue
  <2>3. Extends(dataAry, dataAry')
    BY <2>1, <1>2, DataExtends
  <2>4. Passes'
    BY <2>1, <2>2, <2>3, <1>1, <1>2 DEF Passes, ValueIn, Extends
  <2> QED BY <2>3, <2>4
<1>7. ASSUME given # "none"
      PROVE  Extends(dataAry, dataAry') /\ Passes'
  <2>1. dataAry' = Append(dataAry, value) /\ call'.data = Len(dataAry')
    BY <1>1, <1>2, <1>7
  <2>2. Extends(dataAry, dataAry')
    BY <2>1, <1>2, <1>4, DataExtends
  <2>3. /\ Len(dataAry) \in Nat /\ Len(dataAry') = Len(dataAry) + 1
        /\ dataAry'[Len(dataAry')] = value
    BY <2>1, <1>2, <1>4, DataAppended
  <2>4. Passes'
    BY <2>1, <2>3, <1>1, <1>2 DEF Passes, ValueIn
  <2> QED BY <2>2, <2>4
<1>8. Extends(dataAry, dataAry') /\ Passes'
  BY <1>6, <1>7
<1>9. Keeps(nodes, spell, nodes', spell')
  BY <1>2 DEF Keeps
<1>10. TheRoutes' = TheRoutes /\ Indexed(nodes', dataAry')
  BY <1>1, <1>8, <1>9, RoutesUnmoved
<1>11. TheAddition = NoOp /\ TheAddition' = [new |-> new, done |-> FALSE]
  BY <1>1, <1>5 DEF TheAddition
<1>12. Service!Submit(new)
  BY <1>1, <1>10, <1>11 DEF Service!Submit, Service!Waiting, TheRoutes, TheAddition
<1> HIDE DEF new
<1> QED BY <1>1, <1>3, <1>8, <1>10, <1>12 DEF Service!Next, Dispatching

\* The tree works: the addition is accepted or refused with the step that returns,
\* and nothing is seen of the steps before.
LEMMA TreeWorksDecides ==
    ASSUME NoneMakesUp, BindingInv, BindingInv', Typed, Dispatching, TreeWorks
    PROVE  [Service!Next]_(Service!vars) /\ Dispatching'
<1>1. /\ InsertStep /\ TableInv /\ TableInv'
      /\ UNCHANGED <<dataAry, listing, handle, op, reply>>
  BY DEF TreeWorks, BindingInv, bindingOnly
<1>2. CASE handle # "tree"
  <2>1. op = NoOp
    BY <1>2 DEF Typed
  <2>2. TheRoutes' = TheRoutes /\ TheAddition' = TheAddition
    BY <1>1, <1>2, <2>1 DEF TheRoutes, TheAddition
  <2> QED BY <1>1, <1>2, <2>2, ServiceStutters DEF Dispatching
<1>3. CASE handle = "tree"
  <2>1. Open /\ Indexed(nodes, dataAry) /\ Passes
    BY <1>3 DEF BindingInv, Dispatching
  <2>2. /\ Inserting
        /\ \/ KeepsTable /\ call' # Idle /\ Pending' = Pending
           \/ MountsPending /\ Return
           \/ UNCHANGED <<nodes, spell>> /\ Return /\ HasMalformed(call.path)
    BY <1>1, InsertOutcome
  <2>3. /\ call # Idle /\ op # NoOp /\ call.path = op.path
        /\ call.method = op.method /\ call.data \in 0..Len(dataAry)
        /\ ValueIn(dataAry, call) = op.value
    BY <2>1, <2>2, PendingIsNotIdle DEF Open, OpFits, Passes
  <2>4. Extends(dataAry, dataAry')
    BY <2>1, <1>1, DataExtends DEF Open
  <2>5. /\ TheAddition # NoOp /\ ~TheAddition.done
        /\ TheAddition.new = [path |-> op.path, method |-> op.method,
                              data |-> op.value]
        /\ TheAddition = [new |-> TheAddition.new, done |-> FALSE]
    BY <2>3, AdditionInProgress
  <2>6. ASSUME Return
        PROVE  Service!Decide /\ Passes'
    <3>1. call' = Idle
      BY <2>6 DEF Return
    <3>2. TheAddition' = [TheAddition EXCEPT !.done = TRUE]
      <4>1. (call' = Idle) = TRUE
        BY <3>1
      <4>2. TheAddition' = [new |-> TheAddition.new, done |-> TRUE]
        BY <4>1, <2>3, <2>5, <1>1 DEF TheAddition
      <4> QED BY <2>5, <4>2, DoneNow
    <3> QED BY <2>5, <3>1, <3>2, <1>1 DEF Service!Decide, TheAddition, Passes
  <2>7. CASE KeepsTable /\ call' # Idle /\ Pending' = Pending
    <3>1. TheRoutes' = TheRoutes /\ Indexed(nodes', dataAry')
      BY <2>4, <2>7, <1>1, <1>3, RoutesUnmoved DEF KeepsTable
    <3>2. TheAddition' = TheAddition
      BY <2>3, <2>7, <1>1 DEF TheAddition
    <3>3. call'.method = call.method /\ call'.data = call.data
      BY <2>7 DEF Pending
    <3>4. Passes'
      BY <2>3, <3>3, <1>1 DEF Passes, ValueIn
    <3> QED BY <3>1, <3>2, <3>4, <1>1, <1>3, ServiceStutters DEF Dispatching
  <2>8. CASE MountsPending /\ Return
    <3> DEFINE old == RankedIn(nodes, spell, dataAry)
               before == {e \in old : e.path = call.path}
    <3>1. PICK n : MountsAt(n)
      BY <2>8 DEF MountsPending
    <3>2. NewRoute.data = call.data /\ NewRoute.method = call.method
      BY DEF NewRoute
    <3>3. /\ RankedIn(nodes', spell', dataAry)
                = old \cup {Ranked(call.path, Cardinality(before) + 1, NewRoute,
                                   dataAry)}
          /\ Indexed(nodes', dataAry)
      BY <3>1, <3>2, <2>1, <2>2, <2>3, <1>1, RankedMounted
    <3>4. Ranked(call.path, Cardinality(before) + 1, NewRoute, dataAry)
            = [path |-> op.path, rank |-> Cardinality(before) + 1,
               method |-> op.method, data |-> op.value]
      BY <3>2, <2>3 DEF Ranked, ValueIn
    <3>5. TheRoutes = old /\ TheRoutes' = RankedIn(nodes', spell', dataAry)
      <4>1. RoutesMounted' = RankedIn(nodes', spell', dataAry')
        BY DEF RoutesMounted, RankedIn, Ranked, ValueIn, DataOf, NodeIds
      <4> QED BY <4>1, <1>1, <1>3, MountedIsRanked DEF TheRoutes
    <3>6. ~HasMalformed(op.path)
      <4>1. n \in 1..Len(spell') /\ spell'[n] = op.path
        BY <3>1, <2>3, <1>1 DEF MountsAt, TableInv, IInv, Shape
      <4>2. op.path \in Seq(Token)
        BY <2>1, <2>3, PathsAssumption DEF Open, OpFits
      <4>3. Excused(spell'[n])
        BY <4>1, <1>1 DEF TableInv, Whole
      <4> QED BY <4>1, <4>2, <4>3, ExcusedIsClean
    <3>7. before = {route \in TheRoutes : route.path = TheAddition.new.path}
      BY <3>5, <2>3, <2>5
    <3> HIDE DEF old, before
    <3>8. TheRoutes' = TheRoutes \cup
                {[path |-> TheAddition.new.path, rank |-> Cardinality(before) + 1,
                  method |-> TheAddition.new.method,
                  data |-> TheAddition.new.data]}
      BY <3>3, <3>4, <3>5, <2>5
    <3>9. ~HasMalformed(TheAddition.new.path)
      BY <3>6, <2>5
    <3>10. Service!Accept
      <4>1. /\ Service!Decide /\ ~HasMalformed(TheAddition.new.path)
            /\ TheRoutes' = TheRoutes \cup
                {[path |-> TheAddition.new.path,
                  rank |-> Service!Cardinality({route \in TheRoutes :
                                route.path = TheAddition.new.path}) + 1,
                  method |-> TheAddition.new.method,
                  data |-> TheAddition.new.data]}
        BY <3>7, <3>8, <3>9, <2>6, <2>8, SameCount
      <4> QED BY <4>1, Zenon DEF Service!Accept, TheRoutes, TheAddition
    <3> QED BY <3>3, <3>10, <2>6, <2>8, <1>1, <1>3 DEF Service!Next, Dispatching
  <2>9. CASE UNCHANGED <<nodes, spell>> /\ Return /\ HasMalformed(call.path)
    <3>1. Keeps(nodes, spell, nodes', spell')
      BY <2>9 DEF Keeps
    <3>2. TheRoutes' = TheRoutes /\ Indexed(nodes', dataAry')
      BY <2>4, <3>1, <1>1, <1>3, RoutesUnmoved
    <3>3. HasMalformed(TheAddition.new.path)
      BY <2>3, <2>5, <2>9
    <3>4. Service!Refuse
      BY <3>2, <3>3, <2>6, <2>9 DEF Service!Refuse, TheRoutes, TheAddition
    <3> QED BY <3>2, <3>4, <2>6, <2>9, <1>1, <1>3 DEF Service!Next, Dispatching
  <2> QED BY <2>2, <2>7, <2>8, <2>9
<1> QED BY <1>2, <1>3

\* The pattern string comes behind the values in @data, and moves none.
LEMMA EndAddFinishes ==
    ASSUME BindingInv, Typed, Dispatching, EndAdd
    PROVE  Service!Next /\ Dispatching'
<1>1. /\ op # NoOp /\ call = Idle /\ op' = NoOp
      /\ dataAry' = Append(dataAry, PatternString(op.of))
      /\ listing' = SaveRoute(op.method, op.path)
      /\ UNCHANGED <<nodes, spell, call, handle, reply>>
  BY DEF EndAdd, vars
<1>2. handle = "tree" /\ Open /\ adds \in Nat
  BY <1>1, MaxAddsAssumption DEF Typed, BindingInv, TableInv, IInv
<1>3. PatternString(op.of) \in Stored
  BY <1>2 DEF Typed, PatternString, Stored
<1>4. Extends(dataAry, dataAry')
  BY <1>1, <1>2, <1>3, DataExtends DEF Open
<1>5. Keeps(nodes, spell, nodes', spell')
  BY <1>1 DEF Keeps
<1>6. TheRoutes' = TheRoutes /\ Indexed(nodes', dataAry')
  BY <1>1, <1>2, <1>4, <1>5, RoutesUnmoved
<1>7. /\ TheAddition # NoOp /\ TheAddition.done
      /\ TheAddition.new = [path |-> op.path, method |-> op.method,
                            data |-> op.value]
      /\ TheAddition' = NoOp
  BY <1>1, AdditionInProgress DEF TheAddition
<1>8. /\ TheAddition.new.method = op.method /\ TheAddition.new.path = op.path
  BY <1>7
<1>9. Service!Finish
  <2>1. listing' = Append(listing,
                [method |-> IF Service!Cardinality(TheAddition.new.method) = 1
                            THEN TheAddition.new.method ELSE {},
                 path |-> TheAddition.new.path])
    BY <1>1, <1>8, SameCount DEF SaveRoute
  <2>2. /\ TheAddition # NoOp /\ TheAddition.done /\ TheAddition' = NoOp
        /\ TheRoutes' = TheRoutes /\ reply' = reply
        /\ (handle' = "tree") = (handle = "tree")
    BY <1>1, <1>6, <1>7
  <2> QED BY <2>1, <2>2, Zenon DEF Service!Finish, TheRoutes, TheAddition
<1> QED BY <1>1, <1>2, <1>6, <1>9 DEF Service!Next, Dispatching, Passes

\* The tree as it was, or compiled.
LEMMA TreeOnly ==
    ASSUME BindingInv, Dispatching,
           UNCHANGED <<dataAry, listing, handle, op, reply, call>>,
           Keeps(nodes, spell, nodes', spell')
    PROVE  UNCHANGED Service!vars /\ Dispatching'
<1>1. TheAddition' = TheAddition
  BY DEF TheAddition
<1>2. CASE handle = "tree"
  <2>1. Extends(dataAry, dataAry')
    BY <1>2, DataExtends DEF BindingInv, Open
  <2>2. TheRoutes' = TheRoutes /\ Indexed(nodes', dataAry')
    BY <1>2, <2>1, RoutesUnmoved
  <2>3. Passes'
    BY <1>2 DEF Passes, ValueIn, Dispatching
  <2> QED BY <1>1, <1>2, <2>2, <2>3, ServiceStutters DEF Dispatching
<1>3. CASE handle # "tree"
  <2>1. TheRoutes' = TheRoutes
    BY <1>3 DEF TheRoutes
  <2> QED BY <1>1, <1>3, <2>1, ServiceStutters DEF Dispatching
<1> QED BY <1>2, <1>3

\* The tree is freed; what is done with it afterwards is nothing to a dispatcher.
LEMMA ServiceEnds ==
    ASSUME BindingInv, Typed, Dispatching, Collect \/ Free \/ UseAfterFree
    PROVE  [Service!Next]_(Service!vars) /\ Dispatching'
<1>1. /\ handle' # "tree" /\ op' = op /\ reply' = reply /\ call' = call
      /\ Dispatching'
  <2>1. /\ handle' # "tree" /\ op' = op /\ reply' = reply /\ call' = call
    BY DEF Collect, Free, UseAfterFree, vars
  <2>2. listing' = <<>>
    BY DEF Collect, Free, UseAfterFree, Dispatching
  <2> QED BY <2>1, <2>2 DEF Dispatching
<1>2. TheRoutes' = {} /\ listing' = <<>>
  BY <1>1 DEF TheRoutes, Dispatching
<1>3. TheAddition' = TheAddition
  BY <1>1 DEF TheAddition
<1>4. CASE handle = "tree"
  <2>1. op = NoOp /\ reply = NoReply
    BY <1>4 DEF Collect, Free, Ready, UseAfterFree
  <2>2. TheAddition = NoOp
    BY <2>1 DEF TheAddition
  <2>3. Service!Free
    BY <1>1, <1>2, <1>3, <1>4, <2>1, <2>2
       DEF Service!Free, Service!Waiting, TheRoutes, TheAddition
  <2> QED BY <1>1, <2>3 DEF Service!Next
<1>5. CASE handle # "tree"
  <2>1. TheRoutes' = TheRoutes
    BY <1>2, <1>5 DEF TheRoutes
  <2>2. listing' = listing
    BY <1>2, <1>5 DEF Dispatching
  <2> QED BY <1>1, <1>3, <1>5, <2>1, <2>2, ServiceStutters
<1> QED BY <1>4, <1>5

-----------------------------------------------------------------------------
(* What a match returns                                                    *)

\* A part of a text is one of its substrings.
LEMMA PartIsSubstring ==
    ASSUME NEW text \in Seq(Token), NEW part \in Seq(Token), PartOf(part, text)
    PROVE  part \in Substrings(text)
<1>1. PICK a \in Seq(Token), b \in Seq(Token) : text = (a \o part) \o b
  BY DEF PartOf
<1>2. Len(a) \in Nat /\ Len(part) \in Nat /\ Len(b) \in Nat
  BY LenProperties
<1> DEFINE front == a \o part
           i == Len(a) + 1
           j == Len(a) + Len(part)
           cut == SubSeq(text, i, j)
<1>3. /\ front \in Seq(Token) /\ Len(front) = j
      /\ \A k \in 1..Len(part) : front[Len(a) + k] = part[k]
  BY <1>2, ConcatProperties
<1>4. /\ Len(text) = j + Len(b)
      /\ \A k \in 1..j : text[k] = front[k]
  <2>1. text = front \o b /\ j \in Nat
    BY <1>1, <1>2
  <2> HIDE DEF front, j
  <2>2. /\ Len(front \o b) = Len(front) + Len(b)
        /\ \A k \in 1..(Len(front) + Len(b)) : (front \o b)[k] =
                IF k <= Len(front) THEN front[k] ELSE b[k - Len(front)]
    BY <1>3, ConcatProperties
  <2> QED BY <2>1, <2>2, <1>2, <1>3
<1>5. i \in 1..Len(text)+1 /\ j \in 0..Len(text)
  BY <1>2, <1>4
<1>6. /\ cut \in Seq(Token) /\ Len(cut) = Len(part)
      /\ \A k \in 1..Len(part) : cut[k] = text[Len(a) + k]
  BY <1>2, <1>4, SubSeqProperties
<1>7. \A k \in 1..Len(part) : cut[k] = part[k]
  <2> TAKE k \in 1..Len(part)
  <2>1. Len(a) + k \in 1..j
    BY <1>2
  <2> HIDE DEF cut, front, j
  <2> QED BY <2>1, <1>3, <1>4, <1>6
<1>8. cut = part
  <2> HIDE DEF cut
  <2> QED BY <1>6, <1>7, SeqEqual
<1>9. \E x \in 1..Len(text)+1, y \in 0..Len(text) : part = SubSeq(text, x, y)
  BY <1>5, <1>8
<1> QED BY <1>9 DEF Substrings

LastOf(slugs, name) ==
    SelectLastInSeq(slugs, LAMBDA slug : SlugName[slug] = name)

\* Of the slugs of one name, the last: one of them.
LEMMA LastOfName ==
    ASSUME NEW slugs, Len(slugs) \in Nat, NEW name,
           name \in {SlugName[slugs[i]] : i \in 1..Len(slugs)}
    PROVE  LastOf(slugs, name) \in 1..Len(slugs)
<1> DEFINE I == {i \in 1..Len(slugs) : SlugName[slugs[i]] = name}
<1>1. I # {} /\ I \subseteq 1..Len(slugs)
  OBVIOUS
<1>2. Max(I) \in I
  <2>1. I \subseteq 0..Len(slugs)
    BY <1>1
  <2> HIDE DEF I
  <2> QED BY <2>1, <1>1, GreatestNatural
<1> QED BY <1>1, <1>2 DEF SelectLastInSeq, LastOf

\* The hash has no other token than those of the slugs.
LEMMA SameHash ==
    ASSUME NEW slugs, Len(slugs) \in Nat, NEW a, NEW b,
           \A i \in 1..Len(slugs) : a[i] = b[i]
    PROVE  Hash(slugs, a) = Hash(slugs, b)
<1> DEFINE names == {SlugName[slugs[i]] : i \in 1..Len(slugs)}
<1>1. \A name \in names : LastOf(slugs, name) \in 1..Len(slugs)
  BY LastOfName
<1>2. /\ Hash(slugs, a) = [name \in names |-> a[LastOf(slugs, name)]]
      /\ Hash(slugs, b) = [name \in names |-> b[LastOf(slugs, name)]]
  BY Zenon DEF Hash, LastOf
<1> HIDE DEF names
<1> QED BY <1>1, <1>2

\* The hash of what the slugs have taken is among what they can stand for.
LEMMA ParamsFound ==
    ASSUME NEW p \in Seq(Token), NEW rawPath, NEW tokens, Enough(p, tokens),
           Filled(p, tokens) = Chomp(rawPath), TakesAll(Taken, SlugsOf(p), tokens)
    PROVE  Hash(SlugsOf(p), tokens) \in ParamsFor(p, rawPath)
<1> DEFINE slugs == SlugsOf(p)
           path == Chomp(rawPath)
           n == Len(slugs)
           tuple == [i \in 1..n |-> tokens[i]]
           L == Seq(Literals)
<1>1. n \in Nat /\ path \in Seq(Token) /\ tokens \in Seq(L) /\ n <= Len(tokens)
  BY SlugsType, FilledType DEF Enough
<1>2. \A i \in 1..n : tokens[i] \in L
  <2> HIDE DEF L, n
  <2>1. Len(tokens) \in Nat
    BY <1>1, LenProperties
  <2> QED BY <2>1, <1>1, ElementOfSeq
<1>3. \A i \in 1..n : tokens[i] \in Substrings(path)
  <2> TAKE i \in 1..n
  <2>1. tokens[i] \in Seq(Token)
    BY <1>2, SeqMonotonic DEF Token
  <2>2. PartOf(tokens[i], path)
    BY FilledParts DEF TokensInside
  <2> HIDE DEF path, n
  <2> QED BY <2>1, <2>2, <1>1, PartIsSubstring
<1>4. tuple \in [1..n -> Substrings(path)]
  <2> HIDE DEF path, n
  <2> QED BY <1>3
<1>5. Enough(p, tuple)
  <2>1. tuple \in Seq(L) /\ Len(tuple) = n
    <3> HIDE DEF L, n
    <3>1. tuple \in [1..n -> L]
      BY <1>2
    <3> QED BY <3>1, <1>1, IsASeq, LenProperties
  <2> QED BY <2>1, <1>1 DEF Enough
<1>6. \A i \in 1..n : tuple[i] = tokens[i]
  <2> HIDE DEF n
  <2> QED OBVIOUS
<1> HIDE DEF tuple
<1>7. Filled(p, tuple) = path
  BY <1>5, <1>6, FilledAgrees
<1>8. \A i \in 1..n : Takes(slugs[i], tuple[i])
  BY <1>6, TakenTakes
<1>9. Hash(slugs, tuple) = Hash(slugs, tokens)
  <2> HIDE DEF slugs
  <2> QED BY <1>1, <1>6, SameHash
<1>10. Hash(slugs, tuple) \in ParamsFor(p, rawPath)
  BY <1>4, <1>7, <1>8, Zenon DEF ParamsFor
<1> QED BY <1>9, <1>10

\* A match is started with what is left of a request's path.
LEMMA ChompedRequest ==
    ASSUME NEW request \in Requests
    PROVE  Askable([path |-> Chomp(request.path), method |-> request.method])
<1>1. request.path \in Seq(Literals)
  BY RequestsAssumption
<1>2. Len(request.path) \in Nat
  BY <1>1, LenProperties
<1>3. Chomp(request.path) \in Seq(Literals)
  <2>1. CASE Len(request.path) > 1
    <3>1. SubSeq(request.path, 1, Len(request.path) - 1) \in Seq(Literals)
      BY <1>1, <1>2, <2>1, SubSeqProperties
    <3> QED BY <3>1, <1>1 DEF Chomp
  <2>2. CASE ~(Len(request.path) > 1)
    BY <2>2, <1>1 DEF Chomp
  <2> QED BY <2>1, <2>2
<1> QED BY <1>3 DEF Askable, AskedMethods

Questions == {[op |-> method, path |-> request.path, method |-> request.method] :
                method \in {"match", "match?", "mismatch?"}, request \in Requests}

\* The route found is the first of its pattern that answers for the method, and
\* the tokens are what its slugs stand for.
LEMMA FoundAnswers ==
    ASSUME BindingInv, handle = "tree", NEW request \in Requests, NEW method,
           LET e == Answer(nodes, [path |-> Chomp(request.path),
                                   method |-> request.method])
           IN  e.pc = "route"
    PROVE  LET e == Answer(nodes, [path |-> Chomp(request.path),
                                   method |-> request.method])
               route == nodes[e.node].routes[e.route]
           IN  [params |-> Hash(route.slugs, e.tokens), data |-> DataOf(route)]
                    \in Service!Answers([op |-> method, path |-> request.path,
                                         method |-> request.method])
<1> DEFINE asked == [path |-> Chomp(request.path), method |-> request.method]
           question == [op |-> method, path |-> request.path,
                        method |-> request.method]
           e == Answer(nodes, asked)
           text == spell[e.node]
           route == nodes[e.node].routes[e.route]
           mounted == Ranked(text, e.route, route, dataAry)
<1>1. /\ Shape(nodes, spell) /\ Sound(nodes) /\ Reached(nodes, spell)
  BY DEF BindingInv, TableInv, IInv, Whole
<1>2. Underway(nodes, spell, asked, e)
  BY <1>1, ChompedRequest, AnswerUnderway
<1>3. /\ e \in EntryIn(Len(nodes)) /\ Found(Taken, spell, e) /\ FirstRoute(nodes, e)
      /\ e.path = Chomp(request.path) /\ e.method = request.method
  BY <1>2 DEF Underway, EntryFits
<1> HIDE DEF e
<1>4. /\ e.node \in 1..Len(nodes) /\ text \in Seq(Token)
      /\ e.tokens \in Seq(Seq(Literals))
  BY <1>1, <1>3, EntryTypes
<1>5. e.route \in 1..Len(nodes[e.node].routes)
  BY <1>3 DEF FirstRoute
<1>6. mounted \in TheRoutes
  BY <1>4, <1>5, MountedIsRanked, RankedEntry DEF TheRoutes
<1>7. /\ MethodFits(route.method, request.method)
      /\ \A other \in TheRoutes :
            other.path = text /\ other.rank < e.route =>
                ~MethodFits(other.method, request.method)
  <2>1. MethodFits(route.method, request.method)
    BY <1>3 DEF FirstRoute
  <2> SUFFICES ASSUME NEW other \in TheRoutes, other.path = text,
                      other.rank < e.route, MethodFits(other.method, request.method)
               PROVE  FALSE
    BY <2>1
  <2>2. other \in RankedIn(nodes, spell, dataAry)
    BY MountedIsRanked DEF TheRoutes
  <2>3. PICK m \in 1..Len(nodes) : \E r \in 1..Len(nodes[m].routes) :
            other = Ranked(spell[m], r, nodes[m].routes[r], dataAry)
    BY <2>2, RankedEntry
  <2>4. PICK r \in 1..Len(nodes[m].routes) :
            other = Ranked(spell[m], r, nodes[m].routes[r], dataAry)
    BY <2>3
  <2>5. /\ spell[m] = text /\ r < e.route
        /\ MethodFits(nodes[m].routes[r].method, request.method)
    BY <2>4 DEF Ranked
  <2>6. m = e.node
    BY <2>5, <1>1, <1>4, OneText
  <2>7. e.route <= r
    BY <2>5, <2>6, <1>3 DEF FirstRoute
  <2> QED BY <2>5, <2>7, <1>5
<1>8. Service!Fits(mounted, question)
  <2>1. /\ mounted.method = route.method /\ mounted.path = text
        /\ mounted.rank = e.route /\ question.method = request.method
    BY DEF Ranked
  <2> HIDE DEF mounted, question, route, text
  <2> QED BY <2>1, <1>7 DEF Service!Fits, TheRoutes
<1>9. route.slugs = SlugsOf(text)
  <2>1. Spells(nodes[e.node], text, spell)
    BY <1>1, <1>4, ShapeOfNode
  <2> QED BY <2>1, <1>5 DEF Spells
<1>10. Hash(route.slugs, e.tokens) \in ParamsFor(text, request.path)
  <2>1. /\ Enough(text, e.tokens) /\ Filled(text, e.tokens) = Chomp(request.path)
        /\ TakesAll(Taken, SlugsOf(text), e.tokens)
    BY <1>3, <1>4 DEF Found, Enough
  <2> HIDE DEF text, route
  <2> QED BY <2>1, <1>4, <1>9, ParamsFound
<1>11. mounted.data = DataOf(route) /\ mounted.path = text
       /\ question.path = request.path
  BY DEF Ranked, ValueIn, DataOf
<1>12. [params |-> Hash(route.slugs, e.tokens), data |-> mounted.data]
            \in Service!Answers(question)
  <2> HIDE DEF mounted, question, route, text
  <2> QED BY <1>6, <1>8, <1>10, <1>11 DEF Service!Answers, TheRoutes
<1> HIDE DEF mounted
<1> QED BY <1>11, <1>12 DEF e

-----------------------------------------------------------------------------
(* A step of the dispatcher                                                *)

\* A match asks, and is told what the table says.
LEMMA QueryAsks ==
    ASSUME BindingInv, NEW method \in {"match", "match?", "mismatch?"},
           NEW request \in Requests, Query(method, request)
    PROVE  Service!Next
<1> DEFINE question == [op |-> method, path |-> request.path,
                        method |-> request.method]
           e == Answer(nodes, [path |-> Chomp(request.path),
                               method |-> request.method])
           route == nodes[e.node].routes[e.route]
           found == e.pc = "route"
           match == [params |-> Hash(route.slugs, e.tokens), data |-> DataOf(route)]
           answer == IF found THEN {match} ELSE {}
           value(a) == CASE question.op = "match"     -> a
                         [] question.op = "match?"    -> a # {}
                         [] question.op = "mismatch?" -> a = {}
<1>1. /\ handle = "tree" /\ op = NoOp /\ reply = NoReply
      /\ UNCHANGED <<nodes, spell, call, dataAry, listing, handle, op>>
      /\ reply' = [op |-> method,
                   value |-> CASE method = "match?" -> found
                               [] method = "mismatch?" -> ~found
                               [] method = "match" -> IF ~found THEN {} ELSE {match}]
  BY DEF Query, Ready, vars
<1>2. found => match \in Service!Answers(question)
  BY <1>1, FoundAnswers
<1> HIDE DEF found, match
<1>3. answer \in {{}} \cup {{a} : a \in Service!Answers(question)}
  BY <1>2
<1>4. reply' = [op |-> question.op, value |-> value(answer)]
  <2>1. CASE method = "match"
    BY <2>1, <1>1
  <2>2. CASE method = "match?"
    <3>1. reply' = [op |-> method, value |-> found]
      BY <2>2, <1>1
    <3>2. value(answer) = (answer # {})
      BY <2>2
    <3>3. (answer # {}) = found
      BY DEF found
    <3> QED BY <3>1, <3>2, <3>3
  <2>3. CASE method = "mismatch?"
    <3>1. reply' = [op |-> method, value |-> ~found]
      BY <2>3, <1>1
    <3>2. value(answer) = (answer = {})
      BY <2>3
    <3>3. (answer = {}) = (~found)
      BY DEF found
    <3> QED BY <3>1, <3>2, <3>3
  <2> QED BY <2>1, <2>2, <2>3
<1>5. TheRoutes' = TheRoutes /\ TheAddition' = TheAddition
      /\ (handle' = "tree") = (handle = "tree")
  BY <1>1 DEF TheRoutes, TheAddition, RoutesMounted, DataOf, NodeIds
<1>6. \E a \in {{}} \cup {{b} : b \in Service!Answers(question)} :
        reply' = [op |-> question.op, value |-> value(a)]
  BY <1>3, <1>4
<1>7. TheAddition = NoOp
  BY <1>1 DEF TheAddition
<1> HIDE DEF question
<1>8. Service!Ask(question)
  BY <1>1, <1>5, <1>6, <1>7, Zenon
     DEF Service!Ask, Service!Waiting, TheRoutes, TheAddition
<1>9. question \in Questions
  BY DEF question, Questions
<1> QED BY <1>8, <1>9 DEF Service!Next, Questions

LEMMA ServiceStep ==
    ASSUME NoneMakesUp, BindingInv, BindingInv', Typed, Dispatching,
           [BindingNext]_bindingVars
    PROVE  [Service!Next]_(Service!vars) /\ Dispatching'
<1>1. ASSUME UNCHANGED <<nodes, spell, call, dataAry, listing, handle, op>>
      PROVE  Dispatching'
  BY <1>1 DEF Dispatching, Indexed, Passes, ValueIn
<1>2. CASE \E path \in RawPaths, method \in Methods, given \in Given :
                BeginAdd(path, method, given)
  BY <1>2, BeginAddSubmits
<1>3. CASE TreeWorks
  BY <1>3, TreeWorksDecides
<1>4. CASE EndAdd
  BY <1>4, EndAddFinishes
<1>5. CASE CompileTree
  <2>1. /\ UNCHANGED <<dataAry, listing, handle, op, reply, call>>
        /\ Keeps(nodes, spell, nodes', spell')
    BY <1>5, CompiledKeeps
       DEF CompileTree, Compile, bindingOnly, BindingInv, TableInv, IInv
  <2> QED BY <2>1, TreeOnly
<1>6. CASE \E method \in {"match", "match?", "mismatch?"}, request \in Requests :
                Query(method, request)
  BY <1>1, <1>6, QueryAsks DEF Query, vars
<1>7. CASE TakeReply
  <2>1. /\ reply # NoReply /\ reply' = NoReply
        /\ UNCHANGED <<nodes, spell, call, dataAry, listing, handle, op>>
    BY <1>7 DEF TakeReply, vars
  <2>2. TheRoutes' = TheRoutes /\ TheAddition' = TheAddition
        /\ (handle' = "tree") = (handle = "tree")
    BY <2>1 DEF TheRoutes, TheAddition, RoutesMounted, DataOf, NodeIds
  <2>3. Service!Take
    BY <2>1, <2>2 DEF Service!Take, TheRoutes, TheAddition
  <2> QED BY <1>1, <2>1, <2>3 DEF Service!Next
<1>8. CASE Free \/ UseAfterFree \/ Collect
  BY <1>8, ServiceEnds
<1>9. CASE UNCHANGED bindingVars
  <2>1. /\ UNCHANGED <<dataAry, listing, handle, op, reply, call>>
        /\ UNCHANGED <<nodes, spell>>
    BY <1>9 DEF bindingVars, vars
  <2>2. Keeps(nodes, spell, nodes', spell')
    BY <2>1 DEF Keeps
  <2> QED BY <2>1, <2>2, TreeOnly
<1> QED BY <1>2, <1>3, <1>4, <1>5, <1>6, <1>7, <1>8, <1>9 DEF BindingNext

LEMMA ServiceInitially == BindingInit => Service!Init /\ Dispatching
<1> SUFFICES ASSUME BindingInit
             PROVE  Service!Init /\ Dispatching
  OBVIOUS
<1>1. /\ Len(nodes) = 1 /\ nodes[1].routes = <<>> /\ call = Idle
      /\ dataAry = <<>> /\ listing = <<>> /\ handle = "tree" /\ op = NoOp
      /\ reply = NoReply
  BY DEF BindingInit, MatchInit, Init, EmptyNode
<1>2. TheRoutes = {}
  <2>1. \A route : route \notin RankedIn(nodes, spell, dataAry)
    <3> SUFFICES ASSUME NEW route, route \in RankedIn(nodes, spell, dataAry)
                 PROVE  FALSE
      OBVIOUS
    <3>1. PICK n \in 1..Len(nodes) : \E r \in 1..Len(nodes[n].routes) :
                route = Ranked(spell[n], r, nodes[n].routes[r], dataAry)
      BY RankedEntry
    <3>2. n = 1
      BY <1>1
    <3> QED BY <1>1, <3>1, <3>2
  <2> QED BY <2>1, MountedIsRanked DEF TheRoutes
<1>3. TheAddition = NoOp
  BY <1>1 DEF TheAddition
<1>4. Service!Init
  BY <1>1, <1>2, <1>3 DEF Service!Init, TheRoutes, TheAddition
<1>5. Dispatching
  BY <1>1 DEF Dispatching, Indexed, Passes
<1> QED BY <1>4, <1>5

-----------------------------------------------------------------------------
(* Theorems                                                                *)

\* @data, @routes and the call of add in progress have their types, and what
\* @data holds comes from an addition, also once the tree is gone.
THEOREM BindingTypeCorrect == BindingSpec => []BindingTypeOK
<1>1. BindingInv /\ Typed => BindingTypeOK
  BY IInvMeaning DEF BindingInv, TableInv, Typed, Stamped, Listed, BindingTypeOK
<1> QED BY <1>1, TypedInvariance, PTL

\* As long as there is a tree, each of its edges points into a pattern that the
\* call of add in progress or @data keeps, at the place where the edge's text
\* is: after all splits, compilations and refused additions.
THEOREM StringsHeld == BindingSpec => []PatternsHeld
<1>1. BindingInv => PatternsHeld
  <2> SUFFICES ASSUME BindingInv, handle = "tree", NEW n \in 1..Len(nodes), n # Root
               PROVE  \/ borrowed[n] = op.of /\ IsPrefix(spell[n], op.path)
                      \/ /\ PatternString(borrowed[n]) \in Range(dataAry)
                         /\ IsPrefix(spell[n], listing[borrowed[n]].path)
    BY DEF PatternsHeld, NodeIds
  <2>1. Open /\ Shape(nodes, spell)
    BY DEF BindingInv, TableInv, IInv
  <2>2. /\ borrowed[n] \in Numbers
        /\ Prefix(spell[n], PatternOf(borrowed[n]))
    BY <2>1 DEF Open, Held
  <2>3. IsPrefix(spell[n], PatternOf(borrowed[n]))
    <3>1. spell[n] \in Seq(Token) /\ PatternOf(borrowed[n]) \in Seq(Token)
      BY <2>1, <2>2, TextType, PatternType
    <3> QED BY <3>1, <2>2, PrefixIsPrefix
  <2>4. CASE op # NoOp /\ borrowed[n] = op.of
    BY <2>3, <2>4 DEF PatternOf
  <2>5. CASE ~(op # NoOp /\ borrowed[n] = op.of)
    <3>1. IsPrefix(spell[n], listing[borrowed[n]].path)
      BY <2>3, <2>5 DEF PatternOf
    <3>2. borrowed[n] \in 1..Len(listing)
      <4>1. Len(listing) \in Nat
        BY <2>1, LenProperties DEF Open
      <4>2. op # NoOp => op.of = Len(listing) + 1
        BY <2>1 DEF Open, OpFits
      <4> QED BY <4>1, <4>2, <2>2, <2>5 DEF Numbers
    <3>3. PICK i \in 1..Len(dataAry) : dataAry[i] = PatternString(borrowed[n])
      BY <2>1, <3>2 DEF Open, Kept
    <3>4. DOMAIN dataAry = 1..Len(dataAry)
      BY <2>1, LenProperties DEF Open
    <3> QED BY <3>1, <3>3, <3>4 DEF Range
  <2> QED BY <2>4, <2>5
<1> QED BY <1>1, BindingInvariance, PTL

\* If NoneMakesUp, no edge points into a malformed pattern, which is refused, also
\* none that was split for it.
THEOREM RefusedUnused == BindingSpec => []RefusedNotBorrowed
<1>1. BindingInv => RefusedNotBorrowed
  BY DEF BindingInv, Open, Held, PatternOf, Acceptable, RefusedNotBorrowed, NodeIds
<1> QED BY <1>1, BindingInvariance, PTL

\* free and the garbage collector free the tree once between them, whatever else
\* is called in between.
THEOREM FreedByOne == BindingSpec => []FreedOnce
<1>1. BindingInit => FreedOnce
  BY DEF BindingInit, FreedOnce
<1>2. FreedOnce /\ [BindingNext]_bindingVars => FreedOnce'
  <2> SUFFICES ASSUME FreedOnce, [BindingNext]_bindingVars
               PROVE  FreedOnce'
    OBVIOUS
  <2>1. CASE UNCHANGED <<handle, frees>>
    BY <2>1 DEF FreedOnce
  <2>2. CASE Free
    BY <2>2 DEF Free, Ready, FreedOnce
  <2>3. CASE UseAfterFree
    BY <2>3 DEF UseAfterFree, FreedOnce
  <2>4. CASE Collect
    BY <2>4 DEF Collect, FreedOnce
  <2> QED BY <2>1, <2>2, <2>3, <2>4
          DEF BindingNext, BeginAdd, TreeWorks, EndAdd, CompileTree, Query,
              TakeReply, bindingOnly, bindingVars
<1> QED BY <1>1, <1>2, PTL DEF BindingSpec

\* The binding is a dispatcher: a reply comes from the first route of a pattern
\* the request is meant for, that answers for its method, and has the data this
\* route was added with, whatever was pushed to @data, split, compiled or refused
\* in between.
THEOREM DispatcherImplemented ==
    NoneMakesUp => (BindingSpec => ImplementsDispatcher)
<1>1. BindingInit => Service!Init /\ Dispatching
  BY ServiceInitially
<1> SUFFICES ASSUME NoneMakesUp
             PROVE  BindingSpec => ImplementsDispatcher
  OBVIOUS
<1>2. /\ BindingInv /\ Typed /\ (BindingInv /\ Typed)' /\ Dispatching
      /\ [BindingNext]_bindingVars
      => [Service!Next]_(Service!vars) /\ Dispatching'
  BY ServiceStep
<1> QED BY <1>1, <1>2, TypedInvariance, PTL
        DEF BindingSpec, ImplementsDispatcher, Service!Spec
=============================================================================
