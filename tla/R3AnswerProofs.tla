--------------------------- MODULE R3AnswerProofs ---------------------------
(***************************************************************************)
(* Theorems about R3Match: what a tree answers, all calls of a match       *)
(* together.  In an unambiguous tree a request is answered exactly if a    *)
(* route is meant for it, and an insertion that is refused changes no      *)
(* answer.                                                                 *)
(***************************************************************************)
EXTENDS R3MatchProofs, FiniteSetTheorems

-----------------------------------------------------------------------------
(* The answer of a tree                                                    *)

\* What a match on a tree can have come to: an entry for the request, with all
\* that is known of one.
Underway(tree, sp, request, e) ==
    /\ e \in EntryIn(Len(tree))
    /\ e.path = request.path /\ e.method = request.method
    /\ e.pc = "walk" => Unrouted(e)
    /\ EntryFits(Taken, sp, e)
    /\ e.pc = "route" => FirstRoute(tree, e)

LEMMA AdvanceUnderway ==
    ASSUME NEW tree, NEW sp, Shape(tree, sp), Sound(tree), NEW request,
           NEW e, Underway(tree, sp, request, e)
    PROVE  Underway(tree, sp, request, Advance(tree, e))
<1> DEFINE new == Advance(tree, e)
<1>1. /\ e \in EntryIn(Len(tree)) /\ EntryFits(Taken, sp, e)
      /\ e.path = request.path /\ e.method = request.method
  BY DEF Underway
<1>2. CASE e.pc = "walk"
  <2>1. new = WalkStep(tree, e)
    BY <1>2 DEF Advance
  <2>2. Unrouted(e) /\ Consumed(Taken, sp, e)
    BY <1>2 DEF Underway, EntryFits
  <2>3. {"pc", "path", "method"} \subseteq DOMAIN e
    BY <1>1 DEF EntryIn
  <2>4. /\ new \in EntryIn(Len(tree)) /\ Unrouted(new) /\ EntryFits(Taken, sp, new)
        /\ new.pc # "route" /\ new.path = e.path /\ new.method = e.method
    BY <2>1, <2>2, <2>3, <1>1, <1>2, WalkStepEntry, TakenByOpcode,
       WalkStepFits, WalkKeeps
  <2> QED BY <2>4, <1>1 DEF Underway
<1>3. CASE e.pc = "node"
  <2>1. new = RouteStep(tree, e)
    BY <1>3 DEF Advance
  <2>2. Found(Taken, sp, e)
    BY <1>1, <1>3 DEF EntryFits
  <2>3. /\ new \in EntryIn(Len(tree)) /\ new.pc # "walk" /\ EntryFits(Taken, sp, new)
        /\ new.path = e.path /\ new.method = e.method
        /\ new.pc = "route" => FirstRoute(tree, new)
    <3> HIDE DEF new
    <3>1. /\ new \in EntryIn(Len(tree)) /\ new.pc \in {"route", "nil"}
      BY <2>1, <1>1, RouteStepEntry
    <3> DEFINE routed == RouteStep(tree, e)
    <3>2. /\ EntryFits(Taken, sp, routed)
          /\ routed.path = e.path /\ routed.method = e.method
          /\ routed.pc = "route" => FirstRoute(tree, routed)
      BY <2>2, <1>1, RouteStepFits, RouteStepPicks
    <3> QED BY <2>1, <3>1, <3>2
  <2> QED BY <2>3, <1>1 DEF Underway
<1>4. CASE e.pc \notin {"walk", "node"}
  BY <1>4 DEF Advance
<1> QED BY <1>2, <1>3, <1>4

\* The entries of a match, from its first call on.
Runs(tree, sp, request, run) ==
    /\ run[0] = NewEntry(request)
    /\ \A k \in Nat : run[k + 1] = Advance(tree, run[k])
    /\ \A k \in Nat : Underway(tree, sp, request, run[k])
    /\ Answer(tree, request) = run[Len(tree) + 1]

\* An answer is the end of a match.
LEMMA AnswerRuns ==
    ASSUME NEW tree, NEW sp, Shape(tree, sp), Sound(tree),
           NEW request, Askable(request)
    PROVE  \E run : Runs(tree, sp, request, run)
<1> DEFINE first == NewEntry(request)
           S == {e \in EntryIn(Len(tree)) : Underway(tree, sp, request, e)}
           F == [x \in Nat \X S |-> Advance(tree, x[2])]
           Run(f) == f = [k \in Nat |-> IF k = 0 THEN first
                                        ELSE Advance(tree, f[k-1])]
           run == CHOOSE f : Run(f)
<1>1. first \in S
  <2>1. /\ first \in EntryIn(Len(tree)) /\ Unrouted(first)
        /\ EntryFits(Taken, sp, first) /\ first.pc = "walk"
        /\ first.path = request.path /\ first.method = request.method
    BY NewEntryFits, NewEntryConsumes
  <2> QED BY <2>1 DEF Underway
<1>2. \A e \in S : Advance(tree, e) \in S
  <2> TAKE e \in S
  <2>1. Underway(tree, sp, request, Advance(tree, e))
    BY AdvanceUnderway
  <2> QED BY <2>1 DEF Underway
<1>3. Answer(tree, request) = run[Len(tree) + 1]
  BY DEF Answer
<1> HIDE DEF first, S
<1>4. F \in [Nat \X S -> S]
  BY <1>2
<1>5. PICK g : Iterates(g, S, first, F)
  BY <1>1, <1>4, Iteration
<1>6. /\ g \in [Nat -> S] /\ g[0] = first
      /\ \A n \in Nat : g[n+1] = Advance(tree, g[n])
  BY <1>5 DEF Iterates
<1>7. Run(g)
  <2>1. ASSUME NEW k \in Nat
        PROVE  g[k] = IF k = 0 THEN first ELSE Advance(tree, g[k-1])
    <3>1. CASE k = 0
      BY <3>1, <1>6
    <3>2. CASE k # 0
      <4>1. k - 1 \in Nat /\ (k - 1) + 1 = k
        BY <3>2
      <4> QED BY <4>1, <3>2, <1>6
    <3> QED BY <3>1, <3>2
  <2>2. g = [k \in Nat |-> g[k]]
    BY <1>6
  <2> QED BY <2>1, <2>2
<1>8. Run(run)
  <2> HIDE DEF Run
  <2> QED BY <1>7, Zenon
<1> HIDE DEF run
<1>9. /\ run[0] = first
      /\ \A n \in Nat : run[n+1] = Advance(tree, run[n])
  <2>1. \A k \in Nat : run[k] = IF k = 0 THEN first ELSE Advance(tree, run[k-1])
    BY <1>8, Zenon
  <2> QED BY <2>1
<1> DEFINE T == {k \in Nat : run[k] \in S}
<1>10. Nat \subseteq T
  <2>1. 0 \in T /\ \A n \in Nat : n \in T => n + 1 \in T
    BY <1>1, <1>2, <1>9
  <2> HIDE DEF T
  <2> QED BY <2>1, AllNaturals
<1>11. \A k \in Nat : Underway(tree, sp, request, run[k])
  BY <1>10 DEF S
<1> QED BY <1>3, <1>9, <1>11 DEF Runs, first

\* However long a match goes on.
LEMMA AnswerUnderway ==
    ASSUME NEW tree, NEW sp, Shape(tree, sp), Sound(tree),
           NEW request, Askable(request)
    PROVE  Underway(tree, sp, request, Answer(tree, request))
<1>1. PICK run : Runs(tree, sp, request, run)
  BY AnswerRuns
<1>2. Len(tree) + 1 \in Nat
  BY LenProperties DEF Shape
<1> QED BY <1>1, <1>2 DEF Runs

-----------------------------------------------------------------------------
(* Where FitsIf cuts a path                                                *)

\* The positions FitsIf can cut a path at for the tokens of a pattern from i
\* on, if "below" are those for the tokens behind i.  The texts a slug takes are
\* a set of pairs again.
CutAt(takes, pattern, path, i, below) ==
    IF pattern[i] \in Slugs
    THEN {j \in 0..Len(path) : \E k \in j..Len(path) :
            <<pattern[i], SubSeq(path, j + 1, k)>> \in takes /\ k \in below}
    ELSE {j \in 0..Len(path)-1 : path[j + 1] = pattern[i] /\ j + 1 \in below}

Cut(takes, pattern, path, cuts) ==
    /\ cuts[Len(pattern) + 1] = {Len(path)}
    /\ \A i \in 1..Len(pattern) :
        cuts[i] = CutAt(takes, pattern, path, i, cuts[i + 1])

\* The cuts as FitsIf defines them, by recursion from the end of the pattern.
CutsOf(takes, pattern, path, f) ==
    f = [i \in 1..Len(pattern)+1 |->
            IF i > Len(pattern) THEN {Len(path)}
            ELSE CutAt(takes, pattern, path, i, f[i + 1])]

\* There are such cuts, and they are what the recursion says.
LEMMA CutsExist ==
    ASSUME NEW takes, NEW pattern, Len(pattern) \in Nat,
           NEW path, Len(path) \in Nat
    PROVE  /\ \E f : CutsOf(takes, pattern, path, f)
           /\ \A f : CutsOf(takes, pattern, path, f) => Cut(takes, pattern, path, f)
<1> DEFINE I == 1..Len(pattern)+1
           At(i, below) == CutAt(takes, pattern, path, i, below)
           Here(f, i) == IF i > Len(pattern) THEN {Len(path)} ELSE At(i, f[i + 1])
           S == SUBSET (0..Len(path))
           last == {Len(path)}
           F == [x \in Nat \X S |-> At(Len(pattern) - x[1], x[2])]
<1>1. last \in S /\ F \in [Nat \X S -> S]
  BY DEF CutAt
<1>2. PICK row : Iterates(row, S, last, F)
  <2> HIDE DEF F, last, S
  <2> QED BY <1>1, Iteration
<1>3. /\ row \in [Nat -> S] /\ row[0] = last
      /\ \A n \in Nat : row[n+1] = At(Len(pattern) - n, row[n])
  <2> HIDE DEF S, At
  <2> QED BY <1>2 DEF Iterates
<1> HIDE DEF At
<1> DEFINE g == [i \in I |-> row[Len(pattern) + 1 - i]]
<1>4. g = [i \in I |-> Here(g, i)]
  <2>1. ASSUME NEW i \in I
        PROVE  row[Len(pattern) + 1 - i] = Here(g, i)
    <3>1. CASE i = Len(pattern) + 1
      <4>1. row[0] = last /\ Len(pattern) + 1 - i = 0 /\ i > Len(pattern)
        BY <3>1, <1>3
      <4> QED BY <4>1
    <3>2. CASE i \in 1..Len(pattern)
      <4> DEFINE n == Len(pattern) - i
      <4>1. /\ n \in Nat /\ n + 1 = Len(pattern) + 1 - i /\ Len(pattern) - n = i
            /\ i + 1 \in I /\ Len(pattern) + 1 - (i + 1) = n /\ ~(i > Len(pattern))
        BY <3>2
      <4>2. g[i + 1] = row[n]
        BY <4>1
      <4> HIDE DEF n, g
      <4> QED BY <4>1, <4>2, <1>3
    <3> QED BY <3>1, <3>2
  <2> QED BY <2>1
<1>5. CutsOf(takes, pattern, path, g)
  <2> HIDE DEF g
  <2> QED BY <1>4, Zenon DEF CutsOf, At
<1>6. ASSUME NEW f, CutsOf(takes, pattern, path, f)
      PROVE  Cut(takes, pattern, path, f)
  <2>1. \A i \in I : f[i] = Here(f, i)
    <3>1. f = [i \in I |-> Here(f, i)]
      BY <1>6, Zenon DEF CutsOf, At
    <3> QED BY <3>1, Zenon
  <2>2. f[Len(pattern) + 1] = last
    <3>1. Len(pattern) + 1 \in I /\ Len(pattern) + 1 > Len(pattern)
      OBVIOUS
    <3> QED BY <3>1, <2>1, Zenon
  <2>3. ASSUME NEW i \in 1..Len(pattern)
        PROVE  f[i] = CutAt(takes, pattern, path, i, f[i + 1])
    <3>1. i \in I /\ ~(i > Len(pattern))
      OBVIOUS
    <3> QED BY <3>1, <2>1, Zenon DEF At
  <2> QED BY <2>2, <2>3 DEF Cut
<1> QED BY <1>5, <1>6

\* FitsIf is the recursion it looks like.
LEMMA FitsUnfolds ==
    ASSUME NEW pattern, Len(pattern) \in Nat, NEW path \in Seq(Literals)
    PROVE  \E cuts : /\ Cut(Taken, pattern, path, cuts)
                     /\ Fits(pattern, path) <=> 0 \in cuts[1]
<1> DEFINE I == 1..Len(pattern)+1
           Body(f, i) ==
                IF i > Len(pattern) THEN {Len(path)}
                ELSE IF pattern[i] \in Slugs
                THEN {j \in 0..Len(path) : \E k \in j..Len(path) :
                        Takes(pattern[i], SubSeq(path, j + 1, k)) /\ k \in f[i + 1]}
                ELSE {j \in 0..Len(path)-1 :
                        path[j + 1] = pattern[i] /\ j + 1 \in f[i + 1]}
           cuts == CHOOSE f : f = [i \in I |-> Body(f, i)]
<1>1. Fits(pattern, path) <=> 0 \in cuts[1]
  BY DEF Fits, FitsIf
<1>2. Len(path) \in Nat
  BY LenProperties
<1>3. ASSUME NEW f
      PROVE  f = [i \in I |-> Body(f, i)] <=> CutsOf(Taken, pattern, path, f)
  <2>1. ASSUME NEW i \in I, ~(i > Len(pattern)), pattern[i] \in Slugs,
               NEW j \in 0..Len(path), NEW k \in j..Len(path)
        PROVE  Takes(pattern[i], SubSeq(path, j + 1, k))
                  <=> <<pattern[i], SubSeq(path, j + 1, k)>> \in Taken
    <3>1. SubSeq(path, j + 1, k) \in Seq(Literals)
      BY <1>2
    <3> QED BY <3>1, <2>1 DEF Taken
  <2>2. ASSUME NEW i \in I
        PROVE  Body(f, i) = IF i > Len(pattern) THEN {Len(path)}
                            ELSE CutAt(Taken, pattern, path, i, f[i + 1])
    <3>1. CASE i > Len(pattern) \/ pattern[i] \notin Slugs
      BY <3>1 DEF CutAt
    <3>2. CASE ~(i > Len(pattern)) /\ pattern[i] \in Slugs
      BY <3>2, <2>1 DEF CutAt
    <3> QED BY <3>1, <3>2
  <2> HIDE DEF Body
  <2>3. [i \in I |-> Body(f, i)] =
            [i \in I |-> IF i > Len(pattern) THEN {Len(path)}
                         ELSE CutAt(Taken, pattern, path, i, f[i + 1])]
    BY <2>2
  <2> QED BY <2>3 DEF CutsOf
<1>4. Cut(Taken, pattern, path, cuts)
  <2> HIDE DEF I, Body
  <2>1. \E f : f = [i \in I |-> Body(f, i)]
    BY <1>2, <1>3, CutsExist
  <2>2. cuts = [i \in I |-> Body(cuts, i)]
    BY <2>1, Zenon
  <2> HIDE DEF cuts
  <2> QED BY <1>2, <1>3, <2>2, CutsExist
<1> QED BY <1>1, <1>4

\* rest is what remains of the path.
Remains(path, rest) ==
    /\ Len(rest) <= Len(path)
    /\ \A i \in 1..Len(rest) : rest[i] = path[Len(path) - Len(rest) + i]

\* The rest of the path can be cut for the tokens behind the first a.
ToCut(path, cuts, a, rest) == Len(path) - Len(rest) \in cuts[a + 1]

\* What remains behind k more characters.
LEMMA RemainsAfter ==
    ASSUME NEW path \in Seq(Literals), NEW rest \in Seq(Literals),
           Remains(path, rest), NEW k \in 0..Len(rest)
    PROVE  /\ After(rest, k) \in Seq(Literals)
           /\ Len(After(rest, k)) = Len(rest) - k
           /\ Remains(path, After(rest, k))
<1>1. /\ Len(rest) \in Nat /\ Len(path) \in Nat
      /\ After(rest, k) \in Seq(Literals) /\ Len(After(rest, k)) = Len(rest) - k
      /\ \A i \in 1..(Len(rest) - k) : After(rest, k)[i] = rest[k + i]
  BY LenProperties DEF After
<1> DEFINE rest1 == After(rest, k)
<1> HIDE DEF rest1
<1>2. ASSUME NEW i \in 1..Len(rest1)
      PROVE  rest1[i] = path[Len(path) - Len(rest1) + i]
  <2>1. k + i \in 1..Len(rest) /\ rest1[i] = rest[k + i]
    BY <1>1 DEF rest1
  <2>2. rest[k + i] = path[Len(path) - Len(rest) + (k + i)]
    BY <2>1 DEF Remains
  <2>3. Len(path) - Len(rest) + (k + i) = Len(path) - Len(rest1) + i
    BY <1>1 DEF rest1
  <2> QED BY <2>1, <2>2, <2>3
<1>3. Len(rest1) <= Len(path)
  BY <1>1 DEF Remains, rest1
<1> QED BY <1>1, <1>2, <1>3 DEF Remains, rest1

\* At the end of the pattern nothing may remain.
LEMMA CutEnds ==
    ASSUME NEW takes, NEW pattern \in Seq(Token), NEW path \in Seq(Literals), NEW cuts,
           Cut(takes, pattern, path, cuts), NEW rest \in Seq(Literals)
    PROVE  ToCut(path, cuts, Len(pattern), rest) <=> rest = <<>>
<1>1. cuts[Len(pattern) + 1] = {Len(path)}
  BY DEF Cut
<1>2. Len(path) \in Nat /\ Len(rest) \in Nat /\ (Len(rest) = 0 <=> rest = <<>>)
  BY LenProperties, EmptySeq
<1> QED BY <1>1, <1>2 DEF ToCut

\* A text begins with q if its characters are those of q.
LEMMA PrefixByCharacter ==
    ASSUME NEW q \in Seq(Token), NEW rest \in Seq(Literals)
    PROVE  IsPrefix(q, rest) <=>
              Len(q) <= Len(rest) /\ \A i \in 1..Len(q) : q[i] = rest[i]
<1>1. Len(q) \in Nat /\ Len(rest) \in Nat
  BY LenProperties
<1>2. SubSeq(q, 1, Len(q)) = q
  BY <1>1
<1> DEFINE start == SubSeq(rest, 1, Len(q))
<1>3. CASE Len(q) <= Len(rest)
  <2>1. /\ start \in Seq(Literals) /\ Len(start) = Len(q)
        /\ \A i \in 1..Len(q) : start[i] = rest[i]
    BY <1>1, <1>3
  <2> HIDE DEF start
  <2>2. q = start <=> \A i \in 1..Len(q) : q[i] = rest[i]
    <3>1. ASSUME \A i \in 1..Len(q) : q[i] = rest[i]
          PROVE  q = start
      BY <3>1, <2>1, SeqEqual
    <3> QED BY <3>1, <2>1
  <2> QED BY <2>2, <1>2, <1>3 DEF IsPrefix, start
<1>4. CASE ~(Len(q) <= Len(rest))
  BY <1>4 DEF IsPrefix
<1> QED BY <1>3, <1>4

\* Literals in a pattern take themselves.
LEMMA LiteralsCut ==
    ASSUME NEW takes, NEW pattern \in Seq(Token), NEW path \in Seq(Literals), NEW cuts,
           Cut(takes, pattern, path, cuts), NEW rest \in Seq(Literals),
           Remains(path, rest), NEW a \in Nat, NEW q \in Seq(Token),
           a + Len(q) <= Len(pattern),
           \A i \in 1..Len(q) : q[i] = pattern[a + i] /\ q[i] \notin Slugs
    PROVE  ToCut(path, cuts, a, rest) <=>
              IsPrefix(q, rest) /\ ToCut(path, cuts, a + Len(q), After(rest, Len(q)))
<1> DEFINE at == Len(path) - Len(rest)
           Same(m) == m <= Len(rest) /\ \A i \in 1..m : q[i] = rest[i]
           Reached1(m) == Same(m) /\ at + m \in cuts[a + m + 1]
           T == {m \in Nat : m <= Len(q) => (at \in cuts[a + 1] <=> Reached1(m))}
<1>1. /\ Len(pattern) \in Nat /\ Len(path) \in Nat /\ Len(rest) \in Nat
      /\ Len(q) \in Nat /\ Len(rest) <= Len(path) /\ at \in Nat
  BY LenProperties DEF Remains
<1>2. 0 \in T
  BY <1>1
<1>3. ASSUME NEW m \in Nat, m \in T
      PROVE  m + 1 \in T
  <2> SUFFICES ASSUME m + 1 <= Len(q)
               PROVE  at \in cuts[a + 1] <=> Reached1(m + 1)
    OBVIOUS
  <2> DEFINE i == a + m + 1
             below == cuts[a + (m + 1) + 1]
  <2>1. at \in cuts[a + 1] <=> Reached1(m)
    BY <1>1, <1>3
  <2>2. /\ i \in 1..Len(pattern) /\ i + 1 = a + (m + 1) + 1
        /\ q[m + 1] = pattern[i] /\ pattern[i] \notin Slugs
    BY <1>1
  <2>3. cuts[i] = {j \in 0..Len(path)-1 : path[j + 1] = pattern[i] /\ j + 1 \in below}
    <3>1. cuts[i] = CutAt(takes, pattern, path, i, cuts[i + 1])
      BY <2>2 DEF Cut
    <3> HIDE DEF i
    <3> QED BY <3>1, <2>2, Zenon DEF CutAt
  <2>4. CASE m < Len(rest)
    <3>1. at + m \in 0..Len(path)-1 /\ m + 1 \in 1..Len(rest)
          /\ at + m + 1 = at + (m + 1)
      BY <1>1, <2>4
    <3>2. rest[m + 1] = path[at + m + 1]
      BY <3>1 DEF Remains
    <3>3. at + m \in cuts[i] <=> q[m + 1] = rest[m + 1] /\ at + (m + 1) \in below
      <4> HIDE DEF at, below
      <4> QED BY <3>1, <3>2, <2>2, <2>3
    <3>4. Same(m + 1) <=> Same(m) /\ q[m + 1] = rest[m + 1]
      <4>1. /\ m + 1 <= Len(rest) /\ m <= Len(rest)
            /\ \A l \in 1..(m + 1) : l = m + 1 \/ l \in 1..m
            /\ \A l \in 1..m : l \in 1..(m + 1)
            /\ m + 1 \in 1..(m + 1)
        BY <2>4, <1>1
      <4> QED BY <4>1
    <3> HIDE DEF at, Same, below
    <3>5. Reached1(m) <=> Reached1(m + 1)
      BY <3>3, <3>4 DEF below
    <3> QED BY <3>5, <2>1
  <2>5. CASE ~(m < Len(rest))
    <3>1. ~Same(m + 1)
      BY <2>5, <1>1
    <3>2. ~Reached1(m)
      <4> SUFFICES ASSUME Reached1(m)
                   PROVE  FALSE
        OBVIOUS
      <4>1. m = Len(rest)
        BY <2>5, <1>1
      <4>2. at + m \in 0..Len(path)-1
        BY <2>3
      <4> QED BY <4>1, <4>2, <1>1
    <3> QED BY <3>1, <3>2, <2>1
  <2> QED BY <2>4, <2>5
<1>4. Len(q) \in T
  <2> HIDE DEF T
  <2> QED BY <1>1, <1>2, <1>3, AllNaturals
<1>5. ToCut(path, cuts, a, rest) <=> Reached1(Len(q))
  BY <1>4, <1>1 DEF ToCut
<1>6. Same(Len(q)) <=> IsPrefix(q, rest)
  BY PrefixByCharacter
<1>7. ASSUME Same(Len(q))
      PROVE  at + Len(q) \in cuts[a + Len(q) + 1]
                <=> ToCut(path, cuts, a + Len(q), After(rest, Len(q)))
  <2>1. Len(After(rest, Len(q))) = Len(rest) - Len(q)
    BY <1>1, <1>7, RemainsAfter
  <2>2. Len(path) - Len(After(rest, Len(q))) = at + Len(q)
    BY <2>1, <1>1
  <2> QED BY <2>2 DEF ToCut
<1> HIDE DEF Same, at
<1> QED BY <1>5, <1>6, <1>7

\* A rest that can be cut behind a tokens begins with what a slug takes, if the
\* slug is the next token and b tokens end with it.
SlugSplits(takes, path, cuts, a, b, slug, rest) ==
    ToCut(path, cuts, a, rest) <=>
        \E k \in 0..Len(rest) :
            /\ <<slug, Upto(rest, k)>> \in takes
            /\ ToCut(path, cuts, b, After(rest, k))

\* A slug takes some of the first characters.
LEMMA SlugCut ==
    ASSUME NEW takes, NEW pattern \in Seq(Token), NEW path \in Seq(Literals), NEW cuts,
           Cut(takes, pattern, path, cuts), NEW rest \in Seq(Literals),
           Remains(path, rest), NEW a \in Nat, a < Len(pattern),
           pattern[a + 1] \in Slugs
    PROVE  SlugSplits(takes, path, cuts, a, a + 1, pattern[a + 1], rest)
<1> DEFINE at == Len(path) - Len(rest)
           slug == pattern[a + 1]
<1>1. /\ Len(pattern) \in Nat /\ Len(path) \in Nat /\ Len(rest) \in Nat
      /\ Len(rest) <= Len(path) /\ at \in 0..Len(path)
  BY LenProperties DEF Remains
<1>2. cuts[a + 1] = {j \in 0..Len(path) : \E k \in j..Len(path) :
            <<slug, SubSeq(path, j + 1, k)>> \in takes /\ k \in cuts[a + 1 + 1]}
  <2>1. a + 1 \in 1..Len(pattern)
    BY <1>1
  <2>2. cuts[a + 1] = CutAt(takes, pattern, path, a + 1, cuts[a + 1 + 1])
    BY <2>1 DEF Cut
  <2> QED BY <2>2, Zenon DEF CutAt
<1>3. ASSUME NEW k \in 0..Len(rest)
      PROVE  /\ SubSeq(path, at + 1, at + k) = Upto(rest, k)
             /\ at + k \in cuts[a + 1 + 1] <=> ToCut(path, cuts, a + 1, After(rest, k))
  <2>1. /\ Upto(rest, k) \in Seq(Literals) /\ Len(Upto(rest, k)) = k
        /\ \A i \in 1..k : Upto(rest, k)[i] = rest[i]
    BY CutRest
  <2> DEFINE taken == SubSeq(path, at + 1, at + k)
  <2>2. /\ taken \in Seq(Literals) /\ Len(taken) = k
        /\ \A i \in 1..k : taken[i] = path[at + i]
    <3>1. at \in Nat /\ k \in Nat /\ at + k <= Len(path)
      BY <1>1
    <3> HIDE DEF at
    <3> QED BY <1>1, <3>1
  <2>3. \A i \in 1..k : path[at + i] = rest[i]
    <3>1. \A i \in 1..k : i \in 1..Len(rest)
      BY <1>1
    <3>2. \A i \in 1..Len(rest) : rest[i] = path[at + i]
      BY DEF Remains
    <3> HIDE DEF at
    <3> QED BY <3>1, <3>2
  <2>4. taken = Upto(rest, k)
    <3> HIDE DEF taken, at
    <3> QED BY <2>1, <2>2, <2>3, SeqEqual
  <2>5. Len(After(rest, k)) = Len(rest) - k
    BY RemainsAfter
  <2>6. Len(path) - Len(After(rest, k)) = at + k
    BY <2>5, <1>1
  <2> QED BY <2>4, <2>6 DEF ToCut
<1>4. ToCut(path, cuts, a, rest) <=>
        \E k \in at..Len(path) :
            <<slug, SubSeq(path, at + 1, k)>> \in takes /\ k \in cuts[a + 1 + 1]
  <2> HIDE DEF slug
  <2> QED BY <1>1, <1>2 DEF ToCut
<1>5. ASSUME NEW k \in at..Len(path),
             <<slug, SubSeq(path, at + 1, k)>> \in takes, k \in cuts[a + 1 + 1]
      PROVE  \E l \in 0..Len(rest) : /\ <<slug, Upto(rest, l)>> \in takes
                                     /\ ToCut(path, cuts, a + 1, After(rest, l))
  <2>1. k - at \in 0..Len(rest) /\ at + (k - at) = k
    BY <1>1
  <2> HIDE DEF at, slug
  <2> QED BY <2>1, <1>3, <1>5
<1>6. ASSUME NEW l \in 0..Len(rest), <<slug, Upto(rest, l)>> \in takes,
             ToCut(path, cuts, a + 1, After(rest, l))
      PROVE  \E k \in at..Len(path) :
                <<slug, SubSeq(path, at + 1, k)>> \in takes /\ k \in cuts[a + 1 + 1]
  <2>1. at + l \in at..Len(path)
    BY <1>1
  <2> HIDE DEF at, slug
  <2> QED BY <2>1, <1>3, <1>6
<1> HIDE DEF at, slug
<1>7. ToCut(path, cuts, a, rest) <=>
              \E k \in 0..Len(rest) :
                /\ <<slug, Upto(rest, k)>> \in takes
                /\ ToCut(path, cuts, a + 1, After(rest, k))
  BY <1>4, <1>5, <1>6
<1> QED BY <1>7 DEF slug, SlugSplits

-----------------------------------------------------------------------------
(* One call in an unambiguous tree                                         *)

\* What Unambiguous says of a node of a tree.
ClearNode(tree, n) ==
    \/ \A i \in 1..Len(tree[n].edges) : ~HasSlug(tree[n].edges[i].pattern)
    \/ /\ Len(tree[n].edges) = 1
       /\ tree[n].compare_type = "OPCODE"
       /\ LET edge == tree[n].edges[1] IN
          /\ edge.opcode # "GREEDY"
          /\ \A i \in 1..Len(tree[edge.child].edges) :
                tree[edge.child].edges[i].pattern[1]
                    \in Literals \ Accepts[edge.opcode]

Clear(tree) == \A n \in 1..Len(tree) : ClearNode(tree, n)

LiteralsOnly(tree, n) ==
    \A i \in 1..Len(tree[n].edges) :
        /\ ~HasSlug(tree[n].edges[i].pattern)
        /\ tree[n].edges[i].opcode = "NONE"

SlugAlone(tree, n, slug) ==
    LET edge == tree[n].edges[1] IN
    /\ Len(tree[n].edges) = 1
    /\ tree[n].compare_type = "OPCODE"
    /\ edge.pattern = <<slug>>
    /\ edge.opcode = SlugOpcode[slug]
    /\ SlugOpcode[slug] \notin {"NONE", "GREEDY"}
    /\ \A i \in 1..Len(tree[edge.child].edges) :
        tree[edge.child].edges[i].pattern[1]
            \in Literals \ Accepts[SlugOpcode[slug]]

\* A slug has a slug.
LEMMA SlugHasSlug ==
    ASSUME NEW slug \in Slugs
    PROVE  HasSlug(<<slug>>)
<1>1. Len(<<slug>>) = 1 /\ <<slug>>[1] = slug
  OBVIOUS
<1> QED BY <1>1 DEF HasSlug, SlugPositions

\* The edges of a clear node are literals, or one slug the matcher knows.
LEMMA ClearCases ==
    ASSUME NEW tree, NEW sp, Shape(tree, sp), Sound(tree), NEW n \in 1..Len(tree),
           ClearNode(tree, n)
    PROVE  LiteralsOnly(tree, n) \/ \E slug \in Slugs : SlugAlone(tree, n, slug)
<1>1. NodeSound(tree[n])
  BY DEF Sound
<1>2. CASE \A i \in 1..Len(tree[n].edges) : ~HasSlug(tree[n].edges[i].pattern)
  <2>1. ASSUME NEW i \in 1..Len(tree[n].edges)
        PROVE  tree[n].edges[i].opcode = "NONE"
    <3>1. OpcodeFits(tree[n].edges[i].pattern, tree[n].edges[i].opcode)
      BY <1>1 DEF NodeSound, EdgeSound
    <3> QED BY <3>1, <1>2, SlugHasSlug DEF OpcodeFits
  <2> QED BY <2>1, <1>2 DEF LiteralsOnly
<1>3. CASE ~(\A i \in 1..Len(tree[n].edges) : ~HasSlug(tree[n].edges[i].pattern))
  <2> DEFINE edge == tree[n].edges[1]
  <2>1. /\ Len(tree[n].edges) = 1 /\ tree[n].compare_type = "OPCODE"
        /\ edge.opcode # "GREEDY"
        /\ \A i \in 1..Len(tree[edge.child].edges) :
                tree[edge.child].edges[i].pattern[1]
                    \in Literals \ Accepts[edge.opcode]
    BY <1>3 DEF ClearNode
  <2>2. edge.opcode # "NONE" /\ OpcodeFits(edge.pattern, edge.opcode)
    <3>1. PICK i \in 1..Len(tree[n].edges) : tree[n].edges[i].opcode # "NONE"
      BY <2>1, <1>1 DEF NodeSound
    <3>2. i = 1
      <4>1. Len(tree[n].edges) = 1
        BY <2>1
      <4> HIDE <2>1
      <4> QED BY <4>1
    <3> QED BY <3>1, <3>2, <1>1 DEF NodeSound, EdgeSound
  <2>3. PICK slug \in Slugs : edge.pattern = <<slug>> /\ edge.opcode = SlugOpcode[slug]
    BY <2>2 DEF OpcodeFits
  <2>4. SlugAlone(tree, n, slug)
    BY <2>1, <2>2, <2>3 DEF SlugAlone
  <2> QED BY <2>4
<1> QED BY <1>2, <1>3

\* An edge consumes the first k characters of the rest.
Crosses(edge, rest, k) ==
    /\ k \in 1..Len(rest)
    /\ \/ /\ ~HasSlug(edge.pattern)
          /\ k = Len(edge.pattern) /\ IsPrefix(edge.pattern, rest)
       \/ HasSlug(edge.pattern) /\ k = RunLength(edge.opcode, rest)

\* The first character of an edge that is crossed.
LEMMA CrossedBegins ==
    ASSUME NEW edge, edge.pattern \in Seq(Token), ~HasSlug(edge.pattern),
           NEW rest \in Seq(Literals), NEW k, Crosses(edge, rest, k)
    PROVE  edge.pattern[1] = rest[1]
<1>1. /\ k \in 1..Len(rest) /\ k = Len(edge.pattern) /\ Len(rest) \in Nat
      /\ \A i \in 1..Len(edge.pattern) : edge.pattern[i] = rest[i]
  BY PrefixByCharacter, LenProperties DEF Crosses
<1> QED BY <1>1

\* At most one edge of a clear node can be crossed, in one way.
LEMMA CrossesOnce ==
    ASSUME NEW tree, NEW sp, Shape(tree, sp), Sound(tree), NEW n \in 1..Len(tree),
           ClearNode(tree, n), NEW rest \in Seq(Literals),
           NEW i \in 1..Len(tree[n].edges), NEW j \in 1..Len(tree[n].edges),
           NEW k, Crosses(tree[n].edges[i], rest, k),
           NEW l, Crosses(tree[n].edges[j], rest, l)
    PROVE  i = j /\ k = l
<1>1. i = j
  <2>1. CASE LiteralsOnly(tree, n)
    <3>1. tree[n].edges[i].pattern \in Seq(Token) /\ tree[n].edges[j].pattern \in Seq(Token)
      BY EdgeDown
    <3>2. tree[n].edges[i].pattern[1] = rest[1] /\ tree[n].edges[j].pattern[1] = rest[1]
      BY <2>1, <3>1, CrossedBegins DEF LiteralsOnly
    <3>3. FirstsDiffer(tree[n].edges)
      BY DEF Sound, NodeSound
    <3> QED BY <3>2, <3>3 DEF FirstsDiffer
  <2>2. CASE \E slug \in Slugs : SlugAlone(tree, n, slug)
    <3>1. Len(tree[n].edges) = 1
      BY <2>2 DEF SlugAlone
    <3> QED BY <3>1
  <2> QED BY <2>1, <2>2, ClearCases
<1>2. k = l
  BY <1>1 DEF Crosses
<1> QED BY <1>1, <1>2

\* The edge the opcode loop of a clear node takes.
LEMMA ClearOpcodeEdge ==
    ASSUME NEW tree, NEW sp, Shape(tree, sp), Sound(tree), NEW n \in 1..Len(tree),
           ClearNode(tree, n), NEW rest \in Seq(Literals)
    PROVE  LET i == OpcodeEdge(tree[n], rest) IN
           /\ LiteralsOnly(tree, n) => i = 0
           /\ \A slug \in Slugs : SlugAlone(tree, n, slug) =>
                i = IF RunLength(SlugOpcode[slug], rest) > 0 THEN 1 ELSE 0
<1> DEFINE i == OpcodeEdge(tree[n], rest)
<1>1. tree[n] \in Node /\ NodeSound(tree[n])
  BY ShapeOfNode DEF Sound
<1>2. i # 0 => /\ i \in 1..Len(tree[n].edges)
               /\ \/ tree[n].edges[i].opcode = "GREEDY"
                  \/ RunLength(tree[n].edges[i].opcode, rest) > 0
               /\ \E slug \in Slugs : tree[n].edges[i].pattern = <<slug>>
  BY <1>1, OpcodeEdgeIsSlug
<1>3. LiteralsOnly(tree, n) => i = 0
  BY <1>2, SlugHasSlug DEF LiteralsOnly
<1>4. ASSUME NEW slug \in Slugs, SlugAlone(tree, n, slug)
      PROVE  i = IF RunLength(SlugOpcode[slug], rest) > 0 THEN 1 ELSE 0
  <2> DEFINE edges == tree[n].edges
             Wins(k) == \/ edges[k].opcode = "GREEDY"
                        \/ RunLength(edges[k].opcode, rest) > 0
             I == {k \in 1..Len(edges) : Wins(k)}
  <2>1. i = IF I # {} THEN Min(I) ELSE 0
    BY <1>4 DEF OpcodeEdge, SelectInSeq, SlugAlone
  <2>2. Wins(1) <=> RunLength(SlugOpcode[slug], rest) > 0
    BY <1>4 DEF SlugAlone
  <2>3. I \subseteq {1} /\ (1 \in I <=> RunLength(SlugOpcode[slug], rest) > 0)
    <3>1. Len(edges) = 1
      BY <1>4 DEF SlugAlone
    <3> HIDE DEF Wins, edges
    <3> QED BY <3>1, <2>2
  <2> HIDE DEF I
  <2>4. I # {} => Min(I) \in I
    <3>1. I \subseteq Nat
      BY <2>3
    <3> QED BY <3>1, LeastNatural
  <2> QED BY <2>1, <2>3, <2>4
<1> QED BY <1>3, <1>4

\* The call crosses an edge to the child, behind k characters of its rest.
Goes(tree, e, new, child, k) ==
    IF k < Len(e.rest)
    THEN new.pc = "walk" /\ new.node = child /\ new.rest = After(e.rest, k)
    ELSE IF tree[child].endpoint > 0 THEN new.pc = "node" /\ new.node = child
                                     ELSE new.pc = "nil"

\* At the end of the path no edge of a clear node consumes anything.
LEMMA NoOpcodeAtEnd ==
    ASSUME NEW tree, NEW sp, Shape(tree, sp), Sound(tree), NEW n \in 1..Len(tree),
           ClearNode(tree, n)
    PROVE  OpcodeEdge(tree[n], <<>>) = 0
<1>1. <<>> \in Seq(Literals) /\ Len(<<>>) = 0
  OBVIOUS
<1>2. ASSUME NEW opcode
      PROVE  RunLength(opcode, <<>>) = 0
  <2>1. RunLength(opcode, <<>>) \in 0..Len(<<>>)
    BY <1>1, RunInText
  <2> QED BY <2>1, <1>1
<1>3. CASE LiteralsOnly(tree, n)
  BY <1>1, <1>3, ClearOpcodeEdge
<1>4. ASSUME NEW slug \in Slugs, SlugAlone(tree, n, slug)
      PROVE  OpcodeEdge(tree[n], <<>>) = 0
  <2>1. ~(RunLength(SlugOpcode[slug], <<>>) > 0)
    BY <1>2
  <2> QED BY <1>1, <1>4, <2>1, ClearOpcodeEdge
<1> QED BY <1>3, <1>4, ClearCases

\* r3_node_find_edge_str finds the edge that can be crossed.
LEMMA LiteralEdgeCrosses ==
    ASSUME NEW tree, NEW sp, Shape(tree, sp), Sound(tree), NEW n \in 1..Len(tree),
           LiteralsOnly(tree, n), NEW rest \in Seq(Literals)
    PROVE  LET i == LiteralEdge(tree[n], rest) IN
           /\ i # 0 => /\ i \in 1..Len(tree[n].edges)
                       /\ Crosses(tree[n].edges[i], rest, Len(tree[n].edges[i].pattern))
           /\ \A j \in 1..Len(tree[n].edges) : \A k :
                Crosses(tree[n].edges[j], rest, k) => i = j
<1> DEFINE edges == tree[n].edges
           i == LiteralEdge(tree[n], rest)
           I == {j \in 1..Len(edges) : rest # <<>> /\ edges[j].pattern[1] = rest[1]}
           first == IF I # {} THEN Min(I) ELSE 0
<1>1. tree[n] \in Node /\ Len(edges) \in Nat /\ Len(rest) \in Nat
  BY ShapeOfNode, LenProperties
<1>2. ASSUME i # 0
      PROVE  i \in 1..Len(edges) /\ Crosses(edges[i], rest, Len(edges[i].pattern))
  <2>1. i \in 1..Len(edges) /\ IsPrefix(edges[i].pattern, rest)
    BY <1>1, <1>2, LiteralEdgeBegins
  <2> HIDE DEF i
  <2>2. edges[i].pattern \in Seq(Token) /\ Len(edges[i].pattern) \in Nat \ {0}
    BY <2>1, EdgeDown
  <2>3. Len(edges[i].pattern) \in 1..Len(rest)
    BY <2>1, <2>2, <1>1, PrefixByCharacter
  <2>4. ~HasSlug(edges[i].pattern)
    BY <2>1 DEF LiteralsOnly
  <2> QED BY <2>1, <2>3, <2>4 DEF Crosses
<1>3. ASSUME NEW j \in 1..Len(edges), NEW k, Crosses(edges[j], rest, k)
      PROVE  i = j
  <2>1. edges[j].pattern \in Seq(Token) /\ ~HasSlug(edges[j].pattern)
    BY EdgeDown DEF LiteralsOnly
  <2>2. edges[j].pattern[1] = rest[1] /\ rest # <<>> /\ IsPrefix(edges[j].pattern, rest)
    <3>1. edges[j].pattern[1] = rest[1]
      BY <2>1, <1>3, CrossedBegins
    <3>2. k \in 1..Len(rest) /\ IsPrefix(edges[j].pattern, rest)
      BY <2>1, <1>3 DEF Crosses
    <3>3. rest # <<>>
      BY <3>2
    <3> QED BY <3>1, <3>2, <3>3
  <2>3. first \in I
    <3>1. I \subseteq Nat /\ I # {}
      BY <2>2, <1>1
    <3> HIDE DEF I
    <3> QED BY <3>1, LeastNatural
  <2>4. FirstsDiffer(edges)
    BY DEF Sound, NodeSound
  <2>5. first = j
    <3> HIDE DEF first
    <3> QED BY <2>2, <2>3, <2>4 DEF FirstsDiffer
  <2>6. i = IF first # 0 /\ IsPrefix(edges[first].pattern, rest) THEN first ELSE 0
    BY Zenon DEF LiteralEdge, SelectInSeq
  <2> HIDE DEF first
  <2> QED BY <2>2, <2>5, <2>6, <1>1
<1> QED BY <1>2, <1>3

\* A call on a clear node crosses the edge that can be crossed, or fails.
LEMMA ClearStep ==
    ASSUME NEW tree, NEW sp, Shape(tree, sp), Sound(tree), Clear(tree),
           NEW e \in EntryIn(Len(tree)), e.pc = "walk"
    PROVE  LET new == WalkStep(tree, e)
               edges == tree[e.node].edges
           IN \/ \E i \in 1..Len(edges), k \in 1..Len(e.rest) :
                    /\ Crosses(edges[i], e.rest, k)
                    /\ Goes(tree, e, new, edges[i].child, k)
              \/ /\ new.pc = "nil"
                 /\ \A i \in 1..Len(edges) : \A k : ~Crosses(edges[i], e.rest, k)
<1> DEFINE n == e.node
           rest == e.rest
           edges == tree[n].edges
           opcodeEdge == OpcodeEdge(tree[n], rest)
           literalEdge == LiteralEdge(tree[n], rest)
           new == WalkStep(tree, e)
           Outcome == \/ \E i \in 1..Len(edges), l \in 1..Len(rest) :
                            /\ Crosses(edges[i], rest, l)
                            /\ Goes(tree, e, new, edges[i].child, l)
                      \/ /\ new.pc = "nil"
                         /\ \A i \in 1..Len(edges) : \A l : ~Crosses(edges[i], rest, l)
<1>1. /\ n \in 1..Len(tree) /\ rest \in Seq(Literals) /\ Len(rest) \in Nat
      /\ ClearNode(tree, n)
  BY LenProperties DEF EntryIn, Clear
<1>2. new = IF opcodeEdge # 0 THEN OpcodeStep(tree, e, opcodeEdge)
            ELSE IF literalEdge # 0 THEN LiteralStep(tree, e, literalEdge)
            ELSE [e EXCEPT !.pc = "nil", !.rest = <<>>]
  BY DEF WalkStep
<1>3. \A child \in 1..Len(tree), f \in EntryIn(Len(tree)) :
        IF tree[child].endpoint > 0
        THEN Arrive(tree, f, child).pc = "node" /\ Arrive(tree, f, child).node = child
        ELSE Arrive(tree, f, child).pc = "nil"
  BY DEF Arrive, EntryIn
<1>4. ASSUME LiteralsOnly(tree, n)
      PROVE  Outcome
  <2>1. opcodeEdge = 0
    BY <1>1, <1>4, ClearOpcodeEdge
  <2>2. CASE literalEdge # 0
    <3> DEFINE k == Len(edges[literalEdge].pattern)
               child == edges[literalEdge].child
    <3>1. /\ literalEdge \in 1..Len(edges)
          /\ Crosses(edges[literalEdge], rest, k)
      BY <1>1, <1>4, <2>2, LiteralEdgeCrosses
    <3>2. /\ k \in 1..Len(rest)
      BY <3>1 DEF Crosses
    <3>3. child \in 1..Len(tree)
      BY <1>1, <3>1, EdgeDown
    <3>4. OpcodeEdge(tree[child], <<>>) = 0
      BY <3>3, NoOpcodeAtEnd DEF Clear
    <3>5. new = IF k < Len(rest) THEN GoOn(e, child, After(rest, k))
                ELSE EndStep(tree, e, child)
      BY <1>2, <2>1, <2>2 DEF LiteralStep
    <3>6. EndStep(tree, e, child) = Arrive(tree, e, child)
      BY <3>4 DEF EndStep
    <3> HIDE DEF literalEdge, k, child, new
    <3>7. /\ GoOn(e, child, After(rest, k)).pc = "walk"
          /\ GoOn(e, child, After(rest, k)).node = child
          /\ GoOn(e, child, After(rest, k)).rest = After(rest, k)
      BY DEF GoOn, EntryIn
    <3>8. Goes(tree, e, new, child, k)
      BY <1>3, <3>3, <3>5, <3>6, <3>7 DEF Goes
    <3> QED BY <3>1, <3>2, <3>8 DEF child
  <2>3. CASE literalEdge = 0
    <3>1. new.pc = "nil"
      BY <1>2, <2>1, <2>3 DEF EntryIn
    <3>2. \A i \in 1..Len(edges) : \A k : ~Crosses(edges[i], rest, k)
      <4>1. Len(edges) \in Nat
        BY <1>1, ShapeOfNode, LenProperties
      <4>2. ASSUME NEW i \in 1..Len(edges), NEW k, Crosses(edges[i], rest, k)
            PROVE  FALSE
        <5>1. literalEdge = i
          BY <1>1, <1>4, <4>2, LiteralEdgeCrosses
        <5> QED BY <5>1, <4>1, <2>3
      <4> QED BY <4>2
    <3> QED BY <3>1, <3>2
  <2> QED BY <2>2, <2>3
<1>5. ASSUME NEW slug \in Slugs, SlugAlone(tree, n, slug)
      PROVE  Outcome
  <2> DEFINE run == RunLength(SlugOpcode[slug], rest)
             child == edges[1].child
  <2>1. opcodeEdge = IF run > 0 THEN 1 ELSE 0
    BY <1>1, <1>5, ClearOpcodeEdge
  <2>2. run \in 0..Len(rest)
    BY <1>1, RunInText
  <2>3. /\ Len(edges) = 1 /\ edges[1].opcode = SlugOpcode[slug]
        /\ edges[1].pattern = <<slug>> /\ HasSlug(edges[1].pattern)
    BY <1>5, SlugHasSlug DEF SlugAlone
  <2>4. CASE run > 0
    <3>1. run \in 1..Len(rest) /\ Crosses(edges[1], rest, run)
      BY <2>2, <2>3, <2>4 DEF Crosses
    <3>2. child \in 1..Len(tree)
      BY <1>1, <2>3, EdgeDown
    <3> DEFINE taken == [e EXCEPT !.tokens = Append(@, Upto(rest, run))]
    <3>3. new = IF run = Len(rest) THEN Arrive(tree, taken, child)
                ELSE GoOn(taken, child, After(rest, run))
      BY <1>2, <2>1, <2>3, <2>4 DEF OpcodeStep
    <3>4. taken \in EntryIn(Len(tree)) /\ taken.pc = "walk"
      <4>1. Upto(rest, run) \in Seq(Literals)
        BY <1>1, <2>2, CutRest
      <4>2. e.tokens \in Seq(Seq(Literals))
        BY DEF EntryIn
      <4>3. Append(e.tokens, Upto(rest, run)) \in Seq(Seq(Literals))
        BY <4>1, <4>2
      <4> HIDE DEF run, rest
      <4> QED BY <4>3 DEF EntryIn
    <3> HIDE DEF taken, child, run, new
    <3>5. /\ GoOn(taken, child, After(rest, run)).pc = "walk"
          /\ GoOn(taken, child, After(rest, run)).node = child
          /\ GoOn(taken, child, After(rest, run)).rest = After(rest, run)
      BY <3>4 DEF GoOn, EntryIn
    <3>6. Goes(tree, e, new, child, run)
      <4>1. run < Len(rest) \/ run = Len(rest)
        BY <2>2
      <4>2. ASSUME run = Len(rest)
            PROVE  Goes(tree, e, new, child, run)
        BY <4>2, <1>1, <1>3, <3>2, <3>3, <3>4 DEF Goes
      <4>3. ASSUME run < Len(rest)
            PROVE  Goes(tree, e, new, child, run)
        BY <4>3, <1>1, <3>3, <3>5 DEF Goes
      <4> QED BY <4>1, <4>2, <4>3
    <3> QED BY <3>1, <3>6, <2>3 DEF child
  <2>5. CASE ~(run > 0)
    <3>1. literalEdge = 0
      <4> SUFFICES ASSUME literalEdge # 0
                   PROVE  FALSE
        OBVIOUS
      <4>1. /\ literalEdge \in 1..Len(edges)
            /\ IsPrefix(edges[literalEdge].pattern, rest)
        BY <1>1, ShapeOfNode, LiteralEdgeBegins
      <4>2. literalEdge = 1
        BY <4>1, <2>3
      <4>3. <<slug>> \in Seq(Token) /\ Len(<<slug>>) = 1 /\ <<slug>>[1] = slug
        BY DEF Token
      <4>4. Len(rest) >= 1 /\ rest[1] = slug
        BY <4>1, <4>2, <4>3, <2>3, <1>1, PrefixByCharacter
      <4>5. rest[1] \in Literals
        BY <4>4, <1>1
      <4> QED BY <4>4, <4>5, TokensDistinct
    <3>2. new.pc = "nil"
      BY <1>2, <2>1, <2>5, <3>1 DEF EntryIn
    <3>3. \A i \in 1..Len(edges) : \A k : ~Crosses(edges[i], rest, k)
      <4> SUFFICES ASSUME NEW i \in 1..Len(edges), NEW k, Crosses(edges[i], rest, k)
                   PROVE  FALSE
        OBVIOUS
      <4>1. i = 1
        BY <2>3
      <4>2. k \in 1..Len(rest) /\ k = run
        BY <4>1, <2>3 DEF Crosses
      <4> QED BY <4>2, <2>5
    <3> QED BY <3>2, <3>3
  <2> QED BY <2>4, <2>5
<1> QED BY <1>1, <1>4, <1>5, ClearCases

\* A text that begins with b = a \o q has q behind a.
Continues(a, q, b, text) ==
    /\ q \in Seq(Token) /\ Len(q) \in Nat \ {0} /\ Len(a) \in Nat
    /\ Len(b) = Len(a) + Len(q) /\ Len(a) + Len(q) <= Len(text)
    /\ \A l \in 1..Len(q) : q[l] = text[Len(a) + l]
    /\ Prefix(a, text)

\* A text continues behind a node with the pattern of the edge to its child.
LEMMA ChildPattern ==
    ASSUME NEW tree, NEW sp, Shape(tree, sp), NEW m \in 1..Len(tree),
           NEW i \in 1..Len(tree[m].edges), NEW text \in Seq(Token),
           Prefix(sp[tree[m].edges[i].child], text)
    PROVE  LET edge == tree[m].edges[i] IN
           /\ edge.child \in 1..Len(tree)
           /\ Continues(sp[m], edge.pattern, sp[edge.child], text)
<1> DEFINE edge == tree[m].edges[i]
           q == edge.pattern
           a == sp[m]
           b == sp[edge.child]
<1>1. /\ q \in Seq(Token) /\ Len(q) \in Nat \ {0} /\ edge.child \in 1..Len(tree)
      /\ a \in Seq(Token) /\ Len(a) \in Nat
  <2>1. q \in Seq(Token) /\ Len(q) \in Nat \ {0} /\ edge.child \in 1..Len(tree)
    BY EdgeDown
  <2>2. a \in Seq(Token)
    BY ShapeOfNode
  <2> HIDE DEF q, a, edge
  <2> QED BY <2>1, <2>2
<1>2. b = a \o q
  <2>1. Spells(tree[m], sp[m], sp)
    BY ShapeOfNode
  <2> QED BY <2>1 DEF Spells
<1>3. Len(b) <= Len(text) /\ \A l \in 1..Len(b) : b[l] = text[l]
  BY DEF Prefix
<1> HIDE DEF q, a, b
<1>4. Len(b) = Len(a) + Len(q)
  BY <1>1, <1>2
<1>5. /\ \A l \in 1..Len(q) : Len(a) + l \in 1..Len(b) /\ b[Len(a) + l] = q[l]
      /\ \A l \in 1..Len(a) : l \in 1..Len(b) /\ b[l] = a[l]
  <2>1. \A l \in 1..(Len(a) + Len(q)) :
            b[l] = IF l <= Len(a) THEN a[l] ELSE q[l - Len(a)]
    BY <1>1, <1>2, ConcatProperties
  <2>2. \A l \in 1..Len(q) : /\ Len(a) + l \in 1..(Len(a) + Len(q))
                             /\ Len(a) + l > Len(a) /\ (Len(a) + l) - Len(a) = l
    BY <1>1
  <2>3. ASSUME NEW l \in 1..Len(q)
        PROVE  b[Len(a) + l] = q[l]
    <3>1. /\ Len(a) + l \in 1..(Len(a) + Len(q)) /\ ~(Len(a) + l <= Len(a))
          /\ (Len(a) + l) - Len(a) = l
      BY <1>1
    <3>2. b[Len(a) + l] = q[(Len(a) + l) - Len(a)]
      BY <3>1, <2>1
    <3> QED BY <3>1, <3>2
  <2>4. \A l \in 1..Len(a) : l \in 1..(Len(a) + Len(q)) /\ l <= Len(a)
    BY <1>1
  <2>5. \A l \in 1..Len(a) : b[l] = a[l]
    BY <2>1, <2>4
  <2> QED BY <2>2, <2>3, <2>4, <2>5, <1>4
<1>6. Len(text) \in Nat
  BY LenProperties
<1>7. \A l \in 1..Len(q) : q[l] = text[Len(a) + l]
  BY <1>3, <1>5
<1>8. Prefix(a, text)
  BY <1>1, <1>3, <1>4, <1>5, <1>6 DEF Prefix
<1>9. Continues(a, q, b, text)
  BY <1>1, <1>3, <1>4, <1>7, <1>8 DEF Continues
<1> QED BY <1>1, <1>9 DEF q, a, b

\* The run of an opcode is the only one that ends where it does.
LEMMA RunIs ==
    ASSUME NEW opcode, NEW text \in Seq(Literals), NEW k \in 0..Len(text),
           \A i \in 1..k : text[i] \in Accepts[opcode],
           k < Len(text) => text[k+1] \notin Accepts[opcode]
    PROVE  RunLength(opcode, text) = k
<1> DEFINE run == RunLength(opcode, text)
<1>1. /\ run \in 0..Len(text)
      /\ \A i \in 1..run : text[i] \in Accepts[opcode]
      /\ run < Len(text) => text[run+1] \notin Accepts[opcode]
  BY RunExists DEF RunLength
<1>2. Len(text) \in Nat
  BY LenProperties
<1> HIDE DEF run
<1>3. ~(run < k)
  <2> SUFFICES ASSUME run < k
               PROVE  FALSE
    OBVIOUS
  <2>1. run + 1 \in 1..k /\ run < Len(text)
    BY <1>1, <1>2
  <2> QED BY <2>1, <1>1
<1>4. ~(k < run)
  <2> SUFFICES ASSUME k < run
               PROVE  FALSE
    OBVIOUS
  <2>1. k + 1 \in 1..run /\ k < Len(text)
    BY <1>1, <1>2
  <2> QED BY <2>1, <1>1
<1> QED BY <1>1, <1>2, <1>3, <1>4 DEF run

\* A rest a route is meant for begins with the pattern of a literal edge to it.
LEMMA LiteralEdgeCut ==
    ASSUME NEW takes, NEW tree, NEW sp, Shape(tree, sp), NEW m \in 1..Len(tree),
           NEW i \in 1..Len(tree[m].edges), ~HasSlug(tree[m].edges[i].pattern),
           NEW text \in Seq(Token), Prefix(sp[tree[m].edges[i].child], text),
           NEW path \in Seq(Literals), NEW cuts, Cut(takes, text, path, cuts),
           NEW rest \in Seq(Literals), Remains(path, rest)
    PROVE  LET edge == tree[m].edges[i]
               k == Len(edge.pattern)
           IN ToCut(path, cuts, Len(sp[m]), rest) <=>
                /\ IsPrefix(edge.pattern, rest)
                /\ ToCut(path, cuts, Len(sp[edge.child]), After(rest, k))
<1> DEFINE edge == tree[m].edges[i]
           q == edge.pattern
           a == Len(sp[m])
<1>1. /\ q \in Seq(Token) /\ a \in Nat /\ a + Len(q) <= Len(text)
      /\ Len(sp[edge.child]) = a + Len(q)
      /\ \A l \in 1..Len(q) : q[l] = text[a + l]
  <2>1. Continues(sp[m], q, sp[edge.child], text)
    BY ChildPattern
  <2> QED BY <2>1 DEF Continues
<1>2. \A l \in 1..Len(q) : q[l] \notin Slugs
  BY DEF HasSlug, SlugPositions
<1> HIDE DEF q, a
<1>3. ToCut(path, cuts, a, rest) <=>
        IsPrefix(q, rest) /\ ToCut(path, cuts, a + Len(q), After(rest, Len(q)))
  BY <1>1, <1>2, LiteralsCut
<1> QED BY <1>1, <1>3 DEF q, a

\* A slug edge takes some of the first characters.
LEMMA SlugEdgeCut ==
    ASSUME NEW takes, NEW tree, NEW sp, Shape(tree, sp), NEW m \in 1..Len(tree),
           NEW i \in 1..Len(tree[m].edges), NEW slug \in Slugs,
           tree[m].edges[i].pattern = <<slug>>,
           NEW text \in Seq(Token), Prefix(sp[tree[m].edges[i].child], text),
           NEW path \in Seq(Literals), NEW cuts, Cut(takes, text, path, cuts),
           NEW rest \in Seq(Literals), Remains(path, rest)
    PROVE  SlugSplits(takes, path, cuts, Len(sp[m]),
                      Len(sp[tree[m].edges[i].child]), slug, rest)
<1> DEFINE a == Len(sp[m])
           b == Len(sp[tree[m].edges[i].child])
<1>1. /\ a \in Nat /\ a + Len(<<slug>>) <= Len(text) /\ b = a + Len(<<slug>>)
      /\ \A l \in 1..Len(<<slug>>) : <<slug>>[l] = text[a + l]
  <2>1. Continues(sp[m], tree[m].edges[i].pattern, sp[tree[m].edges[i].child], text)
    BY ChildPattern
  <2> QED BY <2>1 DEF Continues
<1>2. Len(<<slug>>) = 1 /\ 1 \in 1..1 /\ <<slug>>[1] = slug /\ Len(text) \in Nat
  BY LenProperties
<1>3. a < Len(text) /\ b = a + 1 /\ text[a + 1] = slug
  BY <1>1, <1>2
<1> HIDE DEF a, b
<1>4. SlugSplits(takes, path, cuts, a, a + 1, text[a + 1], rest)
  BY <1>1, <1>3, SlugCut
<1>5. SlugSplits(takes, path, cuts, a, b, slug, rest)
  BY <1>3, <1>4
<1> QED BY <1>5 DEF a, b

\* A slug whose opcode is not greedy takes nothing but accepted characters, and
\* at least one.
LEMMA SlugTakes ==
    ASSUME NEW slug \in Slugs, SlugOpcode[slug] # "GREEDY",
           NEW rest \in Seq(Literals), NEW k \in 0..Len(rest)
    PROVE  <<slug, Upto(rest, k)>> \in Taken <=>
              k > 0 /\ \A i \in 1..k : rest[i] \in Accepts[SlugOpcode[slug]]
<1>1. /\ Upto(rest, k) \in Seq(Literals) /\ Len(Upto(rest, k)) = k
      /\ \A i \in 1..k : Upto(rest, k)[i] = rest[i]
  BY CutRest
<1>2. Upto(rest, k) = <<>> <=> ~(k > 0)
  <2>1. Len(<<>>) = 0 /\ k \in Nat
    OBVIOUS
  <2>2. Upto(rest, k) # <<>> => Len(Upto(rest, k)) \in Nat \ {0}
    BY <1>1, EmptySeq
  <2> HIDE <1>1
  <2>3. Len(Upto(rest, k)) = k
    BY <1>1
  <2> QED BY <2>1, <2>2, <2>3
<1>3. <<slug, Upto(rest, k)>> \in Taken <=> Takes(slug, Upto(rest, k))
  BY <1>1 DEF Taken
<1> QED BY <1>1, <1>2, <1>3 DEF Takes

\* A rest goes on, and with the first token of q if that is a literal.
Begins(rest, q) == rest # <<>> /\ (q[1] \in Literals => rest[1] = q[1])

\* No slug of the tree takes the empty text.
NeverEmpty(takes, tree) ==
    \A m \in 1..Len(tree) : \A i \in 1..Len(tree[m].edges) :
        \A l \in 1..Len(tree[m].edges[i].pattern) :
            <<tree[m].edges[i].pattern[l], <<>>>> \notin takes

\* A rest that can be cut goes on with an edge of the node.
LEMMA GoesOnWith ==
    ASSUME NEW takes, NEW tree, NEW sp, Shape(tree, sp), NeverEmpty(takes, tree),
           NEW m \in 1..Len(tree), NEW i \in 1..Len(tree[m].edges),
           NEW text \in Seq(Token), Prefix(sp[tree[m].edges[i].child], text),
           NEW path \in Seq(Literals), NEW cuts, Cut(takes, text, path, cuts),
           NEW rest \in Seq(Literals), Remains(path, rest),
           ToCut(path, cuts, Len(sp[m]), rest)
    PROVE  Begins(rest, tree[m].edges[i].pattern)
<1> DEFINE q == tree[m].edges[i].pattern
           a == Len(sp[m])
<1>1. /\ q \in Seq(Token) /\ Len(q) \in Nat \ {0} /\ a \in Nat
      /\ a + Len(q) <= Len(text) /\ \A l \in 1..Len(q) : q[l] = text[a + l]
  <2>1. Continues(sp[m], q, sp[tree[m].edges[i].child], text)
    BY ChildPattern
  <2> QED BY <2>1 DEF Continues
<1>2. /\ 1 \in 1..Len(q) /\ q[1] = text[a + 1] /\ a < Len(text) /\ a + 1 <= Len(text)
      /\ Len(text) \in Nat /\ Len(rest) \in Nat
  <2>1. Len(text) \in Nat /\ Len(rest) \in Nat
    BY LenProperties
  <2> HIDE DEF q, a
  <2>2. 1 \in 1..Len(q) /\ a < Len(text) /\ a + 1 <= Len(text)
    BY <1>1, <2>1
  <2>3. q[1] = text[a + 1]
    BY <1>1, <2>2
  <2> QED BY <2>1, <2>2, <2>3
<1>3. <<q[1], <<>>>> \notin takes
  BY <1>2 DEF NeverEmpty
<1>4. q[1] \in Token
  BY <1>1, <1>2
<1> HIDE DEF q, a
<1>5. CASE q[1] \in Slugs
  <2>1. PICK k \in 0..Len(rest) : <<text[a + 1], Upto(rest, k)>> \in takes
    <3>1. ToCut(path, cuts, a, rest) /\ text[a + 1] \in Slugs
      BY <1>2, <1>5 DEF a
    <3>2. a \in Nat /\ a < Len(text)
      BY <1>1, <1>2
    <3>3. \E k \in 0..Len(rest) :
            /\ <<text[a + 1], Upto(rest, k)>> \in takes
            /\ ToCut(path, cuts, a + 1, After(rest, k))
      <4>1. SlugSplits(takes, path, cuts, a, a + 1, text[a + 1], rest)
        BY <3>1, <3>2, SlugCut
      <4> QED BY <3>1, <4>1 DEF SlugSplits
    <3> QED BY <3>3
  <2>2. rest # <<>>
    <3> SUFFICES ASSUME rest = <<>>
                 PROVE  FALSE
      OBVIOUS
    <3>1. Upto(rest, k) \in Seq(Literals) /\ Len(Upto(rest, k)) = k /\ k = 0
      <4>1. Len(rest) = 0
        OBVIOUS
      <4>2. k = 0
        BY <4>1
      <4> QED BY <4>2, CutRest
    <3>2. Upto(rest, k) = <<>>
      BY <3>1, EmptySeq
    <3> QED BY <3>2, <2>1, <1>2, <1>3
  <2> QED BY <2>2, <1>5, TokensDistinct DEF q, Begins
<1>6. CASE q[1] \notin Slugs
  <2> DEFINE first == <<q[1]>>
  <2>1. /\ first \in Seq(Token) /\ Len(first) = 1
        /\ \A l \in 1..Len(first) : first[l] = q[1] /\ l = 1
    BY <1>4
  <2>2. ToCut(path, cuts, a, rest)
    BY DEF a
  <2> HIDE DEF first
  <2>3. IsPrefix(first, rest)
    <3>1. \A l \in 1..Len(first) : first[l] = text[a + l] /\ first[l] \notin Slugs
      BY <2>1, <1>2, <1>6
    <3>2. a + Len(first) <= Len(text)
      BY <2>1, <1>2
    <3> QED BY <2>1, <2>2, <3>1, <3>2, <1>1, LiteralsCut
  <2>4. Len(first) <= Len(rest) /\ first[1] = rest[1]
    <3>1. 1 \in 1..Len(first)
      BY <2>1
    <3>2. Len(first) <= Len(rest) /\ \A l \in 1..Len(first) : first[l] = rest[l]
      BY <2>1, <2>3, PrefixByCharacter
    <3> QED BY <3>1, <3>2
  <2>5. rest[1] = q[1] /\ Len(rest) # 0
    BY <2>1, <2>4, <1>2
  <2>6. rest # <<>>
    BY <2>5
  <2> QED BY <2>5, <2>6 DEF q, Begins
<1> QED BY <1>5, <1>6

\* What the next lemmas are about: node n of a tree, and a path with the places
\* its text can cut it at.
Cuttable(takes, tree, sp, n, path, cuts) ==
    /\ Shape(tree, sp) /\ Reached(tree, sp) /\ NeverEmpty(takes, tree)
    /\ n \in 1..Len(tree) /\ path \in Seq(Literals)
    /\ Cut(takes, sp[n], path, cuts)

\* Node m is on the way to n, and the rest can be cut for what is missing.
OnWay(sp, n, path, cuts, m, rest) ==
    Prefix(sp[m], sp[n]) /\ ToCut(path, cuts, Len(sp[m]), rest)

\* From a node on the way, an edge leads on to the next one.
LEMMA WayGoesOn ==
    ASSUME NEW takes, NEW tree, NEW sp, NEW n, NEW path, NEW cuts,
           Cuttable(takes, tree, sp, n, path, cuts),
           NEW m \in 1..Len(tree), m # n, NEW rest \in Seq(Literals),
           Remains(path, rest), OnWay(sp, n, path, cuts, m, rest)
    PROVE  \E i \in 1..Len(tree[m].edges) :
              /\ Prefix(sp[tree[m].edges[i].child], sp[n])
              /\ Begins(rest, tree[m].edges[i].pattern)
<1>1. /\ Shape(tree, sp) /\ n \in 1..Len(tree) /\ Reached(tree, sp)
      /\ NeverEmpty(takes, tree) /\ path \in Seq(Literals)
      /\ Cut(takes, sp[n], path, cuts)
      /\ Prefix(sp[m], sp[n]) /\ ToCut(path, cuts, Len(sp[m]), rest)
  BY DEF Cuttable, OnWay
<1>2. PICK c \in 1..Len(tree) : Child(tree, m, c) /\ Prefix(sp[c], sp[n])
  BY <1>1 DEF Reached
<1>3. PICK i \in 1..Len(tree[m].edges) : tree[m].edges[i].child = c
  BY <1>2 DEF Child
<1>4. sp[n] \in Seq(Token)
  BY <1>1, TextType
<1>5. Begins(rest, tree[m].edges[i].pattern)
  BY <1>1, <1>2, <1>3, <1>4, GoesOnWith
<1> QED BY <1>2, <1>3, <1>5

\* Where the path ends a route is meant for a node only if it is its own.
LEMMA CutStops ==
    ASSUME NEW takes, NEW tree, NEW sp, NEW n, NEW path, NEW cuts,
           Cuttable(takes, tree, sp, n, path, cuts),
           NEW m \in 1..Len(tree), OnWay(sp, n, path, cuts, m, <<>>)
    PROVE  m = n
<1> SUFFICES ASSUME m # n
             PROVE  FALSE
  OBVIOUS
<1>1. <<>> \in Seq(Literals) /\ Remains(path, <<>>)
  BY LenProperties DEF Remains, Cuttable
<1>2. \E i \in 1..Len(tree[m].edges) : Begins(<<>>, tree[m].edges[i].pattern)
  BY <1>1, WayGoesOn
<1> QED BY <1>2 DEF Begins

\* The characters "follow" that may come behind a node on the way, if they are
\* all there are: one of them comes, or the path is at its end.
LEMMA WayFollowed ==
    ASSUME NEW takes, NEW tree, NEW sp, NEW n, NEW path, NEW cuts,
           Cuttable(takes, tree, sp, n, path, cuts),
           NEW m \in 1..Len(tree), NEW rest \in Seq(Literals),
           Remains(path, rest), OnWay(sp, n, path, cuts, m, rest),
           NEW follow, follow \subseteq Literals,
           \A i \in 1..Len(tree[m].edges) : tree[m].edges[i].pattern[1] \in follow
    PROVE  rest = <<>> \/ rest[1] \in follow
<1>1. CASE m = n
  <2>1. /\ sp[n] \in Seq(Token) /\ path \in Seq(Literals)
        /\ Cut(takes, sp[n], path, cuts) /\ ToCut(path, cuts, Len(sp[n]), rest)
    BY <1>1, TextType DEF Cuttable, OnWay
  <2> QED BY <2>1, CutEnds
<1>2. CASE m # n
  <2>1. PICK i \in 1..Len(tree[m].edges) : Begins(rest, tree[m].edges[i].pattern)
    BY <1>2, WayGoesOn
  <2> QED BY <2>1 DEF Begins
<1> QED BY <1>1, <1>2

\* No slug of a clear tree takes the empty text.
LEMMA ClearNeverEmpty ==
    ASSUME NEW tree, NEW sp, Shape(tree, sp), Sound(tree), Clear(tree)
    PROVE  NeverEmpty(Taken, tree)
<1> SUFFICES ASSUME NEW m \in 1..Len(tree), NEW i \in 1..Len(tree[m].edges),
                    NEW l \in 1..Len(tree[m].edges[i].pattern),
                    <<tree[m].edges[i].pattern[l], <<>>>> \in Taken
             PROVE  FALSE
  BY DEF NeverEmpty
<1> DEFINE slug == tree[m].edges[i].pattern[l]
<1>1. slug \in Slugs /\ SlugOpcode[slug] = "GREEDY"
  BY DEF Taken, Takes
<1>2. HasSlug(tree[m].edges[i].pattern)
  BY <1>1 DEF HasSlug, SlugPositions
<1>3. PICK slug1 \in Slugs : SlugAlone(tree, m, slug1)
  BY <1>2, ClearCases DEF Clear, LiteralsOnly
<1>4. slug = slug1
  <2>1. Len(tree[m].edges) = 1 /\ tree[m].edges[1].pattern = <<slug1>>
    BY <1>3 DEF SlugAlone
  <2>2. i = 1
    BY <2>1
  <2>3. l \in 1..Len(<<slug1>>) /\ tree[m].edges[i].pattern = <<slug1>>
    BY <2>1, <2>2
  <2> QED BY <2>3
<1> QED BY <1>1, <1>3, <1>4 DEF SlugAlone

\* A request a route is meant for crosses the edge that leads to it, ...
LEMMA CrossesOn ==
    ASSUME NEW tree, NEW sp, NEW n, NEW path, NEW cuts,
           Cuttable(Taken, tree, sp, n, path, cuts), Sound(tree), Clear(tree),
           NEW m \in 1..Len(tree), NEW i \in 1..Len(tree[m].edges),
           Prefix(sp[tree[m].edges[i].child], sp[n]),
           NEW rest \in Seq(Literals), Remains(path, rest),
           ToCut(path, cuts, Len(sp[m]), rest)
    PROVE  \E k \in 1..Len(rest) :
              /\ Crosses(tree[m].edges[i], rest, k)
              /\ ToCut(path, cuts, Len(sp[tree[m].edges[i].child]), After(rest, k))
<1> DEFINE edge == tree[m].edges[i]
           q == edge.pattern
           child == edge.child
<1>1. /\ Shape(tree, sp) /\ n \in 1..Len(tree) /\ path \in Seq(Literals)
      /\ Cut(Taken, sp[n], path, cuts)
  BY DEF Cuttable
<1>2. /\ q \in Seq(Token) /\ Len(q) \in Nat \ {0} /\ child \in 1..Len(tree)
      /\ sp[n] \in Seq(Token) /\ Len(rest) \in Nat
      /\ ClearNode(tree, m)
  <2>1. ClearNode(tree, m)
    BY DEF Clear
  <2>2. sp[n] \in Seq(Token) /\ Len(rest) \in Nat
    BY <1>1, TextType, LenProperties
  <2> QED BY <1>1, <2>1, <2>2, EdgeDown
<1>3. CASE ~HasSlug(q)
  <2>1. IsPrefix(q, rest) /\ ToCut(path, cuts, Len(sp[child]), After(rest, Len(q)))
    BY <1>1, <1>2, <1>3, LiteralEdgeCut
  <2>2. Len(q) \in 1..Len(rest)
    <3> HIDE DEF q
    <3> QED BY <1>2, <2>1, PrefixByCharacter
  <2> QED BY <1>3, <2>1, <2>2 DEF Crosses
<1>4. CASE HasSlug(q)
  <2>1. PICK slug \in Slugs : SlugAlone(tree, m, slug)
    BY <1>1, <1>2, <1>4, ClearCases DEF LiteralsOnly
  <2> DEFINE opcode == SlugOpcode[slug]
             follow == Literals \ Accepts[opcode]
  <2>2. /\ q = <<slug>> /\ edge.opcode = opcode /\ opcode # "GREEDY"
        /\ \A j \in 1..Len(tree[child].edges) :
            tree[child].edges[j].pattern[1] \in follow
    <3>1. i = 1
      <4>1. Len(tree[m].edges) = 1
        BY <2>1 DEF SlugAlone
      <4> QED BY <4>1
    <3> QED BY <2>1, <3>1 DEF SlugAlone
  <2>3. PICK k \in 0..Len(rest) :
            /\ <<slug, Upto(rest, k)>> \in Taken
            /\ ToCut(path, cuts, Len(sp[child]), After(rest, k))
    <3>1. SlugSplits(Taken, path, cuts, Len(sp[m]), Len(sp[child]), slug, rest)
      BY <1>1, <1>2, <2>2, SlugEdgeCut
    <3> QED BY <3>1 DEF SlugSplits
  <2>4. k > 0 /\ \A l \in 1..k : rest[l] \in Accepts[opcode]
    BY <2>2, <2>3, SlugTakes
  <2> DEFINE left == After(rest, k)
  <2>5. left \in Seq(Literals) /\ Remains(path, left) /\ Len(left) = Len(rest) - k
    BY <1>1, RemainsAfter
  <2>6. ASSUME k < Len(rest)
        PROVE  rest[k + 1] \notin Accepts[opcode]
    <3>1. left[1] = rest[k + 1] /\ left # <<>>
      <4>1. left[1] = rest[k + 1]
        BY <2>6, <1>2 DEF After
      <4>2. Len(left) # 0
        BY <2>5, <2>6, <1>2
      <4> HIDE DEF left
      <4> QED BY <4>1, <4>2
    <3>2. OnWay(sp, n, path, cuts, child, left)
      BY <2>3 DEF OnWay
    <3>3. follow \subseteq Literals
      OBVIOUS
    <3>4. left = <<>> \/ left[1] \in follow
      <4>1. child \in 1..Len(tree) /\ left \in Seq(Literals) /\ Remains(path, left)
        BY <1>2, <2>5
      <4>2. \A j \in 1..Len(tree[child].edges) :
                tree[child].edges[j].pattern[1] \in follow
        BY <2>2
      <4> HIDE DEF left, child, follow
      <4> QED BY <4>1, <4>2, <3>2, <3>3, WayFollowed
    <3> HIDE DEF left, child, follow
    <3> QED BY <3>1, <3>4 DEF follow
  <2>7. k = RunLength(opcode, rest)
    BY <2>4, <2>6, RunIs
  <2>8. k \in 1..Len(rest)
    BY <2>4, <1>2
  <2>9. Crosses(edge, rest, k)
    BY <2>2, <2>7, <2>8, <1>4 DEF Crosses
  <2> QED BY <2>3, <2>8, <2>9
<1> QED BY <1>3, <1>4

\* ... and an edge that is crossed leads to the routes below it.
LEMMA CrossesBack ==
    ASSUME NEW tree, NEW sp, NEW n, NEW path, NEW cuts,
           Cuttable(Taken, tree, sp, n, path, cuts), Sound(tree), Clear(tree),
           NEW m \in 1..Len(tree), NEW i \in 1..Len(tree[m].edges),
           Prefix(sp[tree[m].edges[i].child], sp[n]),
           NEW rest \in Seq(Literals), Remains(path, rest),
           NEW k, Crosses(tree[m].edges[i], rest, k),
           ToCut(path, cuts, Len(sp[tree[m].edges[i].child]), After(rest, k))
    PROVE  ToCut(path, cuts, Len(sp[m]), rest)
<1> DEFINE edge == tree[m].edges[i]
           q == edge.pattern
<1>1. /\ Shape(tree, sp) /\ n \in 1..Len(tree) /\ path \in Seq(Literals)
      /\ Cut(Taken, sp[n], path, cuts)
  BY DEF Cuttable
<1>2. /\ k \in 1..Len(rest) /\ Len(rest) \in Nat /\ sp[n] \in Seq(Token)
      /\ ClearNode(tree, m)
  BY <1>1, TextType, LenProperties DEF Clear, Crosses
<1>3. CASE ~HasSlug(q)
  <2>1. IsPrefix(q, rest) /\ k = Len(q)
    BY <1>3 DEF Crosses
  <2> QED BY <1>1, <1>2, <1>3, <2>1, LiteralEdgeCut
<1>4. CASE HasSlug(q)
  <2>1. PICK slug \in Slugs : SlugAlone(tree, m, slug)
    BY <1>1, <1>2, <1>4, ClearCases DEF LiteralsOnly
  <2>2. q = <<slug>> /\ edge.opcode = SlugOpcode[slug] /\ SlugOpcode[slug] # "GREEDY"
    <3>1. i = 1
      <4>1. Len(tree[m].edges) = 1
        BY <2>1 DEF SlugAlone
      <4> QED BY <4>1
    <3> QED BY <2>1, <3>1 DEF SlugAlone
  <2>3. k = RunLength(SlugOpcode[slug], rest)
    BY <1>4, <2>2 DEF Crosses
  <2>4. k \in 0..Len(rest) /\ <<slug, Upto(rest, k)>> \in Taken
    <3>1. \A l \in 1..k : rest[l] \in Accepts[SlugOpcode[slug]]
      BY <2>3, RunAccepted
    <3>2. k \in 0..Len(rest) /\ k > 0
      BY <1>2
    <3> QED BY <2>2, <3>1, <3>2, SlugTakes
  <2>5. SlugSplits(Taken, path, cuts, Len(sp[m]), Len(sp[edge.child]), slug, rest)
    BY <1>1, <1>2, <2>2, SlugEdgeCut
  <2> QED BY <2>4, <2>5 DEF SlugSplits
<1> QED BY <1>3, <1>4

-----------------------------------------------------------------------------
(* A match that crosses the edges a path can be cut for                     *)

\* The call of a match on the way to node n: if its node is on the way and there
\* is some path left, so is the node it crosses to; and if it crosses to a node
\* on the way, it is on the way itself.
StaysOnWay(tree, sp, n, path, cuts, e, new) ==
    /\ OnWay(sp, n, path, cuts, e.node, e.rest) /\ e.rest # <<>> =>
        \E c \in 1..Len(tree), k \in 1..Len(e.rest) :
            /\ Goes(tree, e, new, c, k)
            /\ OnWay(sp, n, path, cuts, c, After(e.rest, k))
    /\ new.pc # "nil" =>
        \E c \in 1..Len(tree), k \in 1..Len(e.rest) :
            /\ Goes(tree, e, new, c, k)
            /\ OnWay(sp, n, path, cuts, c, After(e.rest, k)) =>
                    OnWay(sp, n, path, cuts, e.node, e.rest)

\* A route of node n has a method of the request.
HasRoute(tree, n, request) ==
    \E r \in 1..Len(tree[n].routes) :
        MethodFits(tree[n].routes[r].method, request.method)

\* The step of a match that picks the route.
Picks(tree, request, e, new) ==
    /\ new.node = e.node
    /\ e.pc \notin {"node", "route"} => new.pc = e.pc
    /\ e.pc \in {"node", "route"} => new.pc \in {"route", "nil"}
    /\ e.pc = "node" /\ HasRoute(tree, e.node, request) => new.pc = "route"
    /\ e.pc = "route" => new.pc = "route"

Proceeds(tree, sp, n, path, cuts, request, e, new) ==
    /\ e \in EntryIn(Len(tree))
    /\ e.pc = "walk" /\ Remains(path, e.rest) =>
            StaysOnWay(tree, sp, n, path, cuts, e, new)
    /\ e.pc # "walk" => Picks(tree, request, e, new)

\* The entries of a match, in either build.
Matching(tree, sp, n, cuts, request, run) ==
    /\ run[0] = NewEntry(request)
    /\ \A k \in Nat :
        Proceeds(tree, sp, n, request.path, cuts, request, run[k], run[k + 1])

\* The loop over the routes picks one.
LEMMA RoutePicked ==
    ASSUME NEW tree, NEW sp, Shape(tree, sp), NEW request,
           NEW e \in EntryIn(Len(tree)), e.method = request.method, e.pc # "walk",
           e.pc = "route" => FirstRoute(tree, e)
    PROVE  Picks(tree, request, e, Advance(tree, e))
<1>1. CASE e.pc = "node"
  <2>1. Advance(tree, e) = RouteStep(tree, e)
    BY <1>1 DEF Advance
  <2> DEFINE new == RouteStep(tree, e)
  <2>2. /\ new.node = e.node
        /\ new.pc # "route" => \A r \in 1..Len(tree[e.node].routes) :
                ~MethodFits(tree[e.node].routes[r].method, e.method)
    BY RouteStepPicks
  <2>3. new.pc \in {"route", "nil"}
    BY RouteStepEntry
  <2> HIDE DEF new
  <2>4. HasRoute(tree, e.node, request) => new.pc = "route"
    BY <2>2 DEF HasRoute
  <2> QED BY <1>1, <2>1, <2>2, <2>3, <2>4 DEF new, Picks
<1>2. CASE e.pc # "node"
  BY <1>2 DEF Advance, Picks
<1> QED BY <1>1, <1>2

\* A match of a request a route of node n is meant for is on the way to n.
Heading(sp, n, path, cuts, e) ==
    \/ /\ e.pc = "walk" /\ Remains(path, e.rest) /\ e.rest # <<>>
       /\ OnWay(sp, n, path, cuts, e.node, e.rest)
    \/ e.pc \in {"node", "route"} /\ e.node = n

\* A match that gets to node n got there by a way to cut the path.
Came(sp, n, path, cuts, e) ==
    /\ e.pc = "walk" =>
        /\ Remains(path, e.rest)
        /\ OnWay(sp, n, path, cuts, e.node, e.rest) => 0 \in cuts[1]
    /\ e.pc \in {"node", "route"} /\ e.node = n => 0 \in cuts[1]

\* What is left behind k characters, of which there may be no more.
LEMMA LeftAfter ==
    ASSUME NEW path \in Seq(Literals), NEW rest \in Seq(Literals),
           Remains(path, rest), NEW k \in 1..Len(rest)
    PROVE  /\ After(rest, k) \in Seq(Literals) /\ Remains(path, After(rest, k))
           /\ k < Len(rest) <=> After(rest, k) # <<>>
<1> DEFINE left == After(rest, k)
<1>1. Len(rest) \in Nat /\ k \in 0..Len(rest)
  BY LenProperties
<1>2. left \in Seq(Literals) /\ Remains(path, left) /\ Len(left) = Len(rest) - k
  BY <1>1, RemainsAfter
<1> HIDE DEF left
<1>3. left # <<>> <=> Len(left) # 0
  BY <1>2, EmptySeq
<1> QED BY <1>1, <1>2, <1>3 DEF left

\* A match on the way to the node a route is meant for stays on the way, ...
LEMMA HeadingStep ==
    ASSUME NEW takes, NEW tree, NEW sp, NEW n, NEW path, NEW cuts,
           Cuttable(takes, tree, sp, n, path, cuts), NEW request, NEW e, NEW new,
           Proceeds(tree, sp, n, path, cuts, request, e, new),
           Heading(sp, n, path, cuts, e), tree[n].endpoint > 0,
           HasRoute(tree, n, request)
    PROVE  /\ Heading(sp, n, path, cuts, new)
           /\ e.pc # "walk" => new.pc = "route"
<1>1. CASE e.pc # "walk"
  <2>1. e.pc \in {"node", "route"} /\ e.node = n
    BY <1>1 DEF Heading
  <2>2. Picks(tree, request, e, new)
    BY <1>1 DEF Proceeds
  <2>3. new.pc = "route" /\ new.node = e.node
    BY <2>1, <2>2 DEF Picks
  <2> QED BY <2>1, <2>3 DEF Heading
<1>2. CASE e.pc = "walk"
  <2> DEFINE rest == e.rest
  <2>1. /\ OnWay(sp, n, path, cuts, e.node, rest)
        /\ Remains(path, rest) /\ rest # <<>>
    BY <1>2 DEF Heading
  <2>2. rest \in Seq(Literals) /\ path \in Seq(Literals)
    BY DEF Proceeds, EntryIn, Cuttable
  <2>3. PICK c \in 1..Len(tree), k \in 1..Len(rest) :
            /\ Goes(tree, e, new, c, k)
            /\ OnWay(sp, n, path, cuts, c, After(rest, k))
    <3>1. StaysOnWay(tree, sp, n, path, cuts, e, new)
      BY <1>2, <2>1 DEF Proceeds
    <3> QED BY <2>1, <3>1 DEF StaysOnWay
  <2> DEFINE left == After(rest, k)
  <2>4. Remains(path, left) /\ (k < Len(rest) <=> left # <<>>)
    BY <2>1, <2>2, LeftAfter
  <2>5. CASE k < Len(rest)
    <3>1. new.pc = "walk" /\ new.node = c /\ new.rest = left
      BY <2>3, <2>5 DEF Goes
    <3>2. OnWay(sp, n, path, cuts, c, left) /\ left # <<>>
      BY <2>3, <2>4, <2>5
    <3> HIDE DEF left
    <3> QED BY <1>2, <2>4, <3>1, <3>2 DEF Heading
  <2>6. CASE ~(k < Len(rest))
    <3>1. left = <<>>
      BY <2>4, <2>6
    <3>2. OnWay(sp, n, path, cuts, c, <<>>)
      BY <2>3, <3>1
    <3>3. c = n
      BY <3>2, CutStops
    <3>4. new.pc = "node" /\ new.node = n
      BY <2>3, <2>6, <3>3 DEF Goes
    <3> QED BY <1>2, <3>4 DEF Heading
  <2> QED BY <2>5, <2>6
<1> QED BY <1>1, <1>2

\* ... and one that gets there went the way the path can be cut.
LEMMA CameStep ==
    ASSUME NEW takes, NEW tree, NEW sp, NEW n, NEW path, NEW cuts,
           Cuttable(takes, tree, sp, n, path, cuts), NEW request, NEW e, NEW new,
           Proceeds(tree, sp, n, path, cuts, request, e, new),
           Came(sp, n, path, cuts, e)
    PROVE  Came(sp, n, path, cuts, new)
<1>1. CASE e.pc # "walk"
  <2>1. Picks(tree, request, e, new)
    BY <1>1 DEF Proceeds
  <2>2. /\ new.node = e.node /\ new.pc # "walk"
        /\ new.pc \in {"node", "route"} => e.pc \in {"node", "route"}
    BY <1>1, <2>1 DEF Picks
  <2> QED BY <2>2 DEF Came
<1>2. CASE e.pc = "walk"
  <2> DEFINE rest == e.rest
  <2>1. /\ Remains(path, rest)
        /\ OnWay(sp, n, path, cuts, e.node, rest) => 0 \in cuts[1]
    BY <1>2 DEF Came
  <2>2. rest \in Seq(Literals) /\ path \in Seq(Literals)
    BY DEF Proceeds, EntryIn, Cuttable
  <2>3. CASE new.pc = "nil"
    BY <2>3 DEF Came
  <2>4. CASE new.pc # "nil"
    <3>1. PICK c \in 1..Len(tree), k \in 1..Len(rest) :
            /\ Goes(tree, e, new, c, k)
            /\ OnWay(sp, n, path, cuts, c, After(rest, k)) =>
                    OnWay(sp, n, path, cuts, e.node, rest)
      <4>1. StaysOnWay(tree, sp, n, path, cuts, e, new)
        BY <1>2, <2>1 DEF Proceeds
      <4> QED BY <2>4, <4>1 DEF StaysOnWay
    <3> DEFINE left == After(rest, k)
    <3>2. Remains(path, left) /\ (k < Len(rest) <=> left # <<>>)
      BY <2>1, <2>2, LeftAfter
    <3>3. OnWay(sp, n, path, cuts, c, left) => 0 \in cuts[1]
      BY <2>1, <3>1
    <3>4. Goes(tree, e, new, c, k)
      BY <3>1
    <3> HIDE DEF left
    <3>5. CASE k < Len(rest)
      <4>1. new.pc = "walk" /\ new.node = c /\ new.rest = left
        BY <3>4, <3>5 DEF Goes, left
      <4> QED BY <3>2, <3>3, <4>1 DEF Came
    <3>6. CASE ~(k < Len(rest))
      <4>1. new.pc = "node" /\ new.node = c /\ left = <<>>
        BY <3>2, <3>4, <3>6, <2>4 DEF Goes
      <4>2. OnWay(sp, n, path, cuts, n, <<>>)
        <5>1. /\ sp[n] \in Seq(Token) /\ path \in Seq(Literals)
              /\ Cut(takes, sp[n], path, cuts) /\ <<>> \in Seq(Literals)
          BY TextType DEF Cuttable
        <5>2. ToCut(path, cuts, Len(sp[n]), <<>>)
          BY <5>1, CutEnds
        <5>3. Prefix(sp[n], sp[n])
          BY <5>1, LenProperties DEF Prefix
        <5> QED BY <5>2, <5>3 DEF OnWay
      <4> QED BY <3>3, <4>1, <4>2 DEF Came
    <3> QED BY <3>5, <3>6
  <2> QED BY <2>3, <2>4
<1> QED BY <1>1, <1>2

\* A match starts with the whole path, at the beginning of every pattern.
LEMMA MatchStarts ==
    ASSUME NEW takes, NEW tree, NEW sp, NEW n, NEW cuts, NEW request,
           Cuttable(takes, tree, sp, n, request.path, cuts)
    PROVE  LET e == NewEntry(request) IN
           /\ e.pc = "walk" /\ e.rest = request.path
           /\ Remains(request.path, e.rest)
           /\ OnWay(sp, n, request.path, cuts, e.node, e.rest) <=> 0 \in cuts[1]
<1> DEFINE path == request.path
           e == NewEntry(request)
<1>1. e.pc = "walk" /\ e.node = Root /\ e.rest = path
  BY DEF NewEntry, NoEntry
<1>2. Len(path) \in Nat /\ Len(sp[n]) \in Nat
  BY TextType, LenProperties DEF Cuttable
<1>3. Remains(path, path)
  <2> HIDE DEF path
  <2> QED BY <1>2 DEF Remains
<1>4. sp[Root] = <<>> /\ Len(sp[Root]) = 0
  BY DEF Cuttable, Shape
<1>5. Prefix(sp[Root], sp[n])
  BY <1>2, <1>4 DEF Prefix
<1>6. ToCut(path, cuts, Len(sp[Root]), path) <=> 0 \in cuts[1]
  <2>1. Len(path) - Len(path) = 0 /\ 0 + 1 = 1
    BY <1>2
  <2> QED BY <1>4, <2>1 DEF ToCut
<1> HIDE DEF e
<1> QED BY <1>1, <1>3, <1>5, <1>6 DEF OnWay, e

\* The call behind the walk finds a route.
RouteComesNext(run, last) == run[last].pc # "walk" => run[last + 1].pc = "route"

\* A match of a request that can be cut for n finds the route, ...
LEMMA MatchArrives ==
    ASSUME NEW takes, NEW tree, NEW sp, NEW n, NEW cuts, NEW request,
           Cuttable(takes, tree, sp, n, request.path, cuts), Sound(tree),
           NEW run, Matching(tree, sp, n, cuts, request, run),
           request.path # <<>>, 0 \in cuts[1],
           HasRoute(tree, n, request),
           NEW last \in Nat
    PROVE  RouteComesNext(run, last)
<1> DEFINE path == request.path
           T == {k \in Nat : Heading(sp, n, path, cuts, run[k])}
<1>1. tree[n].endpoint > 0
  <2>1. n \in 1..Len(tree) /\ Shape(tree, sp)
    BY DEF Cuttable
  <2>2. tree[n].endpoint = Len(tree[n].routes)
    BY <2>1 DEF Sound, NodeSound
  <2>3. PICK r \in 1..Len(tree[n].routes) : TRUE
    BY DEF HasRoute
  <2>4. Len(tree[n].routes) \in Nat
    <3>1. tree[n] \in Node
      BY <2>1, ShapeOfNode
    <3> QED BY <3>1, LenProperties DEF Node
  <2> QED BY <2>2, <2>3, <2>4
<1>2. 0 \in T
  <2>1. run[0] = NewEntry(request)
    BY DEF Matching
  <2>2. Heading(sp, n, path, cuts, NewEntry(request))
    <3> DEFINE e == NewEntry(request)
    <3>1. /\ e.pc = "walk" /\ e.rest = path /\ Remains(path, e.rest)
          /\ OnWay(sp, n, path, cuts, e.node, e.rest)
      BY MatchStarts
    <3> HIDE DEF e
    <3>2. Heading(sp, n, path, cuts, e)
      BY <3>1 DEF Heading
    <3> QED BY <3>2 DEF e
  <2> QED BY <2>1, <2>2
<1>3. ASSUME NEW k \in Nat, Heading(sp, n, path, cuts, run[k])
      PROVE  /\ Heading(sp, n, path, cuts, run[k + 1])
             /\ run[k].pc # "walk" => run[k + 1].pc = "route"
  <2>1. Proceeds(tree, sp, n, path, cuts, request, run[k], run[k + 1])
    BY DEF Matching
  <2> QED BY <1>1, <1>3, <2>1, HeadingStep
<1>4. Nat \subseteq T
  <2>1. \A k \in Nat : k \in T => k + 1 \in T
    BY <1>3
  <2> HIDE DEF T
  <2> QED BY <1>2, <2>1, AllNaturals
<1>5. last \in T
  BY <1>4
<1> QED BY <1>3, <1>5 DEF RouteComesNext

\* ... and one that ends at n could cut the request for it.
LEMMA MatchCame ==
    ASSUME NEW takes, NEW tree, NEW sp, NEW n, NEW cuts, NEW request,
           Cuttable(takes, tree, sp, n, request.path, cuts),
           NEW run, Matching(tree, sp, n, cuts, request, run),
           NEW last \in Nat, run[last].pc = "route", run[last].node = n
    PROVE  0 \in cuts[1]
<1> DEFINE path == request.path
           T == {k \in Nat : Came(sp, n, path, cuts, run[k])}
<1>1. 0 \in T
  <2>1. run[0] = NewEntry(request)
    BY DEF Matching
  <2> QED BY <2>1, MatchStarts DEF Came
<1>2. ASSUME NEW k \in Nat, Came(sp, n, path, cuts, run[k])
      PROVE  Came(sp, n, path, cuts, run[k + 1])
  <2>1. Proceeds(tree, sp, n, path, cuts, request, run[k], run[k + 1])
    BY DEF Matching
  <2> QED BY <1>2, <2>1, CameStep
<1>3. Nat \subseteq T
  <2>1. \A k \in Nat : k \in T => k + 1 \in T
    BY <1>2
  <2> HIDE DEF T
  <2> QED BY <1>1, <2>1, AllNaturals
<1> QED BY <1>3 DEF Came

\* A match of the empty path never gets anywhere: the call on the root has
\* nothing to consume.
LEMMA EmptyLost ==
    ASSUME NEW tree, NEW sp, NEW n, NEW cuts, NEW request, request.path = <<>>,
           NEW run, Matching(tree, sp, n, cuts, request, run), NEW last \in Nat
    PROVE  run[last].pc # "route"
<1> DEFINE Lost(e) == (e.pc = "walk" /\ e.rest = <<>>) \/ e.pc = "nil"
           T == {k \in Nat : Lost(run[k])}
<1>1. 0 \in T
  BY DEF Matching, NewEntry, NoEntry
<1>2. ASSUME NEW k \in Nat, k \in T
      PROVE  k + 1 \in T
  <2> DEFINE e == run[k]
             new == run[k + 1]
  <2>1. Proceeds(tree, sp, n, request.path, cuts, request, e, new)
    BY DEF Matching
  <2>2. Lost(e)
    BY <1>2
  <2> HIDE DEF e, new
  <2>3. CASE e.pc = "walk"
    <3>1. e.rest = <<>> /\ Len(e.rest) = 0
      BY <2>2, <2>3
    <3>2. Remains(request.path, e.rest)
      BY <3>1 DEF Remains
    <3>3. StaysOnWay(tree, sp, n, request.path, cuts, e, new)
      BY <2>1, <2>3, <3>2 DEF Proceeds
    <3>4. new.pc = "nil"
      BY <3>1, <3>3 DEF StaysOnWay
    <3> QED BY <3>4 DEF new
  <2>4. CASE e.pc # "walk"
    <3>1. e.pc = "nil" /\ Picks(tree, request, e, new)
      BY <2>1, <2>2, <2>4 DEF Proceeds
    <3>2. new.pc = "nil"
      BY <3>1 DEF Picks
    <3> QED BY <3>2 DEF new
  <2> QED BY <2>3, <2>4
<1>3. last \in T
  <2> HIDE DEF T
  <2> QED BY <1>1, <1>2, AllNaturals
<1> QED BY <1>3

\* A match has one call for each of some nodes: what is left to visit shrinks.
Ahead(tree, sp, m) == {x \in 1..Len(tree) : Len(sp[x]) >= Len(sp[m])}

LEMMA AheadShrinks ==
    ASSUME NEW tree, NEW sp, Shape(tree, sp),
           NEW m \in 1..Len(tree), NEW n \in 1..Len(tree),
           Len(sp[n]) > Len(sp[m])
    PROVE  /\ Cardinality(Ahead(tree, sp, m)) \in Nat
           /\ Cardinality(Ahead(tree, sp, n)) \in Nat
           /\ Cardinality(Ahead(tree, sp, n)) < Cardinality(Ahead(tree, sp, m))
<1> DEFINE M == Ahead(tree, sp, m)
           N == Ahead(tree, sp, n)
<1>1. Len(tree) \in Nat /\ \A x \in 1..Len(tree) : Len(sp[x]) \in Nat
  BY TextType, LenProperties DEF Shape
<1>2. IsFiniteSet(1..Len(tree))
  BY <1>1, FS_Interval
<1>3. M \subseteq 1..Len(tree) /\ N \subseteq M /\ m \in M /\ m \notin N
  BY <1>1 DEF Ahead
<1> HIDE DEF M, N
<1>4. IsFiniteSet(M) /\ Cardinality(M) \in Nat
  BY <1>2, <1>3, FS_Subset, FS_CardinalityType
<1>5. /\ IsFiniteSet(N) /\ Cardinality(N) <= Cardinality(M)
      /\ Cardinality(M) = Cardinality(N) => M = N
  BY <1>3, <1>4, FS_Subset
<1>6. Cardinality(N) \in Nat /\ Cardinality(M) # Cardinality(N)
  BY <1>3, <1>5, FS_CardinalityType
<1>7. Cardinality(N) < Cardinality(M)
  BY <1>4, <1>5, <1>6
<1> QED BY <1>4, <1>6, <1>7 DEF M, N

\* A walk that comes to a longer text with every call.
Lengthens(tree, sp, run) ==
    \A k \in Nat :
        /\ run[k].node \in 1..Len(tree)
        /\ run[k + 1].pc = "walk" =>
            run[k].pc = "walk" /\ Len(sp[run[k + 1].node]) > Len(sp[run[k].node])

\* So the walk of a match is over after as many calls as the tree has nodes.
LEMMA WalkEnds ==
    ASSUME NEW tree, NEW sp, Shape(tree, sp), NEW run, Lengthens(tree, sp, run)
    PROVE  run[Len(tree)].pc # "walk"
<1> DEFINE left(k) == Cardinality(Ahead(tree, sp, run[k].node))
           T == {k \in Nat : run[k].pc = "walk" => k + left(k) <= Len(tree)}
<1>1. Len(tree) \in Nat /\ \A k \in Nat : run[k].node \in 1..Len(tree)
  BY LenProperties DEF Shape, Lengthens
<1>2. ASSUME NEW m \in 1..Len(tree)
      PROVE  /\ Cardinality(Ahead(tree, sp, m)) \in Nat \ {0}
             /\ Cardinality(Ahead(tree, sp, m)) <= Len(tree)
  <2> DEFINE M == Ahead(tree, sp, m)
  <2>1. Len(sp[m]) \in Nat
    BY TextType, LenProperties
  <2>2. M \subseteq 1..Len(tree) /\ m \in M
    BY <2>1 DEF Ahead
  <2>3. IsFiniteSet(1..Len(tree)) /\ Cardinality(1..Len(tree)) = Len(tree)
    <3> DEFINE last == Len(tree)
    <3>1. 1 \in Int /\ last \in Int /\ last \in Nat
      BY <1>1
    <3> HIDE DEF last
    <3>2. IsFiniteSet(1..last)
          /\ Cardinality(1..last) = IF 1 > last THEN 0 ELSE last - 1 + 1
      BY <3>1, FS_Interval
    <3> QED BY <3>1, <3>2 DEF last
  <2> HIDE DEF M
  <2>4. IsFiniteSet(M) /\ Cardinality(M) <= Len(tree)
    BY <2>2, <2>3, FS_Subset
  <2>5. Cardinality(M) \in Nat /\ Cardinality(M) # 0
    BY <2>2, <2>4, FS_CardinalityType, FS_EmptySet
  <2> QED BY <2>4, <2>5 DEF M
<1>3. 0 \in T
  <2>1. left(0) \in Nat /\ left(0) <= Len(tree)
    BY <1>1, <1>2
  <2> QED BY <2>1
<1>4. ASSUME NEW k \in Nat, k \in T
      PROVE  k + 1 \in T
  <2> SUFFICES ASSUME run[k + 1].pc = "walk"
               PROVE  (k + 1) + left(k + 1) <= Len(tree)
    OBVIOUS
  <2>1. run[k].pc = "walk" /\ Len(sp[run[k + 1].node]) > Len(sp[run[k].node])
    BY DEF Lengthens
  <2>2. left(k) \in Nat /\ left(k + 1) \in Nat /\ left(k + 1) < left(k)
    <3>1. run[k].node \in 1..Len(tree) /\ run[k + 1].node \in 1..Len(tree)
      <4>1. k + 1 \in Nat
        OBVIOUS
      <4> QED BY <1>1, <4>1
    <3> QED BY <2>1, <3>1, AheadShrinks
  <2>3. k + left(k) <= Len(tree)
    BY <1>4, <2>1
  <2> HIDE DEF left
  <2> QED BY <1>1, <2>2, <2>3
<1>5. Len(tree) \in T
  <2> HIDE DEF T
  <2> QED BY <1>1, <1>3, <1>4, AllNaturals
<1>6. left(Len(tree)) \in Nat \ {0}
  BY <1>1, <1>2
<1>7. run[Len(tree)].pc = "walk" => Len(tree) + left(Len(tree)) <= Len(tree)
  BY <1>5
<1>8. \A l \in Nat \ {0}, n \in Nat : ~(n + l <= n)
  OBVIOUS
<1> HIDE DEF left
<1> QED BY <1>1, <1>6, <1>7, <1>8

\* The walk of every match in this build is one.
LEMMA RunLengthens ==
    ASSUME NEW tree, NEW sp, Shape(tree, sp), Sound(tree), NEW request,
           NEW run, Runs(tree, sp, request, run)
    PROVE  Lengthens(tree, sp, run)
<1> SUFFICES ASSUME NEW k \in Nat
             PROVE  /\ run[k].node \in 1..Len(tree)
                    /\ run[k + 1].pc = "walk" =>
                        /\ run[k].pc = "walk"
                        /\ Len(sp[run[k + 1].node]) > Len(sp[run[k].node])
  BY DEF Lengthens
<1> DEFINE e == run[k]
           new == Advance(tree, e)
<1>1. Underway(tree, sp, request, e) /\ run[k + 1] = new
  BY DEF Runs
<1> HIDE DEF e
<1>2. e \in EntryIn(Len(tree))
  BY <1>1 DEF Underway
<1>3. ASSUME new.pc = "walk"
      PROVE  e.pc = "walk"
  <2>1. CASE e.pc = "node"
    <3>1. new = RouteStep(tree, e)
      BY <2>1 DEF Advance
    <3>2. RouteStep(tree, e).pc \in {"route", "nil"}
      BY <1>2, <2>1, RouteStepEntry
    <3> QED BY <1>3, <3>1, <3>2
  <2>2. CASE e.pc \notin {"walk", "node"}
    BY <1>3, <2>2 DEF Advance
  <2> QED BY <2>1, <2>2
<1>4. ASSUME e.pc = "walk"
      PROVE  Deepens(sp, e, new)
  <2>1. Unrouted(e) /\ new = WalkStep(tree, e)
    BY <1>1, <1>4 DEF Underway, Advance
  <2> HIDE DEF new
  <2> QED BY <2>1, <1>2, <1>4, WalkStepEntry
<1> HIDE DEF new
<1>5. e.node \in 1..Len(tree)
  BY <1>2 DEF EntryIn
<1> QED BY <1>1, <1>3, <1>4, <1>5 DEF e, Deepens

-----------------------------------------------------------------------------
(* A request is answered exactly if a route is meant for it                *)

\* A route of node n is meant for the request.
MeantAt(tree, sp, n, request) ==
    /\ Fits(sp[n], request.path)
    /\ HasRoute(tree, n, request)

\* A tree the lemmas on its matches are about.
ClearTree(tree, sp) ==
    Shape(tree, sp) /\ Sound(tree) /\ Reached(tree, sp) /\ Clear(tree)

LEMMA ClearIsCuttable ==
    ASSUME NEW tree, NEW sp, ClearTree(tree, sp), NEW request, Askable(request),
           NEW n \in 1..Len(tree)
    PROVE  \E cuts : /\ Cuttable(Taken, tree, sp, n, request.path, cuts)
                     /\ Fits(sp[n], request.path) <=> 0 \in cuts[1]
<1>1. Len(sp[n]) \in Nat /\ request.path \in Seq(Literals)
  BY TextType, LenProperties DEF ClearTree, Askable
<1>2. PICK cuts : /\ Cut(Taken, sp[n], request.path, cuts)
                  /\ Fits(sp[n], request.path) <=> 0 \in cuts[1]
  BY <1>1, FitsUnfolds
<1>3. NeverEmpty(Taken, tree)
  BY ClearNeverEmpty DEF ClearTree
<1>4. Cuttable(Taken, tree, sp, n, request.path, cuts)
  BY <1>1, <1>2, <1>3 DEF Cuttable, ClearTree
<1> QED BY <1>2, <1>4

\* A call on a clear tree crosses the one edge on the way, if there is one.
LEMMA ClearStays ==
    ASSUME NEW tree, NEW sp, NEW n, NEW path, NEW cuts,
           Cuttable(Taken, tree, sp, n, path, cuts), Sound(tree), Clear(tree),
           NEW e \in EntryIn(Len(tree)), e.pc = "walk", Remains(path, e.rest)
    PROVE  StaysOnWay(tree, sp, n, path, cuts, e, WalkStep(tree, e))
<1> DEFINE m == e.node
           rest == e.rest
           edges == tree[m].edges
           new == WalkStep(tree, e)
<1>1. /\ Shape(tree, sp) /\ Reached(tree, sp) /\ n \in 1..Len(tree)
      /\ path \in Seq(Literals) /\ Cut(Taken, sp[n], path, cuts)
      /\ m \in 1..Len(tree) /\ rest \in Seq(Literals) /\ ClearNode(tree, m)
  BY DEF Cuttable, EntryIn, Clear
<1>2. sp[n] \in Seq(Token)
  BY <1>1, TextType
<1>3. \/ \E i \in 1..Len(edges), k \in 1..Len(rest) :
            /\ Crosses(edges[i], rest, k)
            /\ Goes(tree, e, new, edges[i].child, k)
      \/ /\ new.pc = "nil"
         /\ \A i \in 1..Len(edges) : \A k : ~Crosses(edges[i], rest, k)
  BY <1>1, ClearStep
<1> HIDE DEF new
<1>4. ASSUME OnWay(sp, n, path, cuts, m, rest), rest # <<>>
      PROVE  \E c \in 1..Len(tree), k \in 1..Len(rest) :
                /\ Goes(tree, e, new, c, k)
                /\ OnWay(sp, n, path, cuts, c, After(rest, k))
  <2>1. Prefix(sp[m], sp[n]) /\ ToCut(path, cuts, Len(sp[m]), rest)
    BY <1>4 DEF OnWay
  <2>2. m # n
    BY <1>1, <1>2, <1>4, <2>1, CutEnds
  <2>3. PICK c \in 1..Len(tree) : Child(tree, m, c) /\ Prefix(sp[c], sp[n])
    BY <1>1, <2>1, <2>2 DEF Reached
  <2>4. PICK i \in 1..Len(edges) : edges[i].child = c
    BY <2>3 DEF Child
  <2>5. PICK k \in 1..Len(rest) : /\ Crosses(edges[i], rest, k)
                                  /\ ToCut(path, cuts, Len(sp[c]), After(rest, k))
    BY <1>1, <2>1, <2>3, <2>4, CrossesOn
  <2>6. PICK j \in 1..Len(edges), l \in 1..Len(rest) :
            Crosses(edges[j], rest, l) /\ Goes(tree, e, new, edges[j].child, l)
    BY <1>3, <2>5
  <2>7. i = j /\ k = l
    <3>1. Crosses(tree[m].edges[i], rest, k) /\ Crosses(tree[m].edges[j], rest, l)
      BY <2>5, <2>6
    <3> HIDE DEF m, rest
    <3> QED BY <1>1, <3>1, CrossesOnce
  <2>8. OnWay(sp, n, path, cuts, c, After(rest, k))
    BY <2>3, <2>5 DEF OnWay
  <2> HIDE DEF m, rest, edges
  <2> QED BY <2>4, <2>6, <2>7, <2>8
<1>5. ASSUME new.pc # "nil"
      PROVE  \E c \in 1..Len(tree), k \in 1..Len(rest) :
                /\ Goes(tree, e, new, c, k)
                /\ OnWay(sp, n, path, cuts, c, After(rest, k)) =>
                        OnWay(sp, n, path, cuts, m, rest)
  <2>1. PICK i \in 1..Len(edges), k \in 1..Len(rest) :
            Crosses(edges[i], rest, k) /\ Goes(tree, e, new, edges[i].child, k)
    BY <1>3, <1>5
  <2> DEFINE c == edges[i].child
  <2>2. c \in 1..Len(tree)
    BY <1>1, EdgeDown
  <2>3. ASSUME OnWay(sp, n, path, cuts, c, After(rest, k))
        PROVE  OnWay(sp, n, path, cuts, m, rest)
    <3>1. Prefix(sp[c], sp[n]) /\ ToCut(path, cuts, Len(sp[c]), After(rest, k))
      BY <2>3 DEF OnWay
    <3>2. ToCut(path, cuts, Len(sp[m]), rest)
      BY <1>1, <2>1, <3>1, CrossesBack
    <3>3. Continues(sp[m], edges[i].pattern, sp[c], sp[n])
      BY <1>1, <1>2, <3>1, ChildPattern
    <3> QED BY <3>2, <3>3 DEF Continues, OnWay
  <2> HIDE DEF m, rest
  <2> QED BY <2>1, <2>2, <2>3
<1> QED BY <1>4, <1>5 DEF StaysOnWay, new

\* All calls of a match are on the tree it began on.
LEMMA ClearMatching ==
    ASSUME NEW tree, NEW sp, ClearTree(tree, sp), NEW request,
           NEW run, Runs(tree, sp, request, run), NEW n, NEW cuts,
           Cuttable(Taken, tree, sp, n, request.path, cuts)
    PROVE  Matching(tree, sp, n, cuts, request, run)
<1>1. Shape(tree, sp) /\ Sound(tree) /\ Clear(tree)
  BY DEF ClearTree
<1>2. ASSUME NEW k \in Nat
      PROVE  Proceeds(tree, sp, n, request.path, cuts, request, run[k], run[k + 1])
  <2> DEFINE e == run[k]
  <2>1. Underway(tree, sp, request, e) /\ run[k + 1] = Advance(tree, e)
    BY DEF Runs
  <2> HIDE DEF e
  <2>2. /\ e \in EntryIn(Len(tree)) /\ e.method = request.method
        /\ e.pc = "route" => FirstRoute(tree, e)
    BY <2>1 DEF Underway
  <2>3. ASSUME e.pc = "walk", Remains(request.path, e.rest)
        PROVE  StaysOnWay(tree, sp, n, request.path, cuts, e, Advance(tree, e))
    <3>1. Advance(tree, e) = WalkStep(tree, e)
      BY <2>3 DEF Advance
    <3>2. StaysOnWay(tree, sp, n, request.path, cuts, e, WalkStep(tree, e))
      BY <1>1, <2>2, <2>3, ClearStays
    <3> QED BY <3>1, <3>2
  <2>4. ASSUME e.pc # "walk"
        PROVE  Picks(tree, request, e, Advance(tree, e))
    BY <1>1, <2>2, <2>4, RoutePicked
  <2>5. Proceeds(tree, sp, n, request.path, cuts, request, e, Advance(tree, e))
    BY <2>2, <2>3, <2>4 DEF Proceeds
  <2> QED BY <2>1, <2>5 DEF e
<1>3. run[0] = NewEntry(request)
  BY DEF Runs
<1> QED BY <1>2, <1>3 DEF Matching

\* A request a route is meant for is answered ...
LEMMA MeantAnswered ==
    ASSUME NEW tree, NEW sp, ClearTree(tree, sp),
           NEW request, Askable(request), request.path # <<>>,
           NEW n \in 1..Len(tree), MeantAt(tree, sp, n, request)
    PROVE  Answered(tree, request)
<1>1. Shape(tree, sp) /\ Sound(tree) /\ Len(tree) \in Nat
  BY LenProperties DEF ClearTree, Shape
<1>2. PICK run : Runs(tree, sp, request, run)
  BY <1>1, AnswerRuns
<1>3. PICK cuts : Cuttable(Taken, tree, sp, n, request.path, cuts) /\ 0 \in cuts[1]
  BY ClearIsCuttable DEF MeantAt
<1>4. Matching(tree, sp, n, cuts, request, run)
  BY <1>2, <1>3, ClearMatching
<1>5. run[Len(tree)].pc # "walk"
  BY <1>1, <1>2, RunLengthens, WalkEnds
<1>6. HasRoute(tree, n, request)
  BY DEF MeantAt
<1>7. run[Len(tree) + 1].pc = "route"
  <2>1. RouteComesNext(run, Len(tree))
    BY <1>1, <1>3, <1>4, <1>6, MatchArrives
  <2> QED BY <1>5, <2>1 DEF RouteComesNext
<1> QED BY <1>2, <1>7 DEF Runs, Answered

\* ... and a request is answered only if a route is meant for it, ...
LEMMA AnsweredMeant ==
    ASSUME NEW tree, NEW sp, ClearTree(tree, sp),
           NEW request, Askable(request), Answered(tree, request)
    PROVE  \E n \in 1..Len(tree) : MeantAt(tree, sp, n, request)
<1>1. PICK run : Runs(tree, sp, request, run)
  BY AnswerRuns DEF ClearTree
<1> DEFINE last == Len(tree) + 1
           answer == run[last]
           n == answer.node
<1>2. /\ last \in Nat /\ answer.pc = "route"
      /\ Underway(tree, sp, request, answer)
  BY <1>1, LenProperties DEF ClearTree, Shape, Runs, Answered
<1>3. n \in 1..Len(tree) /\ FirstRoute(tree, answer) /\ answer.method = request.method
  BY <1>2 DEF Underway, EntryIn
<1>4. PICK cuts : /\ Cuttable(Taken, tree, sp, n, request.path, cuts)
                  /\ Fits(sp[n], request.path) <=> 0 \in cuts[1]
  BY <1>3, ClearIsCuttable
<1>5. Matching(tree, sp, n, cuts, request, run)
  BY <1>1, <1>4, ClearMatching
<1>6. Fits(sp[n], request.path)
  <2>1. run[last].pc = "route" /\ run[last].node = n
    BY <1>2
  <2> HIDE DEF n, last
  <2> QED BY <1>2, <1>4, <1>5, <2>1, MatchCame
<1>7. HasRoute(tree, n, request)
  BY <1>3 DEF FirstRoute, HasRoute
<1> HIDE DEF n
<1> QED BY <1>3, <1>6, <1>7 DEF MeantAt

\* ... never the request for the empty path.
LEMMA EmptyUnanswered ==
    ASSUME NEW tree, NEW sp, ClearTree(tree, sp),
           NEW request, Askable(request), request.path = <<>>
    PROVE  ~Answered(tree, request)
<1>1. PICK run : Runs(tree, sp, request, run)
  BY AnswerRuns DEF ClearTree
<1>2. Root \in 1..Len(tree) /\ Len(tree) + 1 \in Nat
  BY LenProperties DEF ClearTree, Shape, Root
<1>3. PICK cuts : Cuttable(Taken, tree, sp, Root, request.path, cuts)
  BY <1>2, ClearIsCuttable
<1>4. Matching(tree, sp, Root, cuts, request, run)
  BY <1>1, <1>3, ClearMatching
<1>5. run[Len(tree) + 1].pc # "route"
  BY <1>2, <1>4, EmptyLost
<1> QED BY <1>1, <1>5 DEF Runs, Answered

\* A tree between two matches is one the matches of the lemmas can be on.
ServesInv == ConsumedInv /\ Whole(nodes, spell)

\* It is an invariant of the steps of the tree and of the matches.
LEMMA ServesInvariance == MatchSpec => []ServesInv
<1>1. ServesInv /\ [MatchNext]_matchVars => Whole(nodes, spell)'
  <2> SUFFICES ASSUME ServesInv, [MatchNext]_matchVars
               PROVE  Whole(nodes, spell)'
    OBVIOUS
  <2>1. [Next]_vars
    BY DEF MatchNext, TreeStep, StartMatch, MatchStep, MatchWalks, MatchRoutes,
           EndMatch, matchVars, vars
  <2> QED BY <2>1, WholeInductive DEF ServesInv, ConsumedInv, MatchInv
<1>2. MatchInit => Whole(nodes, spell)
  BY WholeInitially DEF MatchInit
<1>3. ServesInv /\ [MatchNext]_matchVars => ServesInv'
  BY <1>1, ConsumedInductive DEF ServesInv
<1> QED BY <1>2, <1>3, ConsumedInvariance, PTL DEF MatchSpec, ServesInv

-----------------------------------------------------------------------------
(* A split edge is followed as the whole one was                           *)

\* Edge i of node n, split behind its first k tokens.
Split(tree, new, n, i, k) ==
    LET edge == tree[n].edges[i]
        mid == Len(tree) + 1
    IN /\ Len(new) = mid
       /\ \A m \in 1..Len(tree) :
            /\ new[m].routes = tree[m].routes
            /\ new[m].endpoint = tree[m].endpoint
            /\ new[m].compare_type = tree[m].compare_type
            /\ Len(new[m].edges) = Len(tree[m].edges)
            /\ \A j \in 1..Len(tree[m].edges) :
                ~(m = n /\ j = i) => new[m].edges[j] = tree[m].edges[j]
       /\ edge.opcode = "NONE" /\ new[n].edges[i].opcode = "NONE"
       /\ new[n].edges[i].pattern = Upto(edge.pattern, k)
       /\ new[n].edges[i].child = mid
       /\ new[mid].endpoint = 0 /\ new[mid].compare_type = "PCRE"
       /\ Len(new[mid].edges) = 1
       /\ new[mid].edges[1].pattern = After(edge.pattern, k)
       /\ new[mid].edges[1].child = edge.child

LEMMA BranchSplits ==
    ASSUME NEW tree, NEW sp, Shape(tree, sp), Sound(tree), NEW n \in 1..Len(tree),
           NEW i \in 1..Len(tree[n].edges),
           NEW k \in 1..(Len(tree[n].edges[i].pattern) - 1)
    PROVE  Split(tree, EdgeBranch(tree, n, i, k), n, i, k)
<1> DEFINE mid == Len(tree) + 1
           edge == tree[n].edges[i]
           upper == Upto(edge.pattern, k)
           lower == After(edge.pattern, k)
           short == [edge EXCEPT !.pattern = upper, !.child = mid]
           edges == [tree[n].edges EXCEPT ![i] = short]
           node == [tree[n] EXCEPT !.edges = edges]
           rest == NewEdge(lower, edge.child, "NONE")
           leaf == [EmptyNode EXCEPT !.edges = <<rest>>]
           between == [tree EXCEPT ![n] = node]
           new == EdgeBranch(tree, n, i, k)
<1>1. /\ Len(tree) \in Nat /\ tree \in Seq(Node)
      /\ tree[n] \in Node /\ tree[n].edges \in Seq(Edge)
  BY ShapeOfNode DEF Shape
<1>2. new = Append(between, leaf)
  <2>1. [tree EXCEPT ![n] = node] = [tree EXCEPT ![n].edges[i] = short]
    BY Zenon
  <2> QED BY <2>1, Zenon DEF EdgeBranch
<1>3. edge \in Edge
  BY <1>1, ElementOfSeq
<1>4. edge.pattern \in Seq(Token) /\ edge.child \in Nat /\ mid \in Nat
  <2>1. edge.pattern \in Seq(Token) /\ edge.child \in Nat
    <3> HIDE DEF edge
    <3> QED BY <1>3 DEF Edge
  <2>2. mid \in Nat
    BY <1>1
  <2> QED BY <2>1, <2>2
<1>5. k \in 0..Len(edge.pattern) /\ Len(edge.pattern) > 1
  BY <1>4
<1>6. edge.opcode = "NONE"
  <2>1. OpcodeFits(edge.pattern, edge.opcode)
    BY DEF Sound, NodeSound, EdgeSound
  <2> HIDE DEF edge
  <2> QED BY <2>1, <1>4, <1>5, LongHasNoOpcode
<1> HIDE DEF edge
<1>7. upper \in Seq(Token) /\ lower \in Seq(Token)
  BY <1>4, <1>5, CutText
<1> HIDE DEF upper, lower, mid
<1>8. /\ short \in Edge /\ short.pattern = upper /\ short.child = mid
      /\ short.opcode = edge.opcode
  BY <1>3, <1>4, <1>7 DEF Edge
<1> HIDE DEF short
<1>9. /\ edges \in Seq(Edge) /\ Len(edges) = Len(tree[n].edges)
      /\ edges[i] = short
      /\ \A j \in 1..Len(tree[n].edges) : j # i => edges[j] = tree[n].edges[j]
  BY <1>1, <1>8, ExceptSeq
<1> HIDE DEF edges
<1>10. /\ node \in Node /\ node.edges = edges /\ node.routes = tree[n].routes
       /\ node.endpoint = tree[n].endpoint
       /\ node.compare_type = tree[n].compare_type
  BY <1>1, <1>9 DEF Node
<1> HIDE DEF node
<1>11. rest \in Edge /\ rest.pattern = lower /\ rest.child = edge.child
  <2>1. "NONE" \in Opcodes
    BY DEF Opcodes
  <2>2. rest \in Edge
    BY <2>1, <1>4, <1>7, NewEdgeType
  <2> QED BY <2>2 DEF NewEdge
<1> HIDE DEF rest
<1>12. /\ leaf \in Node /\ Len(leaf.edges) = 1 /\ leaf.edges[1] = rest
       /\ leaf.endpoint = 0 /\ leaf.compare_type = "PCRE"
  <2>1. leaf = [edges |-> <<rest>>, routes |-> <<>>, endpoint |-> 0,
                compare_type |-> "PCRE"]
    BY DEF EmptyNode
  <2>2. <<rest>> \in Seq(Edge) /\ Len(<<rest>>) = 1 /\ <<rest>>[1] = rest
    BY <1>11
  <2>3. <<>> \in Seq(Route)
    BY EmptySeq
  <2> HIDE DEF leaf
  <2> QED BY <2>1, <2>2, <2>3 DEF Node
<1> HIDE DEF leaf
<1>13. /\ between \in Seq(Node) /\ Len(between) = Len(tree) /\ between[n] = node
       /\ \A m \in 1..Len(tree) : m # n => between[m] = tree[m]
  BY <1>1, <1>10, ExceptSeq
<1> HIDE DEF between, new
<1>14. /\ Len(new) = mid /\ new[mid] = leaf
       /\ \A m \in 1..Len(tree) : new[m] = between[m]
  <2>1. /\ Len(Append(between, leaf)) = Len(between) + 1
        /\ Append(between, leaf)[Len(between) + 1] = leaf
        /\ \A m \in 1..Len(between) : Append(between, leaf)[m] = between[m]
    BY <1>12, <1>13, AppendProperties
  <2> QED BY <2>1, <1>2, <1>13 DEF mid
<1>15. \A m \in 1..Len(tree) : m # n => new[m] = tree[m]
  BY <1>13, <1>14
<1>16. new[n] = node
  BY <1>13, <1>14
<1>17. \A m \in 1..Len(tree) :
            /\ new[m].routes = tree[m].routes
            /\ new[m].endpoint = tree[m].endpoint
            /\ new[m].compare_type = tree[m].compare_type
            /\ Len(new[m].edges) = Len(tree[m].edges)
  BY <1>9, <1>10, <1>15, <1>16
<1>18. \A m \in 1..Len(tree) : \A j \in 1..Len(tree[m].edges) :
            ~(m = n /\ j = i) => new[m].edges[j] = tree[m].edges[j]
  BY <1>9, <1>10, <1>15, <1>16
<1>19. /\ edge.opcode = "NONE" /\ new[n].edges[i].opcode = "NONE"
       /\ new[n].edges[i].pattern = upper /\ new[n].edges[i].child = mid
  BY <1>6, <1>8, <1>9, <1>10, <1>16
<1>20. /\ new[mid].endpoint = 0 /\ new[mid].compare_type = "PCRE"
       /\ Len(new[mid].edges) = 1
       /\ new[mid].edges[1].pattern = lower
       /\ new[mid].edges[1].child = edge.child
  BY <1>11, <1>12, <1>14
<1> QED BY <1>14, <1>17, <1>18, <1>19, <1>20, Zenon
        DEF Split, mid, edge, upper, lower, new

\* A tree and the tree in which edge i of node n has been split.
OnSplit(tree, sp, new, n, i, k) ==
    /\ Shape(tree, sp) /\ Sound(tree)
    /\ n \in 1..Len(tree) /\ i \in 1..Len(tree[n].edges)
    /\ k \in 1..(Len(tree[n].edges[i].pattern) - 1)
    /\ Split(tree, new, n, i, k)

\* The walk takes edge "here" of node m in the one tree and "there" in the
\* other; it is the same edge, or none.
SameEdge(tree, new, m, here, there) ==
    /\ here = there
    /\ here # 0 => /\ here \in 1..Len(tree[m].edges)
                   /\ new[m].edges[here] = tree[m].edges[here]

\* An edge that can be split has no opcode, so opcode edges stay.
LEMMA SplitOpcodeEdge ==
    ASSUME NEW tree, NEW sp, NEW new, NEW n, NEW i, NEW k,
           OnSplit(tree, sp, new, n, i, k),
           NEW m \in 1..Len(tree), NEW rest \in Seq(Literals)
    PROVE  SameEdge(tree, new, m, OpcodeEdge(tree[m], rest), OpcodeEdge(new[m], rest))
<1> DEFINE I(node) == {j \in 1..Len(node.edges) :
                        \/ node.edges[j].opcode = "GREEDY"
                        \/ RunLength(node.edges[j].opcode, rest) > 0}
           here == OpcodeEdge(tree[m], rest)
<1>1. /\ new[m].compare_type = tree[m].compare_type
      /\ Len(new[m].edges) = Len(tree[m].edges)
      /\ \A j \in 1..Len(tree[m].edges) :
            ~(m = n /\ j = i) => new[m].edges[j] = tree[m].edges[j]
      /\ tree[n].edges[i].opcode = "NONE" /\ new[n].edges[i].opcode = "NONE"
  BY DEF OnSplit, Split
<1>2. \A j \in 1..Len(tree[m].edges) :
        new[m].edges[j].opcode = tree[m].edges[j].opcode
  BY <1>1
<1>3. I(new[m]) = I(tree[m])
  BY <1>1, <1>2
<1>4. \A node : OpcodeEdge(node, rest)
                = IF node.compare_type # "OPCODE" THEN 0
                  ELSE IF I(node) # {} THEN Min(I(node)) ELSE 0
  BY Zenon DEF OpcodeEdge, SelectInSeq
<1>5. OpcodeEdge(new[m], rest) = here
  <2> HIDE DEF I
  <2> QED BY <1>1, <1>3, <1>4
<1>6. ASSUME here # 0
      PROVE  here \in 1..Len(tree[m].edges) /\ new[m].edges[here] = tree[m].edges[here]
  <2>1. tree[m] \in Node /\ NodeSound(tree[m])
    BY ShapeOfNode DEF OnSplit, Sound
  <2>2. /\ here \in 1..Len(tree[m].edges)
        /\ \E slug \in Slugs : /\ tree[m].edges[here].pattern = <<slug>>
                              /\ tree[m].edges[here].opcode = SlugOpcode[slug]
                              /\ SlugOpcode[slug] # "NONE"
    BY <2>1, <1>6, OpcodeEdgeIsSlug
  <2>3. tree[m].edges[here].opcode # "NONE"
    BY <2>2
  <2> HIDE DEF here
  <2> QED BY <2>2, <2>3, <1>1
<1> QED BY <1>5, <1>6 DEF SameEdge

\* The first character of an edge stays; the rest of it is compared one edge
\* below.
HalfEdge(tree, n, i, k, here, there, rest) ==
    LET pattern == tree[n].edges[i].pattern IN
    /\ there = IF IsPrefix(Upto(pattern, k), rest) THEN i ELSE 0
    /\ here = IF IsPrefix(pattern, rest) THEN i ELSE 0

LEMMA SplitLiteralEdge ==
    ASSUME NEW tree, NEW sp, NEW new, NEW n, NEW i, NEW k,
           OnSplit(tree, sp, new, n, i, k),
           NEW m \in 1..Len(tree), NEW rest \in Seq(Literals)
    PROVE  LET here == LiteralEdge(tree[m], rest)
               there == LiteralEdge(new[m], rest)
           IN \/ SameEdge(tree, new, m, here, there)
              \/ m = n /\ HalfEdge(tree, n, i, k, here, there, rest)
<1> DEFINE I(node) == {j \in 1..Len(node.edges) :
                        rest # <<>> /\ node.edges[j].pattern[1] = rest[1]}
           First(node) == IF I(node) # {} THEN Min(I(node)) ELSE 0
           first == First(tree[m])
           pattern == tree[n].edges[i].pattern
           here == LiteralEdge(tree[m], rest)
           there == LiteralEdge(new[m], rest)
<1>1. /\ Len(new[m].edges) = Len(tree[m].edges)
      /\ \A j \in 1..Len(tree[m].edges) :
            ~(m = n /\ j = i) => new[m].edges[j] = tree[m].edges[j]
      /\ new[n].edges[i].pattern = Upto(pattern, k)
  BY DEF OnSplit, Split
<1>2. Upto(pattern, k)[1] = pattern[1]
  <2>1. pattern \in Seq(Token) /\ k \in 1..(Len(pattern) - 1)
    BY EdgeDown DEF OnSplit
  <2> HIDE DEF pattern
  <2>2. k \in 1..Len(pattern)
    BY <2>1
  <2> QED BY <2>1, <2>2, CutSlugs
<1>3. \A j \in 1..Len(tree[m].edges) :
        new[m].edges[j].pattern[1] = tree[m].edges[j].pattern[1]
  BY <1>1, <1>2
<1>4. I(new[m]) = I(tree[m])
  BY <1>1, <1>3
<1>5. First(new[m]) = first
  <2> HIDE DEF I
  <2> QED BY <1>4
<1>6. \A node : LiteralEdge(node, rest)
                = IF First(node) # 0 /\ IsPrefix(node.edges[First(node)].pattern, rest)
                  THEN First(node) ELSE 0
  BY Zenon DEF LiteralEdge, SelectInSeq
<1>7. first \in 0..Len(tree[m].edges) /\ Len(tree[m].edges) \in Nat
  <2>1. Len(tree[m].edges) \in Nat
    BY ShapeOfNode, LenProperties DEF OnSplit
  <2>2. I(tree[m]) \subseteq 1..Len(tree[m].edges)
    OBVIOUS
  <2> HIDE DEF I
  <2> QED BY <2>1, <2>2, FirstOrNone
<1> HIDE DEF First, first
<1>8. /\ here = IF first # 0 /\ IsPrefix(tree[m].edges[first].pattern, rest)
                THEN first ELSE 0
      /\ there = IF first # 0 /\ IsPrefix(new[m].edges[first].pattern, rest)
                 THEN first ELSE 0
  BY <1>5, <1>6 DEF first
<1> HIDE DEF here, there
<1>9. CASE m = n /\ first = i
  <2>1. HalfEdge(tree, n, i, k, here, there, rest)
    <3>1. i # 0
      BY DEF OnSplit
    <3> QED BY <1>1, <1>8, <1>9, <3>1 DEF HalfEdge
  <2> QED BY <1>9, <2>1 DEF here, there
<1>10. CASE ~(m = n /\ first = i)
  <2>1. SameEdge(tree, new, m, here, there)
    BY <1>1, <1>7, <1>8, <1>10 DEF SameEdge
  <2> QED BY <2>1 DEF here, there
<1> QED BY <1>9, <1>10

\* The two walks have collected the same; they may be at different places.
SameBut(e, f) ==
    /\ e.pc = f.pc /\ e.path = f.path /\ e.method = f.method
    /\ e.tokens = f.tokens /\ e.route = f.route

Alike(e, f) == e = f \/ (e.pc = "nil" /\ f.pc = "nil")

LEMMA SameGoOn ==
    ASSUME NEW k, NEW l, NEW e \in EntryIn(k), NEW f \in EntryIn(l), SameBut(e, f),
           NEW child, NEW rest
    PROVE  GoOn(e, child, rest) = GoOn(f, child, rest)
BY DEF GoOn, SameBut, EntryIn

\* A node has its endpoint in both trees.
LEMMA SplitArrive ==
    ASSUME NEW tree, NEW sp, NEW new, NEW n, NEW i, NEW k,
           OnSplit(tree, sp, new, n, i, k),
           NEW e \in EntryIn(Len(tree)), NEW f \in EntryIn(Len(new)), SameBut(e, f),
           NEW child \in 1..Len(tree)
    PROVE  /\ Alike(Arrive(tree, e, child), Arrive(new, f, child))
           /\ Arrive(tree, e, child) = Arrive(new, e, child)
<1>1. new[child].endpoint = tree[child].endpoint
  BY DEF OnSplit, Split
<1>2. Arrive(tree, e, child) = Arrive(new, e, child)
  BY <1>1 DEF Arrive
<1>3. Alike(Arrive(tree, e, child), Arrive(new, f, child))
  <2>1. CASE tree[child].endpoint > 0
    <3>1. /\ Arrive(tree, e, child)
                = [e EXCEPT !.pc = "node", !.node = child, !.rest = <<>>]
          /\ Arrive(new, f, child)
                = [f EXCEPT !.pc = "node", !.node = child, !.rest = <<>>]
      BY <1>1, <2>1 DEF Arrive
    <3>2. \A p, c, r : [e EXCEPT !.pc = p, !.node = c, !.rest = r]
                        = [f EXCEPT !.pc = p, !.node = c, !.rest = r]
      BY DEF SameBut, EntryIn
    <3>3. Arrive(tree, e, child) = Arrive(new, f, child)
      BY <3>1, <3>2, Zenon
    <3> QED BY <3>3 DEF Alike
  <2>2. CASE ~(tree[child].endpoint > 0)
    <3>1. /\ Arrive(tree, e, child) = [e EXCEPT !.pc = "nil", !.rest = <<>>]
          /\ Arrive(new, f, child) = [f EXCEPT !.pc = "nil", !.rest = <<>>]
      BY <1>1, <2>2 DEF Arrive
    <3>2. Arrive(tree, e, child).pc = "nil" /\ Arrive(new, f, child).pc = "nil"
      BY <3>1 DEF EntryIn
    <3> QED BY <3>2 DEF Alike
  <2> QED BY <2>1, <2>2
<1> QED BY <1>2, <1>3

LEMMA SplitOpcodeStep ==
    ASSUME NEW tree, NEW sp, NEW new, NEW n, NEW i, NEW k,
           OnSplit(tree, sp, new, n, i, k),
           NEW e \in EntryIn(Len(tree)), NEW j,
           SameEdge(tree, new, e.node, j, j), j # 0
    PROVE  OpcodeStep(new, e, j) = OpcodeStep(tree, e, j)
<1> DEFINE edge == tree[e.node].edges[j]
           run == RunLength(edge.opcode, e.rest)
           taken == [e EXCEPT !.tokens = Append(@, Upto(e.rest, run))]
<1>1. new[e.node].edges[j] = edge
  BY DEF SameEdge
<1>2. edge.child \in 1..Len(tree)
  <2>1. e.node \in 1..Len(tree) /\ j \in 1..Len(tree[e.node].edges)
    BY DEF SameEdge, EntryIn
  <2> QED BY <2>1, EdgeDown DEF OnSplit
<1>3. new[edge.child].endpoint = tree[edge.child].endpoint
  BY <1>2 DEF OnSplit, Split
<1> HIDE DEF edge, run
<1>4. Arrive(new, taken, edge.child) = Arrive(tree, taken, edge.child)
  BY <1>3 DEF Arrive
<1>5. \A t : t[e.node].edges[j] = edge =>
        OpcodeStep(t, e, j) = IF run = Len(e.rest) THEN Arrive(t, taken, edge.child)
                              ELSE GoOn(taken, edge.child, After(e.rest, run))
  BY DEF OpcodeStep, edge, run
<1> HIDE DEF taken
<1> QED BY <1>1, <1>4, <1>5 DEF edge

LEMMA SplitEndStep ==
    ASSUME NEW tree, NEW sp, NEW new, NEW n, NEW i, NEW k,
           OnSplit(tree, sp, new, n, i, k),
           NEW e \in EntryIn(Len(tree)), NEW f \in EntryIn(Len(new)), SameBut(e, f),
           e.pc = "walk", Unrouted(e), NEW child \in 1..Len(tree)
    PROVE  Alike(EndStep(tree, e, child), EndStep(new, f, child))
<1> DEFINE greedy == OpcodeEdge(tree[child], <<>>)
           inside == GoOn(e, child, <<>>)
           inner == OpcodeStep(tree, inside, greedy)
           after == [e EXCEPT !.tokens = inner.tokens]
           after2 == [f EXCEPT !.tokens = inner.tokens]
<1>1. <<>> \in Seq(Literals)
  OBVIOUS
<1>2. SameEdge(tree, new, child, greedy, OpcodeEdge(new[child], <<>>))
  BY <1>1, SplitOpcodeEdge
<1>3. GoOn(f, child, <<>>) = inside
  BY SameGoOn
<1>4. /\ inside \in EntryIn(Len(tree)) /\ inside.node = child
      /\ inside.pc = "walk" /\ Unrouted(inside)
  <2> DEFINE empty == <<>>
  <2>1. empty \in Seq(Literals)
    OBVIOUS
  <2> HIDE DEF empty
  <2>2. /\ GoOn(e, child, empty) \in EntryIn(Len(tree))
        /\ GoOn(e, child, empty).node = child
        /\ GoOn(e, child, empty).pc = e.pc
        /\ GoOn(e, child, empty).route = e.route
    BY <2>1, GoOnEntry
  <2>3. /\ inside \in EntryIn(Len(tree)) /\ inside.node = child
        /\ inside.pc = e.pc /\ inside.route = e.route
    BY <2>2 DEF inside, empty
  <2> HIDE DEF inside
  <2> QED BY <2>3 DEF Unrouted
<1>5. OpcodeEdge(new[child], <<>>) = greedy
  BY <1>2 DEF SameEdge
<1>6. EndStep(tree, e, child)
        = IF greedy = 0 THEN Arrive(tree, e, child)
          ELSE IF inner.pc = "node" THEN inner ELSE Arrive(tree, after, child)
  BY DEF EndStep
<1>7. EndStep(new, f, child)
        = IF greedy = 0 THEN Arrive(new, f, child)
          ELSE LET inner2 == OpcodeStep(new, inside, greedy) IN
               IF inner2.pc = "node" THEN inner2
               ELSE Arrive(new, [f EXCEPT !.tokens = inner2.tokens], child)
  BY <1>3, <1>5 DEF EndStep
<1> HIDE DEF greedy, inside
<1>8. ASSUME greedy # 0
      PROVE  /\ OpcodeStep(new, inside, greedy) = inner
             /\ inner \in EntryIn(Len(tree))
  <2>1. SameEdge(tree, new, inside.node, greedy, greedy)
    BY <1>2, <1>4 DEF SameEdge
  <2>2. OpcodeStep(new, inside, greedy) = inner
    BY <1>4, <1>8, <2>1, SplitOpcodeStep
  <2>3. greedy \in 1..Len(tree[inside.node].edges)
    BY <2>1, <1>8 DEF SameEdge
  <2>4. inner \in EntryIn(Len(tree))
    BY <2>3, <1>4, OpcodeStepEntry DEF OnSplit
  <2> QED BY <2>2, <2>4
<1> HIDE DEF inner
<1>9. CASE greedy = 0
  <2>1. Alike(Arrive(tree, e, child), Arrive(new, f, child))
    BY SplitArrive
  <2> QED BY <2>1, <1>6, <1>7, <1>9
<1>10. CASE greedy # 0 /\ inner.pc = "node"
  <2>1. EndStep(tree, e, child) = inner
    BY <1>6, <1>10
  <2>2. EndStep(new, f, child) = inner
    BY <1>7, <1>8, <1>10
  <2> QED BY <2>1, <2>2 DEF Alike
<1>11. CASE greedy # 0 /\ inner.pc # "node"
  <2>1. inner.tokens \in Seq(Seq(Literals))
    BY <1>8, <1>11 DEF EntryIn
  <2>2. after \in EntryIn(Len(tree))
    BY <2>1 DEF EntryIn
  <2>3. after2 \in EntryIn(Len(new))
    BY <2>1 DEF EntryIn
  <2>4. SameBut(after, after2)
    BY DEF SameBut, EntryIn
  <2>5. /\ EndStep(tree, e, child) = Arrive(tree, after, child)
        /\ EndStep(new, f, child) = Arrive(new, after2, child)
    BY <1>6, <1>7, <1>8, <1>11
  <2> HIDE DEF after, after2
  <2> QED BY <2>2, <2>3, <2>4, <2>5, SplitArrive
<1> QED BY <1>9, <1>10, <1>11

LEMMA PrefixInParts ==
    ASSUME NEW pattern \in Seq(Token), NEW rest \in Seq(Literals),
           NEW k \in 1..Len(pattern), k <= Len(rest)
    PROVE  IsPrefix(pattern, rest) <=>
              /\ IsPrefix(Upto(pattern, k), rest)
              /\ IsPrefix(After(pattern, k), After(rest, k))
<1> DEFINE upper == Upto(pattern, k)
           lower == After(pattern, k)
           below == After(rest, k)
<1>1. /\ Len(pattern) \in Nat /\ Len(rest) \in Nat /\ k \in Nat
      /\ k \in 0..Len(pattern) /\ k \in 0..Len(rest)
  BY LenProperties
<1>2. /\ upper \in Seq(Token) /\ Len(upper) = k
      /\ lower \in Seq(Token) /\ Len(lower) = Len(pattern) - k
      /\ below \in Seq(Literals) /\ Len(below) = Len(rest) - k
  BY <1>1 DEF Upto, After
<1>3. /\ \A j \in 1..k : upper[j] = pattern[j]
      /\ \A j \in 1..(Len(pattern) - k) : lower[j] = pattern[k + j]
      /\ \A j \in 1..(Len(rest) - k) : below[j] = rest[k + j]
  BY <1>1 DEF Upto, After
<1> HIDE DEF upper, lower, below
<1>4. /\ IsPrefix(pattern, rest) <=>
            /\ Len(pattern) <= Len(rest)
            /\ \A j \in 1..Len(pattern) : pattern[j] = rest[j]
      /\ IsPrefix(upper, rest) <=>
            k <= Len(rest) /\ \A j \in 1..k : upper[j] = rest[j]
      /\ IsPrefix(lower, below) <=>
            /\ Len(lower) <= Len(below)
            /\ \A j \in 1..Len(lower) : lower[j] = below[j]
  BY <1>2, PrefixByCharacter
<1>5. ASSUME IsPrefix(pattern, rest)
      PROVE  IsPrefix(upper, rest) /\ IsPrefix(lower, below)
  <2>1. \A j \in 1..k : j \in 1..Len(pattern)
    BY <1>1
  <2>2. \A j \in 1..(Len(pattern) - k) :
            k + j \in 1..Len(pattern) /\ j \in 1..(Len(rest) - k)
    BY <1>1, <1>4, <1>5
  <2>3. Len(lower) <= Len(below)
    BY <1>1, <1>2, <1>4, <1>5
  <2>4. \A j \in 1..k : upper[j] = rest[j]
    BY <2>1, <1>3, <1>4, <1>5
  <2>5. \A j \in 1..(Len(pattern) - k) : lower[j] = below[j]
    BY <2>2, <1>3, <1>4, <1>5
  <2>6. IsPrefix(upper, rest)
    BY <2>4, <1>4
  <2>7. IsPrefix(lower, below)
    BY <2>3, <2>5, <1>2, <1>4
  <2> QED BY <2>6, <2>7
<1>6. ASSUME IsPrefix(upper, rest), IsPrefix(lower, below)
      PROVE  IsPrefix(pattern, rest)
  <2>1. Len(pattern) <= Len(rest)
    BY <1>1, <1>2, <1>4, <1>6
  <2>2. ASSUME NEW j \in 1..Len(pattern)
        PROVE  pattern[j] = rest[j]
    <3>1. CASE j \in 1..k
      BY <3>1, <1>3, <1>4, <1>6
    <3>2. CASE j \notin 1..k
      <4> DEFINE l == j - k
      <4>1. /\ l \in 1..(Len(pattern) - k) /\ l \in 1..(Len(rest) - k)
            /\ k + l = j
        BY <3>2, <2>1, <1>1
      <4> HIDE DEF l
      <4>2. lower[l] = below[l]
        BY <4>1, <1>2, <1>4, <1>6
      <4>3. lower[l] = pattern[j] /\ below[l] = rest[j]
        BY <4>1, <1>3
      <4> QED BY <4>2, <4>3
    <3> QED BY <3>1, <3>2
  <2> QED BY <2>1, <2>2, <1>4
<1> QED BY <1>5, <1>6 DEF upper, lower, below

LEMMA AfterTwice ==
    ASSUME NEW rest \in Seq(Literals), NEW k \in 0..Len(rest), NEW l \in Nat,
           k + l <= Len(rest)
    PROVE  After(After(rest, k), l) = After(rest, k + l)
<1> DEFINE a == After(rest, k)
           b == After(a, l)
           d == After(rest, k + l)
<1>1. Len(rest) \in Nat /\ k \in Nat /\ l \in 0..(Len(rest) - k)
      /\ k + l \in 0..Len(rest)
  BY LenProperties
<1>2. /\ a \in Seq(Literals) /\ Len(a) = Len(rest) - k
      /\ \A j \in 1..(Len(rest) - k) : a[j] = rest[k + j]
  BY <1>1 DEF After
<1>3. /\ d \in Seq(Literals) /\ Len(d) = Len(rest) - (k + l)
      /\ \A j \in 1..(Len(rest) - (k + l)) : d[j] = rest[k + l + j]
  BY <1>1 DEF After
<1> HIDE DEF a
<1>4. /\ b \in Seq(Literals) /\ Len(b) = Len(a) - l
      /\ \A j \in 1..(Len(a) - l) : b[j] = a[l + j]
  BY <1>1, <1>2 DEF After
<1> HIDE DEF b, d
<1>5. Len(b) = Len(d) /\ Len(d) \in Nat
  BY <1>1, <1>2, <1>3, <1>4
<1>6. ASSUME NEW j \in 1..Len(d)
      PROVE  b[j] = d[j]
  <2>1. l + j \in 1..(Len(rest) - k) /\ j \in 1..(Len(a) - l)
    BY <1>1, <1>2, <1>3
  <2>2. k + (l + j) = k + l + j
    BY <1>1, <1>5
  <2> QED BY <2>1, <2>2, <1>2, <1>3, <1>4
<1>7. b = d
  BY <1>3, <1>4, <1>5, <1>6, SeqEqual
<1> QED BY <1>7 DEF a, b, d

\* The walk on the split tree is at the new node, in the middle of the edge the
\* other walk is about to follow or to fail on.
Between(tree, n, i, k, e, f) ==
    LET pattern == tree[n].edges[i].pattern IN
    /\ e.pc = "walk" /\ e.node = n
    /\ OpcodeEdge(tree[n], e.rest) = 0
    /\ LiteralEdge(tree[n], e.rest) = IF IsPrefix(pattern, e.rest) THEN i ELSE 0
    /\ k < Len(e.rest) /\ IsPrefix(Upto(pattern, k), e.rest)
    /\ f = GoOn(e, Len(tree) + 1, After(e.rest, k))

Tracks(tree, n, i, k, e, f) == Alike(e, f) \/ Between(tree, n, i, k, e, f)

LEMMA SplitLengths ==
    ASSUME NEW tree, NEW sp, NEW new, NEW n, NEW i, NEW k,
           OnSplit(tree, sp, new, n, i, k)
    PROVE  Len(tree) \in Nat /\ Len(new) \in Nat /\ Len(new) = Len(tree) + 1
<1>1. Len(tree) \in Nat
  BY ShapeOfNode DEF OnSplit
<1>2. Len(new) = Len(tree) + 1
  BY DEF OnSplit, Split
<1> QED BY <1>1, <1>2

\* An entry of a walk on the one tree is one on the other.
LEMMA SplitEntry ==
    ASSUME NEW tree, NEW sp, NEW new, NEW n, NEW i, NEW k,
           OnSplit(tree, sp, new, n, i, k), NEW e \in EntryIn(Len(tree))
    PROVE  /\ e \in EntryIn(Len(new)) /\ SameBut(e, e)
           /\ Len(tree) \in Nat /\ Len(new) = Len(tree) + 1
<1>1. Len(tree) \in Nat /\ Len(new) = Len(tree) + 1
  BY SplitLengths
<1>2. e \in EntryIn(Len(new))
  BY <1>1 DEF EntryIn
<1> QED BY <1>1, <1>2 DEF SameBut

\* The new node has one edge, and no opcode.
LEMMA MiddleEdges ==
    ASSUME NEW tree, NEW sp, NEW new, NEW n, NEW i, NEW k,
           OnSplit(tree, sp, new, n, i, k), NEW rest \in Seq(Literals)
    PROVE  LET mid == new[Len(tree) + 1]
               lower == After(tree[n].edges[i].pattern, k)
           IN /\ OpcodeEdge(mid, rest) = 0
              /\ LiteralEdge(mid, rest) = IF IsPrefix(lower, rest) THEN 1 ELSE 0
<1> DEFINE lower == After(tree[n].edges[i].pattern, k)
           mid == new[Len(tree) + 1]
           I == {j \in 1..Len(mid.edges) :
                    rest # <<>> /\ mid.edges[j].pattern[1] = rest[1]}
           first == IF I # {} THEN Min(I) ELSE 0
<1>1. /\ mid.compare_type = "PCRE" /\ Len(mid.edges) = 1
      /\ mid.edges[1].pattern = lower
  BY DEF OnSplit, Split
<1>2. lower \in Seq(Token) /\ Len(lower) \in Nat \ {0}
  <2>1. /\ tree[n].edges[i].pattern \in Seq(Token)
        /\ k \in 1..(Len(tree[n].edges[i].pattern) - 1)
    BY EdgeDown DEF OnSplit
  <2> DEFINE pattern == tree[n].edges[i].pattern
  <2> HIDE DEF pattern
  <2>2. k \in 0..Len(pattern) /\ Len(pattern) - k \in Nat \ {0}
    BY <2>1 DEF pattern
  <2>3. After(pattern, k) \in Seq(Token) /\ Len(After(pattern, k)) = Len(pattern) - k
    BY <2>1, <2>2, CutText DEF pattern
  <2> QED BY <2>2, <2>3 DEF pattern
<1> HIDE DEF lower, mid
<1>3. IsPrefix(lower, rest) => rest # <<>> /\ lower[1] = rest[1]
  <2>1. IsPrefix(lower, rest) <=>
            /\ Len(lower) <= Len(rest)
            /\ \A j \in 1..Len(lower) : lower[j] = rest[j]
    BY <1>2, PrefixByCharacter
  <2>2. 1 \in 1..Len(lower)
    BY <1>2
  <2> QED BY <2>1, <2>2, <1>2
<1>4. I \subseteq {1}
  BY <1>1
<1>5. I = {1} => first = 1
  <2>1. ASSUME I = {1}
        PROVE  Min(I) \in I
    <3> HIDE DEF I
    <3>1. I \subseteq Nat /\ I # {}
      BY <2>1
    <3> QED BY <3>1, LeastNatural
  <2> HIDE DEF I
  <2> QED BY <2>1
<1>6. I = {} => first = 0
  OBVIOUS
<1>7. IsPrefix(lower, rest) => I = {1}
  BY <1>1, <1>3
<1>8. LiteralEdge(mid, rest)
        = IF first # 0 /\ IsPrefix(mid.edges[first].pattern, rest)
          THEN first ELSE 0
  BY Zenon DEF LiteralEdge, SelectInSeq
<1> HIDE DEF I, first
<1>9. LiteralEdge(mid, rest) = IF IsPrefix(lower, rest) THEN 1 ELSE 0
  BY <1>1, <1>4, <1>5, <1>6, <1>7, <1>8
<1>10. OpcodeEdge(mid, rest) = 0
  BY <1>1 DEF OpcodeEdge
<1> QED BY <1>9, <1>10 DEF mid, lower

LEMMA BetweenStep ==
    ASSUME NEW tree, NEW sp, NEW new, NEW n, NEW i, NEW k,
           OnSplit(tree, sp, new, n, i, k),
           NEW e \in EntryIn(Len(tree)), Unrouted(e), NEW f,
           Between(tree, n, i, k, e, f)
    PROVE  Alike(Advance(tree, e), Advance(new, f))
<1> DEFINE pattern == tree[n].edges[i].pattern
           lower == After(pattern, k)
           child == tree[n].edges[i].child
           below == After(e.rest, k)
           mid == Len(tree) + 1
<1>1. /\ pattern \in Seq(Token) /\ k \in 1..(Len(pattern) - 1)
      /\ child \in 1..Len(tree) /\ i \in 1..Len(tree[n].edges)
  BY EdgeDown DEF OnSplit
<1>2. /\ e.pc = "walk" /\ e.node = n /\ k < Len(e.rest)
      /\ IsPrefix(Upto(pattern, k), e.rest)
      /\ OpcodeEdge(tree[n], e.rest) = 0
      /\ LiteralEdge(tree[n], e.rest) = IF IsPrefix(pattern, e.rest) THEN i ELSE 0
      /\ f = GoOn(e, mid, below)
  BY DEF Between
<1>3. /\ e.rest \in Seq(Literals) /\ Len(e.rest) \in Nat
      /\ k \in 0..Len(e.rest) /\ k <= Len(e.rest)
  <2>1. e.rest \in Seq(Literals)
    BY DEF EntryIn
  <2> QED BY <2>1, <1>1, <1>2
<1>4. below \in Seq(Literals) /\ Len(below) = Len(e.rest) - k
  BY <1>3 DEF After
<1>5. /\ Len(tree) \in Nat /\ Len(new) = mid /\ e \in EntryIn(Len(new))
  BY SplitEntry
<1> HIDE DEF below, mid, child, pattern
<1>6. /\ f \in EntryIn(Len(new)) /\ f.node = mid /\ f.rest = below
      /\ f.pc = "walk" /\ SameBut(e, f)
  <2>1. mid \in 1..Len(new)
    BY <1>5 DEF mid
  <2>2. /\ f \in EntryIn(Len(new)) /\ f.node = mid /\ f.rest = below
        /\ f.pc = "walk"
    BY <2>1, <1>2, <1>4, <1>5, GoOnEntry
  <2>3. SameBut(e, f)
    BY <1>2 DEF SameBut, GoOn, EntryIn
  <2> QED BY <2>2, <2>3
<1>7. /\ k \in 1..Len(pattern) /\ Len(pattern) \in Nat
      /\ k \in 0..Len(pattern) /\ Len(lower) = Len(pattern) - k
  <2>1. k \in 0..Len(pattern) /\ k \in 1..Len(pattern) /\ Len(pattern) \in Nat
    BY <1>1
  <2> QED BY <2>1, <1>1, CutText
<1>8. IsPrefix(pattern, e.rest) <=> IsPrefix(lower, below)
  BY <1>1, <1>2, <1>3, <1>7, PrefixInParts DEF below
<1> HIDE DEF lower
<1>9. WalkStep(new, f) = IF IsPrefix(lower, below) THEN LiteralStep(new, f, 1)
                         ELSE [f EXCEPT !.pc = "nil", !.rest = <<>>]
  <2>1. /\ OpcodeEdge(new[mid], below) = 0
        /\ LiteralEdge(new[mid], below) = IF IsPrefix(lower, below) THEN 1 ELSE 0
    BY <1>4, MiddleEdges DEF lower, pattern, mid
  <2> QED BY <2>1, <1>6 DEF WalkStep
<1>10. WalkStep(tree, e) = IF IsPrefix(pattern, e.rest) THEN LiteralStep(tree, e, i)
                           ELSE [e EXCEPT !.pc = "nil", !.rest = <<>>]
  <2>1. i # 0
    BY <1>1
  <2> QED BY <2>1, <1>2 DEF WalkStep
<1>11. Advance(tree, e) = WalkStep(tree, e) /\ Advance(new, f) = WalkStep(new, f)
  BY <1>2, <1>6 DEF Advance
<1>12. CASE ~IsPrefix(pattern, e.rest)
  <2>1. /\ Advance(tree, e) = [e EXCEPT !.pc = "nil", !.rest = <<>>]
        /\ Advance(new, f) = [f EXCEPT !.pc = "nil", !.rest = <<>>]
    BY <1>8, <1>9, <1>10, <1>11, <1>12
  <2>2. Advance(tree, e).pc = "nil" /\ Advance(new, f).pc = "nil"
    BY <2>1, <1>6 DEF EntryIn
  <2> QED BY <2>2 DEF Alike
<1>13. CASE IsPrefix(pattern, e.rest)
  <2>1. /\ Advance(tree, e) = IF Len(pattern) < Len(e.rest)
                              THEN GoOn(e, child, After(e.rest, Len(pattern)))
                              ELSE EndStep(tree, e, child)
    BY <1>2, <1>10, <1>11, <1>13 DEF LiteralStep, pattern, child
  <2>2. /\ new[mid].edges[1].pattern = lower
        /\ new[mid].edges[1].child = child
    BY DEF OnSplit, Split, mid, lower, pattern, child
  <2>3. Advance(new, f) = IF Len(lower) < Len(below)
                          THEN GoOn(f, child, After(below, Len(lower)))
                          ELSE EndStep(new, f, child)
    BY <1>6, <1>8, <1>9, <1>11, <1>13, <2>2 DEF LiteralStep
  <2>4. Len(lower) < Len(below) <=> Len(pattern) < Len(e.rest)
    BY <1>3, <1>4, <1>7
  <2>5. CASE Len(pattern) < Len(e.rest)
    <3>1. Len(lower) \in Nat /\ k + Len(lower) = Len(pattern)
      BY <1>7
    <3>2. After(below, Len(lower)) = After(e.rest, Len(pattern))
      <4>1. k + Len(lower) <= Len(e.rest)
        BY <3>1, <2>5
      <4> QED BY <3>1, <4>1, <1>3, AfterTwice DEF below
    <3>3. GoOn(e, child, After(e.rest, Len(pattern)))
            = GoOn(f, child, After(below, Len(lower)))
      BY <3>2, <1>6, SameGoOn
    <3> QED BY <3>3, <2>1, <2>3, <2>4, <2>5 DEF Alike
  <2>6. CASE ~(Len(pattern) < Len(e.rest))
    <3>1. Alike(EndStep(tree, e, child), EndStep(new, f, child))
      BY <1>1, <1>2, <1>6, SplitEndStep DEF child
    <3> QED BY <3>1, <2>1, <2>3, <2>4, <2>6
  <2> QED BY <2>5, <2>6
<1> QED BY <1>12, <1>13

LEMMA SplitWalkStep ==
    ASSUME NEW tree, NEW sp, NEW new, NEW n, NEW i, NEW k,
           OnSplit(tree, sp, new, n, i, k),
           NEW e \in EntryIn(Len(tree)), e.pc = "walk", Unrouted(e)
    PROVE  \/ Alike(WalkStep(tree, e), WalkStep(new, e))
           \/ Between(tree, n, i, k, e, WalkStep(new, e))
<1> DEFINE m == e.node
           opcodeEdge == OpcodeEdge(tree[m], e.rest)
           here == LiteralEdge(tree[m], e.rest)
           there == LiteralEdge(new[m], e.rest)
           pattern == tree[n].edges[i].pattern
           upper == Upto(pattern, k)
           failed == [e EXCEPT !.pc = "nil", !.rest = <<>>]
<1>1. /\ m \in 1..Len(tree) /\ e.rest \in Seq(Literals) /\ Len(e.rest) \in Nat
  BY LenProperties DEF EntryIn
<1>2. /\ e \in EntryIn(Len(new)) /\ SameBut(e, e) /\ Len(tree) \in Nat
      /\ Len(new) = Len(tree) + 1
  BY SplitEntry, SplitLengths
<1>3. SameEdge(tree, new, m, opcodeEdge, OpcodeEdge(new[m], e.rest))
  BY <1>1, SplitOpcodeEdge
<1>4. \/ SameEdge(tree, new, m, here, there)
      \/ m = n /\ HalfEdge(tree, n, i, k, here, there, e.rest)
  BY <1>1, SplitLiteralEdge
<1>5. OpcodeEdge(new[m], e.rest) = opcodeEdge
  BY <1>3 DEF SameEdge
<1>6. /\ WalkStep(tree, e) = IF opcodeEdge # 0 THEN OpcodeStep(tree, e, opcodeEdge)
                             ELSE IF here # 0 THEN LiteralStep(tree, e, here)
                             ELSE failed
      /\ WalkStep(new, e) = IF opcodeEdge # 0 THEN OpcodeStep(new, e, opcodeEdge)
                            ELSE IF there # 0 THEN LiteralStep(new, e, there)
                            ELSE failed
  BY <1>5 DEF WalkStep
<1>7. /\ pattern \in Seq(Token) /\ Len(pattern) \in Nat
      /\ k \in 1..(Len(pattern) - 1) /\ i # 0
  <2>1. pattern \in Seq(Token) /\ Len(pattern) \in Nat
    BY EdgeDown DEF OnSplit
  <2>2. k \in 1..(Len(pattern) - 1) /\ i \in 1..Len(tree[n].edges)
    BY DEF OnSplit
  <2>3. i # 0
    BY <2>2
  <2> QED BY <2>1, <2>2, <2>3
<1> HIDE DEF m, opcodeEdge, here, there, failed, pattern, upper
<1>8. CASE opcodeEdge # 0
  <2>1. SameEdge(tree, new, e.node, opcodeEdge, opcodeEdge)
    BY <1>3, <1>5 DEF m
  <2>2. OpcodeStep(new, e, opcodeEdge) = OpcodeStep(tree, e, opcodeEdge)
    BY <1>8, <2>1, SplitOpcodeStep
  <2> QED BY <1>6, <1>8, <2>2 DEF Alike
<1>9. CASE opcodeEdge = 0 /\ SameEdge(tree, new, m, here, there)
  <2>1. CASE here = 0
    BY <2>1, <1>6, <1>9 DEF SameEdge, Alike
  <2>2. CASE here # 0
    <3> DEFINE edge == tree[m].edges[here]
               l == Len(edge.pattern)
    <3>1. /\ there = here /\ here \in 1..Len(tree[m].edges)
          /\ new[m].edges[here] = edge
      BY <2>2, <1>9 DEF SameEdge
    <3>2. edge.child \in 1..Len(tree)
      BY <3>1, <1>1, EdgeDown DEF OnSplit
    <3>3. /\ LiteralStep(tree, e, here)
                = IF l < Len(e.rest) THEN GoOn(e, edge.child, After(e.rest, l))
                  ELSE EndStep(tree, e, edge.child)
          /\ LiteralStep(new, e, here)
                = IF l < Len(e.rest) THEN GoOn(e, edge.child, After(e.rest, l))
                  ELSE EndStep(new, e, edge.child)
      BY <3>1 DEF LiteralStep, m
    <3> HIDE DEF edge, l
    <3>4. Alike(EndStep(tree, e, edge.child), EndStep(new, e, edge.child))
      BY <3>2, <1>2, SplitEndStep
    <3>5. Alike(LiteralStep(tree, e, here), LiteralStep(new, e, here))
      <4>1. CASE l < Len(e.rest)
        BY <4>1, <3>3 DEF Alike
      <4>2. CASE ~(l < Len(e.rest))
        BY <4>2, <3>3, <3>4
      <4> QED BY <4>1, <4>2
    <3> QED BY <3>1, <3>5, <2>2, <1>6, <1>9
  <2> QED BY <2>1, <2>2
<1>10. CASE /\ opcodeEdge = 0 /\ m = n
            /\ HalfEdge(tree, n, i, k, here, there, e.rest)
  <2>1. /\ there = IF IsPrefix(upper, e.rest) THEN i ELSE 0
        /\ here = IF IsPrefix(pattern, e.rest) THEN i ELSE 0
    BY <1>10 DEF HalfEdge, pattern, upper
  <2>2. k \in 0..Len(pattern) /\ k \in 1..Len(pattern)
    BY <1>7
  <2>3. upper \in Seq(Token) /\ Len(upper) = k
    BY <1>7, <2>2, CutText DEF upper
  <2>4. /\ IsPrefix(upper, e.rest) => k <= Len(e.rest)
        /\ IsPrefix(pattern, e.rest) => Len(pattern) <= Len(e.rest)
    BY <1>1, <1>7, <2>3, PrefixByCharacter
  <2>5. IsPrefix(pattern, e.rest) => IsPrefix(upper, e.rest)
    <3>1. ASSUME IsPrefix(pattern, e.rest)
          PROVE  k <= Len(e.rest)
      BY <3>1, <2>4, <1>1, <1>7
    <3> QED BY <3>1, <1>1, <1>7, <2>2, PrefixInParts DEF upper
  <2>6. CASE ~IsPrefix(upper, e.rest)
    BY <2>1, <2>5, <2>6, <1>6, <1>10 DEF Alike
  <2>7. CASE IsPrefix(upper, e.rest)
    <3> DEFINE mid == Len(tree) + 1
    <3>1. there = i /\ there # 0
      BY <2>1, <2>7, <1>7
    <3>2. WalkStep(new, e) = IF k < Len(e.rest) THEN GoOn(e, mid, After(e.rest, k))
                             ELSE EndStep(new, e, mid)
      <4>1. /\ new[n].edges[i].pattern = upper /\ new[n].edges[i].child = mid
        BY DEF OnSplit, Split, upper, pattern
      <4>2. WalkStep(new, e) = LiteralStep(new, e, i)
        BY <3>1, <1>6, <1>10
      <4> QED BY <4>1, <4>2, <2>3, <1>10 DEF LiteralStep, m
    <3>3. CASE k < Len(e.rest)
      <4>1. OpcodeEdge(tree[n], e.rest) = 0 /\ e.node = n
        BY <1>10 DEF opcodeEdge, m
      <4>2. LiteralEdge(tree[n], e.rest) = IF IsPrefix(pattern, e.rest) THEN i ELSE 0
        BY <2>1, <1>10 DEF here
      <4>3. WalkStep(new, e) = GoOn(e, Len(tree) + 1, After(e.rest, k))
        BY <3>2, <3>3
      <4> QED BY <4>1, <4>2, <4>3, <3>3, <2>7 DEF Between, pattern, upper
    <3>4. CASE ~(k < Len(e.rest))
      <4>1. ~IsPrefix(pattern, e.rest)
        BY <3>4, <2>4, <1>1, <1>7
      <4>2. WalkStep(tree, e) = failed
        BY <4>1, <2>1, <1>6, <1>10
      <4>3. OpcodeEdge(new[mid], <<>>) = 0
        <5>1. <<>> \in Seq(Literals)
          OBVIOUS
        <5> QED BY <5>1, MiddleEdges
      <4>4. ~(new[mid].endpoint > 0)
        BY DEF OnSplit, Split
      <4>5. WalkStep(new, e) = Arrive(new, e, mid)
        BY <3>2, <3>4, <4>3 DEF EndStep
      <4>6. WalkStep(new, e) = failed
        BY <4>4, <4>5 DEF Arrive, failed
      <4> QED BY <4>2, <4>6 DEF Alike
    <3> QED BY <3>3, <3>4
  <2> QED BY <2>6, <2>7
<1> QED BY <1>4, <1>8, <1>9, <1>10

-----------------------------------------------------------------------------
(* The two walks end alike                                                  *)

\* The answers on both trees, run to their ends.
LEMMA TracksStep ==
    ASSUME NEW tree, NEW sp, NEW new, NEW n, NEW i, NEW k,
           OnSplit(tree, sp, new, n, i, k), NEW request,
           NEW e, Underway(tree, sp, request, e), NEW f, Tracks(tree, n, i, k, e, f)
    PROVE  \/ Tracks(tree, n, i, k, Advance(tree, e), Advance(new, f))
           \/ Tracks(tree, n, i, k, e, Advance(new, f))
<1>1. /\ e \in EntryIn(Len(tree))
      /\ e.pc = "walk" => Unrouted(e)
  BY DEF Underway
<1>2. CASE Between(tree, n, i, k, e, f)
  <2>1. e.pc = "walk"
    BY <1>2 DEF Between
  <2>2. Alike(Advance(tree, e), Advance(new, f))
    BY <2>1, <1>1, <1>2, BetweenStep
  <2> QED BY <2>2 DEF Tracks
<1>3. CASE e = f /\ e.pc = "walk"
  <2>1. \/ Alike(WalkStep(tree, e), WalkStep(new, e))
        \/ Between(tree, n, i, k, e, WalkStep(new, e))
    BY <1>1, <1>3, SplitWalkStep
  <2>2. Advance(tree, e) = WalkStep(tree, e) /\ Advance(new, f) = WalkStep(new, e)
    BY <1>3 DEF Advance
  <2> QED BY <2>1, <2>2 DEF Tracks
<1>4. CASE e = f /\ e.pc = "node"
  <2>1. e.node \in 1..Len(tree)
    BY <1>1 DEF EntryIn
  <2>2. new[e.node].routes = tree[e.node].routes
    BY <2>1 DEF OnSplit, Split
  <2>3. RouteStep(new, e) = RouteStep(tree, e)
    BY <2>2 DEF RouteStep
  <2>4. Advance(tree, e) = RouteStep(tree, e) /\ Advance(new, f) = RouteStep(new, e)
    BY <1>4 DEF Advance
  <2> QED BY <2>3, <2>4 DEF Tracks, Alike
<1>5. CASE e = f /\ e.pc \notin {"walk", "node"}
  <2>1. Advance(new, f) = f
    BY <1>5 DEF Advance
  <2> QED BY <2>1, <1>5 DEF Tracks, Alike
<1>6. CASE e.pc = "nil" /\ f.pc = "nil"
  <2>1. Advance(new, f) = f
    BY <1>6 DEF Advance
  <2> QED BY <2>1, <1>6 DEF Tracks, Alike
<1> QED BY <1>2, <1>3, <1>4, <1>5, <1>6 DEF Tracks, Alike

\* An answer that is settled stays.
Walks(tree, run) == \A l \in Nat : run[l + 1] = Advance(tree, run[l])
StaysAt(run, m) == \A l \in Nat : run[m + l] = run[m]

LEMMA RunSettles ==
    ASSUME NEW tree, NEW run, Walks(tree, run),
           NEW m \in Nat, run[m].pc \notin {"walk", "node"}
    PROVE  StaysAt(run, m)
<1> DEFINE T == {l \in Nat : run[m + l] = run[m]}
<1>1. 0 \in T
  OBVIOUS
<1>2. ASSUME NEW l \in Nat, l \in T
      PROVE  l + 1 \in T
  <2>1. run[m + l] = run[m] /\ m + l \in Nat /\ m + (l + 1) = (m + l) + 1
    BY <1>2
  <2>2. run[m + (l + 1)] = Advance(tree, run[m])
    BY <2>1 DEF Walks
  <2>3. Advance(tree, run[m]) = run[m]
    BY DEF Advance
  <2> QED BY <2>2, <2>3
<1> HIDE DEF T
<1>3. Nat \subseteq T
  BY <1>1, <1>2, AllNaturals
<1> QED BY <1>3 DEF T, StaysAt

LEMMA AnswerSettled ==
    ASSUME NEW tree, NEW sp, Shape(tree, sp), Sound(tree), NEW request,
           NEW run, Runs(tree, sp, request, run)
    PROVE  Answer(tree, request).pc \notin {"walk", "node"}
<1> DEFINE e == run[Len(tree)]
<1>1. Len(tree) \in Nat
  BY LenProperties DEF Shape
<1>2. e.pc # "walk"
  BY RunLengthens, WalkEnds
<1>3. e \in EntryIn(Len(tree))
  BY <1>1 DEF Runs, Underway
<1>4. Answer(tree, request) = Advance(tree, e)
  BY <1>1 DEF Runs
<1> HIDE DEF e
<1>5. CASE e.pc = "node"
  <2>1. Advance(tree, e) = RouteStep(tree, e)
    BY <1>5 DEF Advance
  <2>2. RouteStep(tree, e).pc \in {"route", "nil"}
    BY <1>3, RouteStepEntry
  <2> QED BY <2>1, <2>2, <1>4
<1>6. CASE e.pc # "node"
  <2>1. Advance(tree, e) = e
    BY <1>2, <1>6 DEF Advance
  <2> QED BY <2>1, <1>2, <1>4, <1>6
<1> QED BY <1>5, <1>6

\* Both trees give a request the same answer.
LEMMA SplitAnswer ==
    ASSUME NEW tree, NEW sp, NEW new, NEW n, NEW i, NEW k,
           OnSplit(tree, sp, new, n, i, k),
           NEW text, Shape(new, text), Sound(new), NEW request, Askable(request)
    PROVE  Alike(Answer(tree, request), Answer(new, request))
<1>1. PICK run : Runs(tree, sp, request, run)
  BY AnswerRuns DEF OnSplit
<1>2. PICK run2 : Runs(new, text, request, run2)
  BY AnswerRuns
<1> DEFINE T == {j \in Nat : \E m \in Nat : Tracks(tree, n, i, k, run[m], run2[j])}
           a == Answer(tree, request)
           b == Answer(new, request)
           la == Len(tree) + 1
           lb == Len(new) + 1
<1>3. la \in Nat /\ lb \in Nat
  <2>1. Len(tree) \in Nat
    BY SplitLengths
  <2>2. Len(new) \in Nat
    BY SplitLengths
  <2> QED BY <2>1, <2>2
<1>4. 0 \in T
  <2>1. run[0] = run2[0]
    BY <1>1, <1>2 DEF Runs
  <2>2. Tracks(tree, n, i, k, run[0], run2[0])
    BY <2>1 DEF Tracks, Alike
  <2> QED BY <2>2
<1>5. ASSUME NEW j \in Nat, j \in T
      PROVE  j + 1 \in T
  <2>1. PICK m \in Nat : Tracks(tree, n, i, k, run[m], run2[j])
    BY <1>5
  <2>2. Underway(tree, sp, request, run[m])
    BY <1>1 DEF Runs
  <2>3. \/ Tracks(tree, n, i, k, Advance(tree, run[m]), Advance(new, run2[j]))
        \/ Tracks(tree, n, i, k, run[m], Advance(new, run2[j]))
    BY <2>1, <2>2, TracksStep
  <2>4. run[m + 1] = Advance(tree, run[m]) /\ run2[j + 1] = Advance(new, run2[j])
    BY <1>1, <1>2 DEF Runs
  <2>5. m + 1 \in Nat /\ j + 1 \in Nat
    OBVIOUS
  <2> QED BY <2>3, <2>4, <2>5
<1>6. Nat \subseteq T
  <2> HIDE DEF T
  <2> QED BY <1>4, <1>5, AllNaturals
<1>7. PICK m \in Nat : Tracks(tree, n, i, k, run[m], run2[lb])
  BY <1>3, <1>6
<1>8. a = run[la] /\ b = run2[lb]
  BY <1>1, <1>2 DEF Runs
<1>9. a.pc \notin {"walk", "node"} /\ b.pc \notin {"walk", "node"}
  BY <1>1, <1>2, AnswerSettled DEF OnSplit
<1>10. run[m] \in EntryIn(Len(tree))
  BY <1>1 DEF Runs, Underway
<1> HIDE DEF a, b, la, lb
<1>11. Alike(run[m], b)
  <2>1. ASSUME Between(tree, n, i, k, run[m], b)
        PROVE  b.pc = "walk"
    <3>1. /\ run[m].pc = "walk"
          /\ b = GoOn(run[m], Len(tree) + 1, After(run[m].rest, k))
      BY <2>1 DEF Between
    <3> QED BY <3>1, <1>10 DEF GoOn, EntryIn
  <2> QED BY <2>1, <1>7, <1>8, <1>9 DEF Tracks
<1>12. run[m].pc \notin {"walk", "node"}
  BY <1>9, <1>11 DEF Alike
<1>13. a = run[m]
  <2>1. /\ \A l \in Nat : run[m + l] = run[m]
        /\ \A l \in Nat : run[la + l] = run[la]
    <3>1. Walks(tree, run)
      BY <1>1 DEF Runs, Walks
    <3>2. run[la].pc \notin {"walk", "node"} /\ la \in Nat
      BY <1>3, <1>8, <1>9
    <3>3. StaysAt(run, m)
      BY <3>1, <1>12, RunSettles
    <3>4. StaysAt(run, la)
      BY <3>1, <3>2, RunSettles
    <3> QED BY <3>3, <3>4 DEF StaysAt
  <2>2. CASE m <= la
    <3>1. la - m \in Nat /\ m + (la - m) = la
      BY <2>2, <1>3
    <3> QED BY <3>1, <2>1, <1>8
  <2>3. CASE la <= m
    <3>1. m - la \in Nat /\ la + (m - la) = m
      BY <2>3, <1>3
    <3> QED BY <3>1, <2>1, <1>8
  <2> QED BY <2>2, <2>3, <1>3
<1> QED BY <1>11, <1>13 DEF a, b

LEMMA SplitReply ==
    ASSUME NEW tree, NEW sp, NEW new, NEW n, NEW i, NEW k,
           OnSplit(tree, sp, new, n, i, k),
           NEW text, Shape(new, text), Sound(new), NEW request, Askable(request)
    PROVE  Reply(new, request) = Reply(tree, request)
<1> DEFINE a == Answer(tree, request)
           b == Answer(new, request)
<1>1. Alike(a, b)
  BY SplitAnswer
<1>2. a.node \in 1..Len(tree)
  BY AnswerUnderway DEF OnSplit, Underway, EntryIn
<1>3. new[a.node].routes = tree[a.node].routes
  BY <1>2 DEF OnSplit, Split
<1> HIDE DEF a, b
<1>4. /\ Reply(tree, request)
            = IF a.pc # "route" THEN <<>>
              ELSE <<tree[a.node].routes[a.route],
                     SubSeq(a.tokens, 1, Len(tree[a.node].routes[a.route].slugs))>>
      /\ Reply(new, request)
            = IF b.pc # "route" THEN <<>>
              ELSE <<new[b.node].routes[b.route],
                     SubSeq(b.tokens, 1, Len(new[b.node].routes[b.route].slugs))>>
  BY Zenon DEF Reply, a, b
<1>5. CASE a = b
  <2>1. CASE a.pc # "route"
    BY <1>4, <1>5, <2>1
  <2>2. CASE a.pc = "route"
    <3> DEFINE route == tree[a.node].routes[a.route]
    <3>1. new[b.node].routes[b.route] = route
      BY <1>3, <1>5
    <3>2. Reply(new, request) = <<route, SubSeq(a.tokens, 1, Len(route.slugs))>>
      BY <3>1, <1>4, <1>5, <2>2
    <3>3. Reply(tree, request) = <<route, SubSeq(a.tokens, 1, Len(route.slugs))>>
      BY <1>4, <2>2
    <3> QED BY <3>2, <3>3
  <2> QED BY <2>1, <2>2
<1>6. CASE a.pc = "nil" /\ b.pc = "nil"
  BY <1>4, <1>6
<1> QED BY <1>1, <1>5, <1>6 DEF Alike

-----------------------------------------------------------------------------
(* A refused insertion                                                     *)

\* Nothing malformed is mounted or grown: until it is refused, an insertion of
\* such a pattern only walks down and splits edges.
LEMMA MalformedOnlySplits ==
    ASSUME NoneMakesUp, TableInv, Shape(nodes', spell'), Whole(nodes', spell'),
           InsertStep, HasMalformed(call.path)
    PROVE  \/ nodes' = nodes
           \/ /\ Inserting
              /\ \E i \in 1..Len(EdgesHere) :
                 \E k \in 1..(Len(EdgesHere[i].pattern) - 1) :
                    nodes' = EdgeBranch(nodes, call.node, i, k)
<1>1. IInv /\ Whole(nodes, spell)
  BY DEF TableInv
<1>2. Inserting /\ call.path \in Seq(Token)
  <2>1. Inserting
    BY InsertOutcome
  <2> QED BY <2>1, <1>1, Frame, PathsAssumption
<1>3. ~MountsPending
  <2>1. ASSUME MountsPending
        PROVE  FALSE
    <3>1. PICK n : n \in 1..Len(nodes') /\ spell'[n] = call.path
      BY <2>1 DEF MountsPending, MountsAt
    <3>2. Len(spell') = Len(nodes') /\ spell'[n] \in Seq(Token)
      BY <3>1, <1>2 DEF Shape
    <3>3. Excused(spell'[n])
      BY <3>1, <3>2 DEF Whole
    <3> QED BY <3>1, <3>2, <3>3, ExcusedIsClean
  <2> QED BY <2>1
<1>4. ~Grows
  <2>1. ASSUME Grows
        PROVE  FALSE
    <3>1. ~CountFails(call.rest) /\ call.node \in 1..Len(nodes)
      BY <2>1, <1>1, <1>2, Frame DEF Grows
    <3>2. Excused(spell[call.node])
      BY <3>1, <1>1 DEF IInv, Shape, Whole
    <3> QED BY <3>1, <3>2, <1>1, <1>2, GrowsClean
  <2> QED BY <2>1
<1>5. CASE InsertHere \/ InsertExisting \/ InsertLiteral
  BY <1>3, <1>5, InsertHereMounts, InsertExistingMounts, InsertLiteralMounts
<1>6. CASE InsertFirstOfMany \/ InsertSlug \/ InsertAborts
  BY <1>4, <1>6, Zenon DEF InsertFirstOfMany, InsertSlug, InsertAborts
<1>7. CASE ParseRefuses \/ ParseAstray \/ CountRefuses \/ Descend
  BY <1>7 DEF ParseRefuses, ParseAstray, CountRefuses, Descend
<1>8. CASE Branch
  <2>1. PICK i \in 1..Len(EdgesHere), k \in 1..Len(call.rest) :
            /\ Follows(i, k)
            /\ k < Len(EdgesHere[i].pattern)
            /\ nodes' = EdgeBranch(nodes, call.node, i, k)
    BY <1>8 DEF Branch
  <2>2. Len(EdgesHere[i].pattern) \in Nat
    <3>1. call.node \in 1..Len(nodes)
      BY <1>1, <1>2, Frame
    <3> QED BY <3>1, <1>1, EdgeDown DEF IInv, EdgesHere
  <2>3. k \in 1..(Len(EdgesHere[i].pattern) - 1)
    <3> DEFINE l == Len(EdgesHere[i].pattern)
    <3> HIDE DEF l
    <3>1. l \in Nat /\ k < l
      BY <2>1, <2>2 DEF l
    <3>2. k \in 1..(l - 1)
      BY <3>1, <1>2
    <3> QED BY <3>2 DEF l
  <2> QED BY <2>1, <2>3, <1>2
<1> QED BY <1>5, <1>6, <1>7, <1>8 DEF InsertStep

\* Every request of the program can be asked.
LEMMA RequestsAskable == \A request \in Requests : Askable(request)
BY RequestsAssumption DEF Askable, AskedMethods

LEMMA RefusedStep ==
    ASSUME NoneMakesUp, TableInv, TableInv', [Next]_vars, Inserting,
           HasMalformed(call.path)
    PROVE  \A request \in Requests : Reply(nodes', request) = Reply(nodes, request)
<1>1. CASE UNCHANGED nodes
  BY <1>1
<1>2. CASE \E i \in 1..Len(EdgesHere) :
           \E k \in 1..(Len(EdgesHere[i].pattern) - 1) :
              nodes' = EdgeBranch(nodes, call.node, i, k)
  <2>1. PICK i \in 1..Len(EdgesHere) :
           \E k \in 1..(Len(EdgesHere[i].pattern) - 1) :
              nodes' = EdgeBranch(nodes, call.node, i, k)
    BY <1>2
  <2>2. PICK k \in 1..(Len(EdgesHere[i].pattern) - 1) :
              nodes' = EdgeBranch(nodes, call.node, i, k)
    BY <2>1
  <2>3. /\ Shape(nodes, spell) /\ Sound(nodes)
        /\ Shape(nodes', spell') /\ Sound(nodes')
        /\ call.node \in 1..Len(nodes)
        /\ i \in 1..Len(nodes[call.node].edges)
        /\ k \in 1..(Len(nodes[call.node].edges[i].pattern) - 1)
    BY DEF TableInv, IInv, NodeIds, EdgesHere
  <2>4. Split(nodes, nodes', call.node, i, k)
    BY <2>2, <2>3, BranchSplits
  <2>5. OnSplit(nodes, spell, nodes', call.node, i, k)
    BY <2>3, <2>4 DEF OnSplit
  <2> QED BY <2>3, <2>5, RequestsAskable, SplitReply
<1>3. CASE InsertStep
  <2>1. Shape(nodes', spell') /\ Whole(nodes', spell')
    BY DEF TableInv, IInv
  <2> QED BY <2>1, <1>1, <1>2, <1>3, MalformedOnlySplits
<1>4. CASE ~InsertStep
  <2>1. call # Idle
    BY PendingIsNotIdle
  <2> QED BY <2>1, <1>1, <1>4 DEF Next, Add, Compile, vars
<1> QED BY <1>3, <1>4

-----------------------------------------------------------------------------
(* Theorems                                                                *)

\* In an unambiguous tree a request is answered exactly if a route is meant for
\* it, in whatever order the routes were added and the edges were split; the
\* request for the empty path never is.
THEOREM ServesMeant == MatchSpec => []ServesWhatIsMeant
<1>1. ASSUME ServesInv
      PROVE  ServesWhatIsMeant
  <2> SUFFICES ASSUME Unambiguous, NEW request \in Requests
               PROVE  Answered(nodes, request)
                        <=> request.path # <<>> /\ Meant(request)
    BY DEF ServesWhatIsMeant
  <2>1. ClearTree(nodes, spell)
    <3>1. Clear(nodes)
      BY DEF Unambiguous, Clear, ClearNode, NodeIds, EdgeIds
    <3> QED BY <1>1, <3>1
            DEF ServesInv, ConsumedInv, MatchInv, IInv, Whole, ClearTree
  <2>2. Askable(request)
    BY RequestsAssumption DEF Askable, AskedMethods
  <2>3. Meant(request) <=> \E n \in 1..Len(nodes) : MeantAt(nodes, spell, n, request)
    BY DEF Meant, MeantAt, HasRoute, NodeIds
  <2> QED BY <2>1, <2>2, <2>3, MeantAnswered, AnsweredMeant, EmptyUnanswered
<1> QED BY <1>1, ServesInvariance, PTL

\* If NoneMakesUp, adding a malformed pattern, which is refused, changes no answer: whatever
\* edges r3_tree_insert_pathl_ex has split by the time it returns NULL, every
\* request is answered with the same route and the same values as before.
THEOREM RefusedHarmless == MatchSpec => RefusedAddHarmless
<1>1. ASSUME ServesInv, ServesInv', [MatchNext]_matchVars
      PROVE  [NoneMakesUp /\ Inserting /\ HasMalformed(call.path) =>
                \A request \in Requests :
                    Reply(nodes', request) = Reply(nodes, request)]_matchVars
  <2>1. TableInv /\ TableInv'
    BY <1>1 DEF ServesInv, ConsumedInv, MatchInv, TableInv
  <2>2. [Next]_vars
    BY <1>1 DEF MatchNext, TreeStep, StartMatch, MatchStep, MatchWalks,
                MatchRoutes, EndMatch, matchVars, vars
  <2> QED BY <2>1, <2>2, RefusedStep
<1> QED BY <1>1, ServesInvariance, PTL DEF MatchSpec, RefusedAddHarmless
=============================================================================
