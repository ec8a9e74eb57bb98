--------------------------- MODULE R3MatchProofs ----------------------------
(***************************************************************************)
(* Theorems about R3Match: a match is well typed all the way, every call   *)
(* of r3_tree_matchl_base is on a node further down than its caller's, and *)
(* what is collected and what is left always make up the request.          *)
(*                                                                         *)
(* The lemmas about one call are stated of any tree with the shape of      *)
(* R3TreeProofs and of any entry in it.                                    *)
(***************************************************************************)
EXTENDS R3Match, R3TreeProofs

-----------------------------------------------------------------------------
(* The last of several                                                     *)

LEMMA GreatestNatural ==
    ASSUME NEW n \in Nat, NEW T, T \subseteq 0..n, T # {}
    PROVE  Max(T) \in T /\ \A y \in T : Max(T) >= y
<1> DEFINE U == {n - y : y \in T}
<1>1. U \subseteq Nat /\ U # {}
  <2>1. \A y \in T : n - y \in Nat
    OBVIOUS
  <2> QED BY <2>1
<1>2. PICK z \in U : \A y \in U : z <= y
  <2> HIDE DEF U
  <2> QED BY <1>1, LeastNatural
<1>3. PICK x \in T : z = n - x
  BY <1>2
<1>4. \A y \in T : x >= y
  <2> TAKE y \in T
  <2>1. n - y \in U
    OBVIOUS
  <2>2. n - x <= n - y
    BY <2>1, <1>2, <1>3
  <2>3. x \in Int /\ y \in Int
    OBVIOUS
  <2> QED BY <2>2, <2>3
<1> QED BY <1>4 DEF Max

\* The first of the indices in I, or 0 if there is none, as SelectInSeq has it.
LEMMA FirstOrNone ==
    ASSUME NEW n \in Nat, NEW I, I \subseteq 1..n
    PROVE  (IF I # {} THEN Min(I) ELSE 0) \in 0..n
<1>1. I \subseteq Nat
  OBVIOUS
<1>2. I # {} => Min(I) \in 1..n
  BY <1>1, LeastNatural
<1> QED BY <1>2

-----------------------------------------------------------------------------
(* Definitions by recursion: what repeats a step, and what joins texts     *)

\* Induction, for a set of numbers.
LEMMA AllNaturals ==
    ASSUME NEW T, 0 \in T, \A n \in Nat : n \in T => n + 1 \in T
    PROVE  Nat \subseteq T
<1> DEFINE Others == Nat \ T
<1> SUFFICES ASSUME Others # {}
             PROVE  FALSE
  OBVIOUS
<1>1. PICK least \in Others : \A n \in Others : least <= n
  <2>1. Others \subseteq Nat
    OBVIOUS
  <2> HIDE DEF Others
  <2> QED BY <2>1, LeastNatural
<1>2. least \in Nat /\ least \notin T /\ least # 0
  OBVIOUS
<1>3. least - 1 \in Nat /\ (least - 1) + 1 = least /\ ~(least <= least - 1)
  BY <1>2
<1>4. least - 1 \in T
  BY <1>1, <1>3
<1> QED BY <1>2, <1>3, <1>4

\* The first n values of what begins with s0 and goes on with F.
Repeats(g, n, s0, F) ==
    g[0] = s0 /\ \A k \in 0..n-1 : g[k+1] = F[<<k, g[k]>>]

Iterates(g, S, s0, F) ==
    /\ g \in [Nat -> S]
    /\ g[0] = s0
    /\ \A n \in Nat : g[n+1] = F[<<n, g[n]>>]

LEMMA OneIteration ==
    ASSUME NEW n \in Nat, NEW s0, NEW F, NEW g, NEW h,
           Repeats(g, n, s0, F), Repeats(h, n, s0, F)
    PROVE  \A k \in 0..n : g[k] = h[k]
<1> DEFINE T == {k \in Nat : k <= n => g[k] = h[k]}
<1>1. 0 \in T
  BY DEF Repeats
<1>2. ASSUME NEW k \in Nat, k \in T
      PROVE  k + 1 \in T
  <2>1. CASE k + 1 <= n
    <3>1. k \in 0..n-1 /\ g[k] = h[k]
      BY <1>2, <2>1
    <3>2. g[k+1] = F[<<k, g[k]>>] /\ h[k+1] = F[<<k, h[k]>>]
      BY <3>1 DEF Repeats
    <3> QED BY <3>1, <3>2
  <2> QED BY <2>1
<1> HIDE DEF T
<1>3. Nat \subseteq T
  BY <1>1, <1>2, AllNaturals
<1> QED BY <1>3 DEF T

LEMMA Iteration ==
    ASSUME NEW S, NEW s0 \in S, NEW F \in [Nat \X S -> S]
    PROVE  \E g : Iterates(g, S, s0, F)
<1> DEFINE Run(h, n) == h \in [0..n -> S] /\ Repeats(h, n, s0, F)
           T == {n \in Nat : \E h : Run(h, n)}
           run(n) == CHOOSE h : Run(h, n)
           g == [n \in Nat |-> run(n)[n]]
<1>1. 0 \in T
  <2>1. Run([k \in 0..0 |-> s0], 0)
    BY DEF Repeats
  <2> QED BY <2>1
<1>2. ASSUME NEW n \in Nat, n \in T
      PROVE  n + 1 \in T
  <2>1. PICK h : Run(h, n)
    BY <1>2
  <2> DEFINE f == [k \in 0..n+1 |-> IF k = n + 1 THEN F[<<n, h[n]>>] ELSE h[k]]
  <2>2. h[n] \in S /\ F[<<n, h[n]>>] \in S
    BY <2>1
  <2>3. f \in [0..n+1 -> S]
    BY <2>1, <2>2
  <2>4. f[0] = s0
    BY <2>1 DEF Repeats
  <2>5. ASSUME NEW k \in 0..n
        PROVE  f[k+1] = F[<<k, f[k]>>]
    <3>1. f[k] = h[k]
      OBVIOUS
    <3>2. CASE k = n
      <4>1. n + 1 \in 0..n+1
        OBVIOUS
      <4>2. f[n+1] = F[<<n, h[n]>>]
        BY <4>1
      <4> QED BY <3>1, <3>2, <4>2
    <3>3. CASE k # n
      <4>1. k \in 0..n-1 /\ k + 1 \in 0..n+1 /\ k + 1 # n + 1
        BY <3>3
      <4>2. h[k+1] = F[<<k, h[k]>>]
        BY <2>1, <4>1 DEF Repeats
      <4>3. f[k+1] = h[k+1]
        BY <4>1
      <4> QED BY <3>1, <4>2, <4>3
    <3> QED BY <3>2, <3>3
  <2>6. (n + 1) - 1 = n
    OBVIOUS
  <2>7. Run(f, n + 1)
    BY <2>3, <2>4, <2>5, <2>6 DEF Repeats
  <2> QED BY <2>7
<1>3. \A n \in Nat : Run(run(n), n)
  <2> HIDE DEF T
  <2>1. Nat \subseteq T
    BY <1>1, <1>2, AllNaturals
  <2> QED BY <2>1 DEF T
<1> HIDE DEF run
<1>4. \A n \in Nat : run(n)[n] \in S /\ g[n] = run(n)[n]
  BY <1>3
<1>5. g \in [Nat -> S]
  BY <1>4
<1>6. g[0] = s0
  BY <1>3 DEF Repeats
<1>7. ASSUME NEW n \in Nat
      PROVE  g[n+1] = F[<<n, g[n]>>]
  <2> DEFINE h == run(n + 1)
  <2>1. Repeats(h, n + 1, s0, F) /\ n \in 0..(n+1)-1
    BY <1>3
  <2>2. h[n+1] = F[<<n, h[n]>>]
    BY <2>1 DEF Repeats
  <2>3. h[n] = run(n)[n]
    <3>1. Repeats(h, n, s0, F)
      BY <2>1 DEF Repeats
    <3>2. Repeats(run(n), n, s0, F)
      BY <1>3
    <3> HIDE DEF h
    <3>3. \A k \in 0..n : h[k] = run(n)[k]
      BY <3>1, <3>2, OneIteration
    <3> QED BY <3>3
  <2> QED BY <2>2, <2>3, <1>4
<1> QED BY <1>5, <1>6, <1>7 DEF Iterates

\* FlattenSeq joins the texts of a sequence one after the other.
LEMMA FlattenEmpty == FlattenSeq(<<>>) = <<>>
BY DEF FlattenSeq

LEMMA Flattened ==
    ASSUME NEW X, NEW s \in Seq(Seq(X))
    PROVE  \E g \in [Nat -> Seq(X)] :
              /\ g[0] = <<>>
              /\ \A n \in 0..Len(s)-1 : g[n+1] = g[n] \o s[n+1]
              /\ FlattenSeq(s) = g[Len(s)]
<1> DEFINE S == Seq(X)
           F == [at \in Nat \X S |->
                    IF at[1] + 1 \in 1..Len(s) THEN at[2] \o s[at[1] + 1] ELSE at[2]]
<1>1. Len(s) \in Nat /\ \A i \in 1..Len(s) : s[i] \in S
  <2> HIDE DEF S
  <2> QED BY LenProperties, ElementOfSeq DEF S
<1>2. F \in [Nat \X S -> S]
  <2> SUFFICES ASSUME NEW n \in Nat, NEW t \in S
               PROVE  F[<<n, t>>] \in S
    OBVIOUS
  <2>1. F[<<n, t>>] = IF n + 1 \in 1..Len(s) THEN t \o s[n + 1] ELSE t
    OBVIOUS
  <2>2. CASE n + 1 \in 1..Len(s)
    <3>1. t \o s[n + 1] \in S
      BY <1>1, <2>2, ConcatProperties
    <3> QED BY <2>1, <2>2, <3>1
  <2> QED BY <2>1, <2>2
<1>3. \A n \in Nat, t \in S : n + 1 \in 1..Len(s) => F[<<n, t>>] = t \o s[n + 1]
  OBVIOUS
<1>4. <<>> \in S
  OBVIOUS
<1> HIDE DEF F, S
<1>5. PICK g \in [Nat -> S] :
        g[0] = <<>> /\ \A n \in Nat : g[n+1] = F[<<n, g[n]>>]
  <2> DEFINE s0 == <<>>
  <2>1. s0 \in S
    BY <1>4
  <2> HIDE DEF s0
  <2>2. \E g : Iterates(g, S, s0, F)
    BY <1>2, <2>1, Iteration
  <2> QED BY <2>2 DEF s0, Iterates
<1>6. \A n \in 0..Len(s)-1 : g[n+1] = g[n] \o s[n+1]
  <2> TAKE n \in 0..Len(s)-1
  <2>1. n \in Nat /\ n + 1 \in 1..Len(s) /\ g[n] \in S
    BY <1>1
  <2> QED BY <2>1, <1>3, <1>5
<1>7. FlattenSeq(s) = g[Len(s)]
  <2>1. CASE Len(s) = 0
    <3>1. s = <<>>
      BY <2>1, EmptySeq
    <3> QED BY <2>1, <3>1, <1>5, FlattenEmpty
  <2>2. CASE Len(s) # 0
    <3> DEFINE Joins(f) == f = [i \in 1..Len(s) |-> IF i = 1 THEN s[i]
                                                    ELSE f[i-1] \o s[i]]
               flatten == CHOOSE f : Joins(f)
    <3>1. Joins([i \in 1..Len(s) |-> g[i]])
      <4> DEFINE f == [i \in 1..Len(s) |-> g[i]]
      <4>1. ASSUME NEW i \in 1..Len(s)
            PROVE  g[i] = IF i = 1 THEN s[i] ELSE f[i-1] \o s[i]
        <5>1. i - 1 \in 0..Len(s)-1 /\ (i - 1) + 1 = i
          BY <1>1
        <5>2. g[i] = g[i-1] \o s[i]
          BY <5>1, <1>6
        <5>3. CASE i = 1
          <6>1. g[i-1] = <<>>
            BY <5>3, <1>5
          <6>2. s[i] \in Seq(X)
            BY <1>1 DEF S
          <6>3. <<>> \o s[i] = s[i]
            BY <6>2, ConcatEmptySeq
          <6> QED BY <6>1, <6>3, <5>2, <5>3
        <5>4. CASE i # 1
          <6>1. i - 1 \in 1..Len(s)
            BY <5>4, <1>1
          <6> QED BY <6>1, <5>2, <5>4
        <5> QED BY <5>3, <5>4
      <4> QED BY <4>1, Zenon
    <3>2. Joins(flatten)
      BY <3>1, Zenon
    <3>3. FlattenSeq(s) = flatten[Len(s)]
      BY <2>2 DEF FlattenSeq
    <3>4. \A i \in 1..Len(s) : flatten[i] = IF i = 1 THEN s[i]
                                            ELSE flatten[i-1] \o s[i]
      BY <3>2, Zenon
    <3> HIDE DEF flatten, Joins
    <3> DEFINE T == {n \in Nat : n + 1 <= Len(s) => flatten[n+1] = g[n+1]}
    <3>5. 0 \in T
      <4>1. 1 \in 1..Len(s) /\ 0 \in 0..Len(s)-1 /\ 0 + 1 = 1
        BY <2>2, <1>1
      <4>2. flatten[1] = s[1] /\ g[1] = <<>> \o s[1]
        BY <4>1, <3>4, <1>5, <1>6
      <4>3. s[1] \in Seq(X)
        BY <4>1, <1>1 DEF S
      <4>4. <<>> \o s[1] = s[1]
        BY <4>3, ConcatEmptySeq
      <4> QED BY <4>2, <4>4
    <3>6. ASSUME NEW n \in Nat, n \in T
          PROVE  n + 1 \in T
      <4> SUFFICES ASSUME (n + 1) + 1 <= Len(s)
                   PROVE  flatten[(n + 1) + 1] = g[(n + 1) + 1]
        OBVIOUS
      <4> DEFINE m == (n + 1) + 1
      <4>1. m \in 1..Len(s) /\ m # 1 /\ m - 1 = n + 1 /\ n + 1 \in 0..Len(s)-1
        BY <1>1
      <4>2. flatten[n+1] = g[n+1]
        BY <3>6, <4>1, <1>1
      <4>3. flatten[m] = flatten[n+1] \o s[m]
        BY <4>1, <3>4
      <4> QED BY <4>1, <4>2, <4>3, <1>6
    <3> HIDE DEF T
    <3>7. Nat \subseteq T
      BY <3>5, <3>6, AllNaturals
    <3>8. Len(s) - 1 \in Nat /\ (Len(s) - 1) + 1 = Len(s)
      BY <2>2, <1>1
    <3>9. flatten[Len(s)] = g[Len(s)]
      <4> DEFINE n == Len(s) - 1
      <4>1. n \in T
        BY <3>7, <3>8
      <4>2. n + 1 = Len(s) /\ n + 1 <= Len(s)
        BY <3>8, <1>1
      <4> HIDE DEF n
      <4>3. flatten[n+1] = g[n+1]
        BY <4>1, <4>2 DEF T
      <4> QED BY <4>2, <4>3
    <3> QED BY <3>3, <3>9
  <2> QED BY <2>1, <2>2
<1> QED BY <1>5, <1>6, <1>7 DEF S

LEMMA FlattenType ==
    ASSUME NEW X, NEW s \in Seq(Seq(X))
    PROVE  FlattenSeq(s) \in Seq(X)
<1>1. Len(s) \in Nat
  <2> DEFINE S == Seq(X)
  <2>1. s \in Seq(S)
    OBVIOUS
  <2> HIDE DEF S
  <2> QED BY <2>1, LenProperties
<1>2. PICK g \in [Nat -> Seq(X)] : FlattenSeq(s) = g[Len(s)]
  BY Flattened
<1> QED BY <1>1, <1>2

LEMMA FlattenAppend ==
    ASSUME NEW X, NEW s \in Seq(Seq(X)), NEW x \in Seq(X)
    PROVE  FlattenSeq(Append(s, x)) = FlattenSeq(s) \o x
<1> DEFINE S == Seq(X)
           t == Append(s, x)
<1>1. /\ Len(s) \in Nat /\ t \in Seq(S) /\ Len(t) = Len(s) + 1
      /\ t[Len(t)] = x
      /\ \A i \in 1..Len(s) : t[i] = s[i]
  <2>1. s \in Seq(S) /\ x \in S
    OBVIOUS
  <2> HIDE DEF S
  <2> QED BY <2>1, AppendProperties, LenProperties
<1> HIDE DEF t
<1>2. PICK g \in [Nat -> Seq(X)] :
              /\ g[0] = <<>>
              /\ \A n \in 0..Len(s)-1 : g[n+1] = g[n] \o s[n+1]
              /\ FlattenSeq(s) = g[Len(s)]
  BY Flattened
<1>3. PICK h \in [Nat -> Seq(X)] :
              /\ h[0] = <<>>
              /\ \A n \in 0..Len(t)-1 : h[n+1] = h[n] \o t[n+1]
              /\ FlattenSeq(t) = h[Len(t)]
  BY <1>1, Flattened DEF S
<1>4. h[Len(t)] = h[Len(s)] \o x
  <2>1. Len(s) \in 0..Len(t)-1 /\ Len(s) + 1 = Len(t)
    BY <1>1
  <2> QED BY <2>1, <1>1, <1>3
<1>5. g[Len(s)] = h[Len(s)]
  <2> DEFINE T == {n \in Nat : n <= Len(s) => g[n] = h[n]}
  <2>1. 0 \in T
    BY <1>2, <1>3
  <2>2. ASSUME NEW n \in Nat, n \in T
        PROVE  n + 1 \in T
    <3> SUFFICES ASSUME n + 1 <= Len(s)
                 PROVE  g[n+1] = h[n+1]
      OBVIOUS
    <3>1. n \in 0..Len(s)-1 /\ n \in 0..Len(t)-1 /\ n + 1 \in 1..Len(s) /\ n <= Len(s)
      BY <1>1
    <3>2. g[n] = h[n] /\ t[n+1] = s[n+1]
      BY <3>1, <2>2, <1>1
    <3> QED BY <3>1, <3>2, <1>2, <1>3
  <2> HIDE DEF T
  <2>3. Nat \subseteq T
    BY <2>1, <2>2, AllNaturals
  <2> QED BY <2>3, <1>1 DEF T
<1> QED BY <1>2, <1>3, <1>4, <1>5 DEF t

-----------------------------------------------------------------------------
(* The slugs of a pattern, and the pattern filled                          *)

SlugPieces(path) == [i \in 1..Len(path) |->
                        IF path[i] \in Slugs THEN <<path[i]>> ELSE <<>>]

LEMMA NoPieces ==
    ASSUME NEW s, NEW X, s \in [1..0 -> X]
    PROVE  FlattenSeq(s) = <<>>
<1>1. s \in Seq(X) /\ Len(s) = 0
  BY IsASeq
<1>2. s = <<>>
  BY <1>1, EmptySeq
<1> QED BY <1>2, FlattenEmpty

LEMMA SlugsOfNothing == SlugsOf(<<>>) = <<>>
<1> DEFINE empty == <<>>
<1>1. Len(empty) = 0
  OBVIOUS
<1> HIDE DEF empty
<1>2. SlugPieces(empty) \in [1..0 -> {<<empty[i]>> : i \in 1..0} \cup {<<>>}]
  BY <1>1 DEF SlugPieces
<1>3. FlattenSeq(SlugPieces(empty)) = <<>>
  BY <1>2, NoPieces
<1> QED BY <1>3 DEF SlugsOf, SlugPieces, empty

LEMMA SlugPiecesType ==
    ASSUME NEW p \in Seq(Token)
    PROVE  /\ SlugPieces(p) \in Seq(Seq(Slugs))
           /\ Len(SlugPieces(p)) = Len(p)
           /\ \A i \in 1..Len(p) : SlugPieces(p)[i] = IF p[i] \in Slugs
                                                      THEN <<p[i]>> ELSE <<>>
<1> DEFINE S == Seq(Slugs)
<1>1. Len(p) \in Nat
  BY LenProperties
<1>2. \A i \in 1..Len(p) : SlugPieces(p)[i] = IF p[i] \in Slugs
                                              THEN <<p[i]>> ELSE <<>>
  BY DEF SlugPieces
<1>3. ASSUME NEW i \in 1..Len(p)
      PROVE  SlugPieces(p)[i] \in S
  <2>1. <<>> \in S /\ (p[i] \in Slugs => <<p[i]>> \in S)
    OBVIOUS
  <2> HIDE DEF S
  <2> QED BY <2>1, <1>2
<1> HIDE DEF S
<1>4. SlugPieces(p) \in [1..Len(p) -> S]
  BY <1>3 DEF SlugPieces
<1>5. SlugPieces(p) \in Seq(S) /\ Len(SlugPieces(p)) = Len(p)
  BY <1>1, <1>4, IsASeq, LenProperties
<1> QED BY <1>2, <1>5 DEF S

LEMMA SlugsType ==
    ASSUME NEW p \in Seq(Token)
    PROVE  SlugsOf(p) \in Seq(Slugs) /\ Len(SlugsOf(p)) \in Nat
<1>1. SlugsOf(p) = FlattenSeq(SlugPieces(p))
  BY DEF SlugsOf, SlugPieces
<1>2. SlugsOf(p) \in Seq(Slugs)
  BY <1>1, SlugPiecesType, FlattenType
<1> QED BY <1>2, LenProperties

\* A pattern and the one with one more token.
LEMMA AppendToken ==
    ASSUME NEW p \in Seq(Token), NEW t \in Token
    PROVE  /\ Append(p, t) \in Seq(Token)
           /\ Len(Append(p, t)) = Len(p) + 1
           /\ Append(p, t)[Len(p) + 1] = t
           /\ \A i \in 1..Len(p) : Append(p, t)[i] = p[i]
           /\ Len(p) \in Nat
BY AppendProperties, LenProperties

LEMMA SlugsAppend ==
    ASSUME NEW p \in Seq(Token), NEW t \in Token
    PROVE  SlugsOf(Append(p, t)) = IF t \in Slugs THEN Append(SlugsOf(p), t)
                                                  ELSE SlugsOf(p)
<1> DEFINE S == Seq(Slugs)
           q == Append(p, t)
           x == IF t \in Slugs THEN <<t>> ELSE <<>>
           more == Append(SlugPieces(p), x)
<1>1. /\ q \in Seq(Token) /\ Len(q) = Len(p) + 1 /\ q[Len(p) + 1] = t
      /\ \A i \in 1..Len(p) : q[i] = p[i]
      /\ Len(p) \in Nat
  BY AppendToken
<1> HIDE DEF q
<1>2. x \in S
  OBVIOUS
<1>3. /\ SlugPieces(p) \in Seq(S) /\ SlugPieces(q) \in Seq(S)
      /\ Len(SlugPieces(p)) = Len(p) /\ Len(SlugPieces(q)) = Len(q)
  BY <1>1, SlugPiecesType
<1> HIDE DEF S
<1>4. /\ more \in Seq(S) /\ Len(more) = Len(p) + 1
      /\ more[Len(p) + 1] = x
      /\ \A i \in 1..Len(p) : more[i] = SlugPieces(p)[i]
  <2> HIDE DEF x
  <2> QED BY <1>2, <1>3, AppendProperties
<1> HIDE DEF more
<1>5. ASSUME NEW i \in 1..Len(p) + 1
      PROVE  SlugPieces(q)[i] = more[i]
  <2>1. SlugPieces(q)[i] = IF q[i] \in Slugs THEN <<q[i]>> ELSE <<>>
    BY <1>1, SlugPiecesType
  <2>2. CASE i = Len(p) + 1
    BY <2>1, <2>2, <1>1, <1>4
  <2>3. CASE i # Len(p) + 1
    <3>1. i \in 1..Len(p)
      BY <2>3, <1>1
    <3>2. SlugPieces(p)[i] = IF p[i] \in Slugs THEN <<p[i]>> ELSE <<>>
      BY <3>1, SlugPiecesType
    <3> QED BY <2>1, <3>1, <3>2, <1>1, <1>4
  <2> QED BY <2>2, <2>3
<1>6. SlugPieces(q) = more
  BY <1>1, <1>3, <1>4, <1>5, SeqEqual
<1>7. FlattenSeq(more) = FlattenSeq(SlugPieces(p)) \o x
  <2>1. SlugPieces(p) \in Seq(Seq(Slugs)) /\ x \in Seq(Slugs)
    BY <1>2, <1>3 DEF S
  <2> HIDE DEF x
  <2> QED BY <2>1, FlattenAppend DEF more
<1>8. SlugsOf(q) = SlugsOf(p) \o x
  BY <1>6, <1>7 DEF SlugsOf, SlugPieces
<1>9. SlugsOf(p) \in Seq(Slugs)
  BY SlugsType
<1>10. CASE t \in Slugs
  <2>1. SlugsOf(p) \o <<t>> = Append(SlugsOf(p), t)
    BY <1>9, <1>10, AppendIsConcat
  <2> QED BY <2>1, <1>8, <1>10 DEF q
<1>11. CASE t \notin Slugs
  <2>1. SlugsOf(p) \o <<>> = SlugsOf(p)
    BY <1>9, ConcatEmptySeq
  <2> QED BY <2>1, <1>8, <1>11 DEF q
<1> QED BY <1>10, <1>11

\* The beginnings of a pattern, one token at a time.
LEMMA UptoStep ==
    ASSUME NEW p \in Seq(Token), NEW k \in 0..Len(p)
    PROVE  /\ Upto(p, k) \in Seq(Token)
           /\ Len(Upto(p, k)) = k
           /\ k < Len(p) => /\ p[k + 1] \in Token
                            /\ Upto(p, k + 1) = Append(Upto(p, k), p[k + 1])
           /\ Upto(p, 0) = <<>>
           /\ Upto(p, Len(p)) = p
<1>1. Len(p) \in Nat
  BY LenProperties
<1>2. Upto(p, k) \in Seq(Token) /\ Len(Upto(p, k)) = k
  BY <1>1, SubSeqProperties DEF Upto
<1>3. ASSUME k < Len(p)
      PROVE  /\ p[k + 1] \in Token
             /\ Upto(p, k + 1) = Append(Upto(p, k), p[k + 1])
  <2>1. k + 1 \in 1..Len(p) /\ 1 <= k + 1
    BY <1>1, <1>3
  <2>2. p[k + 1] \in Token
    BY <2>1, ElementOfSeq
  <2>3. SubSeq(p, 1, k + 1) = Append(SubSeq(p, 1, (k + 1) - 1), p[k + 1])
    BY <2>1, <1>1, SubSeqRecursiveSecond
  <2>4. (k + 1) - 1 = k
    BY <1>1
  <2> QED BY <2>2, <2>3, <2>4 DEF Upto
<1>4. Upto(p, 0) = <<>>
  BY SubSeqEmpty DEF Upto
<1>5. Upto(p, Len(p)) = p
  BY SubSeqFull DEF Upto
<1> QED BY <1>2, <1>3, <1>4, <1>5

\* The slugs of a beginning are no more than those of the pattern.
LEMMA SlugsGrow ==
    ASSUME NEW p \in Seq(Token), NEW k \in 0..Len(p)
    PROVE  Len(SlugsOf(Upto(p, k))) <= Len(SlugsOf(p))
<1> DEFINE count(n) == Len(SlugsOf(Upto(p, n)))
           T == {n \in Nat : n <= Len(p) => \A l \in 0..n : count(l) <= count(n)}
<1>1. Len(p) \in Nat
  BY LenProperties
<1>2. \A n \in 0..Len(p) : count(n) \in Nat
  BY UptoStep, SlugsType
<1>3. 0 \in T
  BY <1>1, <1>2
<1>4. ASSUME NEW n \in Nat, n \in T
      PROVE  n + 1 \in T
  <2> SUFFICES ASSUME n + 1 <= Len(p), NEW l \in 0..n+1
               PROVE  count(l) <= count(n + 1)
    OBVIOUS
  <2>1. n \in 0..Len(p) /\ n < Len(p) /\ n + 1 \in 0..Len(p)
    BY <1>1
  <2>2. /\ Upto(p, n) \in Seq(Token) /\ p[n + 1] \in Token
        /\ Upto(p, n + 1) = Append(Upto(p, n), p[n + 1])
    BY <2>1, UptoStep
  <2>3. count(n) <= count(n + 1)
    <3> DEFINE q == Upto(p, n)
               t == p[n + 1]
               slugs == SlugsOf(q)
    <3>1. q \in Seq(Token) /\ t \in Token
      BY <2>2
    <3>2. slugs \in Seq(Slugs) /\ Len(slugs) \in Nat
      BY <3>1, SlugsType
    <3>3. SlugsOf(Append(q, t)) = IF t \in Slugs THEN Append(slugs, t) ELSE slugs
      BY <3>1, SlugsAppend
    <3>4. SlugsOf(Upto(p, n + 1)) = IF t \in Slugs THEN Append(slugs, t) ELSE slugs
      BY <2>2, <3>3
    <3> HIDE DEF q, t, slugs
    <3>5. Len(slugs) <= Len(SlugsOf(Upto(p, n + 1)))
      <4>1. CASE t \in Slugs
        <5>1. Len(Append(slugs, t)) = Len(slugs) + 1
          BY <3>2, <4>1, AppendProperties
        <5> QED BY <5>1, <3>2, <3>4, <4>1
      <4>2. CASE t \notin Slugs
        BY <3>2, <3>4, <4>2
      <4> QED BY <4>1, <4>2
    <3> QED BY <3>5 DEF slugs, q
  <2>4. CASE l = n + 1
    BY <2>4, <2>1, <1>2
  <2>5. CASE l # n + 1
    <3>1. l \in 0..n /\ l \in 0..Len(p)
      BY <2>5, <2>1, <1>1
    <3>2. count(l) <= count(n)
      BY <3>1, <1>4, <2>1
    <3>3. count(l) \in Nat /\ count(n) \in Nat /\ count(n + 1) \in Nat
      BY <3>1, <2>1, <1>2
    <3> HIDE DEF count
    <3> QED BY <3>2, <3>3, <2>3
  <2> QED BY <2>4, <2>5
<1> HIDE DEF T
<1>5. Nat \subseteq T
  BY <1>3, <1>4, AllNaturals
<1>6. count(k) <= count(Len(p))
  <2>1. Len(p) \in T
    BY <1>1, <1>5
  <2> HIDE DEF count
  <2> QED BY <2>1, <1>1 DEF T
<1>7. Upto(p, Len(p)) = p
  BY UptoStep
<1> QED BY <1>6, <1>7

\* The piece of the path that replaces token i.
FilledPieces(pattern, tokens) ==
    [i \in 1..Len(pattern) |->
        IF pattern[i] \in Slugs THEN tokens[Len(SlugsOf(Upto(pattern, i)))]
                                ELSE <<pattern[i]>>]

\* There is a token for each slug.
Enough(pattern, tokens) ==
    /\ tokens \in Seq(Seq(Literals))
    /\ Len(SlugsOf(pattern)) <= Len(tokens)

\* The token a slug asks for is there.
LEMMA SlugNumber ==
    ASSUME NEW p \in Seq(Token), NEW i \in 1..Len(p), p[i] \in Slugs
    PROVE  Len(SlugsOf(Upto(p, i))) \in 1..Len(SlugsOf(p))
<1> DEFINE q == Upto(p, i - 1)
           t == p[i]
           slugs == SlugsOf(q)
<1>1. Len(p) \in Nat /\ i - 1 \in 0..Len(p) /\ i - 1 < Len(p) /\ (i - 1) + 1 = i
  BY LenProperties
<1>2. q \in Seq(Token) /\ t \in Token /\ Upto(p, i) = Append(q, t)
  BY <1>1, UptoStep
<1>3. slugs \in Seq(Slugs) /\ Len(slugs) \in Nat
  BY <1>2, SlugsType
<1>4. SlugsOf(Append(q, t)) = Append(slugs, t)
  BY <1>2, SlugsAppend
<1> HIDE DEF q, slugs
<1>5. Len(SlugsOf(Upto(p, i))) = Len(slugs) + 1
  <2>1. t \in Slugs
    OBVIOUS
  <2> HIDE DEF t
  <2> QED BY <2>1, <1>2, <1>3, <1>4, AppendProperties
<1>6. Len(SlugsOf(Upto(p, i))) <= Len(SlugsOf(p))
  <2>1. i \in 0..Len(p)
    BY <1>1
  <2> QED BY <2>1, SlugsGrow
<1>7. Len(SlugsOf(p)) \in Nat
  BY SlugsType
<1> QED BY <1>3, <1>5, <1>6, <1>7

LEMMA FilledPiecesType ==
    ASSUME NEW p \in Seq(Token), NEW tokens, Enough(p, tokens)
    PROVE  /\ FilledPieces(p, tokens) \in Seq(Seq(Token))
           /\ Len(FilledPieces(p, tokens)) = Len(p)
           /\ \A i \in 1..Len(p) :
                FilledPieces(p, tokens)[i]
                    = IF p[i] \in Slugs THEN tokens[Len(SlugsOf(Upto(p, i)))]
                                        ELSE <<p[i]>>
<1> DEFINE S == Seq(Token)
           L == Seq(Literals)
           pieces == FilledPieces(p, tokens)
<1>1. Len(p) \in Nat
  BY LenProperties
<1>2. \A i \in 1..Len(p) :
        pieces[i] = IF p[i] \in Slugs THEN tokens[Len(SlugsOf(Upto(p, i)))]
                                      ELSE <<p[i]>>
  BY DEF FilledPieces
<1>3. ASSUME NEW i \in 1..Len(p)
      PROVE  pieces[i] \in S
  <2>1. CASE p[i] \in Slugs
    <3> DEFINE n == Len(SlugsOf(Upto(p, i)))
    <3>1. n \in 1..Len(SlugsOf(p))
      BY <2>1, SlugNumber
    <3>2. tokens \in Seq(L) /\ Len(tokens) \in Nat
      <4>1. tokens \in Seq(L)
        BY DEF Enough
      <4> HIDE DEF L
      <4> QED BY <4>1, LenProperties
    <3>3. n \in 1..Len(tokens)
      <4>1. Len(SlugsOf(p)) \in Nat /\ Len(SlugsOf(p)) <= Len(tokens)
        BY SlugsType DEF Enough
      <4> HIDE DEF n
      <4> QED BY <4>1, <3>1, <3>2
    <3> HIDE DEF n
    <3>4. tokens[n] \in L
      <4> HIDE DEF L
      <4> QED BY <3>2, <3>3, ElementOfSeq
    <3>5. L \subseteq S
      BY SeqMonotonic DEF Token
    <3> HIDE DEF L, S
    <3> QED BY <2>1, <3>4, <3>5, <1>2 DEF n
  <2>2. CASE p[i] \notin Slugs
    <3>1. p[i] \in Token
      BY ElementOfSeq
    <3>2. <<p[i]>> \in S
      BY <3>1
    <3> HIDE DEF S
    <3> QED BY <2>2, <3>2, <1>2
  <2> QED BY <2>1, <2>2
<1> HIDE DEF S
<1>4. pieces \in [1..Len(p) -> S]
  BY <1>3 DEF FilledPieces
<1> HIDE DEF pieces
<1>5. pieces \in Seq(S) /\ Len(pieces) = Len(p)
  BY <1>1, <1>4, IsASeq, LenProperties
<1> QED BY <1>2, <1>5 DEF S, pieces

LEMMA FilledIsFlat ==
    ASSUME NEW p, NEW tokens
    PROVE  Filled(p, tokens) = FlattenSeq(FilledPieces(p, tokens))
BY DEF Filled, FilledPieces

LEMMA FilledType ==
    ASSUME NEW p \in Seq(Token), NEW tokens, Enough(p, tokens)
    PROVE  Filled(p, tokens) \in Seq(Token)
BY FilledIsFlat, FilledPiecesType, FlattenType

LEMMA FilledNothing ==
    ASSUME NEW tokens
    PROVE  Filled(<<>>, tokens) = <<>>
<1> DEFINE empty == <<>>
<1>1. Len(empty) = 0
  OBVIOUS
<1> HIDE DEF empty
<1> DEFINE pieces == FilledPieces(empty, tokens)
<1>2. pieces \in [1..0 -> {pieces[i] : i \in 1..0}]
  BY <1>1 DEF FilledPieces
<1>3. FlattenSeq(pieces) = <<>>
  BY <1>2, NoPieces
<1> QED BY <1>3, FilledIsFlat DEF empty

\* Only the tokens of its slugs fill a pattern.
LEMMA FilledAgrees ==
    ASSUME NEW p \in Seq(Token), NEW a, NEW b, Enough(p, a), Enough(p, b),
           \A k \in 1..Len(SlugsOf(p)) : a[k] = b[k]
    PROVE  Filled(p, a) = Filled(p, b)
<1> DEFINE S == Seq(Token)
<1>1. /\ FilledPieces(p, a) \in Seq(S) /\ FilledPieces(p, b) \in Seq(S)
      /\ Len(FilledPieces(p, a)) = Len(p) /\ Len(FilledPieces(p, b)) = Len(p)
  BY FilledPiecesType
<1>2. ASSUME NEW i \in 1..Len(p)
      PROVE  FilledPieces(p, a)[i] = FilledPieces(p, b)[i]
  <2>1. FilledPieces(p, a)[i] = IF p[i] \in Slugs
                                THEN a[Len(SlugsOf(Upto(p, i)))] ELSE <<p[i]>>
    BY FilledPiecesType
  <2>2. FilledPieces(p, b)[i] = IF p[i] \in Slugs
                                THEN b[Len(SlugsOf(Upto(p, i)))] ELSE <<p[i]>>
    BY FilledPiecesType
  <2>3. CASE p[i] \in Slugs
    <3>1. Len(SlugsOf(Upto(p, i))) \in 1..Len(SlugsOf(p))
      BY <2>3, SlugNumber
    <3> QED BY <2>1, <2>2, <2>3, <3>1
  <2> QED BY <2>1, <2>2, <2>3
<1> HIDE DEF S
<1>3. FilledPieces(p, a) = FilledPieces(p, b)
  BY <1>1, <1>2, SeqEqual
<1> QED BY <1>3, FilledIsFlat

LEMMA FilledAppend ==
    ASSUME NEW p \in Seq(Token), NEW t \in Token, NEW tokens,
           Enough(Append(p, t), tokens)
    PROVE  /\ Enough(p, tokens)
           /\ Filled(Append(p, t), tokens)
                = Filled(p, tokens) \o IF t \in Slugs
                                       THEN tokens[Len(SlugsOf(p)) + 1]
                                       ELSE <<t>>
<1> DEFINE S == Seq(Token)
           q == Append(p, t)
           x == FilledPieces(q, tokens)[Len(q)]
           more == Append(FilledPieces(p, tokens), x)
<1>1. /\ q \in Seq(Token) /\ Len(q) = Len(p) + 1 /\ q[Len(p) + 1] = t
      /\ \A i \in 1..Len(p) : q[i] = p[i]
      /\ Len(p) \in Nat
  BY AppendToken
<1>2. SlugsOf(q) = IF t \in Slugs THEN Append(SlugsOf(p), t) ELSE SlugsOf(p)
  BY SlugsAppend
<1> HIDE DEF q
<1>3. ASSUME NEW i \in 0..Len(p)
      PROVE  Upto(q, i) = Upto(p, i)
  <2>1. i \in 0..Len(q)
    BY <1>1
  <2>2. /\ Upto(q, i) \in Seq(Token) /\ Upto(p, i) \in Seq(Token)
        /\ Len(Upto(q, i)) = i /\ Len(Upto(p, i)) = i
    BY <1>1, <2>1, UptoStep
  <2>3. \A k \in 1..i : Upto(q, i)[k] = q[k] /\ Upto(p, i)[k] = p[k]
    <3>1. i \in Nat /\ 1 \in 1..Len(p)+1 /\ 1 \in 1..Len(q)+1
      BY <1>1
    <3> QED BY <3>1, <1>1, <2>1, SubSeqProperties DEF Upto
  <2>4. \A k \in 1..i : Upto(q, i)[k] = Upto(p, i)[k]
    BY <2>3, <1>1
  <2> QED BY <2>2, <2>4, SeqEqual
<1>4. Len(SlugsOf(q)) = Len(SlugsOf(p)) + IF t \in Slugs THEN 1 ELSE 0
  <2> DEFINE slugs == SlugsOf(p)
  <2>1. slugs \in Seq(Slugs) /\ Len(slugs) \in Nat
    BY SlugsType
  <2> HIDE DEF slugs
  <2>2. CASE t \in Slugs
    <3>1. Len(Append(slugs, t)) = Len(slugs) + 1
      BY <2>1, <2>2, AppendProperties
    <3> QED BY <3>1, <2>2, <1>2 DEF slugs
  <2>3. CASE t \notin Slugs
    BY <2>1, <2>3, <1>2 DEF slugs
  <2> QED BY <2>2, <2>3
<1>5. Enough(p, tokens)
  <2>1. /\ tokens \in Seq(Seq(Literals))
        /\ Len(SlugsOf(q)) <= Len(tokens)
    BY DEF Enough, q
  <2>2. Len(SlugsOf(p)) \in Nat /\ Len(tokens) \in Nat
    <3> DEFINE L == Seq(Literals)
    <3>1. tokens \in Seq(L)
      BY <2>1
    <3> HIDE DEF L
    <3> QED BY <3>1, LenProperties, SlugsType
  <2> QED BY <2>1, <2>2, <1>4 DEF Enough
<1>6. /\ FilledPieces(p, tokens) \in Seq(S) /\ FilledPieces(q, tokens) \in Seq(S)
      /\ Len(FilledPieces(p, tokens)) = Len(p)
      /\ Len(FilledPieces(q, tokens)) = Len(q)
  <2>1. Enough(q, tokens)
    BY DEF q
  <2> QED BY <2>1, <1>1, <1>5, FilledPiecesType
<1> HIDE DEF S
<1>7. x \in S
  BY <1>1, <1>6, ElementOfSeq
<1> HIDE DEF x
<1>8. /\ more \in Seq(S) /\ Len(more) = Len(p) + 1
      /\ more[Len(p) + 1] = x
      /\ \A i \in 1..Len(p) : more[i] = FilledPieces(p, tokens)[i]
  BY <1>6, <1>7, AppendProperties
<1> HIDE DEF more
<1>9. ASSUME NEW i \in 1..Len(p) + 1
      PROVE  FilledPieces(q, tokens)[i] = more[i]
  <2>1. CASE i = Len(p) + 1
    BY <2>1, <1>1, <1>8 DEF x
  <2>2. CASE i # Len(p) + 1
    <3>1. i \in 1..Len(p) /\ i \in 1..Len(q) /\ i \in 0..Len(p)
      BY <2>2, <1>1
    <3>2. FilledPieces(p, tokens)[i]
            = IF p[i] \in Slugs THEN tokens[Len(SlugsOf(Upto(p, i)))]
                                ELSE <<p[i]>>
      BY <3>1 DEF FilledPieces
    <3>3. FilledPieces(q, tokens)[i]
            = IF q[i] \in Slugs THEN tokens[Len(SlugsOf(Upto(q, i)))]
                                ELSE <<q[i]>>
      BY <3>1 DEF FilledPieces
    <3>4. Upto(q, i) = Upto(p, i) /\ q[i] = p[i]
      BY <3>1, <1>1, <1>3
    <3> QED BY <3>1, <3>2, <3>3, <3>4, <1>8
  <2> QED BY <2>1, <2>2
<1>10. FilledPieces(q, tokens) = more
  BY <1>1, <1>6, <1>8, <1>9, SeqEqual
<1>11. Filled(q, tokens) = Filled(p, tokens) \o x
  <2>1. FilledPieces(p, tokens) \in Seq(Seq(Token)) /\ x \in Seq(Token)
    BY <1>6, <1>7 DEF S
  <2>2. FlattenSeq(more) = FlattenSeq(FilledPieces(p, tokens)) \o x
    BY <2>1, FlattenAppend DEF more
  <2> QED BY <2>2, <1>10, FilledIsFlat
<1>12. x = IF t \in Slugs THEN tokens[Len(SlugsOf(p)) + 1] ELSE <<t>>
  <2>1. Len(q) \in 1..Len(q)
    BY <1>1
  <2>2. x = IF q[Len(q)] \in Slugs THEN tokens[Len(SlugsOf(Upto(q, Len(q))))]
                                   ELSE <<q[Len(q)]>>
    BY <2>1 DEF x, FilledPieces
  <2>3. Upto(q, Len(q)) = q
    BY <1>1, SubSeqFull DEF Upto
  <2>4. q[Len(q)] = t
    BY <1>1
  <2>5. x = IF t \in Slugs THEN tokens[Len(SlugsOf(q))] ELSE <<t>>
    BY <2>2, <2>3, <2>4
  <2> QED BY <2>5, <1>4
<1> QED BY <1>5, <1>11, <1>12 DEF q

\* The text comes from between two others.
PartOf(part, text) == \E a, b \in Seq(Token) : text = (a \o part) \o b

\* Every token a slug has taken is a part of what it fills.
TokensInside(pattern, tokens) ==
    \A k \in 1..Len(SlugsOf(pattern)) : PartOf(tokens[k], Filled(pattern, tokens))

LEMMA PartOfMore ==
    ASSUME NEW part \in Seq(Token), NEW text \in Seq(Token), NEW x \in Seq(Token),
           PartOf(part, text)
    PROVE  PartOf(part, text \o x)
<1>1. PICK a \in Seq(Token), b \in Seq(Token) : text = (a \o part) \o b
  BY DEF PartOf
<1> DEFINE front == a \o part
<1>2. front \in Seq(Token) /\ b \o x \in Seq(Token)
  BY ConcatProperties
<1> HIDE DEF front
<1>3. (front \o b) \o x = front \o (b \o x)
  <2> DEFINE texts == Seq(Token)
  <2>1. front \in texts /\ b \in texts /\ x \in texts
    BY <1>2
  <2>2. \A u, v, w \in texts : (u \o v) \o w = u \o (v \o w)
    BY TextsAssociative
  <2> HIDE DEF texts
  <2> QED BY <2>1, <2>2
<1> USE DEF front
<1>4. text \o x = (a \o part) \o (b \o x)
  BY <1>1, <1>3
<1> QED BY <1>2, <1>4, Zenon DEF PartOf

LEMMA PartAtEnd ==
    ASSUME NEW part \in Seq(Token), NEW text \in Seq(Token)
    PROVE  PartOf(part, text \o part)
<1>1. text \o part \in Seq(Token)
  BY ConcatProperties
<1> DEFINE whole == text \o part
<1>2. whole \o <<>> = whole
  <2> HIDE DEF whole
  <2> QED BY <1>1, ConcatEmptySeq DEF whole
<1>3. \E a, b \in Seq(Token) : whole = (a \o part) \o b
  <2>1. whole = whole \o <<>> /\ <<>> \in Seq(Token)
    BY <1>2
  <2> QED BY <2>1
<1> QED BY <1>3 DEF PartOf

LEMMA TokensInsideAppend ==
    ASSUME NEW p \in Seq(Token), NEW t \in Token, NEW tokens,
           Enough(Append(p, t), tokens), TokensInside(p, tokens)
    PROVE  TokensInside(Append(p, t), tokens)
<1> DEFINE q == Append(p, t)
           n == Len(SlugsOf(p))
           x == IF t \in Slugs THEN tokens[n + 1] ELSE <<t>>
<1>1. Enough(p, tokens) /\ Filled(q, tokens) = Filled(p, tokens) \o x
  BY FilledAppend
<1>2. n \in Nat /\ Len(SlugsOf(q)) = IF t \in Slugs THEN n + 1 ELSE n
  <2> DEFINE slugs == SlugsOf(p)
  <2>1. slugs \in Seq(Slugs) /\ Len(slugs) \in Nat
    BY SlugsType
  <2>2. SlugsOf(q) = IF t \in Slugs THEN Append(slugs, t) ELSE slugs
    BY SlugsAppend
  <2> HIDE DEF slugs, q
  <2>3. t \in Slugs => Len(Append(slugs, t)) = Len(slugs) + 1
    BY <2>1, AppendProperties
  <2> QED BY <2>1, <2>2, <2>3 DEF slugs
<1>3. \A k \in 1..Len(SlugsOf(q)) : tokens[k] \in Seq(Literals)
  <2> DEFINE L == Seq(Literals)
  <2>1. tokens \in Seq(L) /\ Len(SlugsOf(q)) <= Len(tokens)
    BY DEF Enough
  <2> HIDE DEF L, q
  <2>2. Len(tokens) \in Nat /\ Len(SlugsOf(q)) \in Nat
    BY <2>1, <1>2, LenProperties
  <2>3. \A k \in 1..Len(SlugsOf(q)) : tokens[k] \in L
    BY <2>1, <2>2, ElementOfSeq
  <2> QED BY <2>3 DEF L
<1>4. \A k \in 1..Len(SlugsOf(q)) : tokens[k] \in Seq(Token)
  BY <1>3, SeqMonotonic DEF Token
<1>5. Filled(p, tokens) \in Seq(Token)
  BY <1>1, FilledType
<1>6. x \in Seq(Token)
  <2>1. <<t>> \in Seq(Token)
    OBVIOUS
  <2>2. t \in Slugs => n + 1 \in 1..Len(SlugsOf(q))
    BY <1>2
  <2> HIDE DEF n, q
  <2> QED BY <2>1, <2>2, <1>4
<1> SUFFICES ASSUME NEW k \in 1..Len(SlugsOf(q))
             PROVE  PartOf(tokens[k], Filled(q, tokens))
  BY DEF TokensInside
<1>7. tokens[k] \in Seq(Token)
  BY <1>4
<1>8. CASE k \in 1..n
  <2>1. PartOf(tokens[k], Filled(p, tokens))
    BY <1>8 DEF TokensInside
  <2> HIDE DEF x, q, n
  <2> QED BY <2>1, <1>1, <1>5, <1>6, <1>7, PartOfMore
<1>9. CASE k \notin 1..n
  <2>1. t \in Slugs /\ k = n + 1
    BY <1>2, <1>9
  <2>2. x = tokens[k]
    BY <2>1
  <2> HIDE DEF x, q, n
  <2> QED BY <2>2, <1>1, <1>5, <1>7, PartAtEnd
<1> QED BY <1>8, <1>9

LEMMA FilledParts ==
    ASSUME NEW p \in Seq(Token), NEW tokens, Enough(p, tokens)
    PROVE  TokensInside(p, tokens)
<1> DEFINE T == {n \in Nat : n <= Len(p) => TokensInside(Upto(p, n), tokens)}
<1>1. Len(p) \in Nat /\ Upto(p, Len(p)) = p /\ Upto(p, 0) = <<>>
  <2>1. Len(p) \in Nat
    BY LenProperties
  <2> QED BY <2>1, UptoStep
<1>2. 0 \in T
  <2>1. Len(SlugsOf(Upto(p, 0))) = 0
    BY <1>1, SlugsOfNothing
  <2> QED BY <2>1 DEF TokensInside
<1>3. ASSUME NEW n \in Nat, n \in T
      PROVE  n + 1 \in T
  <2> SUFFICES ASSUME n + 1 <= Len(p)
               PROVE  TokensInside(Upto(p, n + 1), tokens)
    OBVIOUS
  <2>1. n \in 0..Len(p) /\ n < Len(p) /\ n + 1 \in 0..Len(p)
    BY <1>1
  <2>2. /\ Upto(p, n) \in Seq(Token) /\ p[n + 1] \in Token
        /\ Upto(p, n + 1) = Append(Upto(p, n), p[n + 1])
        /\ Upto(p, n + 1) \in Seq(Token)
    BY <2>1, UptoStep
  <2>3. Enough(Upto(p, n + 1), tokens)
    <3> DEFINE L == Seq(Literals)
    <3>1. tokens \in Seq(L) /\ Len(SlugsOf(p)) <= Len(tokens)
      BY DEF Enough
    <3> HIDE DEF L
    <3>2. Len(tokens) \in Nat /\ Len(SlugsOf(p)) \in Nat
      BY <3>1, LenProperties, SlugsType
    <3>3. /\ Len(SlugsOf(Upto(p, n + 1))) <= Len(SlugsOf(p))
          /\ Len(SlugsOf(Upto(p, n + 1))) \in Nat
      BY <2>1, <2>2, SlugsGrow, SlugsType
    <3> QED BY <3>1, <3>2, <3>3 DEF Enough, L
  <2>4. TokensInside(Upto(p, n), tokens)
    BY <1>3, <2>1
  <2> QED BY <2>2, <2>3, <2>4, TokensInsideAppend
<1> HIDE DEF T
<1>4. Nat \subseteq T
  BY <1>2, <1>3, AllNaturals
<1>5. Len(p) \in T
  BY <1>1, <1>4
<1> QED BY <1>1, <1>5 DEF T

\* Literal characters stand for themselves.
LEMMA FilledLiterals ==
    ASSUME NEW p \in Seq(Token), NEW q \in Seq(Literals), NEW tokens,
           Enough(p, tokens)
    PROVE  /\ SlugsOf(p \o q) = SlugsOf(p)
           /\ Filled(p \o q, tokens) = Filled(p, tokens) \o q
<1> DEFINE text(n) == p \o Upto(q, n)
           T == {n \in Nat : n <= Len(q) =>
                    /\ SlugsOf(text(n)) = SlugsOf(p)
                    /\ Filled(text(n), tokens) = Filled(p, tokens) \o Upto(q, n)}
<1>1. Len(q) \in Nat /\ q \in Seq(Token)
  <2>1. Literals \subseteq Token
    BY DEF Token
  <2> QED BY <2>1, LenProperties, SeqMonotonic
<1>2. Filled(p, tokens) \in Seq(Token)
  BY FilledType
<1>3. 0 \in T
  <2>1. Upto(q, 0) = <<>>
    BY <1>1, UptoStep
  <2>2. p \o <<>> = p /\ Filled(p, tokens) \o <<>> = Filled(p, tokens)
    BY <1>2, ConcatEmptySeq
  <2> QED BY <2>1, <2>2
<1>4. ASSUME NEW n \in Nat, n \in T
      PROVE  n + 1 \in T
  <2> SUFFICES ASSUME n + 1 <= Len(q)
               PROVE  /\ SlugsOf(text(n + 1)) = SlugsOf(p)
                      /\ Filled(text(n + 1), tokens)
                            = Filled(p, tokens) \o Upto(q, n + 1)
    OBVIOUS
  <2> DEFINE c == q[n + 1]
             before == text(n)
             literals == Upto(q, n)
  <2>1. n \in 0..Len(q) /\ n < Len(q) /\ n <= Len(q)
    BY <1>1
  <2>2. /\ literals \in Seq(Token) /\ c \in Token
        /\ Upto(q, n + 1) = Append(literals, c)
    BY <1>1, <2>1, UptoStep
  <2>3. c \notin Slugs
    <3>1. c \in Literals
      BY <2>1, ElementOfSeq
    <3> QED BY <3>1, TokensDistinct
  <2>4. /\ SlugsOf(before) = SlugsOf(p)
        /\ Filled(before, tokens) = Filled(p, tokens) \o literals
    BY <1>4, <2>1
  <2>5. before \in Seq(Token) /\ text(n + 1) = Append(before, c)
    <3>1. before \in Seq(Token)
      BY <2>2, ConcatProperties
    <3>2. p \o Append(literals, c) = Append(p \o literals, c)
      <4> HIDE DEF literals, c
      <4> DEFINE last == <<c>>
      <4>1. /\ Append(literals, c) = literals \o last
            /\ Append(p \o literals, c) = (p \o literals) \o last
        BY <2>2, ConcatProperties, AppendIsConcat
      <4>2. last \in Seq(Token)
        BY <2>2
      <4> HIDE DEF last
      <4>3. (p \o literals) \o last = p \o (literals \o last)
        BY <2>2, <4>2, TextsAssociative
      <4> QED BY <4>1, <4>3
    <3> QED BY <3>1, <3>2, <2>2
  <2> HIDE DEF c, literals, text, before
  <2>6. SlugsOf(Append(before, c)) = SlugsOf(p)
    BY <2>2, <2>3, <2>4, <2>5, SlugsAppend
  <2>7. Enough(Append(before, c), tokens)
    BY <2>6 DEF Enough
  <2>8. Filled(Append(before, c), tokens) = Filled(before, tokens) \o <<c>>
    BY <2>2, <2>3, <2>5, <2>7, FilledAppend
  <2>9. (Filled(p, tokens) \o literals) \o <<c>>
            = Filled(p, tokens) \o Append(literals, c)
    <3> DEFINE last == <<c>>
               filled == Filled(p, tokens)
    <3>1. last \in Seq(Token) /\ Append(literals, c) = literals \o last
      BY <2>2, AppendIsConcat
    <3> HIDE DEF last, filled
    <3>2. (filled \o literals) \o last = filled \o (literals \o last)
      BY <3>1, <1>2, <2>2, TextsAssociative DEF filled
    <3> QED BY <3>1, <3>2 DEF last, filled
  <2> QED BY <2>2, <2>4, <2>5, <2>6, <2>8, <2>9
<1> HIDE DEF T
<1>5. Nat \subseteq T
  BY <1>3, <1>4, AllNaturals
<1>6. Len(q) \in T /\ Upto(q, Len(q)) = q
  <2>1. Len(q) \in 0..Len(q)
    BY <1>1
  <2> QED BY <2>1, <1>1, <1>5, UptoStep
<1> QED BY <1>1, <1>6 DEF T

\* A slug stands for the next token, whatever others follow that one.
SlugFilled(p, slug, tokens, x) ==
    /\ SlugsOf(p \o <<slug>>) = Append(SlugsOf(p), slug)
    /\ Filled(p \o <<slug>>, Append(tokens, x)) = Filled(p, tokens) \o x

LEMMA FilledSlug ==
    ASSUME NEW p \in Seq(Token), NEW slug \in Slugs, NEW tokens, NEW x \in Seq(Literals),
           Enough(p, tokens), Len(tokens) = Len(SlugsOf(p))
    PROVE  SlugFilled(p, slug, tokens, x)
<1> DEFINE L == Seq(Literals)
           more == Append(tokens, x)
<1>1. slug \in Token /\ p \o <<slug>> = Append(p, slug)
  <2>1. slug \in Token
    BY DEF Token
  <2> QED BY <2>1, AppendIsConcat
<1>2. SlugsOf(p) \in Seq(Slugs) /\ Len(SlugsOf(p)) \in Nat
  BY SlugsType
<1>3. SlugsOf(Append(p, slug)) = Append(SlugsOf(p), slug)
  BY <1>1, SlugsAppend
<1>4. Len(SlugsOf(Append(p, slug))) = Len(SlugsOf(p)) + 1
  <2> DEFINE slugs == SlugsOf(p)
  <2> HIDE DEF slugs
  <2>1. Len(Append(slugs, slug)) = Len(slugs) + 1
    BY <1>2, AppendProperties DEF slugs
  <2> QED BY <2>1, <1>3 DEF slugs
<1>5. /\ more \in Seq(L) /\ Len(more) = Len(tokens) + 1
      /\ more[Len(tokens) + 1] = x
      /\ \A k \in 1..Len(tokens) : more[k] = tokens[k]
  <2>1. tokens \in Seq(L) /\ x \in L
    BY DEF Enough
  <2> HIDE DEF L
  <2> QED BY <2>1, AppendProperties
<1> HIDE DEF more
<1>6. Enough(Append(p, slug), more) /\ Enough(p, more)
  BY <1>2, <1>4, <1>5 DEF Enough
<1>7. Filled(Append(p, slug), more) = Filled(p, more) \o more[Len(SlugsOf(p)) + 1]
  BY <1>1, <1>6, FilledAppend
<1>8. Filled(p, more) = Filled(p, tokens)
  BY <1>5, <1>6, FilledAgrees
<1> QED BY <1>1, <1>3, <1>5, <1>7, <1>8 DEF more, SlugFilled

-----------------------------------------------------------------------------
(* What an opcode consumes                                                 *)

\* A run of accepted characters ends inside the text or with it.
LEMMA RunExists ==
    ASSUME NEW opcode, NEW text \in Seq(Literals)
    PROVE  \E k \in 0..Len(text) :
              /\ \A i \in 1..k : text[i] \in Accepts[opcode]
              /\ k < Len(text) => text[k+1] \notin Accepts[opcode]
<1> DEFINE Stops(k) == k < Len(text) => text[k+1] \notin Accepts[opcode]
           T == {k \in 0..Len(text) : Stops(k)}
           first == Min(T)
<1>1. Len(text) \in Nat
  BY LenProperties
<1>2. T \subseteq Nat /\ Len(text) \in T
  BY <1>1
<1>3. first \in T /\ \A k \in T : first <= k
  <2> HIDE DEF T
  <2> QED BY <1>2, LeastNatural
<1> HIDE DEF first
<1>4. \A i \in 1..first : text[i] \in Accepts[opcode]
  <2> SUFFICES ASSUME NEW i \in 1..first, text[i] \notin Accepts[opcode]
               PROVE  FALSE
    OBVIOUS
  <2>1. /\ first \in Nat /\ i - 1 \in 0..Len(text) /\ (i - 1) + 1 = i
        /\ ~(first <= i - 1)
    BY <1>1, <1>3
  <2>2. Stops(i - 1)
    BY <2>1
  <2>3. i - 1 \in T
    BY <2>1, <2>2
  <2> HIDE DEF T
  <2> QED BY <2>1, <2>3, <1>3
<1>5. \E k \in 0..Len(text) : /\ \A i \in 1..k : text[i] \in Accepts[opcode]
                              /\ Stops(k)
  BY <1>3, <1>4
<1> QED BY <1>5

LEMMA RunInText ==
    ASSUME NEW opcode, NEW text \in Seq(Literals)
    PROVE  RunLength(opcode, text) \in 0..Len(text)
BY RunExists DEF RunLength

-----------------------------------------------------------------------------
(* One call on any tree                                                    *)

AskedMethods == {{}} \cup {request.method : request \in Requests}

\* What an entry may hold during a match on a tree with n nodes.
EntryIn(n) == [pc : {"none", "walk", "node", "route", "nil"},
             path : Seq(Literals), method : AskedMethods, node : 1..n,
             rest : Seq(Literals), tokens : Seq(Seq(Literals)), route : Nat]

\* A request a match can be started with.
Askable(request) ==
    request.path \in Seq(Literals) /\ request.method \in AskedMethods

\* No route has been found: that is up to r3_tree_match_route.
Unrouted(e) == e.route = Nil

\* One call goes from node n to the edge's child, if it goes on.
Deepens(sp, old, new) ==
    new.pc = "walk" => Len(sp[new.node]) > Len(sp[old.node])

\* The loops over the edges and the routes return the index of one, or 0.
LEMMA OpcodeEdgeInNode ==
    ASSUME NEW node \in Node, NEW rest
    PROVE  OpcodeEdge(node, rest) \in 0..Len(node.edges)
<1> DEFINE I == {i \in 1..Len(node.edges) :
                    \/ node.edges[i].opcode = "GREEDY"
                    \/ RunLength(node.edges[i].opcode, rest) > 0}
<1>1. Len(node.edges) \in Nat
  BY LenProperties DEF Node
<1>2. OpcodeEdge(node, rest) \in {0, IF I # {} THEN Min(I) ELSE 0}
  BY DEF OpcodeEdge, SelectInSeq
<1>3. I \subseteq 1..Len(node.edges)
  OBVIOUS
<1> HIDE DEF I
<1>4. (IF I # {} THEN Min(I) ELSE 0) \in 0..Len(node.edges)
  BY <1>1, <1>3, FirstOrNone
<1>5. 0 \in 0..Len(node.edges)
  BY <1>1
<1> QED BY <1>2, <1>4, <1>5

LEMMA LiteralEdgeInNode ==
    ASSUME NEW node \in Node, NEW rest
    PROVE  LiteralEdge(node, rest) \in 0..Len(node.edges)
<1> DEFINE I == {i \in 1..Len(node.edges) :
                    rest # <<>> /\ node.edges[i].pattern[1] = rest[1]}
           first == IF I # {} THEN Min(I) ELSE 0
<1>1. Len(node.edges) \in Nat
  BY LenProperties DEF Node
<1>2. LiteralEdge(node, rest)
        = IF first # 0 /\ IsPrefix(node.edges[first].pattern, rest)
          THEN first ELSE 0
  BY DEF LiteralEdge, SelectInSeq
<1>3. I \subseteq 1..Len(node.edges)
  OBVIOUS
<1> HIDE DEF I
<1>4. first \in 0..Len(node.edges)
  BY <1>1, <1>3, FirstOrNone
<1> HIDE DEF first
<1> QED BY <1>1, <1>2, <1>4

\* Going down an edge.
LEMMA EdgeDown ==
    ASSUME NEW tree, NEW sp, Shape(tree, sp), NEW n \in 1..Len(tree),
           NEW i \in 1..Len(tree[n].edges)
    PROVE  LET edge == tree[n].edges[i] IN
           /\ edge.pattern \in Seq(Token) /\ Len(edge.pattern) \in Nat \ {0}
           /\ edge.child \in 1..Len(tree)
           /\ Len(sp[edge.child]) > Len(sp[n])
<1> DEFINE edge == tree[n].edges[i]
<1>1. /\ tree[n].edges \in Seq(Edge) /\ Len(sp) = Len(tree)
      /\ sp[n] \in Seq(Token) /\ Spells(tree[n], sp[n], sp)
  BY ShapeOfNode
<1>2. /\ edge.pattern # <<>> /\ edge.child \in 1..Len(tree)
      /\ sp[edge.child] = sp[n] \o edge.pattern
  BY <1>1 DEF Spells
<1>3. edge.pattern \in Seq(Token)
  <2>1. edge \in Edge
    BY <1>1, ElementOfSeq
  <2> HIDE DEF edge
  <2> QED BY <2>1 DEF Edge
<1>4. Len(edge.pattern) \in Nat \ {0} /\ Len(sp[n]) \in Nat
  BY <1>1, <1>2, <1>3, LenProperties, EmptySeq
<1>5. Len(sp[n] \o edge.pattern) = Len(sp[n]) + Len(edge.pattern)
  BY <1>1, <1>3, ConcatProperties
<1>6. Len(sp[edge.child]) > Len(sp[n])
  <2>1. Len(sp[edge.child]) = Len(sp[n]) + Len(edge.pattern)
    BY <1>2, <1>5, Zenon
  <2>2. \A a \in Nat, b \in Nat \ {0} : a + b > a
    OBVIOUS
  <2>3. Len(sp[n]) + Len(edge.pattern) > Len(sp[n])
    BY <2>2, <1>4, Zenon
  <2> QED BY <2>1, <2>3, Zenon
<1> QED BY <1>2, <1>3, <1>4, <1>6

\* e->child is the result, or there is none.
LEMMA ArriveEntry ==
    ASSUME NEW tree, NEW e \in EntryIn(Len(tree)), Unrouted(e),
           e.pc = "walk", NEW child \in 1..Len(tree)
    PROVE  /\ Arrive(tree, e, child) \in EntryIn(Len(tree))
           /\ Arrive(tree, e, child).pc # "walk"
           /\ Arrive(tree, e, child).route = Nil
<1>1. <<>> \in Seq(Literals)
  OBVIOUS
<1>2. e.route = Nil
  BY DEF Unrouted
<1>3. e.tokens \in Seq(Seq(Literals)) /\ e.method \in AskedMethods
  BY DEF EntryIn
<1>4. CASE tree[child].endpoint > 0
  BY <1>1, <1>2, <1>4 DEF Arrive, EntryIn
<1>5. CASE ~(tree[child].endpoint > 0)
  BY <1>1, <1>2, <1>5 DEF Arrive, EntryIn
<1> QED BY <1>4, <1>5

LEMMA GoOnEntry ==
    ASSUME NEW tree, NEW e \in EntryIn(Len(tree)), NEW child \in 1..Len(tree),
           NEW rest \in Seq(Literals)
    PROVE  /\ GoOn(e, child, rest) \in EntryIn(Len(tree))
           /\ GoOn(e, child, rest).node = child
           /\ GoOn(e, child, rest).rest = rest
           /\ GoOn(e, child, rest).pc = e.pc
           /\ GoOn(e, child, rest).route = e.route
BY DEF GoOn, EntryIn

\* One turn through an edge of an opcode node: it arrives or goes on further
\* down, with one more token.
LEMMA OpcodeStepEntry ==
    ASSUME NEW tree, NEW sp, Shape(tree, sp), NEW e \in EntryIn(Len(tree)),
           Unrouted(e), e.pc = "walk", NEW i \in 1..Len(tree[e.node].edges)
    PROVE  LET new == OpcodeStep(tree, e, i) IN
           /\ new \in EntryIn(Len(tree)) /\ Unrouted(new)
           /\ Deepens(sp, e, new)
           /\ e.rest = <<>> => new.pc # "walk"
<1> DEFINE edge == tree[e.node].edges[i]
           run == RunLength(edge.opcode, e.rest)
           tokens == Append(e.tokens, Upto(e.rest, run))
           taken == [e EXCEPT !.tokens = tokens]
<1>1. e.node \in 1..Len(tree) /\ e.rest \in Seq(Literals) /\ Len(e.rest) \in Nat
  BY LenProperties DEF EntryIn
<1>2. /\ edge.child \in 1..Len(tree)
      /\ Len(sp[edge.child]) > Len(sp[e.node])
  BY <1>1, EdgeDown
<1>3. run \in 0..Len(e.rest)
  BY <1>1, RunInText
<1> HIDE DEF run
<1>4. /\ Upto(e.rest, run) \in Seq(Literals)
      /\ After(e.rest, run) \in Seq(Literals)
  BY <1>1, <1>3 DEF Upto, After
<1>5. /\ taken \in EntryIn(Len(tree)) /\ taken.pc = "walk" /\ taken.route = e.route
      /\ taken.node = e.node /\ taken.rest = e.rest
  <2>1. tokens \in Seq(Seq(Literals))
    <3> DEFINE T == Seq(Literals)
    <3>1. e.tokens \in Seq(T) /\ Upto(e.rest, run) \in T
      BY <1>4 DEF EntryIn
    <3> HIDE DEF T
    <3>2. tokens \in Seq(T)
      BY <3>1, AppendProperties
    <3> QED BY <3>2 DEF T
  <2> HIDE DEF tokens
  <2> QED BY <2>1 DEF EntryIn
<1>6. OpcodeStep(tree, e, i)
        = IF run = Len(e.rest) THEN Arrive(tree, taken, edge.child)
          ELSE GoOn(taken, edge.child, After(e.rest, run))
  BY DEF OpcodeStep, run
<1>7. Unrouted(taken) /\ taken.route = Nil
  BY <1>5 DEF Unrouted
<1> HIDE DEF taken, edge
<1>8. CASE run = Len(e.rest)
  <2> DEFINE new == Arrive(tree, taken, edge.child)
  <2>1. new \in EntryIn(Len(tree)) /\ new.pc # "walk" /\ new.route = Nil
    BY <1>2, <1>5, <1>7, ArriveEntry
  <2> QED BY <2>1, <1>6, <1>8 DEF Unrouted, Deepens
<1>9. CASE run # Len(e.rest)
  <2> DEFINE new == GoOn(taken, edge.child, After(e.rest, run))
  <2>1. /\ new \in EntryIn(Len(tree)) /\ new.node = edge.child
        /\ new.pc = "walk" /\ new.route = Nil
    <3> DEFINE rest == After(e.rest, run)
    <3>1. rest \in Seq(Literals)
      BY <1>4
    <3> HIDE DEF rest
    <3>2. /\ GoOn(taken, edge.child, rest) \in EntryIn(Len(tree))
          /\ GoOn(taken, edge.child, rest).node = edge.child
          /\ GoOn(taken, edge.child, rest).pc = taken.pc
          /\ GoOn(taken, edge.child, rest).route = taken.route
      BY <3>1, <1>2, <1>5, GoOnEntry
    <3> QED BY <3>2, <1>5, <1>7 DEF rest
  <2>2. e.rest # <<>>
    BY <1>3, <1>9
  <2> QED BY <2>1, <2>2, <1>2, <1>6, <1>9 DEF Unrouted, Deepens
<1> QED BY <1>8, <1>9

\* The end of the request: the call on the child with nothing left arrives or
\* fails, and so does the call that made it.
LEMMA EndStepEntry ==
    ASSUME NEW tree, NEW sp, Shape(tree, sp), NEW e \in EntryIn(Len(tree)),
           Unrouted(e), e.pc = "walk", NEW child \in 1..Len(tree)
    PROVE  LET new == EndStep(tree, e, child) IN
           /\ new \in EntryIn(Len(tree)) /\ Unrouted(new) /\ new.pc # "walk"
<1> DEFINE greedy == OpcodeEdge(tree[child], <<>>)
           inside == GoOn(e, child, <<>>)
           inner == OpcodeStep(tree, inside, greedy)
           after == [e EXCEPT !.tokens = inner.tokens]
           new == EndStep(tree, e, child)
<1> SUFFICES new \in EntryIn(Len(tree)) /\ Unrouted(new) /\ new.pc # "walk"
  OBVIOUS
<1>1. new = IF greedy = 0 THEN Arrive(tree, e, child)
            ELSE IF inner.pc = "node" THEN inner
            ELSE Arrive(tree, after, child)
  BY DEF EndStep
<1>2. Len(tree) \in Nat /\ tree[child] \in Node
  BY ShapeOfNode
<1>3. greedy \in 0..Len(tree[child].edges)
  BY <1>2, OpcodeEdgeInNode
<1>4. /\ inside \in EntryIn(Len(tree)) /\ inside.node = child
      /\ inside.rest = <<>> /\ inside.pc = "walk" /\ Unrouted(inside)
  <2> DEFINE empty == <<>>
  <2>1. empty \in Seq(Literals)
    OBVIOUS
  <2> HIDE DEF empty
  <2>2. /\ GoOn(e, child, empty) \in EntryIn(Len(tree))
        /\ GoOn(e, child, empty).node = child
        /\ GoOn(e, child, empty).rest = empty
        /\ GoOn(e, child, empty).pc = e.pc
        /\ GoOn(e, child, empty).route = e.route
    BY <2>1, GoOnEntry
  <2>3. /\ inside \in EntryIn(Len(tree)) /\ inside.node = child
        /\ inside.rest = <<>> /\ inside.pc = e.pc /\ inside.route = e.route
    BY <2>2 DEF inside, empty
  <2> HIDE DEF inside
  <2> QED BY <2>3 DEF Unrouted
<1> HIDE DEF greedy, inside, new
<1>5. ASSUME greedy # 0
      PROVE  inner \in EntryIn(Len(tree)) /\ Unrouted(inner) /\ inner.pc # "walk"
  <2>1. greedy \in 1..Len(tree[inside.node].edges)
    <3>1. Len(tree[child].edges) \in Nat
      BY <1>2, LenProperties DEF Node
    <3> QED BY <3>1, <1>3, <1>4, <1>5
  <2> QED BY <2>1, <1>4, OpcodeStepEntry
<1> HIDE DEF inner
<1>6. CASE greedy = 0
  BY <1>1, <1>6, ArriveEntry DEF Unrouted
<1>7. CASE greedy # 0 /\ inner.pc = "node"
  BY <1>1, <1>5, <1>7
<1>8. CASE greedy # 0 /\ inner.pc # "node"
  <2>1. after \in EntryIn(Len(tree)) /\ Unrouted(after) /\ after.pc = "walk"
    <3>1. inner.tokens \in Seq(Seq(Literals))
      BY <1>5, <1>8 DEF EntryIn
    <3>2. after \in EntryIn(Len(tree)) /\ after.pc = "walk" /\ after.route = e.route
      BY <3>1 DEF EntryIn
    <3> QED BY <3>2 DEF Unrouted
  <2> HIDE DEF after
  <2> QED BY <2>1, <1>1, <1>8, ArriveEntry DEF Unrouted
<1> QED BY <1>6, <1>7, <1>8

\* One turn through an edge with a literal pattern.
LEMMA LiteralStepEntry ==
    ASSUME NEW tree, NEW sp, Shape(tree, sp), NEW e \in EntryIn(Len(tree)),
           Unrouted(e), e.pc = "walk", NEW i \in 1..Len(tree[e.node].edges)
    PROVE  LET new == LiteralStep(tree, e, i) IN
           /\ new \in EntryIn(Len(tree)) /\ Unrouted(new) /\ Deepens(sp, e, new)
<1> DEFINE edge == tree[e.node].edges[i]
           k == Len(edge.pattern)
<1>1. /\ e.node \in 1..Len(tree) /\ e.rest \in Seq(Literals)
      /\ Len(e.rest) \in Nat
  BY LenProperties DEF EntryIn
<1>2. /\ edge.child \in 1..Len(tree) /\ k \in Nat \ {0}
      /\ Len(sp[edge.child]) > Len(sp[e.node])
  BY <1>1, EdgeDown
<1>3. LiteralStep(tree, e, i) = IF k < Len(e.rest)
                                THEN GoOn(e, edge.child, After(e.rest, k))
                                ELSE EndStep(tree, e, edge.child)
  BY DEF LiteralStep
<1> HIDE DEF edge, k
<1>4. CASE k < Len(e.rest)
  <2> DEFINE rest == After(e.rest, k)
  <2>1. rest \in Seq(Literals)
    BY <1>1, <1>2, <1>4 DEF After
  <2> HIDE DEF rest
  <2>2. /\ GoOn(e, edge.child, rest) \in EntryIn(Len(tree))
        /\ GoOn(e, edge.child, rest).node = edge.child
        /\ GoOn(e, edge.child, rest).pc = e.pc
        /\ GoOn(e, edge.child, rest).route = e.route
    BY <2>1, <1>2, GoOnEntry
  <2> QED BY <2>2, <1>2, <1>3, <1>4 DEF rest, Unrouted, Deepens
<1>5. CASE ~(k < Len(e.rest))
  BY <1>2, <1>3, <1>5, EndStepEntry DEF Deepens
<1> QED BY <1>4, <1>5

\* One call of r3_tree_matchl_base.
LEMMA WalkStepEntry ==
    ASSUME NEW tree, NEW sp, Shape(tree, sp), NEW e \in EntryIn(Len(tree)),
           Unrouted(e), e.pc = "walk"
    PROVE  LET new == WalkStep(tree, e) IN
           /\ new \in EntryIn(Len(tree)) /\ Unrouted(new) /\ Deepens(sp, e, new)
<1> DEFINE opcodeEdge == OpcodeEdge(tree[e.node], e.rest)
           literalEdge == LiteralEdge(tree[e.node], e.rest)
           failed == [e EXCEPT !.pc = "nil", !.rest = <<>>]
<1>1. /\ tree[e.node] \in Node /\ e.node \in 1..Len(tree)
  BY ShapeOfNode DEF EntryIn
<1>2. /\ Len(tree[e.node].edges) \in Nat
      /\ opcodeEdge \in 0..Len(tree[e.node].edges)
      /\ literalEdge \in 0..Len(tree[e.node].edges)
  BY <1>1, LenProperties, OpcodeEdgeInNode, LiteralEdgeInNode DEF Node
<1>3. WalkStep(tree, e) = IF opcodeEdge # 0 THEN OpcodeStep(tree, e, opcodeEdge)
                          ELSE IF literalEdge # 0
                          THEN LiteralStep(tree, e, literalEdge)
                          ELSE failed
  BY DEF WalkStep
<1>4. failed \in EntryIn(Len(tree)) /\ failed.pc = "nil" /\ Unrouted(failed)
  <2>1. <<>> \in Seq(Literals)
    OBVIOUS
  <2> QED BY <2>1 DEF EntryIn, Unrouted
<1> HIDE DEF opcodeEdge, literalEdge, failed
<1>5. CASE opcodeEdge # 0
  <2>1. opcodeEdge \in 1..Len(tree[e.node].edges)
    BY <1>2, <1>5
  <2> QED BY <2>1, <1>3, <1>5, OpcodeStepEntry
<1>6. CASE opcodeEdge = 0 /\ literalEdge # 0
  <2>1. literalEdge \in 1..Len(tree[e.node].edges)
    BY <1>2, <1>6
  <2> QED BY <2>1, <1>3, <1>6, LiteralStepEntry
<1>7. CASE opcodeEdge = 0 /\ literalEdge = 0
  BY <1>3, <1>4, <1>7 DEF Deepens
<1> QED BY <1>5, <1>6, <1>7

\* The loop over the routes of the node found.
LEMMA RouteStepEntry ==
    ASSUME NEW tree, NEW sp, Shape(tree, sp), NEW e \in EntryIn(Len(tree))
    PROVE  LET new == RouteStep(tree, e) IN
           /\ new \in EntryIn(Len(tree)) /\ new.pc \in {"route", "nil"}
           /\ new.route \in 0..Len(tree[new.node].routes)
<1> DEFINE I == {r \in 1..Len(tree[e.node].routes) :
                    MethodFits(tree[e.node].routes[r].method, e.method)}
           fits == IF I # {} THEN Min(I) ELSE 0
           new == [e EXCEPT !.route = fits,
                            !.pc = IF fits = Nil THEN "nil" ELSE "route"]
<1>1. RouteStep(tree, e) = new
  BY DEF RouteStep, SelectInSeq
<1>2. Len(tree[e.node].routes) \in Nat
  BY ShapeOfNode, LenProperties DEF EntryIn
<1>3. I \subseteq 1..Len(tree[e.node].routes)
  OBVIOUS
<1> HIDE DEF I
<1>4. fits \in 0..Len(tree[e.node].routes)
  BY <1>2, <1>3, FirstOrNone
<1> HIDE DEF fits
<1>5. /\ new \in EntryIn(Len(tree)) /\ new.pc \in {"route", "nil"}
      /\ new.node = e.node /\ new.route = fits
  <2>1. fits \in Nat
    BY <1>2, <1>4
  <2>2. CASE fits = Nil
    BY <2>1, <2>2 DEF EntryIn
  <2>3. CASE fits # Nil
    BY <2>1, <2>3 DEF EntryIn
  <2> QED BY <2>2, <2>3
<1> HIDE DEF new
<1> QED BY <1>1, <1>4, <1>5

-----------------------------------------------------------------------------
(* What a match has consumed                                               *)

\* What the slugs take, as a set of pairs: another in a build with PCRE.
Taken == {pair \in Slugs \X Seq(Literals) : Takes(pair[1], pair[2])}

\* It goes by the opcodes where there are any.
ByOpcode(takes) ==
    \A slug \in Slugs, token \in Seq(Literals) :
        SlugOpcode[slug] # "NONE" /\ Takes(slug, token) => <<slug, token>> \in takes

TakesAll(takes, slugs, tokens) ==
    \A k \in 1..Len(slugs) : <<slugs[k], tokens[k]>> \in takes

\* The tokens collected so far are those of the text of the node reached.
Consumed(takes, sp, e) ==
    /\ Len(e.tokens) = Len(SlugsOf(sp[e.node]))
    /\ Filled(sp[e.node], e.tokens) \o e.rest = e.path
    /\ TakesAll(takes, SlugsOf(sp[e.node]), e.tokens)

\* The first tokens are those of the text of the node found.
Found(takes, sp, e) ==
    /\ Len(SlugsOf(sp[e.node])) <= Len(e.tokens)
    /\ Filled(sp[e.node], e.tokens) = e.path
    /\ TakesAll(takes, SlugsOf(sp[e.node]), e.tokens)

EntryFits(takes, sp, e) ==
    /\ e.pc = "walk" => Consumed(takes, sp, e)
    /\ e.pc \in {"node", "route"} => Found(takes, sp, e)

LEMMA TakenByOpcode == ByOpcode(Taken)
BY DEF ByOpcode, Taken

LEMMA TakenTakes ==
    ASSUME NEW slugs, NEW tokens, TakesAll(Taken, slugs, tokens)
    PROVE  \A k \in 1..Len(slugs) : Takes(slugs[k], tokens[k])
<1> TAKE k \in 1..Len(slugs)
<1>1. <<slugs[k], tokens[k]>> \in Taken
  BY DEF TakesAll
<1> QED BY <1>1 DEF Taken

\* What RunLength counts.
LEMMA RunAccepted ==
    ASSUME NEW opcode, NEW text \in Seq(Literals)
    PROVE  \A i \in 1..RunLength(opcode, text) : text[i] \in Accepts[opcode]
<1> DEFINE Run(k) == /\ \A i \in 1..k : text[i] \in Accepts[opcode]
                     /\ k < Len(text) => text[k+1] \notin Accepts[opcode]
<1>1. \E k \in 0..Len(text) : Run(k)
  BY RunExists
<1>2. Run(CHOOSE k \in 0..Len(text) : Run(k))
  <2> HIDE DEF Run
  <2> QED BY <1>1
<1> QED BY <1>2 DEF RunLength

\* The types of what is joined.
LEMMA EntryTypes ==
    ASSUME NEW tree, NEW sp, Shape(tree, sp), NEW e \in EntryIn(Len(tree))
    PROVE  /\ e.node \in 1..Len(tree) /\ sp[e.node] \in Seq(Token)
           /\ e.rest \in Seq(Literals) /\ e.path \in Seq(Literals)
           /\ e.tokens \in Seq(Seq(Literals)) /\ Len(e.tokens) \in Nat
           /\ Len(SlugsOf(sp[e.node])) \in Nat
           /\ Len(e.rest) \in Nat
           /\ SlugsOf(sp[e.node]) \in Seq(Slugs)
<1>1. /\ e.node \in 1..Len(tree) /\ e.tokens \in Seq(Seq(Literals))
      /\ e.rest \in Seq(Literals) /\ e.path \in Seq(Literals)
  BY DEF EntryIn
<1>2. sp[e.node] \in Seq(Token)
  BY <1>1, ShapeOfNode
<1>3. Len(e.tokens) \in Nat
  <2> DEFINE L == Seq(Literals)
  <2>1. e.tokens \in Seq(L)
    BY <1>1
  <2> HIDE DEF L
  <2> QED BY <2>1, LenProperties
<1>4. Len(e.rest) \in Nat
  BY <1>1, LenProperties
<1> QED BY <1>1, <1>2, <1>3, <1>4, SlugsType

\* A text is what is left of it after its first characters.
LEMMA CutRest ==
    ASSUME NEW rest \in Seq(Literals), NEW k \in 0..Len(rest)
    PROVE  /\ Upto(rest, k) \in Seq(Literals) /\ After(rest, k) \in Seq(Literals)
           /\ Len(Upto(rest, k)) = k
           /\ \A i \in 1..k : Upto(rest, k)[i] = rest[i]
           /\ Upto(rest, k) \o After(rest, k) = rest
           /\ k = Len(rest) => Upto(rest, k) = rest /\ After(rest, k) = <<>>
<1>1. Len(rest) \in Nat
  BY LenProperties
<1>2. /\ Upto(rest, k) \in Seq(Literals) /\ Len(Upto(rest, k)) = k
      /\ \A i \in 1..k : Upto(rest, k)[i] = rest[i]
  BY <1>1, SubSeqProperties DEF Upto
<1>3. After(rest, k) \in Seq(Literals)
  BY <1>1, SubSeqProperties DEF After
<1>4. Upto(rest, k) \o After(rest, k) = rest
  <2>1. 1 \in 1..Len(rest)+1 /\ k \in (1-1)..Len(rest) /\ Len(rest) \in k..Len(rest)
    BY <1>1
  <2>3. SubSeq(rest, 1, k) \o SubSeq(rest, k + 1, Len(rest)) = SubSeq(rest, 1, Len(rest))
    BY <2>1, ConcatAdjacentSubSeq
  <2>2. SubSeq(rest, 1, Len(rest)) = rest
    BY SubSeqFull
  <2> QED BY <2>2, <2>3 DEF Upto, After
<1>5. k = Len(rest) => Upto(rest, k) = rest
  BY SubSeqFull DEF Upto
<1>6. k = Len(rest) => After(rest, k) = <<>>
  BY <1>1, SubSeqEmpty DEF After
<1> QED BY <1>2, <1>3, <1>4, <1>5, <1>6

\* An opcode edge consumes a token for the slug that is its pattern.
LEMMA OpcodeConsumes ==
    ASSUME NEW tree, NEW sp, Shape(tree, sp), NEW e \in EntryIn(Len(tree)),
           e.pc = "walk", NEW takes, ByOpcode(takes), Consumed(takes, sp, e),
           NEW i \in 1..Len(tree[e.node].edges), NEW slug \in Slugs,
           tree[e.node].edges[i].pattern = <<slug>>,
           tree[e.node].edges[i].opcode = SlugOpcode[slug],
           SlugOpcode[slug] # "NONE",
           \/ tree[e.node].edges[i].opcode = "GREEDY"
           \/ RunLength(tree[e.node].edges[i].opcode, e.rest) > 0
    PROVE  /\ EntryFits(takes, sp, OpcodeStep(tree, e, i))
           /\ \E token \in Seq(Literals) :
                OpcodeStep(tree, e, i).tokens = Append(e.tokens, token)
<1> DEFINE edge == tree[e.node].edges[i]
           run == RunLength(edge.opcode, e.rest)
           token == Upto(e.rest, run)
           rest == After(e.rest, run)
           tokens == Append(e.tokens, token)
           taken == [e EXCEPT !.tokens = tokens]
           text == sp[e.node]
           new == OpcodeStep(tree, e, i)
<1>1. /\ e.node \in 1..Len(tree) /\ text \in Seq(Token)
      /\ e.rest \in Seq(Literals) /\ e.path \in Seq(Literals)
      /\ e.tokens \in Seq(Seq(Literals)) /\ Len(e.tokens) \in Nat
      /\ Len(e.rest) \in Nat
      /\ SlugsOf(text) \in Seq(Slugs)
  BY EntryTypes
<1>2. sp[edge.child] = text \o <<slug>>
  <2>1. Spells(tree[e.node], text, sp)
    BY <1>1, ShapeOfNode
  <2>2. sp[edge.child] = text \o edge.pattern
    BY <2>1 DEF Spells
  <2> QED BY <2>2
<1>3. run \in 0..Len(e.rest)
  BY <1>1, RunInText
<1>4. \A k \in 1..run : e.rest[k] \in Accepts[edge.opcode]
  BY <1>1, RunAccepted
<1>5. new = IF run = Len(e.rest) THEN Arrive(tree, taken, edge.child)
            ELSE GoOn(taken, edge.child, rest)
  BY DEF OpcodeStep
<1>6. edge.opcode = SlugOpcode[slug] /\ (edge.opcode = "GREEDY" \/ run > 0)
  OBVIOUS
<1> HIDE DEF run, edge
<1>7. /\ token \in Seq(Literals) /\ rest \in Seq(Literals) /\ Len(token) = run
      /\ \A k \in 1..run : token[k] = e.rest[k]
      /\ token \o rest = e.rest
      /\ run = Len(e.rest) => token = e.rest
  BY <1>1, <1>3, CutRest
<1> HIDE DEF token, rest
<1>8. <<slug, token>> \in takes
  <2>1. \A k \in 1..Len(token) : token[k] \in Accepts[SlugOpcode[slug]]
    BY <1>4, <1>6, <1>7
  <2>2. token = <<>> => run = 0
    BY <1>7
  <2>3. Takes(slug, token)
    BY <2>1, <2>2, <1>6 DEF Takes
  <2> QED BY <2>3, <1>7 DEF ByOpcode
<1>9. /\ tokens \in Seq(Seq(Literals)) /\ Len(tokens) = Len(e.tokens) + 1
      /\ tokens[Len(e.tokens) + 1] = token
      /\ \A k \in 1..Len(e.tokens) : tokens[k] = e.tokens[k]
  <2> DEFINE L == Seq(Literals)
  <2>1. e.tokens \in Seq(L) /\ token \in L
    BY <1>1, <1>7
  <2> HIDE DEF L
  <2>2. /\ tokens \in Seq(L) /\ Len(tokens) = Len(e.tokens) + 1
        /\ tokens[Len(e.tokens) + 1] = token
        /\ \A k \in 1..Len(e.tokens) : tokens[k] = e.tokens[k]
    BY <2>1, AppendProperties
  <2> QED BY <2>2 DEF L
<1>10. /\ SlugsOf(text \o <<slug>>) = Append(SlugsOf(text), slug)
       /\ Filled(text \o <<slug>>, tokens) = Filled(text, e.tokens) \o token
  <2>1. Enough(text, e.tokens) /\ Len(e.tokens) = Len(SlugsOf(text))
    BY <1>1, SlugsType DEF Consumed, Enough
  <2> HIDE DEF text
  <2>2. SlugFilled(text, slug, e.tokens, token)
    BY <2>1, <1>1, <1>7, FilledSlug
  <2> QED BY <2>2, Zenon DEF SlugFilled
<1>11. Filled(text, e.tokens) \in Seq(Token)
  <2>1. Enough(text, e.tokens)
    BY <1>1, SlugsType DEF Consumed, Enough
  <2> QED BY <2>1, <1>1, FilledType
<1>12. /\ Len(tokens) = Len(SlugsOf(sp[edge.child]))
       /\ TakesAll(takes, SlugsOf(sp[edge.child]), tokens)
  <2> DEFINE slugs == SlugsOf(text)
             more == Append(slugs, slug)
  <2>1. /\ slugs \in Seq(Slugs) /\ Len(slugs) = Len(e.tokens)
        /\ TakesAll(takes, slugs, e.tokens)
    BY <1>1 DEF Consumed
  <2>2. SlugsOf(sp[edge.child]) = more
    BY <1>2, <1>10
  <2> HIDE DEF slugs, tokens
  <2>3. /\ Len(more) = Len(slugs) + 1 /\ more[Len(slugs) + 1] = slug
        /\ \A k \in 1..Len(slugs) : more[k] = slugs[k]
    BY <2>1, AppendProperties
  <2> HIDE DEF more
  <2>4. ASSUME NEW k \in 1..Len(more)
        PROVE  <<more[k], tokens[k]>> \in takes
    <3>1. CASE k = Len(slugs) + 1
      BY <3>1, <2>1, <2>3, <1>8, <1>9
    <3>2. CASE k # Len(slugs) + 1
      <4>1. k \in 1..Len(slugs)
        BY <3>2, <2>1, <2>3, <1>1
      <4>2. <<slugs[k], e.tokens[k]>> \in takes
        BY <4>1, <2>1 DEF TakesAll
      <4> QED BY <4>1, <4>2, <2>1, <2>3, <1>9
    <3> QED BY <3>1, <3>2
  <2> QED BY <2>1, <2>2, <2>3, <2>4, <1>9 DEF TakesAll
<1>13. Filled(sp[edge.child], tokens) \o rest = e.path
  <2> DEFINE filled == Filled(text, e.tokens)
  <2>1. filled \o e.rest = e.path
    BY DEF Consumed
  <2>2. Filled(sp[edge.child], tokens) = filled \o token
    BY <1>2, <1>10
  <2>3. token \in Seq(Token) /\ rest \in Seq(Token) /\ filled \in Seq(Token)
    BY <1>7, <1>11, SeqMonotonic DEF Token
  <2> HIDE DEF filled
  <2>4. (filled \o token) \o rest = filled \o (token \o rest)
    BY <2>3, TextsAssociative, Zenon
  <2> QED BY <2>1, <2>2, <2>4, <1>7, Zenon
<1> HIDE DEF tokens
<1>14. /\ taken.tokens = tokens /\ taken.path = e.path /\ taken.pc = "walk"
       /\ taken \in EntryIn(Len(tree))
  BY <1>9 DEF EntryIn
<1> HIDE DEF taken, text
<1>15. CASE run = Len(e.rest)
  <2>1. Filled(sp[edge.child], tokens) = e.path
    <3>1. Filled(sp[edge.child], tokens) = Filled(text, e.tokens) \o e.rest
      BY <1>2, <1>7, <1>10, <1>15 DEF text
    <3> QED BY <3>1 DEF Consumed, text
  <2>2. Arrive(tree, taken, edge.child).pc = "node" =>
            Arrive(tree, taken, edge.child).node = edge.child
    BY <1>14 DEF Arrive, EntryIn
  <2>3. /\ Arrive(tree, taken, edge.child).pc \in {"node", "nil"}
        /\ Arrive(tree, taken, edge.child).tokens = tokens
        /\ Arrive(tree, taken, edge.child).path = e.path
    BY <1>14 DEF Arrive, EntryIn
  <2>4. new = Arrive(tree, taken, edge.child)
    BY <1>5, <1>15
  <2> HIDE DEF new, tokens
  <2>5. new.pc = "node" => Found(takes, sp, new)
    BY <2>1, <2>2, <2>3, <2>4, <1>9, <1>1, <1>12 DEF Found
  <2>6. EntryFits(takes, sp, new) /\ new.tokens = tokens
    BY <2>3, <2>4, <2>5 DEF EntryFits
  <2> QED BY <2>6, <1>7 DEF new, tokens
<1>16. CASE run # Len(e.rest)
  <2>1. /\ GoOn(taken, edge.child, rest).pc = "walk"
        /\ GoOn(taken, edge.child, rest).node = edge.child
        /\ GoOn(taken, edge.child, rest).rest = rest
        /\ GoOn(taken, edge.child, rest).tokens = tokens
        /\ GoOn(taken, edge.child, rest).path = e.path
    BY <1>14 DEF GoOn, EntryIn
  <2>2. new = GoOn(taken, edge.child, rest)
    BY <1>5, <1>16
  <2> HIDE DEF new
  <2>3. Consumed(takes, sp, new)
    BY <2>1, <2>2, <1>12, <1>13 DEF Consumed
  <2>4. EntryFits(takes, sp, new) /\ new.tokens = tokens
    BY <2>1, <2>2, <2>3 DEF EntryFits
  <2> QED BY <2>4, <1>7 DEF new, tokens
<1> QED BY <1>15, <1>16

\* A match that has consumed the request at a node with an endpoint.
LEMMA ArriveFits ==
    ASSUME NEW tree, NEW sp, NEW e \in EntryIn(Len(tree)),
           NEW child \in 1..Len(tree), NEW takes,
           Len(SlugsOf(sp[child])) <= Len(e.tokens),
           Filled(sp[child], e.tokens) = e.path,
           TakesAll(takes, SlugsOf(sp[child]), e.tokens)
    PROVE  EntryFits(takes, sp, Arrive(tree, e, child))
<1> DEFINE new == Arrive(tree, e, child)
<1>1. /\ new.pc \in {"node", "nil"} /\ new.tokens = e.tokens /\ new.path = e.path
      /\ new.pc = "node" => new.node = child
  BY DEF Arrive, EntryIn
<1> HIDE DEF new
<1>2. new.pc = "node" => Found(takes, sp, new)
  BY <1>1 DEF Found
<1>3. EntryFits(takes, sp, new)
  BY <1>1, <1>2 DEF EntryFits
<1> QED BY <1>3 DEF new

\* A greedy edge is a slug's.
LEMMA OpcodeEdgeIsSlug ==
    ASSUME NEW node \in Node, NodeSound(node), NEW rest \in Seq(Literals),
           OpcodeEdge(node, rest) # 0
    PROVE  LET i == OpcodeEdge(node, rest) IN
           /\ i \in 1..Len(node.edges)
           /\ \/ node.edges[i].opcode = "GREEDY"
              \/ RunLength(node.edges[i].opcode, rest) > 0
           /\ \E slug \in Slugs : /\ node.edges[i].pattern = <<slug>>
                                  /\ node.edges[i].opcode = SlugOpcode[slug]
                                  /\ SlugOpcode[slug] # "NONE"
<1> DEFINE Wins(k) == \/ node.edges[k].opcode = "GREEDY"
                      \/ RunLength(node.edges[k].opcode, rest) > 0
           I == {k \in 1..Len(node.edges) : Wins(k)}
           i == OpcodeEdge(node, rest)
<1>1. Len(node.edges) \in Nat
  BY LenProperties DEF Node
<1>2. i = IF I # {} THEN Min(I) ELSE 0
  BY DEF OpcodeEdge, SelectInSeq
<1>3. i \in I
  <2>1. I \subseteq Nat /\ I # {}
    BY <1>1, <1>2
  <2> HIDE DEF I
  <2> QED BY <2>1, <1>2, LeastNatural
<1> HIDE DEF i
<1>4. i \in 1..Len(node.edges) /\ Wins(i)
  BY <1>3
<1>5. node.edges[i].opcode # "NONE"
  <2> SUFFICES ASSUME node.edges[i].opcode = "NONE"
               PROVE  FALSE
    OBVIOUS
  <2>1. RunLength("NONE", rest) > 0 /\ RunLength("NONE", rest) \in 0..Len(rest)
    BY <1>4, RunInText
  <2>2. Len(rest) \in Nat
    BY LenProperties
  <2>3. 1 \in 1..RunLength("NONE", rest)
    BY <2>1, <2>2
  <2>4. rest[1] \in Accepts["NONE"]
    BY <2>3, RunAccepted
  <2> QED BY <2>4 DEF Accepts
<1>6. OpcodeFits(node.edges[i].pattern, node.edges[i].opcode)
  BY <1>4 DEF NodeSound, EdgeSound
<1> QED BY <1>4, <1>5, <1>6 DEF OpcodeFits, i

\* Where nothing is left, the tokens fill the text of the node.
LEMMA ConsumedAll ==
    ASSUME NEW tree, NEW sp, Shape(tree, sp),
           NEW e \in EntryIn(Len(tree)), NEW child \in 1..Len(tree),
           NEW takes, Consumed(takes, sp, GoOn(e, child, <<>>))
    PROVE  /\ sp[child] \in Seq(Token) /\ Len(e.tokens) \in Nat
           /\ e.tokens \in Seq(Seq(Literals))
           /\ SlugsOf(sp[child]) \in Seq(Slugs)
           /\ Len(e.tokens) = Len(SlugsOf(sp[child]))
           /\ Filled(sp[child], e.tokens) = e.path
           /\ TakesAll(takes, SlugsOf(sp[child]), e.tokens)
<1> DEFINE inside == GoOn(e, child, <<>>)
           text == sp[child]
<1>1. /\ inside \in EntryIn(Len(tree)) /\ inside.node = child
      /\ inside.rest = <<>> /\ inside.tokens = e.tokens /\ inside.path = e.path
  <2>1. <<>> \in Seq(Literals)
    OBVIOUS
  <2> QED BY <2>1 DEF GoOn, EntryIn
<1>2. Consumed(takes, sp, inside)
  OBVIOUS
<1> HIDE DEF inside
<1>3. /\ text \in Seq(Token) /\ Len(e.tokens) \in Nat
      /\ e.tokens \in Seq(Seq(Literals))
      /\ SlugsOf(text) \in Seq(Slugs)
  BY <1>1, EntryTypes
<1>4. /\ Len(e.tokens) = Len(SlugsOf(text))
      /\ Filled(text, e.tokens) \o <<>> = e.path
      /\ TakesAll(takes, SlugsOf(text), e.tokens)
  BY <1>1, <1>2 DEF Consumed
<1>5. Enough(text, e.tokens)
  BY <1>3, <1>4 DEF Enough
<1>6. Filled(text, e.tokens) \in Seq(Token)
  BY <1>3, <1>5, FilledType
<1>7. Filled(text, e.tokens) \o <<>> = Filled(text, e.tokens)
  BY <1>6, ConcatEmptySeq
<1> QED BY <1>3, <1>4, <1>7

\* The request ends at the child of an edge: what the call on the child
\* leaves behind comes after the tokens of the child's text.
LEMMA EndConsumes ==
    ASSUME NEW tree, NEW sp, Shape(tree, sp), Sound(tree),
           NEW e \in EntryIn(Len(tree)), e.pc = "walk",
           NEW child \in 1..Len(tree),
           NEW takes, ByOpcode(takes), Consumed(takes, sp, GoOn(e, child, <<>>))
    PROVE  EntryFits(takes, sp, EndStep(tree, e, child))
<1> DEFINE greedy == OpcodeEdge(tree[child], <<>>)
           inside == GoOn(e, child, <<>>)
           inner == OpcodeStep(tree, inside, greedy)
           after == [e EXCEPT !.tokens = inner.tokens]
           new == EndStep(tree, e, child)
           text == sp[child]
<1>1. new = IF greedy = 0 THEN Arrive(tree, e, child)
            ELSE IF inner.pc = "node" THEN inner
            ELSE Arrive(tree, after, child)
  BY DEF EndStep
<1>2. /\ inside \in EntryIn(Len(tree)) /\ inside.node = child
      /\ inside.rest = <<>> /\ inside.pc = "walk"
      /\ inside.tokens = e.tokens /\ inside.path = e.path
  <2>1. <<>> \in Seq(Literals)
    OBVIOUS
  <2> QED BY <2>1 DEF GoOn, EntryIn
<1>3. Consumed(takes, sp, inside)
  OBVIOUS
<1> HIDE DEF inside
<1>4. /\ text \in Seq(Token) /\ Len(e.tokens) \in Nat
      /\ e.tokens \in Seq(Seq(Literals))
      /\ SlugsOf(text) \in Seq(Slugs)
      /\ Len(e.tokens) = Len(SlugsOf(text)) /\ Filled(text, e.tokens) = e.path
      /\ TakesAll(takes, SlugsOf(text), e.tokens)
  BY ConsumedAll
<1>5. /\ Len(e.tokens) = Len(SlugsOf(text)) /\ Filled(text, e.tokens) = e.path
      /\ TakesAll(takes, SlugsOf(text), e.tokens)
  BY <1>4
<1>6. CASE greedy = 0
  <2>1. EntryFits(takes, sp, Arrive(tree, e, child))
    BY <1>4, <1>5, ArriveFits
  <2> QED BY <2>1, <1>1, <1>6
<1>7. CASE greedy # 0
  <2>1. tree[child] \in Node /\ NodeSound(tree[child]) /\ <<>> \in Seq(Literals)
    BY ShapeOfNode DEF Sound
  <2>2. /\ greedy \in 1..Len(tree[child].edges)
        /\ \/ tree[child].edges[greedy].opcode = "GREEDY"
           \/ RunLength(tree[child].edges[greedy].opcode, <<>>) > 0
        /\ \E slug \in Slugs :
            /\ tree[child].edges[greedy].pattern = <<slug>>
            /\ tree[child].edges[greedy].opcode = SlugOpcode[slug]
            /\ SlugOpcode[slug] # "NONE"
    BY <2>1, <1>7, OpcodeEdgeIsSlug
  <2> HIDE DEF greedy
  <2>3. PICK slug \in Slugs : /\ tree[child].edges[greedy].pattern = <<slug>>
                              /\ tree[child].edges[greedy].opcode = SlugOpcode[slug]
                              /\ SlugOpcode[slug] # "NONE"
    BY <2>2
  <2>4. /\ EntryFits(takes, sp, inner)
        /\ \E token \in Seq(Literals) : inner.tokens = Append(inside.tokens, token)
    <3>1. /\ greedy \in 1..Len(tree[inside.node].edges)
          /\ tree[inside.node].edges[greedy].pattern = <<slug>>
          /\ tree[inside.node].edges[greedy].opcode = SlugOpcode[slug]
          /\ \/ tree[inside.node].edges[greedy].opcode = "GREEDY"
             \/ RunLength(tree[inside.node].edges[greedy].opcode, inside.rest) > 0
      BY <2>2, <2>3, <1>2
    <3> HIDE DEF after, new, text, inner
    <3>2. /\ EntryFits(takes, sp, OpcodeStep(tree, inside, greedy))
          /\ \E token \in Seq(Literals) :
                OpcodeStep(tree, inside, greedy).tokens
                    = Append(inside.tokens, token)
      BY <3>1, <2>3, <1>2, <1>3, OpcodeConsumes
    <3> QED BY <3>2 DEF inner
  <2> HIDE DEF inner
  <2>5. PICK token \in Seq(Literals) : inner.tokens = Append(e.tokens, token)
    BY <2>4, <1>2
  <2>6. /\ inner.tokens \in Seq(Seq(Literals))
        /\ Len(inner.tokens) = Len(e.tokens) + 1
        /\ \A k \in 1..Len(e.tokens) : inner.tokens[k] = e.tokens[k]
    <3> DEFINE L == Seq(Literals)
    <3>1. e.tokens \in Seq(L) /\ token \in L
      BY <1>4
    <3> HIDE DEF L
    <3>2. /\ inner.tokens \in Seq(L) /\ Len(inner.tokens) = Len(e.tokens) + 1
          /\ \A k \in 1..Len(e.tokens) : inner.tokens[k] = e.tokens[k]
      BY <3>1, <2>5, AppendProperties
    <3> QED BY <3>2 DEF L
  <2>7. CASE inner.pc = "node"
    BY <2>4, <2>7, <1>1, <1>7
  <2>8. CASE inner.pc # "node"
    <3>1. /\ after \in EntryIn(Len(tree)) /\ after.tokens = inner.tokens
          /\ after.path = e.path
      BY <2>6 DEF EntryIn
    <3> HIDE DEF after
    <3>2. Filled(text, inner.tokens) = Filled(text, e.tokens)
      <4>1. Enough(text, inner.tokens) /\ Enough(text, e.tokens)
        BY <1>4, <1>5, <2>6 DEF Enough
      <4>2. \A k \in 1..Len(SlugsOf(text)) : inner.tokens[k] = e.tokens[k]
        BY <1>5, <2>6
      <4> HIDE DEF text
      <4> QED BY <4>1, <4>2, <1>4, FilledAgrees
    <3>3. TakesAll(takes, SlugsOf(text), inner.tokens)
      BY <1>5, <2>6 DEF TakesAll
    <3>4. EntryFits(takes, sp, Arrive(tree, after, child))
      <4>1. Len(SlugsOf(text)) <= Len(after.tokens)
        BY <1>4, <1>5, <2>6, <3>1
      <4> QED BY <4>1, <3>1, <3>2, <3>3, <1>5, ArriveFits
    <3> QED BY <3>4, <2>8, <1>1, <1>7
  <2> QED BY <2>7, <2>8
<1> QED BY <1>6, <1>7

\* The edge r3_node_find_edge_str finds begins the rest of the request.
LEMMA LiteralEdgeBegins ==
    ASSUME NEW node \in Node, NEW rest, LiteralEdge(node, rest) # 0
    PROVE  LET i == LiteralEdge(node, rest) IN
           i \in 1..Len(node.edges) /\ IsPrefix(node.edges[i].pattern, rest)
<1>1. /\ LiteralEdge(node, rest) \in 0..Len(node.edges)
      /\ Len(node.edges) \in Nat
  BY LiteralEdgeInNode, LenProperties DEF Node
<1>2. LiteralEdge(node, rest) \in 1..Len(node.edges)
  BY <1>1
<1>3. IsPrefix(node.edges[LiteralEdge(node, rest)].pattern, rest)
  BY DEF LiteralEdge
<1> QED BY <1>2, <1>3

\* A literal edge consumes its pattern.
LEMMA LiteralGoesOn ==
    ASSUME NEW tree, NEW sp, Shape(tree, sp),
           NEW e \in EntryIn(Len(tree)), e.pc = "walk",
           NEW takes, Consumed(takes, sp, e),
           NEW i \in 1..Len(tree[e.node].edges),
           IsPrefix(tree[e.node].edges[i].pattern, e.rest)
    PROVE  LET edge == tree[e.node].edges[i]
               k == Len(edge.pattern)
               on == GoOn(e, edge.child, After(e.rest, k))
           IN /\ k \in Nat /\ k <= Len(e.rest) /\ Len(e.rest) \in Nat
              /\ k = Len(e.rest) => After(e.rest, k) = <<>>
              /\ edge.child \in 1..Len(tree)
              /\ on.pc = "walk" /\ Consumed(takes, sp, on)
<1> DEFINE edge == tree[e.node].edges[i]
           k == Len(edge.pattern)
           rest == After(e.rest, k)
           text == sp[e.node]
           on == GoOn(e, edge.child, rest)
<1>1. /\ e.node \in 1..Len(tree) /\ text \in Seq(Token)
      /\ e.rest \in Seq(Literals) /\ Len(e.rest) \in Nat
      /\ e.tokens \in Seq(Seq(Literals)) /\ Len(e.tokens) \in Nat
  BY EntryTypes
<1>2. /\ edge.pattern \in Seq(Token) /\ k \in Nat \ {0}
      /\ edge.child \in 1..Len(tree)
  BY <1>1, EdgeDown
<1>3. sp[edge.child] = text \o edge.pattern
  <2>1. Spells(tree[e.node], text, sp)
    BY <1>1, ShapeOfNode
  <2> QED BY <2>1 DEF Spells
<1>5. k <= Len(e.rest) /\ edge.pattern = Upto(e.rest, k)
  <2>1. k <= Len(e.rest) /\ SubSeq(edge.pattern, 1, k) = SubSeq(e.rest, 1, k)
    BY DEF IsPrefix
  <2>2. SubSeq(edge.pattern, 1, k) = edge.pattern
    BY <1>2, SubSeqFull
  <2> QED BY <2>1, <2>2 DEF Upto
<1> HIDE DEF edge, k
<1>6. /\ edge.pattern \in Seq(Literals) /\ rest \in Seq(Literals)
      /\ edge.pattern \o rest = e.rest
      /\ k = Len(e.rest) => rest = <<>>
  <2>1. k \in 0..Len(e.rest)
    BY <1>1, <1>2, <1>5
  <2> QED BY <2>1, <1>1, <1>5, CutRest
<1> HIDE DEF rest
<1>7. Enough(text, e.tokens)
  BY <1>1, SlugsType DEF Consumed, Enough
<1>8. /\ SlugsOf(sp[edge.child]) = SlugsOf(text)
      /\ Filled(sp[edge.child], e.tokens) = Filled(text, e.tokens) \o edge.pattern
  <2> HIDE DEF text
  <2> QED BY <1>1, <1>3, <1>6, <1>7, FilledLiterals
<1>9. Filled(sp[edge.child], e.tokens) \o rest = e.path
  <2> DEFINE filled == Filled(text, e.tokens)
  <2>1. filled \o e.rest = e.path
    BY DEF Consumed
  <2>2. filled \in Seq(Token)
    BY <1>1, <1>7, FilledType
  <2>3. rest \in Seq(Token)
    BY <1>6, SeqMonotonic DEF Token
  <2> HIDE DEF filled
  <2>4. (filled \o edge.pattern) \o rest = filled \o (edge.pattern \o rest)
    BY <2>2, <2>3, <1>2, TextsAssociative
  <2> QED BY <2>1, <2>4, <1>6, <1>8 DEF filled
<1>10. /\ on.pc = "walk" /\ on.node = edge.child /\ on.rest = rest
       /\ on.tokens = e.tokens /\ on.path = e.path
  BY <1>2, <1>6 DEF GoOn, EntryIn
<1> HIDE DEF on
<1>11. Consumed(takes, sp, on)
  BY <1>8, <1>9, <1>10 DEF Consumed
<1> QED BY <1>1, <1>2, <1>5, <1>6, <1>10, <1>11 DEF on, rest, k, edge

LEMMA LiteralConsumes ==
    ASSUME NEW tree, NEW sp, Shape(tree, sp), Sound(tree),
           NEW e \in EntryIn(Len(tree)), e.pc = "walk",
           NEW takes, ByOpcode(takes), Consumed(takes, sp, e),
           NEW i \in 1..Len(tree[e.node].edges),
           IsPrefix(tree[e.node].edges[i].pattern, e.rest)
    PROVE  EntryFits(takes, sp, LiteralStep(tree, e, i))
<1> DEFINE edge == tree[e.node].edges[i]
           k == Len(edge.pattern)
           rest == After(e.rest, k)
           on == GoOn(e, edge.child, rest)
<1>1. LiteralStep(tree, e, i) = IF k < Len(e.rest) THEN on
                                ELSE EndStep(tree, e, edge.child)
  BY DEF LiteralStep
<1>2. /\ k \in Nat /\ k <= Len(e.rest) /\ Len(e.rest) \in Nat
      /\ k = Len(e.rest) => rest = <<>>
      /\ edge.child \in 1..Len(tree)
      /\ on.pc = "walk" /\ Consumed(takes, sp, on)
  BY LiteralGoesOn
<1> HIDE DEF edge, k, rest
<1>3. CASE k < Len(e.rest)
  BY <1>1, <1>2, <1>3 DEF EntryFits
<1>4. CASE ~(k < Len(e.rest))
  <2>1. rest = <<>>
    BY <1>2, <1>4
  <2>2. EntryFits(takes, sp, EndStep(tree, e, edge.child))
    BY <2>1, <1>2, EndConsumes
  <2> QED BY <2>2, <1>1, <1>4
<1> QED BY <1>3, <1>4

\* One call consumes a slug's token, a literal pattern, or fails.
LEMMA WalkStepFits ==
    ASSUME NEW tree, NEW sp, Shape(tree, sp), Sound(tree),
           NEW e \in EntryIn(Len(tree)), e.pc = "walk",
           NEW takes, ByOpcode(takes), Consumed(takes, sp, e)
    PROVE  EntryFits(takes, sp, WalkStep(tree, e))
<1> DEFINE opcodeEdge == OpcodeEdge(tree[e.node], e.rest)
           literalEdge == LiteralEdge(tree[e.node], e.rest)
           failed == [e EXCEPT !.pc = "nil", !.rest = <<>>]
<1>1. /\ tree[e.node] \in Node /\ e.node \in 1..Len(tree)
      /\ e.rest \in Seq(Literals)
  BY ShapeOfNode DEF EntryIn
<1>2. WalkStep(tree, e) = IF opcodeEdge # 0 THEN OpcodeStep(tree, e, opcodeEdge)
                          ELSE IF literalEdge # 0
                          THEN LiteralStep(tree, e, literalEdge)
                          ELSE failed
  BY DEF WalkStep
<1>3. EntryFits(takes, sp, failed)
  <2>1. failed.pc = "nil"
    BY DEF EntryIn
  <2> QED BY <2>1 DEF EntryFits
<1> HIDE DEF failed
<1>4. CASE opcodeEdge # 0
  <2>1. NodeSound(tree[e.node])
    BY <1>1 DEF Sound
  <2>2. /\ opcodeEdge \in 1..Len(tree[e.node].edges)
        /\ \/ tree[e.node].edges[opcodeEdge].opcode = "GREEDY"
           \/ RunLength(tree[e.node].edges[opcodeEdge].opcode, e.rest) > 0
        /\ \E slug \in Slugs :
            /\ tree[e.node].edges[opcodeEdge].pattern = <<slug>>
            /\ tree[e.node].edges[opcodeEdge].opcode = SlugOpcode[slug]
            /\ SlugOpcode[slug] # "NONE"
    BY <2>1, <1>1, <1>4, OpcodeEdgeIsSlug
  <2> HIDE DEF opcodeEdge
  <2>3. EntryFits(takes, sp, OpcodeStep(tree, e, opcodeEdge))
    BY <2>2, OpcodeConsumes
  <2> QED BY <2>3, <1>2, <1>4
<1>5. CASE opcodeEdge = 0 /\ literalEdge # 0
  <2>1. /\ literalEdge \in 1..Len(tree[e.node].edges)
        /\ IsPrefix(tree[e.node].edges[literalEdge].pattern, e.rest)
    BY <1>1, <1>5, LiteralEdgeBegins
  <2> HIDE DEF literalEdge
  <2>2. EntryFits(takes, sp, LiteralStep(tree, e, literalEdge))
    BY <2>1, LiteralConsumes
  <2> QED BY <2>2, <1>2, <1>5
<1>6. CASE opcodeEdge = 0 /\ literalEdge = 0
  BY <1>2, <1>3, <1>6
<1> QED BY <1>4, <1>5, <1>6

\* It finds no route yet, and keeps what was asked for.
LEMMA WalkKeeps ==
    ASSUME NEW tree, NEW e, {"pc", "path", "method"} \subseteq DOMAIN e, e.pc = "walk"
    PROVE  LET new == WalkStep(tree, e) IN
           /\ new.pc # "route"
           /\ new.path = e.path /\ new.method = e.method
<1> DEFINE Same(d) == /\ "pc" \in DOMAIN d /\ d.pc # "route"
                      /\ "path" \in DOMAIN d /\ d.path = e.path
                      /\ "method" \in DOMAIN d /\ d.method = e.method
<1>1. ASSUME NEW d, Same(d), NEW child
      PROVE  Same(Arrive(tree, d, child))
  BY <1>1 DEF Arrive
<1>2. ASSUME NEW d, Same(d), NEW child, NEW rest
      PROVE  Same(GoOn(d, child, rest))
  BY <1>2 DEF GoOn
<1>3. ASSUME NEW d, Same(d), NEW tokens
      PROVE  Same([d EXCEPT !.tokens = tokens])
  BY <1>3
<1>4. Same(e) /\ Same([e EXCEPT !.pc = "nil", !.rest = <<>>])
  OBVIOUS
<1> HIDE DEF Same
<1>5. ASSUME NEW d, Same(d), NEW i
      PROVE  Same(OpcodeStep(tree, d, i))
  BY <1>1, <1>2, <1>3, <1>5 DEF OpcodeStep
<1>6. ASSUME NEW child
      PROVE  Same(EndStep(tree, e, child))
  BY <1>1, <1>2, <1>3, <1>4, <1>5 DEF EndStep
<1>7. ASSUME NEW i
      PROVE  Same(LiteralStep(tree, e, i))
  BY <1>2, <1>4, <1>6 DEF LiteralStep
<1>8. Same(WalkStep(tree, e))
  BY <1>4, <1>5, <1>7 DEF WalkStep
<1> QED BY <1>8 DEF Same

\* Of the routes of its node that answer for the method, the first.
FirstRoute(tree, e) ==
    /\ e.route \in 1..Len(tree[e.node].routes)
    /\ MethodFits(tree[e.node].routes[e.route].method, e.method)
    /\ \A r \in 1..Len(tree[e.node].routes) :
        MethodFits(tree[e.node].routes[r].method, e.method) => e.route <= r

\* The loop over the routes keeps the node, and finds a route if one fits.
LEMMA RouteStepPicks ==
    ASSUME NEW tree, NEW sp, Shape(tree, sp), NEW e \in EntryIn(Len(tree))
    PROVE  LET new == RouteStep(tree, e) IN
           /\ new.node = e.node /\ new.tokens = e.tokens
           /\ new.path = e.path /\ new.method = e.method
           /\ new.pc \in {"route", "nil"}
           /\ new.pc = "route" => FirstRoute(tree, new)
           /\ new.pc # "route" => \A r \in 1..Len(tree[e.node].routes) :
                ~MethodFits(tree[e.node].routes[r].method, e.method)
<1> DEFINE I == {r \in 1..Len(tree[e.node].routes) :
                    MethodFits(tree[e.node].routes[r].method, e.method)}
           fits == IF I # {} THEN Min(I) ELSE 0
           new == [e EXCEPT !.route = fits,
                            !.pc = IF fits = Nil THEN "nil" ELSE "route"]
<1>1. RouteStep(tree, e) = new
  BY DEF RouteStep, SelectInSeq
<1>2. Len(tree[e.node].routes) \in Nat
  BY ShapeOfNode, LenProperties DEF EntryIn
<1>3. I \subseteq Nat
  BY <1>2
<1>4. I # {} => fits \in I /\ \A r \in I : fits <= r
  <2> HIDE DEF I
  <2> QED BY <1>3, LeastNatural
<1>5. I = {} => fits = Nil
  BY DEF Nil
<1>6. I # {} => fits # Nil
  BY <1>4, <1>2 DEF Nil
<1> HIDE DEF fits
<1>7. /\ new.node = e.node /\ new.tokens = e.tokens /\ new.path = e.path
      /\ new.route = fits /\ new.method = e.method
      /\ new.pc = IF fits = Nil THEN "nil" ELSE "route"
  BY DEF EntryIn
<1> HIDE DEF new
<1>8. new.pc = "route" <=> I # {}
  BY <1>5, <1>6, <1>7
<1> QED BY <1>1, <1>4, <1>7, <1>8 DEF FirstRoute

\* The loop over the routes leaves what the match has found.
LEMMA RouteStepFits ==
    ASSUME NEW tree, NEW sp, Shape(tree, sp), NEW e \in EntryIn(Len(tree)),
           NEW takes, Found(takes, sp, e)
    PROVE  EntryFits(takes, sp, RouteStep(tree, e))
<1> DEFINE new == RouteStep(tree, e)
<1>1. /\ new.node = e.node /\ new.tokens = e.tokens /\ new.path = e.path
      /\ new.pc \in {"route", "nil"}
  BY RouteStepPicks
<1> HIDE DEF new
<1>2. Found(takes, sp, new)
  BY <1>1 DEF Found
<1>3. EntryFits(takes, sp, new)
  BY <1>1, <1>2 DEF EntryFits
<1> QED BY <1>3 DEF new

-----------------------------------------------------------------------------
(* Matches and additions                                                   *)

\* The tree has its shape, and the entry is in it.
MatchInv ==
    /\ IInv
    /\ entry \in EntryIn(Len(nodes))
    /\ entry.pc = "walk" => Unrouted(entry)
    /\ entry.route \in 0..Len(nodes[entry.node].routes)

\* What there is between two matches fits any tree.
LEMMA NoEntryFits ==
    ASSUME NEW tree, NEW sp, Shape(tree, sp)
    PROVE  /\ NoEntry \in EntryIn(Len(tree)) /\ Unrouted(NoEntry)
           /\ NoEntry.pc = "none"
           /\ NoEntry.route \in 0..Len(tree[NoEntry.node].routes)
<1>1. Len(tree) \in Nat /\ Root \in 1..Len(tree) /\ NoEntry.node = Root
  BY LenProperties DEF Shape, Root, NoEntry
<1>2. Len(tree[Root].routes) \in Nat
  BY <1>1, ShapeOfNode, LenProperties
<1>3. <<>> \in Seq(Literals) /\ <<>> \in Seq(Seq(Literals))
  OBVIOUS
<1>4. NoEntry \in EntryIn(Len(tree)) /\ NoEntry.pc = "none" /\ NoEntry.route = Nil
  BY <1>1, <1>3 DEF NoEntry, EntryIn, AskedMethods, Nil
<1> QED BY <1>1, <1>2, <1>4 DEF Unrouted, Nil

\* So does the entry a match begins with.
LEMMA NewEntryFits ==
    ASSUME NEW tree, NEW sp, Shape(tree, sp), NEW request, Askable(request)
    PROVE  /\ NewEntry(request) \in EntryIn(Len(tree))
           /\ Unrouted(NewEntry(request))
           /\ NewEntry(request).route \in
                0..Len(tree[NewEntry(request).node].routes)
<1> DEFINE asked == request.method
<1>1. request.path \in Seq(Literals) /\ asked \in AskedMethods
  BY DEF Askable
<1>2. NoEntry \in EntryIn(Len(tree)) /\ Unrouted(NoEntry)
  BY NoEntryFits
<1>3. NewEntry(request)
        = [NoEntry EXCEPT !.pc = "walk", !.path = request.path,
                          !.method = asked, !.rest = request.path]
  BY DEF NewEntry
<1> HIDE DEF asked
<1>4. /\ NewEntry(request) \in EntryIn(Len(tree))
      /\ NewEntry(request).node = NoEntry.node
      /\ NewEntry(request).route = NoEntry.route
  BY <1>1, <1>2, <1>3 DEF EntryIn
<1> QED BY <1>2, <1>4, NoEntryFits DEF Unrouted

\* A step of a match, or its end, on the tree as it stands.
LEMMA MatchStepInvariant ==
    ASSUME MatchInv, MatchStep
    PROVE  MatchInv'
<1>1. /\ UNCHANGED vars /\ Shape(nodes, spell) /\ IInv
      /\ entry \in EntryIn(Len(nodes))
  BY DEF MatchStep, MatchWalks, MatchRoutes, EndMatch, MatchInv, IInv
<1>2. IInv' /\ nodes' = nodes
  BY <1>1, Inductive DEF vars
<1>3. CASE MatchWalks
  <2>1. /\ entry.pc = "walk" /\ Unrouted(entry)
        /\ entry' = WalkStep(nodes, entry)
    BY <1>3 DEF MatchWalks, MatchInv
  <2>2. entry' \in EntryIn(Len(nodes)) /\ Unrouted(entry')
    BY <2>1, <1>1, WalkStepEntry
  <2>3. entry'.route \in 0..Len(nodes[entry'.node].routes)
    <3>1. entry'.node \in 1..Len(nodes)
      BY <2>2 DEF EntryIn
    <3>2. Len(nodes[entry'.node].routes) \in Nat
      BY <3>1, <1>1, ShapeOfNode, LenProperties
    <3> QED BY <3>2, <2>2 DEF Unrouted, Nil
  <2> QED BY <2>2, <2>3, <1>2 DEF MatchInv, Unrouted
<1>4. CASE MatchRoutes
  <2>1. entry' = RouteStep(nodes, entry)
    BY <1>4 DEF MatchRoutes
  <2>2. /\ entry' \in EntryIn(Len(nodes)) /\ entry'.pc \in {"route", "nil"}
        /\ entry'.route \in 0..Len(nodes[entry'.node].routes)
    BY <2>1, <1>1, RouteStepEntry
  <2> QED BY <2>2, <1>2 DEF MatchInv
<1>5. CASE EndMatch
  <2>1. entry' = NoEntry
    BY <1>5 DEF EndMatch
  <2> QED BY <2>1, <1>1, <1>2, NoEntryFits DEF MatchInv
<1> QED BY <1>3, <1>4, <1>5 DEF MatchStep

LEMMA MatchInductive == MatchInv /\ [MatchNext]_matchVars => MatchInv'
<1> SUFFICES ASSUME MatchInv, [MatchNext]_matchVars
             PROVE  MatchInv'
  OBVIOUS
<1>1. CASE TreeStep
  <2>1. IInv'
    BY <1>1, Inductive DEF TreeStep, MatchInv
  <2>2. entry' = NoEntry /\ Shape(nodes', spell')
    BY <2>1, <1>1 DEF TreeStep, IInv
  <2> QED BY <2>1, <2>2, NoEntryFits DEF MatchInv
<1>2. CASE \E request \in Requests : StartMatch(request)
  <2>1. PICK request \in Requests : StartMatch(request)
    BY <1>2
  <2>2. IInv' /\ nodes' = nodes /\ Shape(nodes, spell)
    BY <2>1, Inductive DEF StartMatch, MatchInv, IInv, vars
  <2>3. entry' = NewEntry(request) /\ Askable(request)
    BY <2>1, RequestsAssumption DEF StartMatch, Askable, AskedMethods
  <2> QED BY <2>2, <2>3, NewEntryFits DEF MatchInv, Unrouted
<1>3. CASE MatchStep
  BY <1>3, MatchStepInvariant
<1>4. CASE UNCHANGED matchVars
  <2>1. IInv'
    BY <1>4, Inductive DEF MatchInv, matchVars
  <2> QED BY <2>1, <1>4 DEF MatchInv, Unrouted, matchVars, vars
<1> QED BY <1>1, <1>2, <1>3, <1>4 DEF MatchNext

LEMMA MatchInitially == MatchInit => MatchInv
BY Initially, NoEntryFits DEF MatchInit, MatchInv, IInv

LEMMA MatchInvariance == MatchSpec => []MatchInv
BY MatchInitially, MatchInductive, PTL DEF MatchSpec

\* A route found is the first its node has for the method asked for.
RouteFits == entry.pc = "route" => FirstRoute(nodes, entry)

\* What is consumed is what is filled: inductive with the shape of the tree and
\* the opcodes of its edges.
ConsumedInv == MatchInv /\ Sound(nodes) /\ EntryFits(Taken, spell, entry) /\ RouteFits

\* The tree's steps have their invariants, during a match as before.
LEMMA TreeInvariant == MatchInv /\ Sound(nodes) /\ [MatchNext]_matchVars => Sound(nodes)'
<1> SUFFICES ASSUME MatchInv, Sound(nodes), [MatchNext]_matchVars
             PROVE  Sound(nodes)'
  OBVIOUS
<1>1. [Next]_vars
  BY DEF MatchNext, TreeStep, StartMatch, MatchStep, MatchWalks, MatchRoutes,
         EndMatch, matchVars, vars
<1> QED BY <1>1, SoundInductive DEF MatchInv

LEMMA NoEntryConsumes ==
    ASSUME NEW takes, NEW sp
    PROVE  EntryFits(takes, sp, NoEntry) /\ NoEntry.pc # "route"
BY DEF EntryFits, NoEntry

LEMMA NewEntryConsumes ==
    ASSUME NEW takes, NEW tree, NEW sp, Shape(tree, sp), NEW request, Askable(request)
    PROVE  /\ EntryFits(takes, sp, NewEntry(request)) /\ NewEntry(request).pc = "walk"
           /\ NewEntry(request).path = request.path
           /\ NewEntry(request).method = request.method
<1> DEFINE new == NewEntry(request)
           path == request.path
<1>1. /\ new.pc = "walk" /\ new.path = path /\ new.rest = path
      /\ new.node = Root /\ new.tokens = <<>>
  BY DEF NewEntry, NoEntry
<1>2. path \in Seq(Literals) /\ new.method = request.method
  BY DEF Askable, NewEntry, NoEntry
<1>3. sp[Root] = <<>>
  BY DEF Shape
<1> HIDE DEF new, path
<1>4. Consumed(takes, sp, new)
  <2>1. Len(<<>>) = 0
    OBVIOUS
  <2>2. <<>> \o path = path
    BY <1>2, ConcatEmptySeq
  <2>3. TakesAll(takes, <<>>, <<>>)
    BY <2>1 DEF TakesAll
  <2> QED BY <2>1, <2>2, <2>3, <1>1, <1>3, SlugsOfNothing, FilledNothing DEF Consumed
<1> QED BY <1>1, <1>2, <1>4 DEF EntryFits, new, path

LEMMA ConsumedInductive == ConsumedInv /\ [MatchNext]_matchVars => ConsumedInv'
<1> SUFFICES ASSUME ConsumedInv, [MatchNext]_matchVars
             PROVE  ConsumedInv'
  OBVIOUS
<1>1. MatchInv' /\ Sound(nodes)' /\ Shape(nodes', spell') /\ Shape(nodes, spell)
  BY MatchInductive, TreeInvariant DEF ConsumedInv, MatchInv, IInv
<1>2. CASE TreeStep
  <2>1. entry' = NoEntry
    BY <1>2 DEF TreeStep
  <2> QED BY <2>1, <1>1, NoEntryConsumes DEF ConsumedInv, RouteFits
<1>3. CASE \E request \in Requests : StartMatch(request)
  <2>1. PICK request \in Requests : entry' = NewEntry(request) /\ Askable(request)
    BY <1>3, RequestsAssumption DEF StartMatch, Askable, AskedMethods
  <2> QED BY <2>1, <1>1, NewEntryConsumes DEF ConsumedInv, RouteFits
<1>4. CASE MatchWalks
  <2>1. /\ entry.pc = "walk" /\ entry' = WalkStep(nodes, entry)
        /\ nodes' = nodes /\ spell' = spell
        /\ entry \in EntryIn(Len(nodes)) /\ Unrouted(entry) /\ Sound(nodes)
        /\ Consumed(Taken, spell, entry)
    BY <1>4 DEF MatchWalks, ConsumedInv, MatchInv, EntryFits, vars
  <2>2. EntryFits(Taken, spell, entry')
    BY <2>1, <1>1, TakenByOpcode, WalkStepFits
  <2>3. entry'.pc # "route"
    <3>1. {"pc", "path", "method"} \subseteq DOMAIN entry
      BY <2>1 DEF EntryIn
    <3> QED BY <2>1, <3>1, WalkKeeps
  <2> QED BY <2>1, <2>2, <2>3, <1>1 DEF ConsumedInv, RouteFits
<1>5. CASE MatchRoutes
  <2>1. /\ entry.pc = "node" /\ entry' = RouteStep(nodes, entry)
        /\ nodes' = nodes /\ spell' = spell
        /\ entry \in EntryIn(Len(nodes)) /\ Found(Taken, spell, entry)
    BY <1>5 DEF MatchRoutes, ConsumedInv, MatchInv, EntryFits, vars
  <2>2. /\ EntryFits(Taken, spell, entry')
        /\ entry'.pc = "route" => FirstRoute(nodes, entry')
    BY <2>1, <1>1, RouteStepFits, RouteStepPicks
  <2> QED BY <2>1, <2>2, <1>1 DEF ConsumedInv, RouteFits
<1>6. CASE EndMatch
  <2>1. entry' = NoEntry
    BY <1>6 DEF EndMatch
  <2> QED BY <2>1, <1>1, NoEntryConsumes DEF ConsumedInv, RouteFits
<1>7. CASE UNCHANGED matchVars
  <2>1. nodes' = nodes /\ spell' = spell /\ entry' = entry
    BY <1>7 DEF matchVars, vars
  <2> QED BY <2>1, <1>1 DEF ConsumedInv, RouteFits
<1> QED BY <1>2, <1>3, <1>4, <1>5, <1>6, <1>7 DEF MatchNext, MatchStep

LEMMA ConsumedInvariance == MatchSpec => []ConsumedInv
<1>1. MatchInit => ConsumedInv
  <2> SUFFICES ASSUME MatchInit
               PROVE  ConsumedInv
    OBVIOUS
  <2> QED BY MatchInitially, SoundInitially, NoEntryConsumes
          DEF MatchInit, ConsumedInv, RouteFits
<1> QED BY <1>1, ConsumedInductive, PTL DEF MatchSpec

-----------------------------------------------------------------------------
(* Theorems                                                                *)

\* The entry of a match has its type in every reachable state: the node is one
\* of the tree, what is left and what was collected are texts of the request's
\* characters, and a route found is one of the node's.
THEOREM MatchTypeCorrect == MatchSpec => []MatchTypeOK
<1>1. MatchInv => MatchTypeOK
  BY IInvMeaning DEF MatchInv, MatchTypeOK, EntryIn, NodeIds
<1> QED BY <1>1, MatchInvariance, PTL

\* Each call of r3_tree_matchl_base made by another is on a node with a longer
\* text, so that no match calls for ever, greedy slugs or not.
THEOREM CallsDeepen == MatchSpec => WalkDeepens
<1> DEFINE Step == entry.pc = "walk" /\ entry'.pc = "walk" =>
                        Len(spell[entry'.node]) > Len(spell[entry.node])
<1>1. MatchInv /\ [MatchNext]_matchVars => [Step]_matchVars
  <2> SUFFICES ASSUME MatchInv, MatchNext, entry.pc = "walk", entry'.pc = "walk"
               PROVE  Len(spell[entry'.node]) > Len(spell[entry.node])
    OBVIOUS
  <2>1. NoEntry.pc = "none"
    BY DEF NoEntry
  <2>2. MatchWalks
    BY <2>1 DEF MatchNext, TreeStep, StartMatch, MatchIdle, MatchStep,
                MatchRoutes, EndMatch
  <2>3. /\ Shape(nodes, spell) /\ entry \in EntryIn(Len(nodes)) /\ Unrouted(entry)
        /\ entry' = WalkStep(nodes, entry)
    BY <2>2 DEF MatchWalks, MatchInv, IInv
  <2>4. Deepens(spell, entry, entry')
    BY <2>3, WalkStepEntry
  <2> QED BY <2>4 DEF Deepens
<1> QED BY <1>1, MatchInvariance, PTL DEF MatchSpec, WalkDeepens

\* Nothing of a request is skipped or consumed twice: during a match the text
\* of the node reached, filled with the tokens collected, and the rest of the
\* path make up the request, with one token for each slug passed.
THEOREM RequestConsumed == MatchSpec => []WalkConsumes
<1>1. ConsumedInv => WalkConsumes
  BY DEF ConsumedInv, EntryFits, Consumed, WalkConsumes
<1> QED BY <1>1, ConsumedInvariance, PTL

\* A route found is one whose pattern, filled with the first tokens, is the
\* request, for a method it was added with; each slug takes its token.
THEOREM ReplyIsMeant == MatchSpec => []ReplyFits
<1>1. ConsumedInv => ReplyFits
  <2> SUFFICES ASSUME ConsumedInv, entry.pc = "route"
               PROVE  LET route == nodes[entry.node].routes[entry.route] IN
                      /\ MethodFits(route.method, entry.method)
                      /\ Len(entry.tokens) >= Len(route.slugs)
                      /\ \A i \in 1..Len(route.slugs) :
                            Takes(route.slugs[i], entry.tokens[i])
                      /\ Filled(spell[entry.node], entry.tokens) = entry.path
    BY DEF ReplyFits
  <2> DEFINE route == nodes[entry.node].routes[entry.route]
             slugs == SlugsOf(spell[entry.node])
  <2>1. /\ Shape(nodes, spell) /\ entry \in EntryIn(Len(nodes))
        /\ Found(Taken, spell, entry)
        /\ entry.route \in 1..Len(nodes[entry.node].routes)
        /\ MethodFits(route.method, entry.method)
    BY DEF ConsumedInv, EntryFits, RouteFits, FirstRoute, MatchInv, IInv
  <2>2. entry.node \in 1..Len(nodes)
    BY <2>1 DEF EntryIn
  <2>3. route.slugs = slugs
    <3>1. Spells(nodes[entry.node], spell[entry.node], spell)
      BY <2>1, <2>2, ShapeOfNode
    <3> QED BY <3>1, <2>1 DEF Spells
  <2>4. Len(slugs) \in Nat /\ Len(entry.tokens) \in Nat
    BY <2>1, EntryTypes
  <2>5. /\ Len(slugs) <= Len(entry.tokens)
        /\ Filled(spell[entry.node], entry.tokens) = entry.path
        /\ TakesAll(Taken, slugs, entry.tokens)
    BY <2>1 DEF Found
  <2> HIDE DEF route, slugs
  <2>6. /\ Len(entry.tokens) >= Len(route.slugs)
        /\ \A i \in 1..Len(route.slugs) : Takes(route.slugs[i], entry.tokens[i])
    BY <2>3, <2>4, <2>5, TakenTakes
  <2> QED BY <2>1, <2>5, <2>6 DEF route
<1> QED BY <1>1, ConsumedInvariance, PTL
=============================================================================
