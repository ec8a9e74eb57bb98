-------------------------- MODULE R3RouteCmpProofs --------------------------
(***************************************************************************)
(* Theorems about R3RouteCmp: a route is found only for what it asks for,  *)
(* and refused only for a reason, for every width and number of the words  *)
(* of an address.                                                          *)
(*                                                                         *)
(* The code compares an address word by word, each word shifted by the     *)
(* bits that do not count.  That this compares what one shift of the whole *)
(* number would is BlockByWord, by induction on the words.  It holds       *)
(* because the bits of a prefix fill its words from the first: a word that *)
(* counts at all has only whole words before it.                           *)
(***************************************************************************)
EXTENDS R3RouteCmp, FunctionTheorems, SequenceTheorems, FiniteSetTheorems, WellFoundedInduction, TLAPS

-----------------------------------------------------------------------------
(* Arithmetic: induction, powers of two, quotients                         *)

\* Induction, for a set of numbers.
LEMMA AllNaturals ==
    ASSUME NEW T, 0 \in T, \A n \in Nat : n \in T => n + 1 \in T
    PROVE  Nat \subseteq T
<1> DEFINE Others == Nat \ T
<1> SUFFICES ASSUME Others # {}
             PROVE  FALSE
  OBVIOUS
<1>1. PICK least \in Others : \A n \in Others : ~(n < least)
  <2>1. PICK least \in Others : \A n \in Others : ~(<<n, least>> \in OpToRel(<, Nat))
    BY NatLessThanWellFounded, WFMin
  <2> QED BY <2>1 DEF OpToRel
<1>2. least \in Nat /\ least \notin T /\ least # 0
  OBVIOUS
<1>3. least - 1 \in Nat /\ (least - 1) + 1 = least /\ least - 1 < least
  BY <1>2
<1>4. least - 1 \in T
  BY <1>1, <1>3
<1> QED BY <1>2, <1>3, <1>4

\* What a quotient is.
LEMMA DivBounds ==
    ASSUME NEW n \in Nat, NEW d \in Nat \ {0}
    PROVE  /\ n \div d \in Nat
           /\ (n \div d) * d <= n /\ n < (n \div d) * d + d
OBVIOUS

LEMMA DivIs ==
    ASSUME NEW n \in Nat, NEW d \in Nat \ {0}, NEW q \in Nat, NEW r \in Nat,
           n = q * d + r, r < d
    PROVE  n \div d = q
OBVIOUS

\* The library has 2^n as the number of the subsets of n things.
LEMMA SubsetsOf ==
    ASSUME NEW n \in Nat
    PROVE  /\ IsFiniteSet(SUBSET (1..n))
           /\ Cardinality(SUBSET (1..n)) = 2^n
           /\ 2^n \in Nat
<1>1. IsFiniteSet(1..n) /\ Cardinality(1..n) = n
  BY FS_Interval
<1> QED BY <1>1, FS_SUBSET, FS_CardinalityType

LEMMA PowerZero == 2^0 = 1
<1>1. 1..0 = {} /\ SUBSET {} = {{}}
  OBVIOUS
<1>2. Cardinality({{}}) = 1
  BY FS_Singleton
<1>3. Cardinality(SUBSET (1..0)) = 2^0
  BY SubsetsOf
<1> QED BY <1>1, <1>2, <1>3

\* Half of the subsets of n + 1 things have the last one.
LEMMA PowerStep ==
    ASSUME NEW n \in Nat
    PROVE  2^(n + 1) = 2 * 2^n
<1> DEFINE S == SUBSET (1..n)
           T == {t \in SUBSET (1..n+1) : n + 1 \in t}
           F == [s \in S |-> s \cup {n + 1}]
<1>1. S \cup T = SUBSET (1..n+1) /\ S \cap T = {}
  <2>1. 1..n+1 = (1..n) \cup {n + 1} /\ n + 1 \notin 1..n
    OBVIOUS
  <2> QED BY <2>1
<1>2. IsFiniteSet(S) /\ Cardinality(S) = 2^n /\ 2^n \in Nat
  BY SubsetsOf
<1>3. IsFiniteSet(T) /\ Cardinality(T) = Cardinality(S)
  <2>1. F \in [S -> T]
    OBVIOUS
  <2>2. \A a, b \in S : F[a] = F[b] => a = b
    <3>1. \A a \in S : F[a] = a \cup {n + 1} /\ F[a] \ {n + 1} = a
      OBVIOUS
    <3> QED BY <3>1
  <2>3. \A t \in T : \E s \in S : F[s] = t
    <3> TAKE t \in T
    <3>1. t \ {n + 1} \in S /\ (t \ {n + 1}) \cup {n + 1} = t
      OBVIOUS
    <3> QED BY <3>1
  <2>4. F \in Bijection(S, T)
    <3> HIDE DEF S, T, F
    <3> QED BY <2>1, <2>2, <2>3, Fun_IsBij
  <2>5. ExistsBijection(S, T)
    <3> HIDE DEF S, T, F
    <3> QED BY <2>4, Fun_ExistsBij
  <2> HIDE DEF S, T, F
  <2> QED BY <1>2, <2>5, FS_Bijection
<1>4. Cardinality(S \cup T) = Cardinality(S) + Cardinality(T) - Cardinality(S \cap T)
  <2> HIDE DEF S, T
  <2> QED BY <1>2, <1>3, FS_Union
<1>5. Cardinality(S \cup T) = 2^(n + 1)
  <2>1. Cardinality(SUBSET (1..n+1)) = 2^(n + 1)
    BY SubsetsOf
  <2> QED BY <1>1, <2>1
<1>6. Cardinality(S \cap T) = 0
  BY <1>1, FS_EmptySet
<1> HIDE DEF S, T
<1> QED BY <1>2, <1>3, <1>4, <1>5, <1>6

LEMMA Powers ==
    ASSUME NEW a \in Nat, NEW b \in Nat
    PROVE  /\ 2^a \in Nat \ {0} /\ 2^b \in Nat \ {0}
           /\ 2^(a + b) = 2^a * 2^b
<1> DEFINE T == {n \in Nat : 2^n \in Nat \ {0} /\ 2^(a + n) = 2^a * 2^n}
           U == {n \in Nat : 2^n \in Nat \ {0}}
<1>1. 2^a \in Nat \ {0}
  <2>1. 0 \in U
    BY PowerZero
  <2>2. ASSUME NEW n \in Nat, n \in U
        PROVE  n + 1 \in U
    BY <2>2, PowerStep
  <2> HIDE DEF U
  <2>3. Nat \subseteq U
    BY <2>1, <2>2, AllNaturals
  <2> QED BY <2>3 DEF U
<1>2. 0 \in T
  BY <1>1, PowerZero
<1>3. ASSUME NEW n \in Nat, n \in T
      PROVE  n + 1 \in T
  <2>1. 2^(n + 1) = 2 * 2^n /\ 2^((a + n) + 1) = 2 * 2^(a + n)
    BY PowerStep
  <2>2. a + (n + 1) = (a + n) + 1
    OBVIOUS
  <2>3. 2 * (2^a * 2^n) = 2^a * (2 * 2^n)
    BY <1>1, <1>3
  <2> QED BY <1>3, <2>1, <2>2, <2>3
<1> HIDE DEF T
<1>4. Nat \subseteq T
  BY <1>2, <1>3, AllNaturals
<1> QED BY <1>1, <1>4 DEF T

\* No bits of the word that follows: it is dropped with the size.
LEMMA DropsWord ==
    ASSUME NEW n \in Nat, NEW base \in Nat, NEW w \in 0..base-1, NEW size \in Nat \ {0}
    PROVE  (n * base + w) \div (size * base) = n \div size
<1> DEFINE q == n \div size
           r == n - q * size
<1>1. q \in Nat /\ r \in 0..size-1 /\ n = q * size + r
  BY DivBounds
<1> HIDE DEF q, r
<1>2. n * base + w = q * (size * base) + (r * base + w)
  BY <1>1
<1>3. r * base + w \in Nat /\ r * base + w < size * base
  <2>1. r * base + base = (r + 1) * base
    BY <1>1
  <2>2. (r + 1) * base <= size * base
    BY <1>1
  <2> QED BY <1>1, <2>1, <2>2
<1> QED BY <1>1, <1>2, <1>3, DivIs DEF q

\* Bits of the word that follows: what is before it is kept whole.
LEMMA KeepsWord ==
    ASSUME NEW n \in Nat, NEW c \in Nat \ {0}, NEW d \in Nat \ {0}, NEW w \in 0..c*d-1
    PROVE  /\ (n * (c * d) + w) \div d = n * c + w \div d
           /\ w \div d \in 0..c-1
<1> DEFINE q == w \div d
           r == w - q * d
<1>1. q \in Nat /\ r \in 0..d-1 /\ w = q * d + r
  BY DivBounds
<1> HIDE DEF q, r
<1>2. n * (c * d) + w = (n * c + q) * d + r
  BY <1>1
<1>3. q < c
  <2> SUFFICES ASSUME q >= c PROVE FALSE
    BY <1>1
  <2>1. q * d >= c * d
    BY <1>1
  <2> QED BY <1>1, <2>1
<1>4. n * c + q \in Nat /\ q \in 0..c-1
  BY <1>1, <1>3
<1>5. (n * (c * d) + w) \div d = n * c + q
  BY <1>1, <1>2, <1>4, DivIs
<1> QED BY <1>4, <1>5 DEF q

KeptApart(n, m, base, d, w, v) ==
    (n * base + w) \div d = (m * base + v) \div d <=> n = m /\ w \div d = v \div d

LEMMA KeepsBoth ==
    ASSUME NEW base \in Nat, NEW c \in Nat \ {0}, NEW d \in Nat \ {0}, base = c * d,
           NEW n \in Nat, NEW m \in Nat, NEW w \in 0..base-1, NEW v \in 0..base-1
    PROVE  KeptApart(n, m, base, d, w, v)
<1> DEFINE q == w \div d
           r == v \div d
<1>1. (n * base + w) \div d = n * c + q /\ q \in 0..c-1
  BY KeepsWord
<1>2. (m * base + v) \div d = m * c + r /\ r \in 0..c-1
  BY KeepsWord
<1> HIDE DEF q, r
<1>3. n * c + q = m * c + r <=> n = m /\ q = r
  <2>1. n * c \in Nat /\ m * c \in Nat
    OBVIOUS
  <2>2. (n * c + q) \div c = n
    BY <1>1, <2>1, DivIs
  <2>3. (m * c + r) \div c = m
    BY <1>2, <2>1, DivIs
  <2> QED BY <1>1, <1>2, <2>1, <2>2, <2>3
<1> QED BY <1>1, <1>2, <1>3 DEF q, r, KeptApart

-----------------------------------------------------------------------------
(* Numbers made of words                                                   *)

\* The function that is 0 at 0 and follows F up to m.
Follows(f, F, m) ==
    /\ f \in [0..m -> Nat]
    /\ f[0] = 0
    /\ \A i \in 1..m : f[i] = F[<<f[i-1], i>>]

Numeric(F, n) == \A v \in Nat, i \in 1..n : F[<<v, i>>] \in Nat

LEMMA Recursion ==
    ASSUME NEW n \in Nat, NEW F, Numeric(F, n)
    PROVE  \E f : Follows(f, F, n)
<1> USE DEF Numeric
<1> DEFINE Upto(f, m) == Follows(f, F, m)
           T == {m \in Nat : m <= n => \E f : Upto(f, m)}
<1>1. 0 \in T
  <2>1. Upto([i \in 0..0 |-> 0], 0)
    BY DEF Follows
  <2> QED BY <2>1
<1>2. ASSUME NEW m \in Nat, m \in T
      PROVE  m + 1 \in T
  <2> SUFFICES ASSUME m + 1 <= n
               PROVE  \E f : Upto(f, m + 1)
    OBVIOUS
  <2> USE DEF Follows
  <2>1. PICK f : Upto(f, m)
    BY <1>2
  <2> DEFINE g == [i \in 0..m+1 |-> IF i = m + 1 THEN F[<<f[m], m + 1>>] ELSE f[i]]
  <2>2. F[<<f[m], m + 1>>] \in Nat
    <3>1. f[m] \in Nat /\ m + 1 \in 1..n
      BY <2>1
    <3> QED BY <3>1
  <2>3. g \in [0..m+1 -> Nat] /\ g[0] = 0
    BY <2>1, <2>2
  <2>4. \A i \in 1..m+1 : g[i] = F[<<g[i-1], i>>]
    <3> TAKE i \in 1..m+1
    <3>1. i - 1 \in 0..m /\ i - 1 # m + 1 /\ g[i-1] = f[i-1]
      OBVIOUS
    <3>2. CASE i = m + 1
      <4>1. g[i] = F[<<f[m], m + 1>>] /\ i - 1 = m
        BY <3>2
      <4> QED BY <3>1, <3>2, <4>1
    <3>3. CASE i # m + 1
      <4>1. i \in 1..m /\ g[i] = f[i]
        BY <3>3
      <4> QED BY <3>1, <4>1, <2>1
    <3> QED BY <3>2, <3>3
  <2> QED BY <2>3, <2>4
<1>3. n \in T
  <2> HIDE DEF T
  <2> QED BY <1>1, <1>2, AllNaturals
<1> QED BY <1>3

\* What Value has made of the first digits.
Values(f, digits, base) ==
    /\ f \in [0..Len(digits) -> Nat]
    /\ f[0] = 0
    /\ \A i \in 1..Len(digits) : f[i] = f[i-1] * base + digits[i]

LEMMA ValueUnfolds ==
    ASSUME NEW base \in Nat, NEW digits, Len(digits) \in Nat,
           \A i \in 1..Len(digits) : digits[i] \in Nat
    PROVE  \E f : Values(f, digits, base) /\ Value(digits, base) = f[Len(digits)]
<1> DEFINE n == Len(digits)
           F == [at \in Nat \X (1..n) |-> at[1] * base + digits[at[2]]]
           Is(f) == f = [i \in 0..n |-> IF i = 0 THEN 0 ELSE f[i-1] * base + digits[i]]
           upto == CHOOSE f : Is(f)
<1>1. \A v \in Nat, i \in 1..n : F[<<v, i>>] = v * base + digits[i]
  OBVIOUS
<1>2. \A v \in Nat, i \in 1..n : v * base + digits[i] \in Nat
  OBVIOUS
<1>3. PICK f : Follows(f, F, n)
  <2>1. Numeric(F, n)
    BY <1>1, <1>2 DEF Numeric
  <2>2. n \in Nat
    OBVIOUS
  <2> HIDE DEF F, n
  <2> QED BY <2>1, <2>2, Recursion
<1>4. \A i \in 1..n : f[i] = f[i-1] * base + digits[i]
  <2> TAKE i \in 1..n
  <2>1. f[i-1] \in Nat
    BY <1>3 DEF Follows
  <2> HIDE DEF F
  <2> QED BY <2>1, <1>1, <1>3 DEF Follows
<1> HIDE DEF F
<1>5. Is(f)
  <2> DEFINE g == [i \in 0..n |-> IF i = 0 THEN 0 ELSE f[i-1] * base + digits[i]]
  <2>1. \A i \in 0..n : f[i] = g[i]
    BY <1>3, <1>4 DEF Follows
  <2>2. f = [i \in 0..n |-> f[i]]
    BY <1>3 DEF Follows
  <2> QED BY <2>1, <2>2
<1>6. Is(upto)
  <2> HIDE DEF Is
  <2> QED BY <1>5
<1>7. Value(digits, base) = upto[n]
  BY DEF Value
<1> HIDE DEF upto
<1>8. upto[0] = 0 /\ \A i \in 1..n : upto[i] = upto[i-1] * base + digits[i]
  BY <1>6
<1> DEFINE T == {m \in Nat : m <= n => upto[m] \in Nat}
<1>9. 0 \in T
  BY <1>8
<1>10. ASSUME NEW m \in Nat, m \in T
       PROVE  m + 1 \in T
  <2> SUFFICES ASSUME m + 1 <= n
               PROVE  upto[m + 1] \in Nat
    OBVIOUS
  <2>1. m + 1 \in 1..n /\ (m + 1) - 1 = m
    OBVIOUS
  <2>2. upto[m + 1] = upto[m] * base + digits[m + 1] /\ upto[m] \in Nat
    BY <2>1, <1>8, <1>10
  <2> QED BY <2>1, <2>2, <1>2
<1>11. Nat \subseteq T
  <2> HIDE DEF T
  <2> QED BY <1>9, <1>10, AllNaturals
<1>12. upto \in [0..n -> Nat]
  <2>1. \A m \in 0..n : m \in Nat /\ m <= n
    OBVIOUS
  <2>2. \A m \in 0..n : upto[m] \in Nat
    BY <2>1, <1>11
  <2>3. upto = [m \in 0..n |-> upto[m]]
    BY <1>6
  <2> QED BY <2>2, <2>3
<1> QED BY <1>7, <1>8, <1>12 DEF Values

-----------------------------------------------------------------------------
(* One shift of a whole address                                            *)

Word(word) == word \in 0..2^Width - 1

LEMMA NumberUnfolds ==
    ASSUME NEW words, Len(words) \in Nat, \A i \in 1..Len(words) : Word(words[i])
    PROVE  \E f : Values(f, words, 2^Width) /\ Number(words) = f[Len(words)]
<1> DEFINE base == 2^Width
<1>1. base \in Nat /\ \A i \in 1..Len(words) : words[i] \in Nat
  BY Powers, RouteCmpAssumption DEF Word
<1>2. Number(words) = Value(words, base)
  BY DEF Number
<1> HIDE DEF base
<1>3. \E f : Values(f, words, base) /\ Value(words, base) = f[Len(words)]
  BY <1>1, ValueUnfolds
<1> QED BY <1>2, <1>3 DEF base

SameWord(prefix, words, bits, i) ==
    bits[i] # 0 =>
        ShiftRight(prefix[i], Width - bits[i]) = ShiftRight(words[i], Width - bits[i])

\* The bits of a prefix fill its words from the first.
Fill(bits) ==
    \A i \in 1..Len(bits) :
        /\ bits[i] \in 0..Width
        /\ i > 1 /\ bits[i] > 0 => bits[i - 1] = Width

\* The first i words of two addresses lie in the same block.
SameBlock(f, g, h, i) ==
    f[i] \div 2^(Width * i - h[i]) = g[i] \div 2^(Width * i - h[i])

LEMMA BlockByWord ==
    ASSUME NEW prefix, NEW words, NEW bits, NEW n \in Nat,
           Len(prefix) = n, Len(words) = n, Len(bits) = n,
           \A i \in 1..n : Word(prefix[i]) /\ Word(words[i]), Fill(bits),
           NEW f, Values(f, prefix, 2^Width), NEW g, Values(g, words, 2^Width),
           NEW h, Values(h, bits, 1)
    PROVE  /\ h[n] <= Width * n
           /\ SameBlock(f, g, h, n) <=> \A i \in 1..n : SameWord(prefix, words, bits, i)
<1> DEFINE Full(m) == m > 0 /\ bits[m] = Width => h[m] = Width * m
           Holds(m) == /\ h[m] <= Width * m
                       /\ Full(m)
                       /\ SameBlock(f, g, h, m)
                            <=> \A i \in 1..m : SameWord(prefix, words, bits, i)
           T == {m \in Nat : m <= n => Holds(m)}
<1>1. Width \in Nat \ {0} /\ 2^Width \in Nat \ {0}
  BY RouteCmpAssumption, Powers
<1>2. 0 \in T
  <2>1. f[0] = 0 /\ g[0] = 0 /\ h[0] = 0
    BY DEF Values
  <2> QED BY <1>1, <2>1 DEF SameBlock
<1>3. \A u \in Nat, w \in 0..2^Width - 1, size \in Nat \ {0} :
        (u * 2^Width + w) \div (size * 2^Width) = u \div size
  <2> DEFINE base == 2^Width
  <2>1. base \in Nat
    BY <1>1
  <2> HIDE DEF base
  <2>2. \A u \in Nat, w \in 0..base - 1, size \in Nat \ {0} :
          (u * base + w) \div (size * base) = u \div size
    BY <2>1, DropsWord
  <2> QED BY <2>2 DEF base
<1>4. ASSUME NEW m \in Nat, m \in T
      PROVE  m + 1 \in T
  <2> SUFFICES ASSUME m + 1 <= n
               PROVE  Holds(m + 1)
    OBVIOUS
  <2>1. Holds(m)
    BY <1>4
  <2>2. /\ f[m] \in Nat /\ g[m] \in Nat /\ h[m] \in Nat
        /\ f[m+1] = f[m] * 2^Width + prefix[m+1]
        /\ g[m+1] = g[m] * 2^Width + words[m+1]
        /\ h[m+1] = h[m] + bits[m+1]
    <3>1. m \in 0..n /\ m + 1 \in 1..n /\ (m + 1) - 1 = m
      OBVIOUS
    <3>2. bits[m+1] \in 0..Width
      BY <3>1 DEF Fill
    <3>3. f[m] \in Nat /\ f[m+1] = f[m] * 2^Width + prefix[m+1]
      BY <3>1 DEF Values
    <3>4. g[m] \in Nat /\ g[m+1] = g[m] * 2^Width + words[m+1]
      BY <3>1 DEF Values
    <3>5. h[m] \in Nat /\ h[m+1] = h[m] * 1 + bits[m+1]
      BY <3>1 DEF Values
    <3> QED BY <3>3, <3>4, <3>5
  <2>3. bits[m+1] \in 0..Width /\ (m > 0 /\ bits[m+1] > 0 => bits[m] = Width)
    <3>1. m + 1 \in 1..n /\ (m + 1) - 1 = m /\ (m > 0 => m + 1 > 1)
      OBVIOUS
    <3> QED BY <3>1 DEF Fill
  <2>4. Word(prefix[m+1]) /\ Word(words[m+1])
    <3>1. m + 1 \in 1..n
      OBVIOUS
    <3> QED BY <3>1
  <2>5. Width * m \in Nat /\ Width * (m + 1) = Width * m + Width
    BY <1>1
  <2>6. \A i \in 1..m+1 : i \in 1..m \/ i = m + 1
    OBVIOUS
  <2>7. h[m+1] <= Width * (m + 1)
    BY <1>1, <2>1, <2>2, <2>3, <2>5
  <2>8. bits[m+1] > 0 => h[m] = Width * m
    <3>1. CASE m = 0
      <4>1. h[0] = 0
        BY DEF Values
      <4> QED BY <3>1, <4>1, <1>1
    <3>2. CASE m > 0
      BY <3>2, <2>1, <2>3
    <3> QED BY <3>1, <3>2
  <2>9. Full(m + 1)
    BY <1>1, <2>2, <2>3, <2>5, <2>8
  <2>10. SameBlock(f, g, h, m + 1) <=>
            SameBlock(f, g, h, m) /\ SameWord(prefix, words, bits, m + 1)
    <3>1. CASE bits[m+1] = 0
      <4> DEFINE size == 2^(Width * m - h[m])
      <4>1. Width * m - h[m] \in Nat
        BY <2>1, <2>2, <2>5
      <4>2. size \in Nat \ {0} /\ 2^((Width * m - h[m]) + Width) = size * 2^Width
        BY <4>1, <1>1, Powers
      <4>3. Width * (m + 1) - h[m+1] = (Width * m - h[m]) + Width
        BY <3>1, <1>1, <2>2, <2>5
      <4> HIDE DEF size
      <4>a. 2^Width \in Nat
        BY <1>1
      <4>4. f[m+1] \div (size * 2^Width) = f[m] \div size
        <5>1. prefix[m+1] \in 0..2^Width-1
          BY <2>4 DEF Word
        <5>2. (f[m] * 2^Width + prefix[m+1]) \div (size * 2^Width) = f[m] \div size
          BY <4>2, <4>a, <2>2, <5>1, <1>3
        <5> QED BY <2>2, <5>2
      <4>5. g[m+1] \div (size * 2^Width) = g[m] \div size
        <5>1. words[m+1] \in 0..2^Width-1
          BY <2>4 DEF Word
        <5>2. (g[m] * 2^Width + words[m+1]) \div (size * 2^Width) = g[m] \div size
          BY <4>2, <4>a, <2>2, <5>1, <1>3
        <5> QED BY <2>2, <5>2
      <4>6. SameBlock(f, g, h, m + 1) <=> f[m] \div size = g[m] \div size
        BY <4>2, <4>3, <4>4, <4>5 DEF SameBlock
      <4>7. SameBlock(f, g, h, m) <=> f[m] \div size = g[m] \div size
        BY DEF SameBlock, size
      <4> QED BY <3>1, <4>6, <4>7 DEF SameWord
    <3>2. CASE bits[m+1] # 0
      <4> DEFINE c == 2^bits[m+1]
                 d == 2^(Width - bits[m+1])
      <4>1. bits[m+1] \in Nat /\ Width - bits[m+1] \in Nat
            /\ bits[m+1] + (Width - bits[m+1]) = Width
        BY <1>1, <2>3
      <4>2. c \in Nat \ {0} /\ d \in Nat \ {0} /\ c * d = 2^Width
        <5> DEFINE k == Width - bits[m+1]
        <5>1. k \in Nat /\ bits[m+1] + k = Width
          BY <4>1
        <5> HIDE DEF k
        <5>2. /\ 2^bits[m+1] \in Nat \ {0} /\ 2^k \in Nat \ {0}
              /\ 2^(bits[m+1] + k) = 2^bits[m+1] * 2^k
          BY <4>1, <5>1, Powers
        <5> QED BY <5>1, <5>2 DEF k
      <4>3. h[m] = Width * m
        BY <3>2, <2>3, <2>8
      <4>4. Width * (m + 1) - h[m+1] = Width - bits[m+1] /\ Width * m - h[m] = 0
        BY <4>1, <4>3, <1>1, <2>2, <2>5
      <4>5. SameBlock(f, g, h, m + 1) <=> f[m+1] \div d = g[m+1] \div d
        BY <4>4 DEF SameBlock
      <4>6. SameBlock(f, g, h, m) <=> f[m] = g[m]
        <5>1. f[m] \div 1 = f[m] /\ g[m] \div 1 = g[m]
          BY <2>2
        <5> QED BY <4>4, <5>1, PowerZero DEF SameBlock
      <4>7. SameWord(prefix, words, bits, m + 1)
              <=> prefix[m+1] \div d = words[m+1] \div d
        BY <3>2 DEF SameWord, ShiftRight
      <4> HIDE DEF c, d
      <4>8. prefix[m+1] \in 0..2^Width-1 /\ words[m+1] \in 0..2^Width-1
        BY <2>4 DEF Word
      <4>9. (f[m] * 2^Width + prefix[m+1]) \div d = (g[m] * 2^Width + words[m+1]) \div d
                <=> f[m] = g[m] /\ prefix[m+1] \div d = words[m+1] \div d
        <5>1. 2^Width \in Nat /\ 2^Width = c * d
          BY <4>2, <1>1
        <5>2. KeptApart(f[m], g[m], 2^Width, d, prefix[m+1], words[m+1])
          BY <4>2, <4>8, <2>2, <5>1, KeepsBoth
        <5> QED BY <5>2 DEF KeptApart
      <4>10. f[m+1] \div d = g[m+1] \div d
                <=> f[m] = g[m] /\ prefix[m+1] \div d = words[m+1] \div d
        BY <4>9, <2>2
      <4> QED BY <4>5, <4>6, <4>7, <4>10
    <3> QED BY <3>1, <3>2
  <2> QED BY <2>1, <2>6, <2>7, <2>9, <2>10
<1>5. n \in T
  <2> HIDE DEF T
  <2> QED BY <1>2, <1>4, AllNaturals
<1> QED BY <1>5

-----------------------------------------------------------------------------
(* The comparisons, and what a route asks for                              *)

LEMMA SuffixByChar ==
    ASSUME NEW S, NEW s \in Seq(S), NEW t \in Seq(S)
    PROVE  IsSuffix(s, t) <=>
              Len(s) <= Len(t) /\ \A i \in 1..Len(s) : t[Len(t) - Len(s) + i] = s[i]
<1> DEFINE n == Len(s)
           m == Len(t)
           u == Reverse(s)
           v == Reverse(t)
<1>1. n \in Nat /\ m \in Nat
  OBVIOUS
<1>2. u = [i \in 1..n |-> s[n - i + 1]] /\ v = [i \in 1..m |-> t[m - i + 1]]
  BY DEF Reverse
<1>3. u \in Seq(S) /\ v \in Seq(S) /\ Len(u) = n /\ Len(v) = m
  BY <1>1, <1>2
<1> HIDE DEF u, v
<1>4. ASSUME n <= m
      PROVE  SubSeq(u, 1, n) = SubSeq(v, 1, n) <=> \A i \in 1..n : u[i] = v[i]
  <2>1. SubSeq(u, 1, n) = [i \in 1..n |-> u[i]] /\ SubSeq(v, 1, n) = [i \in 1..n |-> v[i]]
    BY <1>1, <1>3, <1>4
  <2>2. ASSUME [i \in 1..n |-> u[i]] = [i \in 1..n |-> v[i]], NEW i \in 1..n
        PROVE  u[i] = v[i]
    <3>1. [j \in 1..n |-> u[j]][i] = [j \in 1..n |-> v[j]][i]
      BY <2>2
    <3> QED BY <3>1
  <2> QED BY <2>1, <2>2
<1>5. ASSUME n <= m
      PROVE  (\A i \in 1..n : u[i] = v[i]) <=> \A i \in 1..n : t[m - n + i] = s[i]
  <2>1. \A i \in 1..n : u[i] = s[n - i + 1] /\ v[i] = t[m - i + 1]
    BY <1>1, <1>2, <1>5
  <2>2. ASSUME \A i \in 1..n : u[i] = v[i], NEW i \in 1..n
        PROVE  t[m - n + i] = s[i]
    <3>1. n - i + 1 \in 1..n /\ n - (n - i + 1) + 1 = i /\ m - (n - i + 1) + 1 = m - n + i
      BY <1>1
    <3> QED BY <2>1, <2>2, <3>1
  <2>3. ASSUME \A i \in 1..n : t[m - n + i] = s[i], NEW i \in 1..n
        PROVE  u[i] = v[i]
    <3>1. n - i + 1 \in 1..n /\ m - n + (n - i + 1) = m - i + 1
      BY <1>1
    <3> QED BY <2>1, <2>3, <3>1
  <2> QED BY <2>2, <2>3
<1>6. IsSuffix(s, t) <=> n <= m /\ SubSeq(u, 1, n) = SubSeq(v, 1, n)
  BY <1>3 DEF IsSuffix, IsPrefix, u, v
<1> QED BY <1>4, <1>5, <1>6

\* HostDiffers compares from the ends what HostAllowed asks for as a whole.
LEMMA HostCompared ==
    ASSUME r1 \in Routes, r2 \in Requests
    PROVE  HostAllowed <=> ~HostDiffers(r1.host, r2.host)
<1> DEFINE s == r1.host
           t == r2.host
           n == Len(s)
           m == Len(t)
<1>1. s \in Seq(Chars) /\ t \in Seq(Chars)
  BY RouteCmpAssumption
<1>2. n \in Nat /\ m \in Nat
  BY <1>1
<1>3. (s = <<>> <=> n = 0) /\ (t = <<>> <=> m = 0)
  BY <1>1, EmptySeq
<1>4. IsSuffix(s, t) <=> n <= m /\ \A i \in 1..n : t[m - n + i] = s[i]
  BY <1>1, SuffixByChar
<1> DEFINE Stem(stem) == SubSeq(t, stem + 1, m) = Tail(s)
<1>5. ASSUME n > 0, NEW stem \in 1..m
      PROVE  Stem(stem) <=> m - stem = n - 1 /\ \A i \in 2..n : t[m - n + i] = s[i]
  <2> DEFINE a == SubSeq(t, stem + 1, m)
             b == Tail(s)
  <2>1. /\ a = [i \in 1..(m - stem) |-> t[stem + i]]
        /\ b = [i \in 1..(n - 1) |-> s[i + 1]]
    <3>1. a = [i \in 1..(m - (stem + 1) + 1) |-> t[stem + 1 + i - 1]]
      OBVIOUS
    <3>2. \A i \in Int : stem + 1 + i - 1 = stem + i
      BY <1>2
    <3>3. m - (stem + 1) + 1 = m - stem
      BY <1>2
    <3> QED BY <1>1, <1>2, <1>5, <3>1, <3>2, <3>3
  <2>2. Len(a) = m - stem /\ Len(b) = n - 1
    BY <2>1, <1>2, <1>5
  <2> HIDE DEF a, b, n, m, s, t
  <2>3. ASSUME a = b
        PROVE  m - stem = n - 1 /\ \A i \in 2..n : t[m - n + i] = s[i]
    <3>1. m - stem = n - 1
      BY <2>2, <2>3
    <3>2. ASSUME NEW i \in 2..n
          PROVE  t[m - n + i] = s[i]
      <4>1. i - 1 \in 1..(n - 1) /\ i - 1 \in 1..(m - stem) /\ (i - 1) + 1 = i
            /\ stem + (i - 1) = m - n + i
        BY <1>2, <3>1
      <4>2. a[i-1] = t[m - n + i] /\ b[i-1] = s[i]
        BY <2>1, <4>1
      <4> QED BY <4>2, <2>3
    <3> QED BY <3>1, <3>2
  <2>4. ASSUME m - stem = n - 1, \A i \in 2..n : t[m - n + i] = s[i]
        PROVE  a = b
    <3>1. ASSUME NEW i \in 1..(n - 1)
          PROVE  t[stem + i] = s[i + 1]
      <4>1. i + 1 \in 2..n /\ m - n + (i + 1) = stem + i
        BY <1>2, <2>4
      <4> QED BY <4>1, <2>4
    <3> QED BY <2>1, <2>4, <3>1
  <2> QED BY <2>3, <2>4 DEF a, b, n, m, s, t
<1>6. HostAllowed <=> \/ n = 0 \/ m = 0
                      \/ IsSuffix(s, t)
                      \/ s[1] = Star /\ \E stem \in 1..m : Stem(stem)
  BY <1>3 DEF HostAllowed, Stem
<1>7. HostDiffers(s, t) <=> /\ n # 0 /\ m # 0
                            /\ \/ n > m
                               \/ \E i \in 1..n : /\ ~(i = 1 /\ s[1] = Star)
                                                  /\ t[m - n + i] # s[i]
  BY <1>3 DEF HostDiffers
<1> SUFFICES HostAllowed <=> ~HostDiffers(s, t)
  OBVIOUS
<1> HIDE DEF Stem, n, m, s, t
<1>8. CASE n = 0 \/ m = 0
  BY <1>6, <1>7, <1>8
<1>9. CASE n > 0 /\ m > 0
  <2>1. ASSUME HostAllowed
        PROVE  ~HostDiffers(s, t)
    <3>1. CASE IsSuffix(s, t)
      BY <3>1, <1>2, <1>4, <1>7
    <3>2. CASE s[1] = Star /\ \E stem \in 1..m : Stem(stem)
      <4>1. PICK stem \in 1..m : Stem(stem)
        BY <3>2
      <4>2. m - stem = n - 1 /\ \A i \in 2..n : t[m - n + i] = s[i]
        BY <4>1, <1>5, <1>9
      <4>3. n <= m
        BY <4>2, <1>2
      <4>4. \A i \in 1..n : i = 1 \/ i \in 2..n
        BY <1>2
      <4> QED BY <3>2, <4>2, <4>3, <4>4, <1>2, <1>7
    <3> QED BY <3>1, <3>2, <2>1, <1>6, <1>9
  <2>2. ASSUME ~HostDiffers(s, t)
        PROVE  HostAllowed
    <3>1. n <= m /\ \A i \in 1..n : (i = 1 /\ s[1] = Star) \/ t[m - n + i] = s[i]
      BY <2>2, <1>2, <1>7, <1>9
    <3>2. CASE s[1] = Star
      <4> DEFINE stem == m - n + 1
      <4>1. stem \in 1..m /\ m - stem = n - 1
        BY <3>1, <1>2, <1>9
      <4>2. \A i \in 2..n : i \in 1..n /\ i # 1
        BY <1>2
      <4>3. Stem(stem)
        BY <3>1, <4>1, <4>2, <1>5, <1>9
      <4> QED BY <3>2, <4>1, <4>3, <1>6
    <3>3. CASE s[1] # Star
      BY <3>1, <3>3, <1>4, <1>6
    <3> QED BY <3>2, <3>3
  <2> QED BY <2>1, <2>2
<1> QED BY <1>2, <1>8, <1>9

LEMMA V4Compared ==
    ASSUME r1 \in Routes, r2 \in Requests
    PROVE  InBlock("v4", <<r1.v4>>, r1.v4_bits)
              <=> ~V4Differs(r2.remote_addr, r1.v4, r1.v4_bits)
<1> DEFINE prefix == <<r1.v4>>
           words == r2.remote_addr.words
           bits == <<r1.v4_bits>>
<1>1. Width \in Nat /\ r1.v4_bits \in 0..Width /\ Word(r1.v4)
  BY RouteCmpAssumption DEF Word
<1>2. CASE r1.v4_bits = 0
  BY <1>2 DEF InBlock, V4Differs
<1>3. CASE r1.v4_bits > 0 /\ r2.remote_addr.kind # "v4"
  BY <1>3 DEF InBlock, V4Differs
<1>4. CASE r1.v4_bits > 0 /\ r2.remote_addr.kind = "v4"
  <2>1. Len(words) = 1 /\ Word(words[1])
    BY <1>4, RouteCmpAssumption DEF Word
  <2>2. \A i \in 1..1 : Word(prefix[i]) /\ Word(words[i])
    BY <1>1, <2>1
  <2>3. Len(prefix) = 1 /\ Len(bits) = 1 /\ Fill(bits)
    BY <1>1 DEF Fill
  <2>4. PICK f : Values(f, prefix, 2^Width) /\ Number(prefix) = f[1]
    BY <1>1, <2>2, <2>3, NumberUnfolds
  <2>5. PICK g : Values(g, words, 2^Width) /\ Number(words) = g[1]
    <3>1. Len(words) \in Nat /\ \A i \in 1..Len(words) : Word(words[i])
      BY <2>1, <2>2
    <3> HIDE DEF words
    <3>2. \E g : Values(g, words, 2^Width) /\ Number(words) = g[Len(words)]
      BY <3>1, NumberUnfolds
    <3> QED BY <2>1, <3>2
  <2>6. PICK h : Values(h, bits, 1)
    <3>1. \A i \in 1..Len(bits) : bits[i] \in Nat
      BY <1>1
    <3> QED BY <2>3, <3>1, ValueUnfolds
  <2>7. h[1] = r1.v4_bits
    <3>1. h[0] = 0 /\ h[1] = h[0] * 1 + bits[1]
      BY <2>3, <2>6 DEF Values
    <3> QED BY <1>1, <3>1
  <2>8. SameBlock(f, g, h, 1) <=> \A i \in 1..1 : SameWord(prefix, words, bits, i)
    <3> HIDE DEF prefix, words, bits
    <3> QED BY <2>1, <2>2, <2>3, <2>4, <2>5, <2>6, BlockByWord
  <2>9. SameBlock(f, g, h, 1) <=> InBlock("v4", prefix, r1.v4_bits)
    BY <1>4, <2>3, <2>4, <2>5, <2>7 DEF SameBlock, InBlock
  <2>10. SameWord(prefix, words, bits, 1) <=> ~V4Differs(r2.remote_addr, r1.v4, r1.v4_bits)
    BY <1>1, <1>4 DEF SameWord, V4Differs
  <2> QED BY <2>8, <2>9, <2>10
<1> QED BY <1>1, <1>2, <1>3, <1>4

LEMMA V6Compared ==
    ASSUME r1 \in Routes, r2 \in Requests
    PROVE  InBlock("v6", r1.v6, Total(r1.v6_bits))
              <=> ~V6Differs(r2.remote_addr, r1.v6, r1.v6_bits)
<1> DEFINE prefix == r1.v6
           words == r2.remote_addr.words
           bits == r1.v6_bits
           n == Words
<1>1. /\ Width \in Nat /\ n \in Nat \ {0}
      /\ Len(prefix) = n /\ Len(bits) = n /\ Fill(bits)
      /\ \A i \in 1..n : Word(prefix[i])
  BY RouteCmpAssumption DEF Word, Fill
<1>2. \A i \in 1..n : bits[i] \in Nat
  BY <1>1 DEF Fill
<1>3. PICK h : Values(h, bits, 1) /\ Total(bits) = h[n]
  BY <1>1, <1>2, ValueUnfolds DEF Total
<1>4. CASE bits[1] = 0
  <2> DEFINE T == {m \in Nat : m <= n => h[m] = 0 /\ (m > 0 => bits[m] = 0)}
  <2>1. 0 \in T
    BY <1>3 DEF Values
  <2>2. ASSUME NEW m \in Nat, m \in T
        PROVE  m + 1 \in T
    <3> SUFFICES ASSUME m + 1 <= n
                 PROVE  h[m + 1] = 0 /\ bits[m + 1] = 0
      OBVIOUS
    <3>1. m + 1 \in 1..n /\ (m + 1) - 1 = m /\ (m > 0 => m + 1 > 1)
      BY <1>1
    <3>2. h[m + 1] = h[m] * 1 + bits[m + 1] /\ h[m] = 0
      BY <1>1, <1>3, <2>2, <3>1 DEF Values
    <3>3. bits[m + 1] = 0
      <4>1. CASE m = 0
        BY <4>1, <1>4
      <4>2. CASE m > 0
        <5>1. bits[m] = 0 /\ bits[m + 1] \in 0..Width /\ (bits[m + 1] > 0 => bits[m] = Width)
          BY <4>2, <2>2, <3>1, <1>1 DEF Fill
        <5> QED BY <5>1, RouteCmpAssumption
      <4> QED BY <4>1, <4>2
    <3> QED BY <3>2, <3>3
  <2>3. n \in T
    <3> HIDE DEF T
    <3> QED BY <1>1, <2>1, <2>2, AllNaturals
  <2> QED BY <1>1, <1>3, <1>4, <2>3 DEF InBlock, V6Differs
<1>5. CASE bits[1] > 0
  <2>1. h[n] > 0
    <3> DEFINE T == {m \in Nat : m + 1 <= n => h[m + 1] > 0}
    <3>1. \A m \in Nat : m + 1 <= n =>
            h[m] \in Nat /\ h[m + 1] = h[m] + bits[m + 1] /\ bits[m + 1] \in Nat
      <4> TAKE m \in Nat
      <4> HAVE m + 1 <= n
      <4>1. m \in 0..n /\ m + 1 \in 1..n /\ (m + 1) - 1 = m
        BY <1>1
      <4>2. h[m] \in Nat /\ h[m + 1] = h[m] * 1 + bits[m + 1] /\ bits[m + 1] \in Nat
        BY <4>1, <1>1, <1>2, <1>3 DEF Values
      <4> QED BY <4>2
    <3>2. 0 \in T
      BY <3>1, <1>5, <1>1
    <3>3. ASSUME NEW m \in Nat, m \in T
          PROVE  m + 1 \in T
      <4> SUFFICES ASSUME (m + 1) + 1 <= n
                   PROVE  h[(m + 1) + 1] > 0
        OBVIOUS
      <4>1. h[m + 1] > 0
        BY <3>3, <1>1
      <4> QED BY <4>1, <3>1
    <3>4. n - 1 \in Nat /\ (n - 1) + 1 = n
      BY <1>1
    <3>5. n - 1 \in T
      <4> HIDE DEF T
      <4> QED BY <3>2, <3>3, <3>4, AllNaturals
    <3> QED BY <3>4, <3>5
  <2>2. CASE r2.remote_addr.kind # "v6"
    BY <1>3, <1>5, <2>1, <2>2 DEF InBlock, V6Differs
  <2>3. CASE r2.remote_addr.kind = "v6"
    <3>1. Len(words) = n /\ \A i \in 1..n : Word(words[i])
      BY <2>3, RouteCmpAssumption DEF Word
    <3>2. PICK f : Values(f, prefix, 2^Width) /\ Number(prefix) = f[n]
      BY <1>1, NumberUnfolds
    <3>3. PICK g : Values(g, words, 2^Width) /\ Number(words) = g[n]
      BY <1>1, <3>1, NumberUnfolds
    <3>4. SameBlock(f, g, h, n) <=> \A i \in 1..n : SameWord(prefix, words, bits, i)
      <4> HIDE DEF prefix, words, bits
      <4> QED BY <1>1, <1>3, <3>1, <3>2, <3>3, BlockByWord
    <3>5. SameBlock(f, g, h, n) <=> InBlock("v6", prefix, Total(bits))
      BY <1>1, <1>3, <2>1, <2>3, <3>2, <3>3 DEF SameBlock, InBlock
    <3>6. (\A i \in 1..n : SameWord(prefix, words, bits, i))
            <=> ~V6Differs(r2.remote_addr, prefix, bits)
      BY <1>1, <1>5, <2>3 DEF SameWord, V6Differs
    <3> QED BY <3>4, <3>5, <3>6
  <2> QED BY <2>2, <2>3
<1>6. bits[1] \in Nat
  BY <1>1, <1>2
<1> QED BY <1>4, <1>5, <1>6

-----------------------------------------------------------------------------
(* The theorems                                                            *)

\* The result is what the comparison made of the route and the request.
CmpInv ==
    /\ r1 \in Routes /\ r2 \in Requests
    /\ result = 1 \/ result = RouteCmp(r1, r2)

LEMMA CmpInvariance == Spec => []CmpInv
<1>1. Init => CmpInv
  BY DEF Init, CmpInv
<1>2. CmpInv /\ [Compare]_vars => CmpInv'
  BY DEF CmpInv, Compare, vars
<1> QED BY <1>1, <1>2, PTL DEF Spec

\* No route is found for another host, where both are known, nor for an address
\* outside its block, for any width and number of the words (r3_route_cmp).
THEOREM OnlyAllowedFound == Spec => []FoundIsAllowed
<1>1. CmpInv => FoundIsAllowed
  <2> SUFFICES ASSUME CmpInv, result = 0
               PROVE  HostAllowed /\ AddressAllowed
    BY DEF FoundIsAllowed
  <2>1. r1 \in Routes /\ r2 \in Requests /\ RouteCmp(r1, r2) = 0
    BY DEF CmpInv
  <2>2. /\ ~HostDiffers(r1.host, r2.host)
        /\ ~V4Differs(r2.remote_addr, r1.v4, r1.v4_bits)
        /\ ~V6Differs(r2.remote_addr, r1.v6, r1.v6_bits)
    BY <2>1 DEF RouteCmp
  <2> QED BY <2>1, <2>2, HostCompared, V4Compared, V6Compared DEF AddressAllowed
<1> QED BY <1>1, CmpInvariance, PTL

\* A route is refused only for a condition the request does not meet
\* (r3_route_cmp).
THEOREM RefusedRightly == Spec => []RefusedForAReason
<1>1. CmpInv => RefusedForAReason
  <2> SUFFICES ASSUME CmpInv, result = -1
               PROVE  RefusedForAReason
    BY DEF RefusedForAReason
  <2>1. r1 \in Routes /\ r2 \in Requests /\ RouteCmp(r1, r2) # 0
    BY DEF CmpInv
  <2>2. \/ r1.method # {} /\ r2.method # {} /\ Disjoint(r1.method, r2.method)
        \/ r1.scheme # {} /\ Disjoint(r1.scheme, r2.scheme)
        \/ HostDiffers(r1.host, r2.host)
        \/ PatternDiffers(r1.remote_addr_pattern, r2.remote_addr.text)
        \/ V4Differs(r2.remote_addr, r1.v4, r1.v4_bits)
        \/ V6Differs(r2.remote_addr, r1.v6, r1.v6_bits)
    BY <2>1 DEF RouteCmp
  <2>3. /\ HostDiffers(r1.host, r2.host) => ~HostAllowed
        /\ V4Differs(r2.remote_addr, r1.v4, r1.v4_bits) => ~AddressAllowed
        /\ V6Differs(r2.remote_addr, r1.v6, r1.v6_bits) => ~AddressAllowed
    BY <2>1, HostCompared, V4Compared, V6Compared DEF AddressAllowed
  <2> QED BY <2>2, <2>3 DEF RefusedForAReason
<1> QED BY <1>1, CmpInvariance, PTL
=============================================================================
