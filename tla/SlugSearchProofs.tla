-------------------------- MODULE SlugSearchProofs --------------------------
(***************************************************************************)
(* Theorems about SlugSearch: the name and the pattern of a slug are what  *)
(* its colon parts, for patterns of every length.                          *)
(*                                                                         *)
(* The scanners count braces from places of their own.  What relates them  *)
(* is that the balance of a text is the sum of those of its parts, and     *)
(* changes by one character after the other.                               *)
(***************************************************************************)
EXTENDS SlugSearch, FunctionTheorems, SequenceTheorems, FiniteSetTheorems, WellFoundedInduction, TLAPS

-----------------------------------------------------------------------------
(* The first of several                                                    *)

LEMMA LeastNatural ==
    ASSUME NEW T, T \subseteq Nat, T # {}
    PROVE  Min(T) \in T /\ \A y \in T : Min(T) <= y
<1> DEFINE Less == OpToRel(<, Nat)
<1>1. IsWellFoundedOn(Less, Nat)
  BY NatLessThanWellFounded
<1>2. \A x, y \in Nat : x < y => <<x, y>> \in Less
  BY DEF OpToRel
<1> HIDE DEF Less
<1>3. PICK x \in T : \A y \in T : ~(<<y, x>> \in Less)
  BY <1>1, WFMin
<1>4. \A y \in T : x <= y
  <2> TAKE y \in T
  <2>1. x \in Nat /\ y \in Nat
    OBVIOUS
  <2>2. ~(y < x)
    BY <2>1, <1>2, <1>3
  <2> QED BY <2>1, <2>2
<1> QED BY <1>4 DEF Min

\* The smallest is the one that is.
LEMMA LeastIs ==
    ASSUME NEW T, T \subseteq Nat, NEW x \in T, \A y \in T : x <= y
    PROVE  Min(T) = x
<1>1. Min(T) \in T /\ Min(T) <= x
  BY LeastNatural
<1>2. Min(T) \in Nat /\ x \in Nat /\ x <= Min(T)
  BY <1>1
<1> QED BY <1>1, <1>2

\* strnchr finds the first of a character, or none.
LEMMA StrnchrIs ==
    ASSUME NEW text \in Seq(STRING), NEW char
    PROVE  \/ /\ Strnchr(text, char) = Null
              /\ \A i \in 1..Len(text) : text[i] # char
           \/ /\ Strnchr(text, char) \in 1..Len(text)
              /\ text[Strnchr(text, char)] = char
              /\ \A i \in 1..Strnchr(text, char)-1 : text[i] # char
<1> DEFINE I == {i \in 1..Len(text) : text[i] = char}
<1>1. Strnchr(text, char) = IF I # {} THEN Min(I) ELSE 0
  BY DEF Strnchr, SelectInSeq
<1>2. CASE I = {}
  BY <1>1, <1>2 DEF Null
<1>3. CASE I # {}
  <2>1. I \subseteq Nat
    BY LenProperties
  <2> DEFINE first == Min(I)
  <2>2. first \in I /\ \A y \in I : first <= y
    <3> HIDE DEF I
    <3> QED BY <1>3, <2>1, LeastNatural
  <2> HIDE DEF first
  <2>3. \A i \in 1..first-1 : text[i] # char
    <3> TAKE i \in 1..first-1
    <3>1. i \in 1..Len(text) /\ ~(first <= i)
      BY <2>2, LenProperties
    <3> QED BY <3>1, <2>2
  <2>4. Strnchr(text, char) = first
    BY <1>1, <1>3 DEF first
  <2> HIDE DEF I
  <2>5. first \in 1..Len(text) /\ text[first] = char
    BY <2>2 DEF I
  <2> QED BY <2>3, <2>4, <2>5
<1> QED BY <1>2, <1>3

-----------------------------------------------------------------------------
(* Counting braces                                                         *)

Places(text, char, a, b) == {k \in a..b : text[k] = char}

LEMMA OccurrencesFinite ==
    ASSUME NEW text, NEW char, NEW a \in Int, NEW b \in Int
    PROVE  /\ IsFiniteSet(Places(text, char, a, b))
           /\ Occurrences(text, char, a, b) = Cardinality(Places(text, char, a, b))
           /\ Occurrences(text, char, a, b) \in Nat
<1> DEFINE S == {k \in a..b : text[k] = char}
<1>1. IsFiniteSet(a..b) /\ S \in SUBSET (a..b)
  BY FS_Interval
<1>2. IsFiniteSet(S)
  <2> HIDE DEF S
  <2> QED BY <1>1, FS_Subset
<1>3. Cardinality(S) \in Nat
  <2> HIDE DEF S
  <2> QED BY <1>2, FS_CardinalityType
<1> QED BY <1>2, <1>3 DEF Occurrences, Places

\* The occurrences in two parts of a text.
LEMMA OccurrencesAdd ==
    ASSUME NEW text, NEW char, NEW a \in Int, NEW b \in Int, NEW c \in Int,
           a <= b + 1, b <= c
    PROVE  Occurrences(text, char, a, c) =
                Occurrences(text, char, a, b) + Occurrences(text, char, b + 1, c)
<1> DEFINE S == Places(text, char, a, b)
           T == Places(text, char, b + 1, c)
<1>1. Places(text, char, a, c) = S \cup T /\ S \cap T = {}
  BY DEF Places
<1>2. b + 1 \in Int
  OBVIOUS
<1>3. /\ IsFiniteSet(S) /\ IsFiniteSet(T)
      /\ Occurrences(text, char, a, b) = Cardinality(S)
      /\ Occurrences(text, char, b + 1, c) = Cardinality(T)
      /\ Cardinality(S) \in Nat /\ Cardinality(T) \in Nat
  BY <1>2, OccurrencesFinite
<1>4. Occurrences(text, char, a, c) = Cardinality(S \cup T)
  BY <1>1, OccurrencesFinite
<1> HIDE DEF S, T
<1>5. Cardinality(S \cup T) = Cardinality(S) + Cardinality(T) - Cardinality({})
  BY <1>1, <1>3, FS_Union
<1> QED BY <1>3, <1>4, <1>5, FS_EmptySet

\* The balance of two parts of a text.
LEMMA BalanceAdd ==
    ASSUME NEW text, NEW a \in Int, NEW b \in Int, NEW c \in Int, a <= b + 1, b <= c
    PROVE  /\ Balance(text, a, b) \in Int /\ Balance(text, b + 1, c) \in Int
           /\ Balance(text, a, c) = Balance(text, a, b) + Balance(text, b + 1, c)
<1>1. ASSUME NEW char
      PROVE  /\ Occurrences(text, char, a, b) \in Nat
             /\ Occurrences(text, char, b + 1, c) \in Nat
             /\ Occurrences(text, char, a, c) =
                    Occurrences(text, char, a, b) + Occurrences(text, char, b + 1, c)
  <2>1. b + 1 \in Int
    OBVIOUS
  <2> QED BY <2>1, OccurrencesFinite, OccurrencesAdd
<1> QED BY <1>1 DEF Balance

\* The balance of no character, and of one.
Weight(char) == IF char = Open THEN 1 ELSE IF char = Close THEN 0 - 1 ELSE 0

LEMMA BalanceOfOne ==
    ASSUME NEW text, NEW k \in Int
    PROVE  Balance(text, k, k - 1) = 0 /\ Balance(text, k, k) = Weight(text[k])
<1>1. ASSUME NEW char
      PROVE  /\ Occurrences(text, char, k, k - 1) = 0
             /\ Occurrences(text, char, k, k) = IF text[k] = char THEN 1 ELSE 0
  <2>1. {i \in k..k-1 : text[i] = char} = {}
    OBVIOUS
  <2>2. {i \in k..k : text[i] = char} = IF text[k] = char THEN {k} ELSE {}
    OBVIOUS
  <2>3. Occurrences(text, char, k, k - 1) = 0
    BY <2>1, FS_EmptySet DEF Occurrences
  <2>4. CASE text[k] = char
    BY <2>2, <2>3, <2>4, FS_Singleton DEF Occurrences
  <2>5. CASE text[k] # char
    BY <2>2, <2>3, <2>5, FS_EmptySet DEF Occurrences
  <2> QED BY <2>4, <2>5
<1>2. Open # Close
  BY DEF Open, Close
<1>3. Balance(text, k, k - 1) = 0
  BY <1>1 DEF Balance
<1>4. Balance(text, k, k) = (IF text[k] = Open THEN 1 ELSE 0)
                                - (IF text[k] = Close THEN 1 ELSE 0)
  BY <1>1 DEF Balance
<1> QED BY <1>2, <1>3, <1>4 DEF Weight

\* One more character.
LEMMA BalanceStep ==
    ASSUME NEW text, NEW a \in Int, NEW k \in Int, a <= k
    PROVE  /\ Balance(text, a, k - 1) \in Int /\ Balance(text, a, k) \in Int
           /\ Balance(text, a, k) = Balance(text, a, k - 1) + Weight(text[k])
<1> DEFINE b == k - 1
<1>1. b \in Int /\ a <= b + 1 /\ b <= k /\ b + 1 = k
  OBVIOUS
<1> HIDE DEF b
<1>2. /\ Balance(text, a, b) \in Int /\ Balance(text, b + 1, k) \in Int
      /\ Balance(text, a, k) = Balance(text, a, b) + Balance(text, b + 1, k)
  BY <1>1, BalanceAdd
<1>3. Balance(text, k, k) = Weight(text[k])
  BY BalanceOfOne
<1>4. Weight(text[k]) \in Int
  BY DEF Weight
<1> QED BY <1>1, <1>2, <1>3, <1>4 DEF b

\* A part of a text counts as it does in the text.
LEMMA BalanceOfPart ==
    ASSUME NEW text \in Seq(STRING), NEW i \in 1..Len(text), NEW j \in i..Len(text),
           NEW k \in 0..(j - i + 1)
    PROVE  Balance(SubSeq(text, i, j), 1, k) = Balance(text, i, i + k - 1)
<1> DEFINE part == SubSeq(text, i, j)
<1>1. \A m \in 1..(j - i + 1) : part[m] = text[i + m - 1]
  BY LenProperties
<1>2. i \in Int /\ j \in Int /\ k \in Int /\ i + k - 1 \in Int
  BY LenProperties
<1>3. ASSUME NEW char
      PROVE  Occurrences(part, char, 1, k) = Occurrences(text, char, i, i + k - 1)
  <2> DEFINE S == Places(part, char, 1, k)
             T == Places(text, char, i, i + k - 1)
             F == [m \in S |-> i + m - 1]
  <2>1. \A m \in S : F[m] \in T
    BY <1>1, <1>2 DEF Places
  <2>2. \A m, n \in S : F[m] = F[n] => m = n
    BY <1>2 DEF Places
  <2>3. ASSUME NEW n \in T
        PROVE  \E m \in S : F[m] = n
    <3>1. n \in i..(i + k - 1) /\ text[n] = char
      BY DEF Places
    <3> DEFINE m == n - i + 1
    <3>2. m \in 1..k /\ m \in 1..(j - i + 1) /\ i + m - 1 = n
      BY <1>2, <3>1
    <3>3. m \in S
      <4>1. part[m] = char
        BY <1>1, <3>1, <3>2
      <4> HIDE DEF m, part
      <4> QED BY <4>1, <3>2 DEF Places
    <3> HIDE DEF S
    <3> QED BY <3>2, <3>3
  <2>4. F \in [S -> T] /\ \A n \in T : \E m \in S : F[m] = n
    BY <2>1, <2>3
  <2> HIDE DEF F
  <2>5. F \in Bijection(S, T)
    BY <2>2, <2>4 DEF Bijection, Injection, Surjection, IsInjective
  <2>6. IsFiniteSet(S) /\ ExistsBijection(S, T)
    BY <1>2, <2>5, OccurrencesFinite DEF ExistsBijection
  <2>7. Cardinality(S) = Cardinality(T)
    <3> HIDE DEF S, T
    <3> QED BY <2>6, FS_Bijection
  <2> QED BY <1>2, <2>7, OccurrencesFinite
<1> HIDE DEF part
<1>4. Balance(part, 1, k) = Balance(text, i, i + k - 1)
  BY <1>3 DEF Balance
<1> QED BY <1>4 DEF part

-----------------------------------------------------------------------------
(* A slug: its braces, its colon                                           *)

\* A text with a brace around it that is not closed before its end.
IsSlug(text) ==
    /\ text \in Seq(STRING) /\ Len(text) >= 2
    /\ text[1] = Open /\ text[Len(text)] = Close
    /\ Balance(text, 1, Len(text)) = 0
    /\ \A k \in 1..Len(text)-1 : Balance(text, 1, k) > 0

\* Where a slug is in a text.
IsSpan(text, slug) ==
    /\ slug.at \in 1..Len(text) /\ slug.len \in 2..Len(text)
    /\ slug.at + slug.len - 1 <= Len(text)

LEMMA OuterSlugText ==
    ASSUME NEW text \in Seq(STRING), NEW slug \in OuterSlugs(text)
    PROVE  /\ slug \in [at : 1..Len(text), len : 2..Len(text)] /\ IsSpan(text, slug)
           /\ IsSlug(SpanText(text, slug)) /\ Len(SpanText(text, slug)) = slug.len
<1> DEFINE i == slug.at
           j == slug.at + slug.len - 1
           part == SubSeq(text, i, j)
<1>1. /\ slug \in [at : 1..Len(text), len : 2..Len(text)]
      /\ j <= Len(text) /\ text[i] = Open /\ text[j] = Close
      /\ Depth(text, i - 1) = 0 /\ Depth(text, j) = 0
      /\ \A k \in i..j-1 : Depth(text, k) > 0
  BY DEF OuterSlugs
<1>2. /\ i \in 1..Len(text) /\ slug.len \in 2..Len(text) /\ j \in i..Len(text)
      /\ Len(text) \in Nat /\ j - i + 1 = slug.len
  BY <1>1, LenProperties
<1> HIDE DEF i, j
<1>3. /\ part \in Seq(STRING) /\ Len(part) = slug.len
      /\ part[1] = text[i] /\ part[slug.len] = text[j]
  BY <1>2
<1>4. ASSUME NEW k \in 1..slug.len
      PROVE  Balance(part, 1, k) = Depth(text, i + k - 1)
  <2> DEFINE b == i - 1
             c == i + k - 1
  <2>1. b \in Int /\ c \in Int /\ 1 <= b + 1 /\ b <= c /\ b + 1 = i /\ k \in 0..(j - i + 1)
    BY <1>2
  <2>2. Balance(part, 1, k) = Balance(text, i, c)
    BY <1>2, <2>1, BalanceOfPart
  <2>3. Depth(text, b) = 0
    BY <1>1 DEF i
  <2> HIDE DEF b, c
  <2>4. /\ Balance(text, b + 1, c) \in Int
        /\ Balance(text, 1, c) = Balance(text, 1, b) + Balance(text, b + 1, c)
    BY <2>1, BalanceAdd
  <2>5. Balance(part, 1, k) = Depth(text, c)
    BY <2>1, <2>2, <2>3, <2>4 DEF Depth
  <2> QED BY <2>5 DEF c
<1>5. Balance(part, 1, slug.len) = 0
  <2>1. slug.len \in 1..slug.len /\ i + slug.len - 1 = j
    BY <1>2
  <2> QED BY <1>1, <1>4, <2>1 DEF i, j
<1>6. ASSUME NEW k \in 1..slug.len-1
      PROVE  Balance(part, 1, k) > 0
  <2>1. k \in 1..slug.len /\ i + k - 1 \in i..j-1
    BY <1>2
  <2>2. Depth(text, i + k - 1) > 0
    BY <1>1, <2>1 DEF i, j
  <2> QED BY <1>4, <2>1, <2>2
<1>7. IsSlug(part)
  <2>1. Len(part) >= 2 /\ part[1] = Open /\ part[Len(part)] = Close
    BY <1>1, <1>2, <1>3 DEF i, j
  <2> HIDE DEF part
  <2> QED BY <1>3, <1>5, <1>6, <2>1 DEF IsSlug
<1>8. part = SpanText(text, slug)
  BY DEF SpanText, i, j
<1> HIDE DEF part
<1> QED BY <1>1, <1>2, <1>3, <1>7, <1>8 DEF IsSpan, i, j

\* The colon of a slug is between its braces, and the brace is open there.
LEMMA ColonInside ==
    ASSUME NEW text, IsSlug(text), NEW c, c = Strnchr(text, Colon), c # Null
    PROVE  /\ c \in 2..Len(text)-1 /\ text[c] = Colon
           /\ \A i \in 1..c-1 : text[i] # Colon
           /\ \A k \in c..Len(text) :
                /\ Balance(text, c + 1, k) \in Int /\ Balance(text, 1, c) \in Int
                /\ Balance(text, 1, k) = Balance(text, 1, c) + Balance(text, c + 1, k)
<1>1. /\ text \in Seq(STRING) /\ Len(text) \in Nat /\ Len(text) >= 2
      /\ text[1] = Open /\ text[Len(text)] = Close
  BY LenProperties DEF IsSlug
<1>2. /\ c \in 1..Len(text) /\ text[c] = Colon
      /\ \A i \in 1..c-1 : text[i] # Colon
  BY <1>1, StrnchrIs
<1>3. c # 1 /\ c # Len(text)
  BY <1>1, <1>2 DEF Open, Close, Colon
<1>4. c \in 2..Len(text)-1
  BY <1>1, <1>2, <1>3
<1>5. ASSUME NEW k \in c..Len(text)
      PROVE  /\ Balance(text, c + 1, k) \in Int /\ Balance(text, 1, c) \in Int
             /\ Balance(text, 1, k) = Balance(text, 1, c) + Balance(text, c + 1, k)
  <2>1. 1 \in Int /\ c \in Int /\ k \in Int /\ 1 <= c + 1 /\ c <= k
    BY <1>1, <1>4
  <2> QED BY <2>1, BalanceAdd
<1> QED BY <1>2, <1>4, <1>5

\* Where the pattern of a slug can end.
PatternEnds(text, c) == {k \in c+1..Len(text) : Balance(text, c + 1, k) = -1}

\* A slug with a colon has a pattern: counting from the colon on, the balance
\* falls below 0 by its end, and by one at a time.
LEMMA PatternExists ==
    ASSUME NEW text, IsSlug(text), NEW c, c = Strnchr(text, Colon), c # Null
    PROVE  PatternEnds(text, c) # {}
<1> DEFINE L == Len(text)
           B(k) == Balance(text, c + 1, k)
           Below == {k \in c..L : B(k) < 0}
<1>1. /\ c \in 2..L-1 /\ L \in Nat
      /\ \A k \in c..L : /\ B(k) \in Int /\ Balance(text, 1, c) \in Int
                         /\ Balance(text, 1, k) = Balance(text, 1, c) + B(k)
  BY ColonInside, LenProperties DEF IsSlug
<1>2. Balance(text, 1, c) > 0 /\ Balance(text, 1, L) = 0
  <2>1. c \in 1..L-1
    BY <1>1
  <2> QED BY <2>1 DEF IsSlug
<1>3. L \in Below
  <2>1. L \in c..L
    BY <1>1
  <2>2. Balance(text, 1, L) = Balance(text, 1, c) + B(L) /\ B(L) \in Int
        /\ Balance(text, 1, c) \in Int
    BY <1>1, <2>1
  <2> HIDE DEF B
  <2> QED BY <1>2, <2>1, <2>2
<1> DEFINE k == Min(Below)
<1>4. k \in Below /\ \A y \in Below : k <= y
  <2>1. Below \subseteq Nat /\ Below # {}
    BY <1>1, <1>3
  <2> HIDE DEF Below
  <2> QED BY <2>1, LeastNatural
<1> HIDE DEF k
<1>5. k \in c..L /\ B(k) < 0
  BY <1>4
<1>6. B(c) = 0
  <2>1. c + 1 \in Int /\ (c + 1) - 1 = c
    BY <1>1
  <2>2. Balance(text, c + 1, (c + 1) - 1) = 0
    BY <2>1, BalanceOfOne
  <2> QED BY <2>1, <2>2
<1>7. k # c /\ k \in c+1..L /\ k - 1 \in c..L /\ ~(k <= k - 1)
  <2> HIDE DEF B
  <2>1. k # c
    BY <1>5, <1>6
  <2> QED BY <1>1, <1>5, <2>1
<1>8. ~(B(k - 1) < 0) /\ B(k - 1) \in Int
  BY <1>1, <1>4, <1>7
<1>9. B(k) = B(k - 1) + Weight(text[k])
  <2>1. c + 1 \in Int /\ k \in Int /\ c + 1 <= k
    BY <1>1, <1>7
  <2> QED BY <2>1, BalanceStep
<1>10. Weight(text[k]) \in {0 - 1, 0, 1}
  BY DEF Weight
<1>11. B(k) = -1
  <2> HIDE DEF B
  <2> QED BY <1>5, <1>8, <1>9, <1>10
<1> QED BY <1>7, <1>11 DEF PatternEnds

\* If there is no brace before the colon, the pattern ends before the last one.
LEMMA PatternIs ==
    ASSUME NEW text, IsSlug(text), NEW c, c = Strnchr(text, Colon), c # Null,
           \A k \in 2..c : text[k] # Open
    PROVE  FindPattern(text) = [at |-> c + 1, len |-> Len(text) - c - 1]
<1> DEFINE L == Len(text)
           D(k) == Balance(text, 1, k)
           B(k) == Balance(text, c + 1, k)
           Above == {k \in 1..c : D(k) > 1}
<1>1. /\ c \in 2..L-1 /\ L \in Nat
      /\ \A k \in c..L : B(k) \in Int /\ D(c) \in Int /\ D(k) = D(c) + B(k)
  BY ColonInside, LenProperties DEF IsSlug
<1>2. /\ \A k \in 1..L : D(k) \in Int
      /\ \A k \in 1..L-1 : D(k) > 0
      /\ D(L) = 0 /\ text[1] = Open
  <2>1. \A k \in 1..L : 1 \in Int /\ k \in Int /\ 1 <= k
    BY <1>1
  <2>2. \A k \in 1..L : D(k) \in Int
    BY <2>1, BalanceStep
  <2> QED BY <2>2 DEF IsSlug
<1>3. D(1) = 1
  BY <1>2, BalanceOfOne DEF Weight
<1>4. ASSUME NEW k \in 2..c
      PROVE  D(k) <= D(k - 1) /\ D(k) \in Int /\ D(k - 1) \in Int
  <2>1. 1 \in Int /\ k \in Int /\ 1 <= k
    BY <1>1
  <2>2. /\ D(k) \in Int /\ D(k - 1) \in Int
        /\ D(k) = D(k - 1) + Weight(text[k])
    BY <2>1, BalanceStep
  <2>3. Weight(text[k]) \in {0, 0 - 1}
    BY DEF Weight
  <2> HIDE DEF D
  <2> QED BY <2>2, <2>3
<1> HIDE DEF D
<1>5. Above = {}
  <2> SUFFICES ASSUME Above # {}
               PROVE  FALSE
    OBVIOUS
  <2> DEFINE k == Min(Above)
  <2>1. k \in Above /\ \A y \in Above : k <= y
    <3>1. Above \subseteq Nat
      BY <1>1
    <3> HIDE DEF Above
    <3> QED BY <3>1, LeastNatural
  <2> HIDE DEF k
  <2>2. k \in 1..c /\ D(k) > 1
    BY <2>1
  <2>3. k # 1
    BY <1>3, <2>2
  <2>4. k \in 2..c /\ k - 1 \in 1..c /\ ~(k <= k - 1)
    BY <1>1, <2>2, <2>3
  <2>5. ~(D(k - 1) > 1)
    BY <2>1, <2>4
  <2> QED BY <1>4, <2>2, <2>4, <2>5
<1>6. D(c) = 1
  <2>1. c \in 1..c /\ c \in 1..L /\ c \in 1..L-1
    BY <1>1
  <2>2. ~(D(c) > 1) /\ D(c) > 0 /\ D(c) \in Int
    BY <1>2, <1>5, <2>1
  <2> QED BY <2>2
<1>7. \A k \in c+1..L : B(k) = -1 <=> k = L
  <2> TAKE k \in c+1..L
  <2>1. k \in c..L /\ k \in 1..L /\ (k # L => k \in 1..L-1)
    BY <1>1
  <2>2. B(k) \in Int /\ D(k) = D(c) + B(k) /\ D(k) \in Int
    BY <1>1, <1>2, <2>1
  <2>3. k # L => D(k) > 0
    BY <1>2, <2>1
  <2> HIDE DEF B
  <2> QED BY <1>2, <1>6, <2>2, <2>3
<1>8. PatternEnds(text, c) = {L}
  <2>1. L \in c+1..L
    BY <1>1
  <2> QED BY <1>7, <2>1 DEF PatternEnds
<1>9. Min(PatternEnds(text, c)) = L
  <2> DEFINE T == PatternEnds(text, c)
  <2>1. L \in T /\ \A y \in T : L <= y
    BY <1>1, <1>8
  <2>2. T \subseteq Nat
    BY <1>1, <1>8
  <2> HIDE DEF T, L
  <2>3. Min(T) = L
    BY <2>1, <2>2, LeastIs
  <2> QED BY <2>3 DEF T
<1>10. FindPattern(text) = [at |-> c + 1, len |-> Min(PatternEnds(text, c)) - c - 1]
  BY <1>8 DEF FindPattern, PatternEnds
<1> QED BY <1>9, <1>10

\* A slug without a pattern has no colon.
LEMMA NoPattern ==
    ASSUME NEW text, IsSlug(text)
    PROVE  FindPattern(text) = NoSpan <=> Strnchr(text, Colon) = Null
<1> DEFINE c == Strnchr(text, Colon)
<1>1. FindPattern(text) = IF c = Null \/ PatternEnds(text, c) = {} THEN NoSpan
                          ELSE [at |-> c + 1, len |-> Min(PatternEnds(text, c)) - c - 1]
  BY DEF FindPattern, PatternEnds
<1>2. CASE c = Null
  BY <1>1, <1>2
<1>3. CASE c # Null
  <2>1. PatternEnds(text, c) # {} /\ c \in 2..Len(text)-1
    BY <1>3, PatternExists, ColonInside
  <2>2. c + 1 # Null
    BY <2>1 DEF Null, IsSlug
  <2> DEFINE found == [at |-> c + 1, len |-> Min(PatternEnds(text, c)) - c - 1]
  <2>3. FindPattern(text) = found
    BY <1>1, <1>3, <2>1
  <2>4. found.at # NoSpan.at
    BY <2>2 DEF NoSpan
  <2> HIDE DEF found
  <2> QED BY <1>3, <2>3, <2>4
<1> QED BY <1>2, <1>3

-----------------------------------------------------------------------------
(* The name of a slug                                                      *)

\* r3_slug_find_name on a slug of n characters at the beginning of a text: the
\* name ends before the first colon, or with the slug if there is none in it or
\* right behind it.
LEMMA NameFound ==
    ASSUME NEW text \in Seq(STRING), NEW n \in 2..Len(text)
    PROVE  LET name == FindName(text, [at |-> 1, len |-> n]) IN
           /\ \A c \in 2..n : text[c] = Colon /\ (\A k \in 2..c-1 : text[k] # Colon)
                                => name = SubSeq(text, 2, c - 1)
           /\ /\ \A k \in 2..n : text[k] # Colon
              /\ n < Len(text) => text[n + 1] # Colon
              => name = SubSeq(text, 2, n - 1)
<1> DEFINE slug == [at |-> 1, len |-> n]
           name == FindName(text, slug)
           last == Min({1 + n, Len(text)})
           part == SubSeq(text, 2, last)
           colon == Strnchr(part, Colon)
<1>1. Len(text) \in Nat /\ n \in Nat /\ n >= 2 /\ n <= Len(text)
  BY LenProperties
<1>2. /\ last = IF n < Len(text) THEN n + 1 ELSE Len(text)
  <2>1. CASE n < Len(text)
    <3>1. {1 + n, Len(text)} \subseteq Nat /\ 1 + n \in {1 + n, Len(text)}
          /\ \A y \in {1 + n, Len(text)} : 1 + n <= y
      BY <1>1, <2>1
    <3> DEFINE T == {1 + n, Len(text)}
               x == 1 + n
    <3>2. T \subseteq Nat /\ x \in T /\ \A y \in T : x <= y
      BY <3>1
    <3> HIDE DEF T, x
    <3>3. Min(T) = x
      BY <3>2, LeastIs
    <3> QED BY <2>1, <3>3 DEF T, x
  <2>2. CASE ~(n < Len(text))
    <3>1. {1 + n, Len(text)} \subseteq Nat /\ Len(text) \in {1 + n, Len(text)}
          /\ \A y \in {1 + n, Len(text)} : Len(text) <= y
      BY <1>1, <2>2
    <3> DEFINE T == {1 + n, Len(text)}
               x == Len(text)
    <3>2. T \subseteq Nat /\ x \in T /\ \A y \in T : x <= y
      BY <3>1
    <3> HIDE DEF T, x
    <3>3. Min(T) = x
      BY <3>2, LeastIs
    <3> QED BY <2>2, <3>3 DEF T, x
  <2> QED BY <2>1, <2>2
<1> HIDE DEF last
<1>3. last \in Nat /\ n <= last /\ last <= Len(text)
  BY <1>1, <1>2
<1>4. /\ part \in Seq(STRING) /\ Len(part) = last - 1
      /\ \A k \in 1..last-1 : part[k] = text[k + 1]
  BY <1>1, <1>3
<1>5. name = SubSeq(text, 2, IF colon # Null THEN colon ELSE n - 1)
  <2>1. /\ slug.at + 1 = 2 /\ slug.at + slug.len = 1 + n
        /\ slug.len - 2 = n - 2
    OBVIOUS
  <2>2. name = SubSeq(text, 2,
                      2 + (IF colon # Null THEN colon - 1 ELSE n - 2) - 1)
    BY <2>1 DEF FindName, last
  <2>3. colon \in Nat
    <3> HIDE DEF part
    <3> QED BY <1>4, StrnchrIs DEF Null
  <2> HIDE DEF colon, name
  <2>4. 2 + (IF colon # Null THEN colon - 1 ELSE n - 2) - 1
            = IF colon # Null THEN colon ELSE n - 1
    BY <1>1, <2>3
  <2> QED BY <2>2, <2>4
<1>6. \/ /\ colon = Null
         /\ \A i \in 1..Len(part) : part[i] # Colon
      \/ /\ colon \in 1..Len(part) /\ part[colon] = Colon
         /\ \A i \in 1..colon-1 : part[i] # Colon
  BY <1>4, StrnchrIs
<1> HIDE DEF part, colon, name
<1>7. ASSUME NEW c \in 2..n, text[c] = Colon, \A k \in 2..c-1 : text[k] # Colon
      PROVE  name = SubSeq(text, 2, c - 1)
  <2>1. c - 1 \in 1..Len(part) /\ part[c - 1] = Colon
    <3>1. c - 1 \in 1..last-1 /\ (c - 1) + 1 = c
      BY <1>1, <1>3
    <3> QED BY <1>4, <1>7, <3>1
  <2>2. colon \in 1..Len(part) /\ part[colon] = Colon
        /\ \A i \in 1..colon-1 : part[i] # Colon
    BY <1>6, <2>1
  <2>3. ~(c - 1 < colon)
    <3>1. ASSUME c - 1 < colon
          PROVE  c - 1 \in 1..colon-1
      BY <1>1, <1>3, <1>4, <2>1, <2>2, <3>1
    <3> QED BY <2>1, <2>2, <3>1
  <2>4. ~(colon < c - 1)
    <3>1. ASSUME colon < c - 1
          PROVE  colon + 1 \in 2..c-1 /\ text[colon + 1] = Colon
      <4>1. colon \in 1..last-1 /\ colon + 1 \in 2..c-1
        BY <1>1, <1>3, <1>4, <2>2, <3>1
      <4> QED BY <1>4, <2>2, <4>1
    <3> QED BY <1>7, <3>1
  <2>5. colon = c - 1 /\ colon # Null
    <3>1. colon \in Nat /\ colon # 0 /\ c - 1 \in Nat
      BY <1>1, <1>3, <1>4, <2>2
    <3> QED BY <2>3, <2>4, <3>1 DEF Null
  <2> QED BY <1>5, <2>5
<1>8. ASSUME \A k \in 2..n : text[k] # Colon,
             n < Len(text) => text[n + 1] # Colon
      PROVE  name = SubSeq(text, 2, n - 1)
  <2>1. \A i \in 1..Len(part) : part[i] # Colon
    <3> TAKE i \in 1..Len(part)
    <3>1. i \in 1..last-1 /\ (i + 1 \in 2..n \/ (n < Len(text) /\ i + 1 = n + 1))
      BY <1>1, <1>2, <1>3, <1>4
    <3> QED BY <1>4, <1>8, <3>1
  <2>2. colon = Null
    BY <1>6, <2>1
  <2> QED BY <1>5, <2>2
<1> QED BY <1>7, <1>8 DEF name, slug

-----------------------------------------------------------------------------
(* The text between the braces                                             *)

\* The part of a text from one place to another.
LEMMA PartIs ==
    ASSUME NEW s \in Seq(STRING), NEW a \in 1..Len(s), NEW b \in a..Len(s)
    PROVE  /\ SubSeq(s, a, b) \in Seq(STRING)
           /\ Len(SubSeq(s, a, b)) = b - a + 1
           /\ \A i \in 1..b-a+1 : SubSeq(s, a, b)[i] = s[a + i - 1]
<1>1. a \in Int /\ b \in Int /\ a <= b /\ \A i \in a..b : i \in 1..Len(s)
  BY LenProperties
<1>2. \A i \in a..b : s[i] \in STRING
  BY <1>1, ElementOfSeq
<1> QED BY <1>1, <1>2, SubSeqProperties

\* Two texts that begin alike have the same parts there.
LEMMA SamePart ==
    ASSUME NEW s \in Seq(STRING), NEW t \in Seq(STRING), NEW n \in Nat,
           n <= Len(s), n <= Len(t), \A k \in 1..n : s[k] = t[k],
           NEW m \in 1..n
    PROVE  SubSeq(s, 2, m) = SubSeq(t, 2, m)
<1> DEFINE P(r) == SubSeq(r, 2, m)
<1>1. /\ Len(s) \in Nat /\ Len(t) \in Nat /\ m \in Nat /\ m >= 1
      /\ m <= Len(s) /\ m <= Len(t)
  BY LenProperties
<1>2. /\ P(s) \in Seq(STRING) /\ Len(P(s)) = m - 1
      /\ \A i \in 1..m-1 : P(s)[i] = s[i + 1]
  BY <1>1
<1>3. /\ P(t) \in Seq(STRING) /\ Len(P(t)) = m - 1
      /\ \A i \in 1..m-1 : P(t)[i] = t[i + 1]
  BY <1>1
<1>4. \A i \in 1..m-1 : s[i + 1] = t[i + 1]
  <2> TAKE i \in 1..m-1
  <2>1. i + 1 \in 1..n
    BY <1>1
  <2> QED BY <2>1
<1> HIDE DEF P
<1>5. P(s) = P(t)
  BY <1>2, <1>3, <1>4, SeqEqual
<1> QED BY <1>5 DEF P

\* What stands before a place, the character there and what stands behind it.
LEMMA PartsJoin ==
    ASSUME NEW s \in Seq(STRING), NEW c \in 2..Len(s)-1, NEW n \in c..Len(s)
    PROVE  SubSeq(s, 2, c - 1) \o <<s[c]>> \o SubSeq(s, c + 1, n) = SubSeq(s, 2, n)
<1> DEFINE A == SubSeq(s, 2, c - 1)
           X == <<s[c]>>
           B == SubSeq(s, c + 1, n)
           W == SubSeq(s, 2, n)
           J == A \o X
           K == J \o B
<1>1. Len(s) \in Nat /\ c \in Nat /\ n \in Nat /\ c >= 2 /\ c <= n /\ n <= Len(s)
      /\ s[c] \in STRING
  BY LenProperties
<1>2. A \in Seq(STRING) /\ Len(A) = c - 2 /\ \A i \in 1..c-2 : A[i] = s[i + 1]
  BY <1>1
<1>3. X \in Seq(STRING) /\ Len(X) = 1 /\ X[1] = s[c]
  BY <1>1
<1>4. B \in Seq(STRING) /\ Len(B) = n - c /\ \A i \in 1..n-c : B[i] = s[i + c]
  BY <1>1
<1>5. W \in Seq(STRING) /\ Len(W) = n - 1 /\ \A i \in 1..n-1 : W[i] = s[i + 1]
  BY <1>1
<1> HIDE DEF A, X, B, W
<1>6. /\ J \in Seq(STRING) /\ Len(J) = c - 1
      /\ \A i \in 1..c-2 : J[i] = A[i]
      /\ J[c - 1] = X[1]
  <2>1. /\ J \in Seq(STRING) /\ Len(J) = Len(A) + Len(X)
        /\ \A i \in 1..Len(A) + Len(X) :
                J[i] = IF i <= Len(A) THEN A[i] ELSE X[i - Len(A)]
    BY <1>2, <1>3, ConcatProperties
  <2> HIDE DEF J
  <2>2. Len(J) = c - 1
    BY <1>1, <1>2, <1>3, <2>1
  <2>3. \A i \in 1..c-2 : i \in 1..Len(A) + Len(X) /\ i <= Len(A)
    BY <1>1, <1>2, <1>3
  <2>4. /\ c - 1 \in 1..Len(A) + Len(X) /\ ~(c - 1 <= Len(A))
        /\ (c - 1) - Len(A) = 1
    BY <1>1, <1>2, <1>3
  <2>5. \A i \in 1..c-2 : J[i] = A[i]
    BY <2>1, <2>3
  <2>6. J[c - 1] = X[1]
    BY <2>1, <2>4
  <2> QED BY <2>1, <2>2, <2>5, <2>6
<1> HIDE DEF J
<1>7. /\ K \in Seq(STRING) /\ Len(K) = n - 1
      /\ \A i \in 1..c-1 : K[i] = J[i]
      /\ \A i \in c..n-1 : K[i] = B[i - (c - 1)]
  <2>1. /\ K \in Seq(STRING) /\ Len(K) = Len(J) + Len(B)
        /\ \A i \in 1..Len(J) + Len(B) :
                K[i] = IF i <= Len(J) THEN J[i] ELSE B[i - Len(J)]
    BY <1>4, <1>6, ConcatProperties
  <2> HIDE DEF K
  <2>2. Len(K) = n - 1
    BY <1>1, <1>4, <1>6, <2>1
  <2>3. \A i \in 1..c-1 : i \in 1..Len(J) + Len(B) /\ i <= Len(J)
    BY <1>1, <1>4, <1>6
  <2>4. \A i \in c..n-1 : i \in 1..Len(J) + Len(B) /\ ~(i <= Len(J))
    BY <1>1, <1>4, <1>6
  <2>5. \A i \in 1..c-1 : K[i] = J[i]
    BY <2>1, <2>3
  <2>6. \A i \in c..n-1 : K[i] = B[i - (c - 1)]
    BY <1>6, <2>1, <2>4
  <2> QED BY <2>1, <2>2, <2>5, <2>6
<1> HIDE DEF K
<1>8. ASSUME NEW i \in 1..n-1
      PROVE  K[i] = W[i]
  <2>1. CASE i \in 1..c-2
    <3>1. i \in 1..c-1
      BY <1>1, <2>1
    <3> QED BY <1>2, <1>5, <1>6, <1>7, <2>1, <3>1
  <2>2. CASE i = c - 1
    <3>1. i \in 1..c-1 /\ i + 1 = c
      BY <1>1, <2>2
    <3> QED BY <1>3, <1>5, <1>6, <1>7, <2>2, <3>1
  <2>3. CASE i \in c..n-1
    <3>1. i - (c - 1) \in 1..n-c /\ (i - (c - 1)) + c = i + 1
      BY <1>1, <2>3
    <3> QED BY <1>4, <1>5, <1>7, <2>3, <3>1
  <2> QED BY <1>1, <2>1, <2>2, <2>3
<1>9. K = W
  BY <1>5, <1>7, <1>8, SeqEqual
<1> QED BY <1>9 DEF K, J, A, X, B, W

\* What NameAndPattern says of a slug in a text.
PartsOf(t, slug) ==
    LET text == SpanText(t, slug)
        inside == SubSeq(text, 2, Len(text) - 1)
        name == FindName(SubSeq(t, slug.at, Len(t)), [slug EXCEPT !.at = 1])
        pattern == FindPattern(text)
        behind == slug.at + slug.len
    IN /\ /\ pattern = NoSpan
          /\ behind <= Len(t) => t[behind] # Colon
          => name = inside
       /\ /\ pattern # NoSpan
          /\ ~ContainsSlugChar(SubSeq(text, 2, NameEnd(text)))
          => name \o <<Colon>> \o SpanText(text, pattern) = inside

LEMMA SlugParts ==
    ASSUME NEW t \in Seq(STRING), NEW slug \in OuterSlugs(t)
    PROVE  PartsOf(t, slug)
<1> DEFINE text == SpanText(t, slug)
           inside == SubSeq(text, 2, Len(text) - 1)
           name == FindName(SubSeq(t, slug.at, Len(t)), [slug EXCEPT !.at = 1])
           pattern == FindPattern(text)
           behind == slug.at + slug.len
<1>0. /\ text = SpanText(t, slug)
      /\ inside = SubSeq(text, 2, Len(text) - 1)
      /\ name = FindName(SubSeq(t, slug.at, Len(t)), [slug EXCEPT !.at = 1])
      /\ pattern = FindPattern(text)
      /\ behind = slug.at + slug.len
  OBVIOUS
<1> HIDE DEF text, inside, name, pattern, behind
<1> USE <1>0
<1> DEFINE L == slug.len
           at == slug.at
           rest == SubSeq(t, at, Len(t))
           c == Strnchr(text, Colon)
<1>1. /\ slug \in [at : 1..Len(t), len : 2..Len(t)]
      /\ at \in 1..Len(t) /\ L \in 2..Len(t) /\ at + L - 1 <= Len(t)
      /\ IsSlug(text) /\ Len(text) = L /\ text \in Seq(STRING)
  BY OuterSlugText DEF IsSpan, IsSlug
<1>2. /\ Len(t) \in Nat /\ at \in Nat /\ L \in Nat /\ at >= 1 /\ L >= 2
      /\ behind = at + L
  BY <1>1, LenProperties
<1>3. text = SubSeq(t, at, at + L - 1)
  BY DEF SpanText
<1>4. [slug EXCEPT !.at = 1] = [at |-> 1, len |-> L]
  BY <1>1
<1>5. name = FindName(rest, [at |-> 1, len |-> L])
  BY <1>4
<1> HIDE DEF L, at
<1>6. /\ rest \in Seq(STRING) /\ Len(rest) = Len(t) - at + 1
      /\ \A k \in 1..Len(t)-at+1 : rest[k] = t[at + k - 1]
  <2>1. at \in 1..Len(t)+1 /\ Len(t) \in at-1..Len(t)
    BY <1>1, <1>2
  <2>2. /\ rest \in Seq(STRING)
        /\ Len(rest) = IF at <= Len(t) THEN Len(t) - at + 1 ELSE 0
        /\ \A k \in 1..Len(t)-at+1 : rest[k] = t[at + k - 1]
    BY <2>1, SubSeqProperties
  <2>3. at <= Len(t)
    BY <1>1, <1>2
  <2> HIDE DEF rest
  <2> QED BY <2>2, <2>3
<1>7. \A k \in 1..L : text[k] = t[at + k - 1]
  <2> DEFINE to == at + L - 1
  <2>1. at \in 1..Len(t)+1 /\ to \in at-1..Len(t) /\ to - at + 1 = L
    BY <1>1, <1>2
  <2> HIDE DEF to
  <2>2. \A k \in 1..to-at+1 : SubSeq(t, at, to)[k] = t[at + k - 1]
    BY <2>1, SubSeqProperties
  <2>3. text = SubSeq(t, at, to)
    BY <1>3 DEF to
  <2> QED BY <2>1, <2>2, <2>3
<1> HIDE DEF rest
<1>8. L \in 2..Len(rest) /\ L <= Len(rest) /\ \A k \in 1..L : k \in 1..Len(t)-at+1
  BY <1>1, <1>2, <1>6
<1>9. \A k \in 1..L : rest[k] = text[k]
  BY <1>6, <1>7, <1>8
<1>10. L < Len(rest) => behind <= Len(t) /\ rest[L + 1] = t[behind]
  <2> SUFFICES ASSUME L < Len(rest)
               PROVE  behind <= Len(t) /\ rest[L + 1] = t[behind]
    OBVIOUS
  <2>1. L + 1 <= Len(t) - at + 1
    BY <1>2, <1>6
  <2>2. L + 1 \in 1..Len(t)-at+1
    BY <1>2, <2>1
  <2>3. at + (L + 1) - 1 = behind
    BY <1>2
  <2>4. behind <= Len(t)
    BY <1>2, <2>1
  <2> QED BY <1>6, <2>2, <2>3, <2>4
<1>11. \A m \in 1..L : SubSeq(rest, 2, m) = SubSeq(text, 2, m)
  <2> TAKE m \in 1..L
  <2>1. L <= Len(text) /\ L \in Nat
    BY <1>1, <1>2
  <2>2. \A k \in 1..L : rest[k] = text[k]
    BY <1>9
  <2>3. rest \in Seq(STRING) /\ text \in Seq(STRING) /\ L <= Len(rest)
    BY <1>1, <1>6, <1>8
  <2> QED BY ONLY <2>1, <2>2, <2>3, SamePart
<1>12. /\ \A k \in 2..L : rest[k] = Colon /\ (\A i \in 2..k-1 : rest[i] # Colon)
                            => name = SubSeq(rest, 2, k - 1)
       /\ /\ \A k \in 2..L : rest[k] # Colon
          /\ L < Len(rest) => rest[L + 1] # Colon
          => name = SubSeq(rest, 2, L - 1)
  BY <1>5, <1>6, <1>8, NameFound
<1>13. pattern = NoSpan <=> c = Null
  BY <1>1, NoPattern
<1>14. ASSUME pattern = NoSpan, behind <= Len(t) => t[behind] # Colon
       PROVE  name = inside
  <2>1. \A k \in 1..L : text[k] # Colon
    <3>1. \/ c = Null /\ \A k \in 1..Len(text) : text[k] # Colon
          \/ c \in 1..Len(text)
      BY <1>1, StrnchrIs
    <3>2. c = Null
      BY <1>13, <1>14
    <3>3. ~(c \in 1..Len(text))
      BY <3>2 DEF Null
    <3> HIDE DEF c
    <3> QED BY <1>1, <3>1, <3>3
  <2>2. \A k \in 2..L : k \in 1..L
    BY <1>2
  <2>3. \A k \in 2..L : rest[k] # Colon
    BY <1>9, <2>1, <2>2
  <2>4. L < Len(rest) => rest[L + 1] # Colon
    BY <1>10, <1>14
  <2>5. L - 1 \in 1..L
    BY <1>2
  <2> QED BY <1>1, <1>11, <1>12, <2>3, <2>4, <2>5
<1>15. ASSUME pattern # NoSpan, ~ContainsSlugChar(SubSeq(text, 2, NameEnd(text)))
       PROVE  name \o <<Colon>> \o SpanText(text, pattern) = inside
  <2> DEFINE first == SubSeq(text, 2, c)
  <2>1. c # Null
    BY <1>13, <1>15
  <2>2. NameEnd(text) = c
    BY DEF NameEnd, Strnchr
  <2>3. /\ c \in 2..Len(text)-1 /\ text[c] = Colon
        /\ \A i \in 1..c-1 : text[i] # Colon
    BY <1>1, <2>1, ColonInside
  <2>4. Strnchr(first, Open) = Null
    BY <1>15, <2>2 DEF ContainsSlugChar
  <2> HIDE DEF c
  <2>5. /\ first \in Seq(STRING) /\ Len(first) = c - 1
        /\ \A k \in 1..c-1 : first[k] = text[k + 1]
    <3>1. c \in Nat /\ 2 \in 1..Len(text) /\ c \in 2..Len(text)
      BY <1>1, <1>2, <2>3
    <3>2. /\ first \in Seq(STRING) /\ Len(first) = c - 2 + 1
          /\ \A k \in 1..c-2+1 : first[k] = text[2 + k - 1]
      BY <1>1, <3>1, PartIs
    <3> HIDE DEF first
    <3>3. c - 2 + 1 = c - 1 /\ \A k \in 1..c-1 : 2 + k - 1 = k + 1
      BY <3>1
    <3> QED BY <3>2, <3>3
  <2> HIDE DEF first
  <2>6. \A k \in 1..Len(first) : first[k] # Open
    BY <2>4, <2>5, StrnchrIs DEF Null
  <2>7. \A k \in 2..c : text[k] # Open
    <3> TAKE k \in 2..c
    <3>1. k - 1 \in 1..c-1 /\ (k - 1) + 1 = k
      BY <1>1, <1>2, <2>3
    <3> QED BY <2>5, <2>6, <3>1
  <2>8. pattern = [at |-> c + 1, len |-> L - c - 1]
    <3>1. c = Strnchr(text, Colon)
      BY DEF c
    <3> QED BY <1>1, <2>1, <2>7, <3>1, PatternIs
  <2>9. SpanText(text, pattern) = SubSeq(text, c + 1, L - 1)
    <3>1. pattern.at = c + 1 /\ pattern.len = L - c - 1
      BY <2>8
    <3>2. c \in Nat /\ (c + 1) + (L - c - 1) - 1 = L - 1
      BY <1>1, <1>2, <2>3
    <3> QED BY <3>1, <3>2 DEF SpanText
  <2>10. name = SubSeq(text, 2, c - 1)
    <3>1. c \in 2..L /\ c - 1 \in 1..L /\ c \in 1..L
      BY <1>1, <1>2, <2>3
    <3>2. rest[c] = Colon
      BY <1>9, <2>3, <3>1
    <3>3. \A i \in 2..c-1 : i \in 1..L /\ i \in 1..c-1
      BY <1>2, <3>1
    <3>4. \A i \in 2..c-1 : rest[i] # Colon
      BY <1>9, <2>3, <3>3
    <3> QED BY <1>11, <1>12, <3>1, <3>2, <3>4
  <2>11. L - 1 \in c..Len(text)
    BY <1>1, <1>2, <2>3
  <2>12. SubSeq(text, 2, c - 1) \o <<text[c]>> \o SubSeq(text, c + 1, L - 1)
            = SubSeq(text, 2, L - 1)
    BY <1>1, <2>3, <2>11, PartsJoin
  <2> QED BY <1>1, <2>3, <2>9, <2>10, <2>12
<1>16. /\ /\ pattern = NoSpan
          /\ behind <= Len(t) => t[behind] # Colon
          => name = inside
       /\ /\ pattern # NoSpan
          /\ ~ContainsSlugChar(SubSeq(text, 2, NameEnd(text)))
          => name \o <<Colon>> \o SpanText(text, pattern) = inside
  BY <1>14, <1>15
<1> QED BY <1>16 DEF PartsOf, text, inside, name, pattern, behind

-----------------------------------------------------------------------------
(* The theorem                                                             *)

\* NameAndPattern for every pattern, whatever its length and however deep its
\* braces nest: r3_slug_find_name, which looks for a colon in the text behind the
\* slug's brace, and r3_slug_find_pattern, which counts braces from the colon on,
\* part the text of a slug between them.
THEOREM NamesAndPatterns == SearchSpec => []NameAndPattern
<1> DEFINE IsText == path \in Seq(STRING)
<1>1. SearchInit => IsText
  BY SearchesAssumption DEF SearchInit
<1>2. IsText /\ [SearchStep]_searchVars => IsText'
  BY DEF SearchStep, searchVars
<1>3. IsText => NameAndPattern
  <2> SUFFICES ASSUME IsText, NEW slug \in OuterSlugs(path)
               PROVE  LET text == SpanText(path, slug)
                          inside == SubSeq(text, 2, Len(text) - 1)
                          name == FindName(SubSeq(path, slug.at, Len(path)),
                                           [slug EXCEPT !.at = 1])
                          pattern == FindPattern(text)
                          behind == slug.at + slug.len
                      IN CASE /\ pattern = NoSpan
                              /\ behind <= Len(path) => path[behind] # Colon ->
                                  name = inside
                           [] ~ContainsSlugChar(SubSeq(text, 2, NameEnd(text))) ->
                                  pattern # NoSpan =>
                                      name \o <<Colon>> \o SpanText(text, pattern)
                                        = inside
                           [] OTHER -> TRUE
    BY DEF NameAndPattern
  <2> DEFINE text == SpanText(path, slug)
             inside == SubSeq(text, 2, Len(text) - 1)
             name == FindName(SubSeq(path, slug.at, Len(path)), [slug EXCEPT !.at = 1])
             pattern == FindPattern(text)
             behind == slug.at + slug.len
             Alone == /\ pattern = NoSpan
                      /\ behind <= Len(path) => path[behind] # Colon
             Plain == ~ContainsSlugChar(SubSeq(text, 2, NameEnd(text)))
             Whole == name = inside
             Parted == name \o <<Colon>> \o SpanText(text, pattern) = inside
  <2>1. (Alone => Whole) /\ (pattern # NoSpan /\ Plain => Parted)
    <3>1. path \in Seq(STRING) /\ slug \in OuterSlugs(path)
      OBVIOUS
    <3> QED BY <3>1, SlugParts DEF PartsOf
  <2>2. (CASE Alone -> Whole [] Plain -> (pattern # NoSpan => Parted) [] OTHER -> TRUE)
    <3> HIDE DEF Alone, Plain, Whole, Parted, pattern
    <3> QED BY <2>1
  <2> QED BY <2>2
<1> HIDE DEF IsText
<1> QED BY <1>1, <1>2, <1>3, PTL DEF SearchSpec
=============================================================================
