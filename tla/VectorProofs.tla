---------------------------- MODULE VectorProofs ----------------------------
(***************************************************************************)
(* A vector never holds an element outside its memory, for every width of  *)
(* unsigned int, size of the elements and bound on what is asked for, as   *)
(* long as twice that bound can be counted in bytes.                       *)
(***************************************************************************)
EXTENDS Vector, TLAPS

\* Type, the bound on the room (which is what keeps the product from wrapping),
\* and what each state of a call knows of the memory.
CapacityBounded == capacity <= 2 * MaxReserve

MemoryKnown ==
    /\ size * ElementSize <= bytes
    /\ size <= capacity
    /\ call.pc \in {"idle", "reserved"} => bytes = ElementSize * capacity
    /\ call.pc = "reserved" => call.wanted <= capacity
    /\ call.pc = "expand" => capacity > 0
    /\ call.appends /\ call.pc # "idle" => call.wanted = size + 1

IInv == VectorTypeOK /\ CapacityBounded /\ MemoryKnown

-----------------------------------------------------------------------------
(* Arithmetic                                                              *)

\* Fewer elements need no more memory.
LEMMA FewerNeedLess ==
    ASSUME NEW m \in Nat, NEW n \in Nat, NEW s \in Nat, m <= n
    PROVE  m * s <= n * s
<1>1. PICK d \in Nat : n = m + d
  <2>1. n - m \in Nat /\ n = m + (n - m)
    OBVIOUS
  <2> QED BY <2>1
<1>2. n * s = m * s + d * s
  BY <1>1
<1>3. d * s \in Nat /\ m * s \in Nat
  OBVIOUS
<1> QED BY <1>2, <1>3

\* What does not exceed twice the bound is not changed by the width of unsigned
\* int, neither as a count of elements nor as a count of bytes.
LEMMA NothingWraps ==
    ASSUME Roomy, NEW n \in Nat, n <= 2 * MaxReserve
    PROVE  /\ Unsigned(n) = n
           /\ Unsigned(ElementSize * n) = ElementSize * n
<1> USE VectorAssumption
<1>1. n * ElementSize <= 2 * MaxReserve * ElementSize
  BY FewerNeedLess
<1>2. n * 1 <= n * ElementSize
  <2>1. 1 * n <= ElementSize * n
    BY FewerNeedLess
  <2> QED BY <2>1
<1>3. n * ElementSize \in Nat /\ n * ElementSize < Word /\ n < Word
  BY <1>1, <1>2 DEF Roomy
<1>4. n * ElementSize = ElementSize * n
  OBVIOUS
<1>5. \A k \in Nat : k < Word => k % Word = k
  OBVIOUS
<1> QED BY <1>3, <1>4, <1>5 DEF Unsigned

-----------------------------------------------------------------------------
(* The inductive invariant                                                 *)

LEMMA Initially == Init => IInv
BY VectorAssumption
   DEF Init, IInv, VectorTypeOK, CapacityBounded, MemoryKnown, Idle

\* Making room keeps the memory as it is; from no room it starts with four.
LEMMA ReserveKeeps ==
    ASSUME Roomy, IInv, NEW n \in 1..MaxReserve, NEW appends \in BOOLEAN,
           appends => n = size + 1, Reserve(n, appends)
    PROVE  IInv'
<1> USE VectorAssumption
<1> USE DEF IInv, VectorTypeOK, CapacityBounded, MemoryKnown, Idle
<1>1. /\ call.pc = "idle" /\ size' = size /\ bytes' = bytes
      /\ call' = [pc |-> IF capacity < n THEN "expand" ELSE "reserved",
                  wanted |-> n, appends |-> appends]
      /\ capacity' = IF capacity < n /\ capacity = 0 THEN 4 ELSE capacity
  BY DEF Reserve
<1>2. VectorTypeOK' /\ CapacityBounded'
  BY <1>1
<1>3. CASE capacity < n
  <2>1. call'.pc = "expand" /\ call'.wanted = n /\ call'.appends = appends
    BY <1>1, <1>3
  <2>2. size' <= capacity' /\ capacity' > 0
    BY <1>1
  <2>3. size' * ElementSize <= bytes'
    BY <1>1
  <2> QED BY <1>1, <1>2, <2>1, <2>2, <2>3
<1>4. CASE ~(capacity < n)
  <2>1. call'.pc = "reserved" /\ call'.wanted = n /\ call'.appends = appends
    BY <1>1, <1>4
  <2>2. capacity' = capacity /\ n <= capacity
    BY <1>1, <1>4
  <2>3. bytes' = ElementSize * capacity'
    BY <1>1, <2>2
  <2> QED BY <1>1, <1>2, <2>1, <2>2, <2>3
<1> QED BY <1>3, <1>4

\* A turn of the loop stays below twice what was asked for.
LEMMA DoubleKeeps ==
    ASSUME Roomy, IInv, Double
    PROVE  IInv'
<1> USE VectorAssumption
<1> USE DEF IInv, VectorTypeOK, CapacityBounded, MemoryKnown
<1>1. /\ call.pc = "expand" /\ capacity < call.wanted
      /\ capacity' = Unsigned(2 * capacity)
      /\ size' = size /\ bytes' = bytes /\ call' = call
  BY DEF Double
<1>2. 2 * capacity \in Nat /\ 2 * capacity <= 2 * MaxReserve
  BY <1>1
<1>3. capacity' = 2 * capacity
  BY <1>1, <1>2, NothingWraps
<1>4. Unsigned(2 * capacity) \in 0..Word - 1
  BY <1>2 DEF Unsigned
<1>5. VectorTypeOK' /\ CapacityBounded'
  BY <1>1, <1>2, <1>3, <1>4
<1>6. MemoryKnown'
  BY <1>1, <1>3
<1> QED BY <1>5, <1>6

\* The memory asked for is the memory the room takes.
LEMMA AllocateKeeps ==
    ASSUME Roomy, IInv, Allocate
    PROVE  IInv'
<1> USE VectorAssumption
<1> USE DEF IInv, VectorTypeOK, CapacityBounded, MemoryKnown
<1>1. /\ call.pc = "expand" /\ capacity >= call.wanted
      /\ bytes' = Unsigned(ElementSize * capacity)
      /\ call' = [call EXCEPT !.pc = "reserved"]
      /\ size' = size /\ capacity' = capacity
  BY DEF Allocate
<1>2. bytes' = ElementSize * capacity
  BY <1>1, NothingWraps
<1>3. Unsigned(ElementSize * capacity) \in 0..Word - 1
  BY DEF Unsigned
<1>4. size * ElementSize <= capacity * ElementSize
  BY FewerNeedLess
<1>5. VectorTypeOK' /\ CapacityBounded'
  BY <1>1, <1>3
<1>6. size' * ElementSize <= bytes'
  BY <1>1, <1>2, <1>4
<1>7. /\ call'.pc = "reserved" /\ call'.wanted = call.wanted
      /\ call'.appends = call.appends
  BY <1>1
<1> QED BY <1>1, <1>2, <1>5, <1>6, <1>7

LEMMA DieKeeps ==
    ASSUME IInv, Die
    PROVE  IInv'
<1> USE DEF IInv, VectorTypeOK, CapacityBounded, MemoryKnown
<1>1. /\ call' = [call EXCEPT !.pc = "dead"] /\ call.pc = "expand"
      /\ size' = size /\ capacity' = capacity /\ bytes' = bytes
  BY DEF Die
<1>2. /\ call'.pc = "dead" /\ call'.wanted = call.wanted
      /\ call'.appends = call.appends
  BY <1>1
<1> QED BY <1>1, <1>2

\* The element written is one the room was made for.
LEMMA FinishKeeps ==
    ASSUME Roomy, IInv, Finish
    PROVE  IInv'
<1> USE VectorAssumption
<1> USE DEF IInv, VectorTypeOK, CapacityBounded, MemoryKnown, Idle
<1>1. /\ call.pc = "reserved" /\ call' = Idle
      /\ size' = IF call.appends THEN size + 1 ELSE size
      /\ capacity' = capacity /\ bytes' = bytes
  BY DEF Finish
<1>2. size' \in Nat /\ size' <= capacity /\ size' <= MaxReserve
  BY <1>1
<1>3. size' * ElementSize <= capacity * ElementSize
  <2>1. \A m, n \in Nat : m <= n => m * ElementSize <= n * ElementSize
    BY FewerNeedLess
  <2> HIDE DEF IInv
  <2>2. capacity \in Nat
    BY DEF IInv
  <2> QED BY <1>2, <2>1, <2>2
<1>4. bytes' = capacity * ElementSize
  BY <1>1
<1>5. VectorTypeOK' /\ CapacityBounded'
  BY <1>1, <1>2
<1>6. call'.pc = "idle" /\ size' * ElementSize <= bytes'
  BY <1>1, <1>3, <1>4
<1>7. bytes' = ElementSize * capacity'
  BY <1>1
<1>8. MemoryKnown'
  BY <1>1, <1>2, <1>6, <1>7
<1> QED BY <1>5, <1>8

\* Every step keeps the invariant.
LEMMA Inductive ==
    ASSUME Roomy, IInv, [Next]_vars
    PROVE  IInv'
<1>1. CASE BeginAppend
  <2>1. size < MaxReserve /\ Reserve(size + 1, TRUE)
    BY <1>1 DEF BeginAppend
  <2>2. size + 1 \in 1..MaxReserve
    BY <2>1, VectorAssumption DEF IInv, VectorTypeOK
  <2> QED BY <2>1, <2>2, ReserveKeeps
<1>2. CASE BeginReserve
  <2>1. PICK n \in 1..MaxReserve : Reserve(n, FALSE)
    BY <1>2 DEF BeginReserve
  <2> QED BY <2>1, ReserveKeeps
<1>3. CASE Double
  BY <1>3, DoubleKeeps
<1>4. CASE Allocate
  BY <1>4, AllocateKeeps
<1>5. CASE Die
  BY <1>5, DieKeeps
<1>6. CASE Finish
  BY <1>6, FinishKeeps
<1>7. CASE UNCHANGED vars
  BY <1>7 DEF vars, IInv, VectorTypeOK, CapacityBounded, MemoryKnown
<1> QED BY <1>1, <1>2, <1>3, <1>4, <1>5, <1>6, <1>7 DEF Next, InCall

\* The invariant says that the elements are covered.
LEMMA IInvCovers == IInv => ElementsCovered
<1> SUFFICES ASSUME IInv PROVE ElementsCovered
  OBVIOUS
<1> USE VectorAssumption
<1> USE DEF IInv, VectorTypeOK, CapacityBounded, MemoryKnown
<1>1. call.pc \in {"idle", "reserved"} => capacity * ElementSize <= bytes
  OBVIOUS
<1>2. ASSUME call.pc = "reserved", call.appends
      PROVE  (size + 1) * ElementSize <= bytes
  <2>1. size + 1 \in Nat /\ size + 1 <= capacity
    BY <1>2
  <2>2. (size + 1) * ElementSize <= capacity * ElementSize
    BY <2>1, FewerNeedLess
  <2> QED BY <1>2, <2>2
<1> QED BY <1>1, <1>2 DEF ElementsCovered

-----------------------------------------------------------------------------
(* Theorems                                                                *)

\* What a vector asks for and counts stays within its types.
THEOREM VectorTypeCorrect ==
    ASSUME Roomy PROVE Spec => []VectorTypeOK
<1>1. Init => IInv
  BY Initially
<1>2. IInv /\ [Next]_vars => IInv'
  BY Inductive
<1>3. IInv => VectorTypeOK
  BY DEF IInv
<1> QED BY <1>1, <1>2, <1>3, PTL DEF Spec

\* r3_vector__expand covers every element that is written, however the calls that
\* reserve and append follow each other.
THEOREM VectorCovers ==
    ASSUME Roomy PROVE Spec => []ElementsCovered
<1>1. Init => IInv
  BY Initially
<1>2. IInv /\ [Next]_vars => IInv'
  BY Inductive
<1>3. IInv => ElementsCovered
  BY IInvCovers
<1> QED BY <1>1, <1>2, <1>3, PTL DEF Spec
=============================================================================
