------------------------------- MODULE Vector -------------------------------
(***************************************************************************)
(* The growing arrays of libr3 (R3_VECTOR in memory.h): the edges and      *)
(* routes of a node, the slugs of a route, the tokens of a match.          *)
(*                                                                         *)
(* A vector counts its elements and its room in unsigned ints, and asks    *)
(* for its memory in one.  All three wrap at Word.                         *)
(***************************************************************************)
EXTENDS Integers

CONSTANTS
    Word,           \* 2^w, w the width of unsigned int
    ElementSize,    \* sizeof((vector)->entries[0])
    MaxReserve      \* bound on the room asked for at once

ASSUME VectorAssumption ==
    /\ Word \in Nat /\ ElementSize \in Nat \ {0} /\ MaxReserve \in Nat
    /\ 4 <= MaxReserve /\ MaxReserve < Word

VARIABLES
    size,       \* elements in use
    capacity,   \* room the vector believes to have
    bytes,      \* memory that entries points to
    call        \* the call in progress: [pc, wanted, appends]

vars == <<size, capacity, bytes, call>>

Idle == [pc |-> "idle", wanted |-> 0, appends |-> FALSE]

Unsigned(n) == n % Word

-----------------------------------------------------------------------------
(* Actions                                                                 *)

\* An object filled with 0: r3_tree_create, r3_node_append_route,
\* match_entry_createl.
Init ==
    /\ size = 0
    /\ capacity = 0
    /\ bytes = 0
    /\ call = Idle

\* Mutants of Reserve: room is made only when there is none for the element
\* after the next; an empty vector starts with no room.
Reserve_OneLate(n, appends) ==
    /\ call = Idle
    /\ call' = [pc |-> IF capacity + 1 < n THEN "expand" ELSE "reserved",
                wanted |-> n, appends |-> appends]
    /\ capacity' = IF capacity + 1 < n /\ capacity = 0 THEN 4 ELSE capacity
    /\ UNCHANGED <<size, bytes>>

Reserve_FromZero(n, appends) ==
    /\ call = Idle
    /\ call' = [pc |-> IF capacity < n THEN "expand" ELSE "reserved",
                wanted |-> n, appends |-> appends]
    /\ UNCHANGED <<size, capacity, bytes>>

\* r3_vector__reserve, and the start of r3_vector__expand.
Reserve(n, appends) ==
    /\ call = Idle
    /\ call' = [pc |-> IF capacity < n THEN "expand" ELSE "reserved",
                wanted |-> n, appends |-> appends]
    /\ capacity' = IF capacity < n /\ capacity = 0 THEN 4 ELSE capacity
    /\ UNCHANGED <<size, bytes>>

\* r3_node_append_edge, r3_node_append_route, router_append_slug and
\* str_array_append reserve one more; r3_tree_create, match_entry_createl and
\* r3_node_append_route some to begin with.
BeginAppend == size < MaxReserve /\ Reserve(size + 1, TRUE)
BeginReserve == \E n \in 1..MaxReserve : Reserve(n, FALSE)

\* One turn of the loop.
Double ==
    /\ call.pc = "expand"
    /\ capacity < call.wanted
    /\ capacity' = Unsigned(2 * capacity)
    /\ UNCHANGED <<size, bytes, call>>

\* r3_mem_realloc, when there is memory.
Allocate ==
    /\ call.pc = "expand"
    /\ capacity >= call.wanted
    /\ bytes' = Unsigned(ElementSize * capacity)
    /\ call' = [call EXCEPT !.pc = "reserved"]
    /\ UNCHANGED <<size, capacity>>

\* r3_fatal("no memory") ends the process.
Die ==
    /\ call.pc = "expand"
    /\ capacity >= call.wanted
    /\ call' = [call EXCEPT !.pc = "dead"]
    /\ UNCHANGED <<size, capacity, bytes>>

\* Mutant: reserving counts as appending.
Finish_Always ==
    /\ call.pc = "reserved"
    /\ size' = size + 1
    /\ call' = Idle
    /\ UNCHANGED <<capacity, bytes>>

\* entries + size++ is cleared and written to.
Finish ==
    /\ call.pc = "reserved"
    /\ size' = IF call.appends THEN size + 1 ELSE size
    /\ call' = Idle
    /\ UNCHANGED <<capacity, bytes>>

InCall == Double \/ Allocate \/ Die \/ Finish

Next == BeginAppend \/ BeginReserve \/ InCall

Spec == Init /\ [][Next]_vars /\ WF_vars(InCall)

-----------------------------------------------------------------------------
(* Properties                                                              *)

VectorTypeOK ==
    /\ size \in 0..MaxReserve
    /\ capacity \in 0..Word - 1
    /\ bytes \in 0..Word - 1
    /\ call \in [pc : {"idle", "expand", "reserved", "dead"},
                 wanted : 0..MaxReserve, appends : BOOLEAN]

\* No wrap: twice the room ever asked for can be counted in bytes.
Roomy == 2 * MaxReserve * ElementSize < Word

\* Every element, the one about to be written included, lies in the memory
\* the last reallocation returned, and so does all the room the vector believes
\* to have: the next append tests nothing else.
ElementsCovered ==
    LET elements == IF call.pc = "reserved" /\ call.appends THEN size + 1
                    ELSE size
    IN /\ elements * ElementSize <= bytes
       /\ call.pc \in {"idle", "reserved"} => capacity * ElementSize <= bytes

\* The loop of r3_vector__expand ends.
CallsReturn == call.pc = "expand" ~> call.pc # "expand"
=============================================================================
