----------------------------- MODULE RouteTable -----------------------------
(***************************************************************************)
(* What R3::Tree promises of "add": the routes added are a table that only *)
(* grows.  A request to add a well-formed pattern puts it in the table in  *)
(* one step, one with a malformed pattern leaves the table as it was, and  *)
(* every request is answered.                                              *)
(***************************************************************************)
EXTENDS Naturals

CONSTANTS Patterns, WellFormed(_), Methods, NoRequest

VARIABLES
    table,      \* the routes added
    request     \* the route being added, or NoRequest

vars == <<table, request>>

RouteEntry == [path : Patterns, method : Methods, data : Nat]

Init ==
    /\ table = {}
    /\ request = NoRequest

Submit ==
    /\ request = NoRequest
    /\ request' \in RouteEntry
    /\ UNCHANGED table

Accept ==
    /\ request # NoRequest
    /\ WellFormed(request.path)
    /\ table' = table \cup {request}
    /\ request' = NoRequest

Refuse ==
    /\ request # NoRequest
    /\ ~WellFormed(request.path)
    /\ request' = NoRequest
    /\ UNCHANGED table

Next == Submit \/ Accept \/ Refuse

Spec == Init /\ [][Next]_vars /\ WF_vars(Accept \/ Refuse)
=============================================================================
