SPECIFICATION Spec
CONSTANTS
    Width = 2
    Words = 2
    Chars = {"a", "b", "*"}
    Star = "*"
    Routes <- MCRoutes
    Requests <- MCRequests
INVARIANTS
    FoundIsAllowed RefusedForAReason
CHECK_DEADLOCK FALSE
