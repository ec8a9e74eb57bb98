---------------------------- MODULE MCR3Binding -----------------------------
(***************************************************************************)
(* Instances of R3Binding for TLC.                                         *)
(***************************************************************************)
EXTENDS R3Binding

MCLiterals == {"/", "a"}
MCSlugOpcode == [slug \in Slugs |-> "NOSLASH"]
MCSlugName == [slug \in Slugs |-> "id"]

\* A literal that is split by the next, a path with a slash to be dropped, and a
\* pattern that is refused after it has split an edge.
MCRawPaths == {
    <<"/">>,
    <<"/", "a", "a", "/">>,
    <<"/", "a", "{id}">>,
    <<"/", "a", "{id}", "/", "{id">> }
MCPaths == (MCRawPaths \ {<<"/", "a", "a", "/">>}) \cup {<<"/", "a", "a">>}
MCMethods == {{"GET"}, {"GET", "POST"}}

MCRequests == {
    [path |-> <<"/", "a", "a">>, method |-> {"GET"}],
    [path |-> <<"/">>, method |-> {"POST"}],
    [path |-> <<"/", "a", "a", "/">>, method |-> {}] }
=============================================================================
