----------------------------- MODULE MCR3Match ------------------------------
(***************************************************************************)
(* Instances of R3Match for TLC.                                           *)
(***************************************************************************)
EXTENDS R3Match

MCLiterals == {"/", "a", "7"}

MCSlugOpcode == [slug \in Slugs |->
                    CASE slug = "{id}"       -> "NOSLASH"
                      [] slug = "{n:[0-9]+}" -> "DIGITS"
                      [] slug = "{x:.*}"     -> "GREEDY"
                      [] slug = "{y:7|a}"    -> "NONE"
                      [] OTHER               -> "NOSLASH"]

\* The empty pattern, which is the root's own, literal and slug routes that
\* compete, a slug that may be empty, a pattern of several slugs, a slug no
\* opcode stands for, and two malformed patterns, the second of which is
\* refused after edges have been split for it.
MCPaths == {
    <<>>,
    <<"/">>,
    <<"/", "a">>,
    <<"/", "a", "/", "7">>,
    <<"/", "{id}">>,
    <<"/", "a", "/", "{id}">>,
    <<"/", "{n:[0-9]+}", "a">>,
    <<"/", "a", "{x:.*}">>,
    <<"/", "{id}", "/", "{n:[0-9]+}">>,
    <<"/", "{y:7|a}">>,
    <<"/", "a", "{id">>,
    <<"/", "a", "/", "{id}", "}">> }

\* Fewer patterns, with different methods on the same path.
MCFewPaths == {
    <<"/", "a">>,
    <<"/", "{id}">>,
    <<"/", "a", "{x:.*}">>,
    <<"/", "a", "/", "{n:[0-9]+}">>,
    <<"/", "a", "{id">> }

MCMethods == {{}, {"GET"}}

MCRequests ==
    [path : {<<"/">>, <<"/", "a">>, <<"/", "7">>, <<"/", "7", "a">>,
             <<"/", "a", "/", "7">>, <<"/", "7", "/", "a">>,
             <<"/", "a", "/">>, <<"a">>, <<>>},
     method : {{"GET"}}]

MCMethodRequests ==
    [path : {<<"/", "a">>, <<"/", "7">>, <<"/", "a", "/", "7">>},
     method : {{}, {"GET"}, {"POST"}}]

\* The route and the request of the README's example, shortened to one
\* character a segment: "/users/{user_id}/feeds/{feed_id}".
MCFeedsLiterals == {"/", "u", "f", "1", "2"}
MCFeeds == {<<"/", "u", "/", "{user_id}", "/", "f", "/", "{feed_id}">>}
MCFeedsRequest ==
    {[path |-> <<"/", "u", "/", "1", "/", "f", "/", "2">>, method |-> {"GET"}]}

\* A slug route and a literal beside it.
MCLiteralBesideSlug == {<<"/", "{id}">>, <<"/", "a">>}
=============================================================================
