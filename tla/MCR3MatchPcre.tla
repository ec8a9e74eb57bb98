--------------------------- MODULE MCR3MatchPcre ----------------------------
(***************************************************************************)
(* Instances of R3MatchPcre for TLC.                                       *)
(***************************************************************************)
EXTENDS R3MatchPcre

MCLiterals == {"/", "a", "7"}

MCSlugOpcode == [slug \in Slugs |->
                    CASE slug = "{n:[0-9]+}" -> "DIGITS"
                      [] slug = "{y:7|a}"    -> "NONE"
                      [] slug = "{b:(}"      -> "NONE"
                      [] OTHER               -> "NOSLASH"]

MCPcreLanguage == [slug \in {"{y:7|a}"} |-> {<<"7">>, <<"a">>}]

\* Literals beside slugs, slugs that compete, a slug no opcode stands for, a
\* pattern of several slugs, and one PCRE does not compile.
MCPaths == {
    <<>>,
    <<"/">>,
    <<"/", "a">>,
    <<"/", "{id}">>,
    <<"/", "a", "/", "{id}">>,
    <<"/", "{n:[0-9]+}", "a">>,
    <<"/", "{id}", "/", "{n:[0-9]+}">>,
    <<"/", "{y:7|a}">>,
    <<"/", "{b:(}">> }

MCRequests ==
    [path : {<<"/">>, <<"/", "a">>, <<"/", "7">>, <<"/", "7", "a">>,
             <<"/", "a", "/", "7">>, <<"/", "7", "/", "7">>,
             <<"/", "a", "/">>, <<"a">>, <<>>},
     method : {{"GET"}}]
=============================================================================
