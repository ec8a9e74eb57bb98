------------------------------ MODULE MCR3Tree ------------------------------
(***************************************************************************)
(* Instances of R3Tree for TLC.  The paths share prefixes that end before, *)
(* inside and after slugs, so that every way to insert occurs.             *)
(***************************************************************************)
EXTENDS R3Tree

MCLiterals == {"/", "a", "b"}
MCAlpha == {"a", "b"}
MCSlugOpcode == [slug \in Slugs |->
                    CASE slug = "{id}"      -> "NOSLASH"
                      [] slug = "{n:[0-9]+}"  -> "DIGITS"
                      [] slug = "{x:[0-9]{2}}" -> "NONE"]

\* Well-formed patterns, and three that are not: one is refused by
\* r3_slug_count, after edges have been split for it, one by r3_slug_parse, and
\* one by either.
MCPaths == {
    <<"/", "a">>,
    <<"/", "a", "b">>,
    <<"/", "a", "{id}">>,
    <<"/", "a", "{id}", "/", "b">>,
    <<"/", "{id}">>,
    <<"/", "{id}", "/", "{n:[0-9]+}">>,
    <<"/", "{n:[0-9]+}", "b">>,
    <<"/", "{x:[0-9]{2}}">>,
    <<"/", "a", "{y">>,
    <<"/", "a", "{id}", "/", "{y">>,
    <<"/", "b", "}", "/", "{id}">> }

\* Patterns with slugs next to each other: the second slug is missed, a later one
\* is found, and the process aborts or goes astray.
MCAdjacentPaths == {
    <<"/", "a">>,
    <<"/", "{id}">>,
    <<"/", "{id}", "{n:[0-9]+}">>,
    <<"/", "{id}", "{n:[0-9]+}", "/", "{x:[0-9]{2}}">>,
    <<"{id}", "{n:[0-9]+}", "{id}">>,
    <<"a", "b", "a", "{id}", "{n:[0-9]+}">> }

\* Patterns with two flaws that make up for each other, and patterns that get a
\* flaw into the tree on the way of one of them, or lose the parser there.
MCMakeUpPaths == {
    <<"/", "a">>,
    <<"/", "{id}">>,
    <<"/", "}", "b", "{y">>,
    <<"/", "}", "b">>,
    <<"/", "}", "{id}">>,
    <<"b", "}", "{id}", "a", "{y">>,
    <<"b", "}", "{id}", "a">>,
    <<"{id}", "a", "}", "{y">> }

\* A slug with braces in its pattern behind a stray '}'.
MCInnerPaths == MCPaths \cup {<<"/", "b", "}", "{x:[0-9]{2}}">>}

MCAllPaths == MCPaths \cup MCAdjacentPaths \cup MCMakeUpPaths

MCMethods == {{}, {"GET"}}
=============================================================================
