----------------------------- MODULE SlugSearch -----------------------------
(***************************************************************************)
(* r3_node_find_common_prefix on characters: the edge that shares most     *)
(* characters with a pattern, and the loop that parses the pattern's slugs *)
(* one by one so that the common prefix does not end inside one.           *)
(*                                                                         *)
(* R3Path and R3Tree take a slug for one token and say of this function    *)
(* what CommonPrefix, NoCommonPrefix and ParseFails say.  The instance     *)
(* Path below compares the two.                                            *)
(***************************************************************************)
EXTENDS SlugText

CONSTANT Searches   \* [path, edges] of the calls: the pattern searched for, and
                    \* the patterns on the edges of the node searched

ASSUME SearchesAssumption ==
    \A call \in Searches : /\ call.path \in Seq(STRING)
                           /\ call.edges \in Seq(Seq(STRING))

VARIABLES path, edges, search

searchVars == <<path, edges, search>>

-----------------------------------------------------------------------------
(* The loop over the edges                                                 *)

\* strndiff
SharedChars(edge) ==
    CHOOSE k \in 0..Len(edge) :
        /\ k <= Len(path)
        /\ \A i \in 1..k : path[i] = edge[i]
        /\ k < Len(path) /\ k < Len(edge) => path[k + 1] # edge[k + 1]

\* The first edge of those that share most.
BestEdge ==
    LET shared == [i \in 1..Len(edges) |-> SharedChars(edges[i])]
        most == Max({0} \cup {shared[i] : i \in 1..Len(edges)})
    IN IF most = 0 THEN Null ELSE SelectInSeq(shared, LAMBDA k : k = most)

-----------------------------------------------------------------------------
(* The loop of r3_slug_parse calls                                         *)

Started ==
    LET best == BestEdge
    IN [pc |-> IF best = Null THEN "done" ELSE "parse",
        edge |-> best,
        prefix |-> IF best = Null THEN 0 ELSE SharedChars(edges[best]),
        offset |-> 1, slug |-> NewSlug]

Parsed == SlugParse(path, search.offset, search.slug)

\* The pointer p, behind the prefix.
Behind == search.prefix + 1

Found(prefix) ==
    search' = [search EXCEPT !.pc = "done", !.prefix = prefix,
                             !.slug = Parsed.slug]

\* ret == -1
ParseError ==
    /\ Parsed.ret = -1
    /\ search' = [search EXCEPT !.pc = "error", !.slug = Parsed.slug]

\* ret == 0
NoSlugLeft ==
    /\ Parsed.ret = 0
    /\ Found(search.prefix)

\* Mutant: the prefix ends behind the '{'.
InsideSlug_KeepsBrace ==
    /\ Parsed.ret = 1
    /\ Parsed.slug.begin <= Behind /\ Behind <= Parsed.slug.end
    /\ Found(Parsed.slug.begin - 1)

\* The prefix ends inside the slug: go back to its '{'.
InsideSlug ==
    /\ Parsed.ret = 1
    /\ Parsed.slug.begin <= Behind /\ Behind <= Parsed.slug.end
    /\ Found(Parsed.slug.begin - 2)

BeforeSlug ==
    /\ Parsed.ret = 1
    /\ Behind < Parsed.slug.begin
    /\ Found(search.prefix)

\* Mutant: offset is not moved.
BehindSlug_Stays ==
    /\ Parsed.ret = 1
    /\ Parsed.slug.begin <= Behind /\ Parsed.slug.end < Behind
    /\ Behind <= Len(path)
    /\ search' = [search EXCEPT !.slug = Parsed.slug]

\* The slug is part of the prefix: parse on behind it.  A call that found no
\* slug and returns 1 leaves an end from before; without one, the offset is a
\* pointer made from NULL.
BehindSlug ==
    /\ Parsed.ret = 1
    /\ Parsed.slug.begin <= Behind /\ Parsed.slug.end < Behind
    /\ Behind <= Len(path)
    /\ search' = [search EXCEPT !.slug = Parsed.slug,
                                !.offset = Parsed.slug.end + 1,
                                !.pc = IF Parsed.slug.end = Null THEN "lost"
                                                                 ELSE "parse"]

\* The prefix is the whole pattern, and its last slug ends before it does.
AtEnd ==
    /\ Parsed.ret = 1
    /\ Parsed.slug.begin <= Behind /\ Parsed.slug.end < Behind
    /\ Behind > Len(path)
    /\ Found(search.prefix)

SearchInit ==
    /\ \E call \in Searches : path = call.path /\ edges = call.edges
    /\ search = Started

SearchStep ==
    /\ search.pc = "parse"
    /\ \/ ParseError
       \/ NoSlugLeft
       \/ InsideSlug
       \/ BeforeSlug
       \/ BehindSlug
       \/ AtEnd
    /\ UNCHANGED <<path, edges>>

SearchSpec == SearchInit /\ [][SearchStep]_searchVars

-----------------------------------------------------------------------------
(* The text as R3Path has it                                               *)

\* The tokens of a text: literals, slugs, a slug that is never closed, up to the
\* end of the text, and a '}' that closes nothing.
TokenAt(text, p) ==
    LET ends == {k \in p..Len(text) : Balance(text, p, k) = 0}
    IN CASE text[p] # Open               -> <<text[p]>>
         [] text[p] = Open /\ ends = {}  -> SubSeq(text, p, Len(text))
         [] text[p] = Open /\ ends # {}  -> SubSeq(text, p, Min(ends))

Tokens(text) ==
    LET from[p \in 1..Len(text)+1] ==
            IF p > Len(text) THEN <<>>
            ELSE LET token == TokenAt(text, p)
                 IN <<token>> \o from[p + Len(token)]
    IN from[1]

Chars(tokens) == FlattenSeq(tokens)

PatternTokens == Range(Tokens(path))
LiteralTokens == {token \in PatternTokens : token[1] \notin {Open, Close}}
SlugTokens ==
    {token \in PatternTokens :
        token[1] = Open /\ Balance(token, 1, Len(token)) = 0}

\* The pattern's slug that is never closed, or what is none of its tokens.
OpenTail ==
    LET last == Tokens(path)[Len(Tokens(path))]
    IN IF last[1] = Open /\ last \notin SlugTokens THEN last ELSE <<>>

Path == INSTANCE R3Path
            WITH Literals <- LiteralTokens, Slugs <- SlugTokens,
                 Unclosed <- OpenTail, StrayClose <- <<Close>>,
                 Nested <- {token \in SlugTokens :
                                Occurrences(token, Open, 2, Len(token)) > 0},
                 SlugOpcode <- [token \in SlugTokens |-> "NONE"],
                 Alpha <- {}, Digits <- {},
                 Slash <- <<"/">>, Dash <- <<"-">>, Newline <- <<"\n">>

\* No backslash stands before a brace.
PlainBraces(text) ==
    \A k \in 1..Len(text)-1 :
        text[k] = Escape => text[k + 1] \notin {Open, Close}

\* The patterns and edges that R3Path and R3Tree assume.
Assumed ==
    LET tokens == Tokens(path)
        there == UNION {Range(Tokens(edges[i])) : i \in 1..Len(edges)}
    IN /\ PlainBraces(path)
       /\ ~Path!OneFlaw(tokens) =>
            /\ ~Path!InnerTaken(tokens)
            /\ \A k \in 2..Len(OpenTail) : OpenTail[k] \notin {Open, Close}
            /\ OpenTail # <<>> =>
                \A token \in there : IsPrefix(OpenTail, token) => token = OpenTail
       /\ Path!InnerTaken(tokens) => \A i \in 1..Len(edges) : Balanced(edges[i])

-----------------------------------------------------------------------------
(* Properties                                                              *)

\* The number of tokens edge i shares with the pattern.
SharedTokens(i) ==
    LET here == Tokens(path) there == Tokens(edges[i])
    IN Max({k \in 0..Min({Len(here), Len(there)}) :
                \A j \in 1..k : here[j] = there[j]})

\* BehindSlug makes a pointer from NULL, or goes on where the parser was.
Lost ==
    /\ search.pc = "parse"
    /\ Parsed.ret = 1
    /\ Parsed.slug.end < search.offset
    /\ Behind <= Len(path)

\* What R3Tree builds on.  The search finds the edge that shares most tokens,
\* and its prefix is those tokens, never a part of a slug, although it counts
\* characters and slugs begin alike.  Where no token is shared it finds an empty
\* prefix.  It fails for the patterns ParseFails names, and if nothing is
\* shared for none but malformed ones, and it loses its way for those ParseLost
\* names.
PrefixIsTokens ==
    Assumed =>
        LET tokens == Tokens(path)
            most == Max({0} \cup {SharedTokens(i) : i \in 1..Len(edges)})
        IN /\ search.pc = "error" =>
                IF most > 0 THEN Path!ParseFails(tokens, most)
                            ELSE Path!CountFails(tokens)
           /\ Lost => most > 0 /\ Path!ParseLost(tokens, most)
           /\ search.pc = "done" =>
                /\ search.prefix = Len(Chars(SubSeq(tokens, 1, most)))
                /\ most > 0 => /\ SharedTokens(search.edge) = most
                               /\ ~Path!ParseFails(tokens, most)
                               /\ ~Path!ParseLost(tokens, most)

\* r3_slug_count, r3_path_contains_slug_char, r3_slug_find_placeholder and the
\* place an insertion breaks a pattern at, as R3Path has them.
ScansAreTokens ==
    LET tokens == Tokens(path)
        count == SlugCount(path)
        first == FindPlaceholder(path)
        behind == first.at + first.len
        second == FindPlaceholder(SubSeq(path, behind + 1, Len(path)))
        breaks == {Len(Chars(SubSeq(tokens, 1, j - 1))) + 1 :
                        j \in Path!BreakPoints(tokens)}
    IN Assumed =>
        /\ count = IF Path!CountFails(tokens) THEN -1
                   ELSE Cardinality(Path!CountedSlugs(tokens))
        /\ ContainsSlugChar(path) <=> Path!HasBrace(tokens)
        /\ SlugTexts(path) = Path!SlugsOf(tokens)
        /\ count > 1 /\ ~Path!NestedAdjacent(tokens) =>
                IF second = NoSpan THEN breaks = {}
                ELSE Min(breaks) = second.at + behind

\* slug.c: "Return 1 => Slug found".  A call that returns 1 leads on to one that
\* parses less of the pattern, if it does not end the loop.  This is said of
\* patterns without escaped braces, and of none that MakesUp.
ParsingAdvances ==
    [][Assumed /\ ~Path!MakesUp(Tokens(path)) =>
            \/ search'.pc = "parse" /\ search'.offset > search.offset
            \/ search'.pc \in {"done", "error"}]_searchVars

\* The first place of a text's slug where its name ends and its pattern begins.
NameEnd(slug) == SelectInSeq(slug, LAMBDA c : c = Colon)

\* Of every slug of a well-formed pattern, the name that becomes a key of the
\* answer's parameters and the pattern that becomes an opcode make up the text
\* between its braces, whatever stands around the slug and whatever braces and
\* colons the pattern holds.
NameAndPattern ==
    PlainBraces(path) /\ Balanced(path) =>
        \A slug \in OuterSlugs(path) :
            LET text == SpanText(path, slug)
                inside == SubSeq(text, 2, Len(text) - 1)
                name == FindName(SubSeq(path, slug.at, Len(path)),
                                 [slug EXCEPT !.at = 1])
                pattern == FindPattern(text)
                behind == slug.at + slug.len
            IN CASE /\ pattern = NoSpan
                    /\ behind <= Len(path) => path[behind] # Colon ->
                        name = inside
                 [] ~ContainsSlugChar(SubSeq(text, 2, NameEnd(text))) ->
                        pattern # NoSpan =>
                            name \o <<Colon>> \o SpanText(text, pattern) = inside
                 [] OTHER -> TRUE
=============================================================================
