------------------------------ MODULE SlugText ------------------------------
(***************************************************************************)
(* The scanners of slug.c and str.c, on characters.  R3Path takes a whole  *)
(* slug for one token; here it is text, and each of these functions finds  *)
(* its braces and colons in its own way: one counts braces, one counts and *)
(* skips escaped characters, one stops at the first colon.                 *)
(*                                                                         *)
(* A text is a sequence of characters.  A pointer into it is an index, and *)
(* the NULL pointer is 0.                                                  *)
(***************************************************************************)
EXTENDS Integers, SequencesExt, FiniteSetsExt

Open == "{"
Close == "}"
Colon == ":"
Escape == "\\"
Null == 0

-----------------------------------------------------------------------------
(* Counting braces                                                         *)

Occurrences(text, char, from, to) ==
    Cardinality({k \in from..to : text[k] = char})

\* What a counter that starts at 0 before position "from" shows after "to".
Balance(text, from, to) ==
    Occurrences(text, Open, from, to) - Occurrences(text, Close, from, to)

\* strnchr
Strnchr(text, char) == SelectInSeq(text, LAMBDA c : c = char)

\* r3_path_contains_slug_char
ContainsSlugChar(text) == Strnchr(text, Open) # Null

-----------------------------------------------------------------------------
(* r3_slug_find_placeholder, r3_slug_find_pattern, r3_slug_find_name       *)

NoSpan == [at |-> Null, len |-> 0]

\* Mutant: the scan stops at the first '}'.
FindPlaceholder_FirstClose(text) ==
    LET open == Strnchr(text, Open)
        ends == {k \in open+1..Len(text) : text[k] = Close}
    IN IF open = Null \/ ends = {} THEN NoSpan
       ELSE [at |-> open, len |-> Min(ends) - open + 1]

\* From the first '{' to the place where as many braces are closed as opened.
FindPlaceholder(text) ==
    LET open == Strnchr(text, Open)
        ends == {k \in open..Len(text) : Balance(text, open, k) = 0}
    IN IF open = Null \/ ends = {} THEN NoSpan
       ELSE [at |-> open, len |-> Min(ends) - open + 1]

\* Mutant: the counter starts at 0, as in r3_slug_find_placeholder.
FindPattern_CountsFromZero(slug) ==
    LET colon == Strnchr(slug, Colon)
        ends == {k \in colon+1..Len(slug) : Balance(slug, colon + 1, k) = 0}
    IN IF colon = Null \/ ends = {} THEN NoSpan
       ELSE [at |-> colon + 1, len |-> Min(ends) - colon - 1]

\* From behind the first ':' to the '}' that closes the slug's own brace.
FindPattern(slug) ==
    LET colon == Strnchr(slug, Colon)
        ends == {k \in colon+1..Len(slug) : Balance(slug, colon + 1, k) = -1}
    IN IF colon = Null \/ ends = {} THEN NoSpan
       ELSE [at |-> colon + 1, len |-> Min(ends) - colon - 1]

\* The name of the slug at this place of a text.  The colon is looked for in
\* as many characters as the slug has, counted from behind its '{'.
FindName(text, slug) ==
    LET first == slug.at + 1
        last == Min({slug.at + slug.len, Len(text)})
        colon == Strnchr(SubSeq(text, first, last), Colon)
        len == IF colon # Null THEN colon - 1 ELSE slug.len - 2
    IN SubSeq(text, first, first + len - 1)

\* The places get_slugs stops at: the placeholders of a text, one behind the
\* other.
Placeholders(text) ==
    LET from[p \in 1..Len(text)+1] ==
            LET found == FindPlaceholder(SubSeq(text, p, Len(text)))
                at == p + found.at - 1
            IN IF found = NoSpan THEN <<>>
               ELSE <<[at |-> at, len |-> found.len]>> \o from[at + found.len]
    IN from[1]

\* The texts of the placeholders.
SpanText(text, span) == SubSeq(text, span.at, span.at + span.len - 1)

SlugTexts(text) ==
    [i \in 1..Len(Placeholders(text)) |-> SpanText(text, Placeholders(text)[i])]

-----------------------------------------------------------------------------
(* r3_slug_count and r3_slug_parse                                         *)

CountStep(scan, char) ==
    IF scan.skip THEN [scan EXCEPT !.skip = FALSE]
    ELSE CASE char = Escape -> [scan EXCEPT !.skip = TRUE]
           [] char = Open   -> [scan EXCEPT !.state = @ + 1]
           [] char = Close  -> [scan EXCEPT !.state = @ - 1,
                                            !.count = @ + IF scan.state = 1
                                                          THEN 1 ELSE 0]
           [] OTHER         -> scan

\* -1 when the braces do not balance in the end.
SlugCount(text) ==
    LET scan == FoldLeft(CountStep, [count |-> 0, state |-> 0, skip |-> FALSE], text)
    IN IF scan.state = 0 THEN scan.count ELSE -1

NewSlug == [begin |-> Null, end |-> Null]

\* One character at p of the loop of r3_slug_parse.
ParseStep(scan, char) ==
    LET next == [scan EXCEPT !.p = @ + 1] IN
    CASE scan.closed -> scan
      [] scan.skip -> [next EXCEPT !.skip = FALSE]
      [] ~scan.skip /\ char = Escape -> [next EXCEPT !.skip = TRUE]
      [] ~scan.skip /\ char = Open ->
            [next EXCEPT !.state = @ + 1,
                         !.slug.begin = IF scan.state = 0 THEN scan.p + 1 ELSE @]
      [] ~scan.skip /\ char = Close ->
            [next EXCEPT !.state = @ - 1,
                         !.slug.end = IF scan.state = 1 THEN scan.p ELSE @,
                         !.closed = (scan.state = 1)]
      [] OTHER -> next

\* Parse one slug from the offset on.  ret is 0 when there is no '{', 1 when
\* the loop ended outside braces and -1 otherwise.  The slug is the caller's
\* and keeps what it held where the loop does not set it.
SlugParse(text, offset, slug) ==
    LET rest == SubSeq(text, offset, Len(text))
        scan == FoldLeft(ParseStep,
                         [p |-> offset, state |-> 0, slug |-> slug,
                          skip |-> FALSE, closed |-> FALSE], rest)
    IN IF ~ContainsSlugChar(rest) THEN [ret |-> 0, slug |-> slug]
       ELSE [ret |-> IF scan.state = 0 THEN 1 ELSE -1, slug |-> scan.slug]

-----------------------------------------------------------------------------
(* What the braces of a text mean, without a scanner                       *)

Depth(text, k) == Balance(text, 1, k)

\* The place where a slug begins that is not inside another, and its end.
OuterSlugs(text) ==
    {slug \in [at : 1..Len(text), len : 2..Len(text)] :
        LET first == slug.at
            last == slug.at + slug.len - 1
        IN /\ last <= Len(text) /\ text[first] = Open /\ text[last] = Close
           /\ Depth(text, first - 1) = 0 /\ Depth(text, last) = 0
           /\ \A k \in first..last-1 : Depth(text, k) > 0}

\* Every brace closes one that was opened before, and none stays open.
Balanced(text) ==
    /\ Depth(text, Len(text)) = 0
    /\ \A k \in 1..Len(text) : Depth(text, k) >= 0
=============================================================================
