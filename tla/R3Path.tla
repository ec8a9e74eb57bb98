------------------------------- MODULE R3Path -------------------------------
(***************************************************************************)
(* Route patterns and request paths, token by token.                       *)
(*                                                                         *)
(* A route pattern such as "/users/{id}" is a sequence of tokens.  A token *)
(* is a literal character, a whole slug "{...}" (its name and its pattern  *)
(* together), or one of the two ways a pattern can be malformed: a slug    *)
(* that is opened and never closed, and a '}' that closes nothing.         *)
(* find_common_prefix never leaves a prefix that ends inside a slug, so    *)
(* the tree only ever cuts a pattern between two tokens.                   *)
(*                                                                         *)
(* A request path holds literal characters only.                           *)
(***************************************************************************)
EXTENDS Integers, SequencesExt

CONSTANTS
    Literals,       \* characters that are neither '{' nor '}'
    Alpha, Digits,  \* the literals isalpha and isdigit accept
    Slash, Dash, Newline,
    Slugs,          \* slug texts, "{name}" or "{name:pattern}"
    Nested,         \* those with braces in their pattern, as "{n:[0-9]{2}}"
    SlugOpcode,     \* opcode of a slug: r3_slug_find_pattern, r3_slug_compile
                    \* and r3_pattern_to_opcode applied to its text
    Unclosed,       \* "{..." up to the end of the pattern; behind a stray '}',
                    \* one brace and the beginning of no other token
    StrayClose      \* a '}' outside any slug

Opcodes == {"NOSLASH", "NODASH", "ALPHA", "DIGITS", "WORDS", "GREEDY", "NONE"}

Malformed == {Unclosed, StrayClose}
Token == Literals \cup Slugs \cup Malformed

ASSUME TokensDistinct ==
    /\ Literals \cap Slugs = {}
    /\ Malformed \cap (Literals \cup Slugs) = {}

ASSUME NestedAssumption == Nested \subseteq Slugs

ASSUME SlugOpcodeAssumption == SlugOpcode \in [Slugs -> Opcodes]

-----------------------------------------------------------------------------
(* Slugs of a pattern                                                      *)

SlugPositions(path) == {i \in 1..Len(path) : path[i] \in Slugs}
HasSlug(path) == SlugPositions(path) # {}

\* r3_path_contains_slug_char: a slug, or one that is never closed.
HasBrace(path) == \E i \in 1..Len(path) : path[i] \in Slugs \cup {Unclosed}

\* The slugs get_slugs collects for a route, in order.
SlugsOf(path) ==
    FlattenSeq([i \in 1..Len(path) |->
                    IF path[i] \in Slugs THEN <<path[i]>> ELSE <<>>])

-----------------------------------------------------------------------------
(* Malformed patterns                                                      *)

HasMalformed(path) == \E i \in 1..Len(path) : path[i] \in Malformed

Occurrences(token, path) == {i \in 1..Len(path) : path[i] = token}

\* Mutant: only a positive state is an error.
CountFails_OpenOnly(path) == Occurrences(Unclosed, path) # {}

\* r3_slug_count ends in a state other than 0.
CountFails(path) ==
    Cardinality(Occurrences(StrayClose, path))
        # Cardinality(Occurrences(Unclosed, path))

\* The flaws of a pattern make up for each other, as those of "/}a{" do: it has
\* as many '{' as '}', and r3_slug_count takes it for well formed.
MakesUp(path) ==
    /\ HasMalformed(path)
    /\ Cardinality(Occurrences(StrayClose, path))
        = Cardinality(Occurrences(Unclosed, path))

\* The slugs r3_slug_count counts.  Behind a stray '}' its state is negative,
\* and a slug's '}' is not met in state 1.
CountedSlugs(path) ==
    {i \in SlugPositions(path) : \A j \in 1..i : path[j] # StrayClose}

OneFlaw(path) ==
    \A i, j \in 1..Len(path) :
        path[i] \in Malformed /\ path[j] \in Malformed => i = j

FirstFlaw(path, b) ==
    /\ b \in 1..Len(path)
    /\ path[b] \in Malformed
    /\ \A i \in 1..b-1 : path[i] \notin Malformed

\* With k tokens in common, the loop of r3_slug_parse calls comes upon the first
\* flaw, at b: it skips the slugs before it if they are in the prefix, and goes
\* on if the pattern does.
Stumbles(path, k, b) ==
    /\ FirstFlaw(path, b)
    /\ \A i \in SlugPositions(path) : i < b => i <= k /\ k < Len(path)

\* Behind a stray '}' r3_slug_parse takes the inner braces of a slug for a slug.
InnerTaken(path) ==
    \E i, j \in 1..Len(path) : i < j /\ path[i] = StrayClose /\ path[j] \in Nested

\* r3_slug_parse returns -1 in find_common_prefix: for a slug left open, and for
\* a stray '}' if some '{' follows and it takes no inner braces for a slug.
ParseFails(path, k) ==
    /\ CountFails(path)
    /\ \E b \in 1..Len(path) :
        /\ Stumbles(path, k, b)
        /\ \/ path[b] = Unclosed
           \/ HasBrace(SubSeq(path, b + 1, Len(path))) /\ ~InnerTaken(path)

\* The loop gets no slug from a call that returns 1, because the flaws make up
\* for each other, and the pattern goes on behind the prefix.  It goes on with
\* the slug of the call before, for ever, or with NULL where there was none.
ParseLost(path, k) ==
    /\ MakesUp(path)
    /\ k < Len(path)
    /\ \E b \in 1..Len(path) : Stumbles(path, k, b)

-----------------------------------------------------------------------------
(* Where a pattern of several slugs is broken                              *)

\* At the next '{' the second r3_slug_find_placeholder finds.  Its search starts
\* one character late, so it misses a slug that directly follows the first one.
BreakPoints(path) ==
    {j \in SlugPositions(path) :
        \E first \in SlugPositions(path) :
            /\ \A i \in SlugPositions(path) : first <= i
            /\ j > first + 1}

\* A slug with braces in its pattern directly follows another slug: that search
\* finds the inner ones.
NestedAdjacent(path) ==
    \E i \in SlugPositions(path) : i < Len(path) /\ path[i + 1] \in Nested

-----------------------------------------------------------------------------
(* Prefixes                                                                *)

\* The first k tokens of s and of t are the same.
Share(s, t, k) ==
    /\ k \in 0..Len(s)
    /\ k <= Len(t)
    /\ \A i \in 1..k : s[i] = t[i]

Upto(path, k) == SubSeq(path, 1, k)
After(path, k) == SubSeq(path, k + 1, Len(path))

-----------------------------------------------------------------------------
(* What an opcode consumes: the scanning loops of r3_tree_matchl_base      *)

Accepts == [NOSLASH |-> Literals \ {Slash},
            NODASH  |-> Literals \ {Dash},
            ALPHA   |-> Alpha,
            DIGITS  |-> Digits,
            WORDS   |-> Alpha \cup Digits,
            GREEDY  |-> Literals \ {Newline},
            NONE    |-> {}]

\* Length of the longest run of accepted characters at the start of text.
RunLength(opcode, text) ==
    CHOOSE k \in 0..Len(text) :
        /\ \A i \in 1..k : text[i] \in Accepts[opcode]
        /\ k < Len(text) => text[k+1] \notin Accepts[opcode]

\* r3_route_cmp on the request method: a mask is a set of method bits, and the
\* masks are only compared when neither is 0.
MethodFits(routeMethod, requestMethod) ==
    \/ {} \in {routeMethod, requestMethod}
    \/ routeMethod \cap requestMethod # {}
=============================================================================
