---------------------------- MODULE R3MatchPcre -----------------------------
(***************************************************************************)
(* Compiling and dispatching in a build with PCRE.  A node with slug edges *)
(* gets a regular expression of one alternative per edge, each with one    *)
(* group; which group has matched tells a match the edge to follow.        *)
(*                                                                         *)
(* PCRE itself is modelled by how node.c uses it: the first alternative    *)
(* that matches at the start of the path, with the longest text for its    *)
(* slug that lets the rest of the alternative match.                       *)
(***************************************************************************)
EXTENDS R3Match

CONSTANTS
    PcreLanguage,   \* for a slug without an opcode, the texts its pattern matches
    BadSlugs        \* slugs with a pattern PCRE cannot compile

\* An edge with a slug that is never closed is no expression modelled here.
ASSUME PcreAssumption ==
    /\ NoneMakesUp
    /\ BadSlugs \subseteq Slugs
    /\ {slug \in Slugs \ BadSlugs : SlugOpcode[slug] = "NONE"}
            \subseteq DOMAIN PcreLanguage

VARIABLES
    regex,      \* pcre_pattern of each node: the patterns of its alternatives
    compiled    \* history: nothing was added since compile last succeeded

pcreVars == <<matchVars, regex, compiled>>

NoRegex == <<>>     \* the NULL pcre_pattern

-----------------------------------------------------------------------------
(* pcre2_match                                                             *)

NoMatch == [alternative |-> 0, capture |-> <<>>, end |-> 0]

PcreTakes(slug, text) ==
    IF SlugOpcode[slug] = "NONE" THEN text \in PcreLanguage[slug]
                                 ELSE Takes(slug, text)

\* The number of characters of the path the slug at s of a pattern can take.
SlugLengths(pattern, s, path) ==
    {k \in 0..Len(path) - (s - 1) :
        /\ PcreTakes(pattern[s], SubSeq(path, s, s + k - 1))
        /\ IsPrefix(After(pattern, s), After(path, s - 1 + k))}

\* r3_slug_compile puts a group in place of the first slug of a pattern; what
\* follows is text, other slugs too.  A pattern without slugs is a group.
MatchAlternative(i, pattern, path) ==
    LET s == Min(SlugPositions(pattern))
        k == Max(SlugLengths(pattern, s, path))
    IN IF ~HasSlug(pattern)
       THEN IF IsPrefix(pattern, path)
            THEN [alternative |-> i, capture |-> pattern, end |-> Len(pattern)]
            ELSE NoMatch
       ELSE IF IsPrefix(Upto(pattern, s - 1), path) /\ s <= Len(path) + 1
                    /\ SlugLengths(pattern, s, path) # {}
       THEN [alternative |-> i, capture |-> SubSeq(path, s, s + k - 1),
             end |-> Len(pattern) - 1 + k]
       ELSE NoMatch

PcreMatch(patterns, path) ==
    LET first == SelectInSeq([i \in 1..Len(patterns) |->
                                MatchAlternative(i, patterns[i], path)],
                             LAMBDA match : match # NoMatch)
    IN IF first = 0 THEN NoMatch
       ELSE MatchAlternative(first, patterns[first], path)

-----------------------------------------------------------------------------
(* r3_tree_compile                                                         *)

\* The order its recursion visits the nodes in.
CompileOrder(tree) ==
    LET below[n \in 1..Len(tree)] ==
            <<n>> \o FlattenSeq([i \in 1..Len(tree[n].edges) |->
                                    below[tree[n].edges[i].child]])
    IN below[Root]

HasSlugEdges(node) == \E i \in 1..Len(node.edges) : HasSlug(node.edges[i].pattern)

Bad(node) == \E i \in 1..Len(node.edges) :
                \E k \in 1..Len(node.edges[i].pattern) :
                    node.edges[i].pattern[k] \in BadSlugs

\* It ends with the first node PCRE cannot compile.
FirstBad == SelectInSeq(CompileOrder(nodes), LAMBDA n : Bad(nodes[n]))

Visited == LET order == CompileOrder(nodes)
           IN Range(IF FirstBad = 0 THEN order ELSE SubSeq(order, 1, FirstBad))

\* Mutant: only the edges with slugs become alternatives.
CompiledRegex_SlugsOnly(n) ==
    LET patterns == [i \in 1..Len(nodes[n].edges) |-> nodes[n].edges[i].pattern]
    IN IF ~HasSlugEdges(nodes[n]) THEN regex[n]
       ELSE IF Bad(nodes[n]) THEN NoRegex
       ELSE SelectSeq(patterns, HasSlug)

\* A node without slug edges keeps the pcre_pattern it has.
CompiledRegex(n) ==
    IF ~HasSlugEdges(nodes[n]) THEN regex[n]
    ELSE IF Bad(nodes[n]) THEN NoRegex
    ELSE [i \in 1..Len(nodes[n].edges) |-> nodes[n].edges[i].pattern]

-----------------------------------------------------------------------------
(* One call of r3_tree_matchl_base                                         *)

\* Mutants of PcreStep: the path goes on behind the capture; n is passed for
\* e->child.
PcreStep_BehindCapture(tree, e, match) ==
    LET edge == tree[e.node].edges[match.alternative]
        taken == IF edge.has_slug
                 THEN [e EXCEPT !.tokens = Append(@, match.capture)] ELSE e
        rest == After(e.rest, match.end)
    IN IF match = NoMatch \/ match.capture = <<>>
       THEN [e EXCEPT !.pc = "nil", !.rest = <<>>]
       ELSE IF rest = <<>> THEN Arrive(tree, taken, edge.child)
       ELSE GoOn(taken, edge.child, After(e.rest, Len(match.capture)))

PcreStep_Stays(tree, e, match) ==
    LET edge == tree[e.node].edges[match.alternative]
        taken == IF edge.has_slug
                 THEN [e EXCEPT !.tokens = Append(@, match.capture)] ELSE e
        rest == After(e.rest, match.end)
    IN IF match = NoMatch \/ match.capture = <<>>
       THEN [e EXCEPT !.pc = "nil", !.rest = <<>>]
       ELSE IF rest = <<>> THEN Arrive(tree, taken, edge.child)
       ELSE GoOn(taken, e.node, rest)

\* The first group that has matched something tells the edge; its capture is a
\* token if the edge has a slug.  A match with an empty group is none.
PcreStep(tree, e, match) ==
    LET edge == tree[e.node].edges[match.alternative]
        taken == IF edge.has_slug
                 THEN [e EXCEPT !.tokens = Append(@, match.capture)] ELSE e
        rest == After(e.rest, match.end)
    IN IF match = NoMatch \/ match.capture = <<>>
       THEN [e EXCEPT !.pc = "nil", !.rest = <<>>]
       ELSE IF rest = <<>> THEN Arrive(tree, taken, edge.child)
       ELSE GoOn(taken, edge.child, rest)

\* The call with is_end = 1 behind the last character: no group is skipped, so
\* the first edge is followed whichever alternative has matched.
PcreAtEnd(tree, e, match) ==
    LET edge == tree[e.node].edges[1]
        taken == IF edge.has_slug THEN [e EXCEPT !.tokens = Append(@, <<>>)] ELSE e
    IN IF match = NoMatch THEN [e EXCEPT !.pc = "nil"]
       ELSE Arrive(tree, taken, edge.child)

PcreEndStep(tree, regexes, e, child) ==
    LET there == GoOn(e, child, <<>>)
        greedy == OpcodeEdge(tree[child], <<>>)
        inner == IF greedy # 0 THEN OpcodeStep(tree, there, greedy)
                 ELSE PcreAtEnd(tree, there, PcreMatch(regexes[child], <<>>))
    IN IF inner.pc = "node" THEN inner
       ELSE Arrive(tree, [e EXCEPT !.tokens = inner.tokens], child)

\* The edges are tried by opcode, then by regular expression, and only if there
\* is none by their text.
PcreWalkStep(tree, regexes, e) ==
    LET node == tree[e.node]
        opcodeEdge == OpcodeEdge(node, e.rest)
        literalEdge == LiteralEdge(node, e.rest)
        edge == node.edges[literalEdge]
        k == Len(edge.pattern)
    IN IF opcodeEdge # 0 THEN OpcodeStep(tree, e, opcodeEdge)
       ELSE IF regexes[e.node] # NoRegex
       THEN PcreStep(tree, e, PcreMatch(regexes[e.node], e.rest))
       ELSE IF literalEdge = 0 THEN [e EXCEPT !.pc = "nil", !.rest = <<>>]
       ELSE IF k < Len(e.rest) THEN GoOn(e, edge.child, After(e.rest, k))
       ELSE PcreEndStep(tree, regexes, e, edge.child)

-----------------------------------------------------------------------------
(* Actions                                                                 *)

PcreInit == MatchInit /\ regex = <<NoRegex>> /\ compiled = FALSE

\* Mutant: the child a split makes gets a copy of what another node has.
RegexGrows_Copies ==
    regex' = [n \in 1..Len(nodes') |->
                IF n <= Len(nodes) THEN regex[n] ELSE regex[call.node]]

\* r3_tree_create leaves pcre_pattern NULL.
RegexGrows ==
    regex' = [n \in 1..Len(nodes') |->
                IF n <= Len(nodes) THEN regex[n] ELSE NoRegex]

PcreAdds ==
    /\ entry = NoEntry
    /\ \/ \E path \in Paths, method \in Methods : Add(path, method, adds + 1)
       \/ InsertStep
    /\ RegexGrows
    /\ compiled' = FALSE
    /\ UNCHANGED entry

\* R3::Tree#compile; it raises where PCRE cannot compile a node.
PcreCompile ==
    /\ MatchIdle
    /\ nodes' = [n \in 1..Len(nodes) |->
                    IF n \in Visited THEN CompiledNode(nodes[n]) ELSE nodes[n]]
    /\ regex' = [n \in 1..Len(nodes) |->
                    IF n \in Visited THEN CompiledRegex(n) ELSE regex[n]]
    /\ compiled' = (FirstBad = 0)
    /\ UNCHANGED <<call, adds, spell, entry>>

PcreStarts(request) == StartMatch(request) /\ UNCHANGED <<regex, compiled>>

PcreWalks ==
    /\ entry.pc = "walk"
    /\ entry' = PcreWalkStep(nodes, regex, entry)
    /\ UNCHANGED <<vars, regex, compiled>>

PcreReturns == (MatchRoutes \/ EndMatch) /\ UNCHANGED <<regex, compiled>>

PcreNext ==
    \/ PcreAdds
    \/ PcreCompile
    \/ \E request \in Requests : PcreStarts(request)
    \/ PcreWalks
    \/ PcreReturns

PcreSpec == PcreInit /\ [][PcreNext]_pcreVars

\* A match, run to its end.
PcreAnswered(request) ==
    LET run[k \in Nat] ==
            IF k = 0 THEN NewEntry(request)
            ELSE LET e == run[k-1] IN
                 CASE e.pc = "walk" -> PcreWalkStep(nodes, regex, e)
                   [] e.pc = "node" -> RouteStep(nodes, e)
                   [] OTHER -> e
    IN run[Len(nodes) + 1].pc = "route"

-----------------------------------------------------------------------------
(* Properties                                                              *)

PcreTypeOK ==
    /\ MatchTypeOK
    /\ Len(regex) = Len(nodes)
    /\ \A n \in NodeIds : Len(regex[n]) <= Len(nodes[n].edges)

\* The alternatives of the node's regular expression are edges it has now.
UpToDate(n) ==
    \A i \in 1..Len(regex[n]) : regex[n][i] = nodes[n].edges[i].pattern

\* An edge was split under a regular expression, and compile has not been called
\* since, or leaves the node alone because it has no slug edge any more.
OutOfDate(n) == ~UpToDate(n) /\ (~compiled \/ ~HasSlugEdges(nodes[n]))

\* The route is one the request was meant for, and its slugs have the tokens
\* they take.
ReplyIsRight ==
    LET route == nodes[entry.node].routes[entry.route] IN
    /\ MethodFits(route.method, entry.method)
    /\ Len(entry.tokens) >= Len(route.slugs)
    /\ \A i \in 1..Len(route.slugs) : PcreTakes(route.slugs[i], entry.tokens[i])
    /\ Filled(spell[entry.node], entry.tokens) = entry.path

\* The number of the group that has matched is the number of the edge to follow,
\* also where edges were added since or a compilation failed half-way: the route
\* found fits, unless a regular expression is out of date.
PcreReplyFits ==
    entry.pc = "route" /\ (\A n \in NodeIds : ~OutOfDate(n)) => ReplyIsRight

\* A compiled tree in which a match has no choice: a node has literal edges, or
\* one edge with one slug, and no text goes on behind the slug with a character
\* the slug takes.
PcreUnambiguous ==
    LET takes(slug) == IF SlugOpcode[slug] = "NONE"
                       THEN UNION {Range(text) : text \in PcreLanguage[slug]}
                       ELSE Accepts[SlugOpcode[slug]]
    IN \A n \in NodeIds :
        \/ regex[n] = NoRegex /\ ~HasSlugEdges(nodes[n])
        \/ \E edge \in Range(nodes[n].edges) : \E s \in 1..Len(edge.pattern) :
            /\ nodes[n].edges = <<edge>>
            /\ regex[n] = <<edge.pattern>>
            /\ SlugPositions(edge.pattern) = {s}
            /\ LET slug == edge.pattern[s]
                   below == nodes[edge.child].edges
                   follow == IF s < Len(edge.pattern) THEN {edge.pattern[s + 1]}
                             ELSE {below[i].pattern[1] : i \in 1..Len(below)}
               IN /\ SlugOpcode[slug] # "GREEDY"
                  /\ follow \subseteq Literals \ takes(slug)

\* In such a tree a request is answered exactly if a route is meant for it, also
\* through edges of several characters and slugs without an opcode, which the
\* other build does not find.  As there, the request for the empty path is not.
PcreServes ==
    MatchIdle /\ compiled /\ PcreUnambiguous =>
        \A request \in Requests :
            PcreAnswered(request) <=>
                /\ request.path # <<>>
                /\ \E n \in NodeIds : \E r \in 1..Len(nodes[n].routes) :
                    /\ FitsIf(PcreTakes, spell[n], request.path)
                    /\ MethodFits(nodes[n].routes[r].method, request.method)

\* Every call goes deeper into the tree, also where a regular expression is out
\* of date and sends the match down an edge it was not made from.
PcreWalkDeepens ==
    [][entry.pc = "walk" /\ entry'.pc = "walk" =>
        Len(spell[entry'.node]) > Len(spell[entry.node])]_pcreVars
=============================================================================
