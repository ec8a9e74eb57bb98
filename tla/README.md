# mruby-r3 in TLA+

mruby-r3 binds libr3, a dispatcher of URL paths, to mruby. A program adds route
patterns such as `/users/{user_id}/feeds/{feed_id}` to an `R3::Tree`, compiles
it, and asks it which route a request path belongs to. These modules model what
the C code does when it builds the tree, compiles it and walks it, check the
model with TLC on small instances, and prove part of it with TLAPS for all
instances.

There are two builds. **Without PCRE** is the default (`build_config.rb` leaves
`mruby-regexp-pcre` commented out, `mrbgem.rake` defines `HAVE_PCRE_H` only when
that gem is there): `R3Tree`, `R3Match` and `R3Binding` are that build.
**With PCRE**, compiling and matching differ: `R3MatchPcre`.

## 1. The system

| Component | State | Operations | Source |
|---|---|---|---|
| Patterns and paths | none | compare prefixes, choose and scan by an opcode | `node.c` |
| Slug text scanners | none; the search for a common prefix keeps an offset and a slug record | find, name, parse, count and translate slugs | `str.c`, `slug.c`, `node.c` 632-689 |
| Route tree | nodes with edges, routes, `endpoint`, `compare_type`; edges with pattern, child, `opcode`, `has_slug` | insert a route, split an edge, connect a node, compile, free | `node.c`, `edge.c` |
| Dispatch | `match_entry`: path, method, slugs, tokens | walk the tree, choose a route by method | `node.c`, `match_entry.c`, `token.c` |
| Other route conditions | host, scheme, remote address of a route | compare with a request | `node.c` 932-1011 |
| Binding | `@data`, `@routes`, the tree pointer | `initialize`, `add`, `<<`, `compile`, `match`, `match?`, `mismatch?`, `free` | `src/mrb_r3.c`, `mrblib/r3.rb` |
| Vectors | entries, size, capacity | reserve, append | `memory.c`, `memory.h`, `token.c` |
| Debugging, platform | none | dump, `asprintf`, `mman` | `node.c` 881-924, others |

How they interact: the binding calls `r3_tree_insert_routel`, `r3_tree_compile`
and `r3_tree_match_route`, one at a time. An insertion is a tail recursion over
the tree (`r3_tree_insert_pathl_ex`), which asks `r3_node_find_common_prefix`
where to go and lets `r3_edge_branch` and `r3_node_connectl` change edges. A
match is a tail recursion too (`r3_tree_matchl_base`). Insertion and match share
nothing but the tree, and rely on each other in ways neither checks: the match
collects one token per slug **edge**, the insertion stores with a route the
slugs of its whole **pattern**, and the binding pairs them by index.

Nothing here runs concurrently, and nothing is persisted. What is hard is the
long sequence of legal calls: routes in an order nobody tested, edges split and
joined, a compilation between two additions, an addition refused half-way; and
the boundaries of the text scanning. `PROJECT.json` lists these hazards with
their lines.

What makes each component correct:

- *Patterns*: a pattern is only cut between slugs; a malformed one is refused, but
  for those in which as many braces open as close (section 5).
- *Tree*: the edges on the way to a node spell a text; two nodes never have the
  same text, and no two edges of a node the same first token; every node but the
  root has one parent; a route is at the node whose text is its pattern, and
  stays there; flags that are cached (`has_slug`, `opcode`) agree
  with what they are computed from, or err on the safe side.
- *Dispatch*: a match ends; an answer fits its request, with one token for each
  slug, in the order of the slugs; what is meant to be found is found.
- *Slug scanners*: they agree with each other about what a slug is, its name and
  pattern lie inside it, and the search over them ends.
- *Binding*: the data a match returns is what the route was added
  with; `@routes` lists the additions; a string the tree points into is kept as
  long as the tree; the tree is freed once.
- *Other conditions*: a route is refused for a condition that does not hold, and
  for no other reason.
- *Vectors*: every element lies in the memory that was allocated.

## 2. The modules

| Module | What it is |
|---|---|
| `R3Path` | patterns and paths as sequences of tokens, and the pure functions on them |
| `SlugText` | the scanners of slugs, on characters |
| `SlugSearch` | extends `SlugText` by the search for the common prefix, and compares both with `R3Path` |
| `RouteTable` | abstract specification of the insertion: a table that only grows |
| `R3Tree` | insertion and compilation, one action per path through the code |
| `R3Match` | extends `R3Tree` by requests: one action per call of the matcher |
| `R3MatchPcre` | extends `R3Match` by compiling and matching with PCRE |
| `Dispatcher` | abstract specification of `R3::Tree` |
| `R3Binding` | extends `R3Match` by the methods of `R3::Tree`, composed with the tree |
| `R3RouteCmp` | the comparison of a route with a request |
| `Vector` | the growing arrays |
| `R3TreeProofs` | theorems about `R3Tree`: types, texts and the frame, the single nodes, the tree as a whole, and what it promises |
| `R3MatchProofs` | theorems about `R3Match`, and the lemmas about recursive functions that all the others use |
| `R3AnswerProofs` | theorems about `R3Match`: what a tree answers, all calls of a match together |
| `R3MatchPcreProofs` | theorems about `R3MatchPcre`, on those about answers |
| `R3BindingProofs` | theorems about `R3Binding`, on those about the tree |
| `VectorProofs` | theorems about `Vector` |
| `R3RouteCmpProofs` | theorems about `R3RouteCmp` |
| `SlugSearchProofs` | theorems about `SlugSearch` |
| `MCR3Tree`, `MCR3Match`, `MCR3MatchPcre`, `MCR3Binding`, `MCSlugSearch`, `MCVector`, `MCR3RouteCmp` | values of the constants for TLC |

### R3Path

A pattern is a sequence of *tokens*. A token is a literal character, a whole
slug, or one of the two ways to be malformed: a slug left open, and a `}` that
closes nothing. A slug whose text holds further braces is in `Nested`.
`find_common_prefix` never leaves a prefix that ends inside a
slug, so the tree cuts patterns between tokens only, and the text of a slug does
not matter to it. What does matter is the opcode its text is translated to by
`r3_slug_find_pattern`, `r3_slug_compile` and `r3_pattern_to_opcode`: the constant
`SlugOpcode`. A request path holds literals only.

| Definition | Code |
|---|---|
| `HasSlug`, `SlugPositions`, `SlugsOf` | `r3_path_contains_slug_char`, `r3_slug_find_placeholder`, `get_slugs` |
| `HasBrace` | `r3_path_contains_slug_char`, for a slug left open too |
| `CountFails`, `CountedSlugs` | `r3_slug_count` returns -1; the slugs it counts |
| `MakesUp` | a malformed pattern it does not refuse: as many slugs left open as stray `}` |
| `ParseFails(path, k)` | the `r3_slug_parse` loop in `find_common_prefix` fails for a prefix of k |
| `ParseLost(path, k)` | that loop gets 1 from a call that has found no slug, and does not end or reads through NULL |
| `BreakPoints` | where the second search of the several-slugs branch can end |
| `Share`, `Upto`, `After` | `strndiff`, `path` and `subpath` |
| `Accepts`, `RunLength` | the scanning loops of the opcodes |
| `MethodFits` | the method comparison of `r3_route_cmp` |

A slug left open takes what is behind it to the end of the pattern. `r3_slug_count`
counts braces, so a stray `}` before it makes up for it, as in `/}a{`: such a
pattern `MakesUp`, gets into the tree, and can lose the parser when another one
comes by. All of this is in the model.

Assumptions about the patterns, in `PathsAssumption`:

- they are sequences of tokens: no backslash escapes;
- a slug left open is the last token, and behind a stray `}` it is one brace and the
  beginning of no other token: two slugs left open, as in `}}a{b{`, are not in the
  model;
- no slug with inner braces directly follows a slug (`NestedAdjacent`): the code
  looks for the next slug from one character too far and would cut the second one
  at its inner brace;
- behind a stray `}` the parser takes a slug's inner braces for a slug
  (`InnerTaken`): a pattern with both has no other flaw, and does not occur
  together with patterns that make up for their flaws.

`SlugSearch` has all texts, also those outside these assumptions, and checks of the
ones inside them (`Assumed`) that tokens say what the characters do.

### SlugText and SlugSearch

`SlugText` has each scanner as a function of a sequence of characters; a pointer
is an index, NULL is 0. What a loop with a brace counter stops at is stated by
`Balance`, the number of braces opened and not closed; the loops that skip
escapes are folds of a step over the text. `SlugSearch` has the one loop that is
a protocol, not a function: `r3_node_find_common_prefix` calls `r3_slug_parse`
again and again with a moving offset and a slug record that keeps what the call
before left in it. One action is one way its body can go on.

| Definition | Code |
|---|---|
| `FindPlaceholder`, `FindPattern`, `FindName` | `r3_slug_find_placeholder`, `_pattern`, `_name` |
| `Placeholders` | the loop of `get_slugs` |
| `SlugCount`, `SlugParse` | `r3_slug_count`, `r3_slug_parse` |
| `BestEdge`, `Started` | the loop over the edges |
| `ParseError`, `NoSlugLeft`, `InsideSlug`, `BeforeSlug`, `BehindSlug`, `AtEnd` | the branches of the loop over the slugs |

The instance `Path` of `R3Path` takes the tokens of the same patterns as its
constants, and `PrefixIsTokens` and `ScansAreTokens` compare every function of
`R3Path` that stands for a scanner with the scanner.

### R3Tree

`nodes` is the tree: a sequence of nodes in the order of their creation, 1 being
the root, and an edge's `child` an index. `call` is the frame of
`r3_tree_insert_pathl_ex`: node, rest of the pattern, and the arguments that the
recursion passes on. `adds` counts insertions. `spell` is a history variable, the
text each node stands for; no guard reads it.

| Action | Path through the code |
|---|---|
| `Add` | `r3_tree_insert_routel` enters with the root and the whole pattern |
| `InsertHere` | nothing left: the route goes to the node |
| `ParseRefuses`, `CountRefuses` | `find_common_prefix` or `r3_slug_count` reports an error; NULL |
| `ParseAstray` | the loop of `find_common_prefix` does not end, or reads through NULL; the model ends |
| `InsertFirstOfMany` | no edge found, several slugs: an edge up to the next slug, recursion |
| `InsertAborts` | the same, and no next slug is found: `assert(p)` fails, or the search has begun behind the pattern's end and goes astray |
| `InsertSlug` | no edge found, one slug: one or two edges, recursion or a route |
| `InsertLiteral` | no edge found, no slug |
| `Descend`, `InsertExisting` | the whole edge is common: recursion, or a route at its child |
| `Branch` | a part of the edge is common: `r3_edge_branch`, recursion |
| `Compile` | `r3_tree_compile` on the whole tree |

The rest of the recursion that C keeps on the stack is nothing: every call is in
tail position. `combined_pattern` and `node->data` are left out, as without PCRE
nothing but `r3_tree_dump` reads them. A route's `data` is the number its caller
passed.

`RouteTable` states what `add` promises: `Submit`, then `Accept` or `Refuse`. The
refinement maps the table to the routes mounted in the tree, each at the text of
its node, and the pending request to the frame. Its pattern of a route is the
node's text, so the refinement says that a route ends at the right node, and
that splits and compilations, which are stutters, move none.

### R3Match

`entry` is the `match_entry` with the frame of `r3_tree_matchl_base`.
`MatchWalks` is one call of it, `MatchRoutes` the loop of `r3_tree_match_route`,
`EndMatch` the release of the entry. The one call that is not in tail position,
with an empty rest at the end of the path, is part of `LiteralStep` (`EndStep`).
Additions and compilations happen between matches. `Answer(tree, request)` runs a
match to its end, as an operator, so that a property can ask what *would* be
answered; `Reply` is what the program sees of it, the route and the values of its
slugs.

`Fits` and `Meant` say what a pattern means without any tree: some values for
its slugs, each of a kind its opcode takes, turn it into the path.

### R3MatchPcre

`regex` holds each node's `pcre_pattern`, as the patterns of its alternatives;
`compiled` is a history variable for the properties. `PcreCompile` visits the
nodes in the order of the recursion, ends at one PCRE cannot compile, and leaves
nodes without slug edges their old expression. `PcreStep` and `PcreAtEnd` choose
an edge by the number of the group that has matched. PCRE itself is external:
`PcreMatch` is the first alternative that matches at the start of the path, with
the longest text for its slug that lets the rest match; `PcreLanguage` says what
a slug without an opcode matches.

### R3Binding and Dispatcher

`dataAry` and `listing` are `@data` and `@routes`, `handle` the pointer
`DATA_PTR(self)`, `op` the call of `add` in progress, `reply` what a match has
returned. `borrowed` and `frees` are history variables: which addition's string
each edge points into, and how often the tree was freed.

| Action | Code |
|---|---|
| `BeginAdd` | `mrb_r3_f_add` up to the insertion: path chomped, data pushed, its index passed |
| `TreeWorks` | a step of the insertion, with the strings its edges borrow |
| `EndAdd` | the pattern is pushed to `@data`, the route listed |
| `CompileTree` | `mrb_r3_f_compile` |
| `Query` | `match`, `match?`, `mismatch?`, with `TakeReply` when the caller has it |
| `Free`, `Collect` | `mrb_r3_f_free`, and the garbage collector's `mrb_r3_tree_free` |
| `UseAfterFree` | a call on the NULL pointer ends the process |

`Dispatcher` is what a program may rely on: a table of routes with their data, a
list of additions, replies that come from the table. `ImplementsDispatcher` maps
the tree with its indices to the table. The abstract `Ask` may miss a route, or
choose among patterns that fit: that part is the tree's, and `ServesWhatIsMeant`
is about it.

### Vector and R3RouteCmp

`Vector` is one `R3_VECTOR` with its three unsigned integers modulo `Word`, and
one action per turn of the doubling loop. `R3RouteCmp` is `r3_route_cmp`; a mask
is the set of its bits, an address its text and its words of `Width` bits. Its
properties state the same conditions without the code's loops: by suffixes, and
by the whole address as one number. `Words` is the number of words of an IPv6
address and `Chars` has the characters of hosts.

## 3. The runs

| Run | Instance | Properties | Shows |
|---|---|---|---|
| `tree` | 21 patterns, 4 of them with adjacent slugs and 6 with or beside flaws that make up for each other, up to 4 additions, compilations anywhere; 366 981 states | type, `TrieSpells`, `CallSpells`, `RouteSlugsSpelled`, `OneParent`, `SiblingsDiffer`, `OneNodePerText`, `OpcodesSound`, `HasSlugNeverMissed`, `MalformedMakesUp`, `RestShrinks`, `RoutesPermanent` | the tree is right whatever the order, also what is built before an abort; nothing malformed is in it but with a pattern that makes up for it |
| `tree_refines` | 12 patterns without adjacent slugs or flaws that make up for each other, 2 methods, up to 3 additions; 43 374 states | `ImplementsRouteTable`, `AddReturns` | adding step by step is adding at once, and ends |
| `tree_assert` | patterns with adjacent slugs, 3 additions | `NextSlugFound` | **violated**, see section 5 |
| `match` | 12 patterns, up to 3 additions, 9 paths; 84 786 states | `WalkConsumes`, `ReplyFits`, `ServesWhatIsMeant`, `WalkDeepens`, `RefusedAddHarmless` | answers fit, and unambiguous trees answer what they should |
| `match_returns` | 5 patterns, methods, up to 2 additions | `ReplyFits`, `MatchReturns` | methods are respected, every match ends |
| `feeds` | the README's example | `CompiledServes` | **violated**, see section 5 |
| `recompile` | a literal beside a slug | `CompileKeepsServing` | **violated**, see section 5 |
| `slug_search` | all patterns of up to 6 characters of `a { }`, malformed in every way, on all nodes of 1 or 2 edges; the same with `:` and backslashes on a node without edges; 122 331 states | `PrefixIsTokens`, `ScansAreTokens`, `NameAndPattern`, `ParsingAdvances` | the tree may take a slug for one token, and exactly where the search is lost; the scanners agree, names and patterns are right |
| `binding` | 4 patterns with 2 method masks, data, `nil` or nothing, up to 3 additions, 3 requests; 216 129 states | type, `PatternsHeld`, `RefusedNotBorrowed`, `FreedOnce`, `ImplementsDispatcher` | replies have the data their route was added with; nothing dangles |
| `match_pcre` | 9 patterns, one that does not compile, up to 3 additions, 9 paths; 69 808 states | type, `PcreReplyFits`, `PcreServes`, `PcreWalkDeepens` | answers fit while expressions are up to date, and trees without a choice answer what they should |
| `vector` | words of 8 bits, elements of 3 bytes, up to 40 asked for; 7 624 states | type, `ElementsCovered`, `CallsReturn` | the memory covers the elements |
| `route_cmp` | words of 2 bits, 2 to an IPv6 address; 354 384 states | `FoundIsAllowed`, `RefusedForAReason` | the comparison means what it should |

**Bounds.** `MaxAdds` bounds the additions. Each disturbance of the tree involves
at most three patterns: one that makes an edge, one that splits it, one that
meets the split; the fourth addition of the run `tree` takes the result through
one more. The patterns of `MCR3Tree` share prefixes that end before, in the
middle of and behind a slug, so that all ways to insert occur; those with
adjacent slugs reach the abort. Three are malformed and refused, by both functions
that refuse a pattern, one of them after edges have been split for it; three more
make up for their flaws and get in, and three others meet them in the tree, where
the parser may be lost. A slug with inner braces is among the patterns of both
runs, behind a stray `}` in `tree_refines`. The requests of `MCR3Match` reach every opcode edge with runs of zero, one
and more characters, and end on, before and behind edges.

`ServesWhatIsMeant` is stated for *unambiguous* trees, where a node has literal
edges or one compiled slug edge, not a greedy one, and no literal below a slug begins with a
character the slug takes. In other trees the first edge that takes a character
is final, by design, and the order of additions decides; `ReplyFits` and
`WalkConsumes` hold in all trees, compiled or not. The request for the empty path
is answered in no such tree: it needs a greedy slug at the root, which takes
nothing, and the root's own routes are never looked at. `PcreServes` says the same of the build with PCRE, where an
edge may have characters before and behind its slug and the slug need not have an
opcode (`PcreUnambiguous`).

The run `match_pcre` has no slug that may be empty (`GREEDY`), for the sake of
which the code follows a first edge it should not (section 5, *at the end of a
path*), and `PcreReplyFits` excepts trees with an expression that is out of date
(*expressions that outlive their edges*).

Six characters are enough for two slugs with text between them, a slug in a
slug, and a flaw before, inside or behind each; three for an edge that ends
before, at and behind a slug. In `binding`, three additions are enough for data
behind data that was `nil` or not given, for an edge that is split by the second
and a pattern that is refused by the third. In words of 8 bits the
largest request takes 64 elements of 3 bytes, which does not wrap: the run `vector`
stays within `Roomy` (section 4), outside of which the properties do not hold. In words of
2 bits all prefixes with all lengths are compared with all addresses.

`CHECK_DEADLOCK FALSE` appears where the process may end (`assert`, a freed
tree, no memory) or a function returns (`SlugSearch`, `R3RouteCmp`).

**Fairness.** `WF(InsertStep)`, `WF(MatchStep)` and `WF(InCall)`:
a C function that has been called runs until it returns. No fairness is assumed of the program that calls
it. The liveness properties are that insertions, matches and the doubling of a vector
end, which is not fairness's doing: a recursion that did not shorten its text would satisfy it for
ever.

Each property is broken by a mutant, a copy of a definition with a plausible bug,
next to the definition it changes and marked so by its comment.

## 4. The proofs

`R3TreeProofs` proves, for every set of patterns and methods and
every bound, all invariants and action properties the run `tree` checks, and the
safety part of the refinement the run `tree_refines` checks.

### Texts, the frame and single nodes: `R3TreeProofs`, first and second part

| Theorem | Statement |
|---|---|
| `TypeCorrect` | `Spec => []TypeOK` |
| `TreeIsTrie` | `Spec => []TrieSpells` |
| `SlugsOfRoutes` | `Spec => []RouteSlugsSpelled` |
| `InsertionSpells` | `Spec => []CallSpells` |
| `InsertionShrinks` | `Spec => RestShrinks` |
| `HasSlugSafe` | `Spec => []HasSlugNeverMissed` |
| `OpcodesAreSlugs` | `Spec => []OpcodesSound` |
| `SiblingsUnlike` | `Spec => []SiblingsDiffer` |

*Assumptions*: the named assumptions of `R3Path` and `R3Tree`: tokens are
distinct (`TokensDistinct`), slugs with inner braces are slugs
(`NestedAssumption`), `SlugOpcode` has opcodes as values
(`SlugOpcodeAssumption`), `MaxAdds` is a natural number (`MaxAddsAssumption`), and
`PathsAssumption`, with all the parts section 2 lists: patterns are sequences of
tokens, only the last is a slug left open, no slug with inner braces follows
another slug directly, and a stray `}` before such a slug is the pattern's only
flaw, in a program without patterns that make up for theirs. The program does not
check any of it; what the code does with other patterns is not claimed here.

*Hypothesis of some theorems*: `NoneMakesUp`, that no pattern makes up for its
flaws. `TableRefined`, `RefusedHarmless`, `RefusedUnused` and
`DispatcherImplemented` say of malformed patterns that they are refused, which is
true of all of them only then; `PcreAssumption` has it for the build with PCRE.
All other theorems hold with such patterns too.

*Argument*. `RouteSlugsSpelled` is not inductive: that a route mounted now has
its node's slugs follows from the frame, whose node and rest must still make up
the pattern (`CallSpells`); that going down an edge keeps `CallSpells` follows
from the texts of the edge's ends (`TrieSpells`); and all of it needs types. The
inductive invariant `IInv` is the conjunction of the four (`IInvMeaning` proves
the equivalence), so TLC has checked all of it in the run `tree`.

The part about the tree is `Shape(tree, sp)`, stated of any tree and any texts,
because a single step applies up to three functions to the tree (`InsertSlug`:
two grafts and a mount). One lemma per function says that it keeps the shape:
`GraftShape`, `MountShape`, `EdgeBranchShape`, `CompiledShape`. They rest on
`ReplaceShape` and `GrowShape`, for a tree in which one node changed, or one
changed and one was added. A lemma per action then finds the text of the node it
goes on at, and `RecurseInvariant` or `ReturnInvariant` conclude. The theorems
follow from `Initially`, `Inductive` and, for `RestShrinks`, `Shrinks`.

*Single nodes*. `Sound(tree)` puts the last four into one condition on each node, which is
inductive beside `IInv`. An edge with an opcode has one slug as its pattern; a
pattern of one token cannot be split (`LongHasNoOpcode`), so `r3_edge_branch`, which leaves the opcode of the edge it
shortens alone, never leaves one on a part. `ReplaceSound` and `GrowSound` reduce
each function on trees to the node it changes and the one it adds. That edges
begin with different tokens needs the loop of `r3_node_find_common_prefix`: an
edge is added only where none shares a token with what is left (`GrowsUnlike`).
`InsertSlug` is the step that takes most care, as it may put a second edge under the
first.

### The whole tree: `R3TreeProofs`, third part

| Theorem | Statement |
|---|---|
| `TextsDiffer` | `Spec => []OneNodePerText` |
| `ParentsUnique` | `Spec => []OneParent` |
| `MalformedExcused` | `Spec => []MalformedMakesUp` |

*Argument*. `OneNodePerText` is not inductive: it says nothing of the edges
between two nodes, so it does not exclude that an insertion makes a node whose
text another node has already, at a place the search did not look. The
strengthening is `Reached`: whenever the text of a node goes on to that of another,
an edge of the node goes that way. A search that finds no edge then means that
no node stands for anything further on (`GraftReached`), and a split puts its node
between the two that it parts (`BranchReached`). With `Reached`, one of two nodes with the same
text would have an edge to a node whose text is longer and yet a prefix of the other's
(`OneText`), and two edges to the same node would begin with the same token of
its text (`OneEdge`). `Parented` and `Excused` complete `Whole`.

`Excused(text)` says that the first malformed token of a text, with all before it,
begins a pattern that makes up for its flaws. When an insertion adds an edge, its
pattern is such a one itself, or well formed, or its flaw lies in the text of the
node reached, which is excused already (`GrowsExcused`): a flaw in the rest alone,
if not made up for there, is one `r3_slug_count` reports before the edge is added,
and one that the rest makes up for while the pattern does not has another before it
(`OccurrencesBehind`). A split's text begins that of the node below
(`ExcusedPrefix`). With `NoneMakesUp` an excused text has nothing malformed
(`ExcusedIsClean`).

### What the tree promises: `R3TreeProofs`, last part

| Theorem | Statement |
|---|---|
| `RoutesStay` | `Spec => RoutesPermanent` |
| `TableRefined` | `NoneMakesUp => (Spec => Table!Init /\ [][Table!Next]_(Table!vars))` |

*Argument*. `Keeps` says of two trees that no route was mounted and none moved;
grafts, splits and compilations satisfy it (`GraftKeeps`, `BranchKeeps`,
`CompiledKeeps`), and `MountStep` says what mounting adds, at a node whose text
is the pattern, by `CallSpells`. Each step of `R3Tree` is then a `Submit`, an
`Accept`, a `Refuse` or a stutter of `RouteTable`. `TableRefined` is
`ImplementsRouteTable` without its fairness.

### The matcher: `R3MatchProofs`

| Theorem | Statement |
|---|---|
| `MatchTypeCorrect` | `MatchSpec => []MatchTypeOK` |
| `CallsDeepen` | `MatchSpec => WalkDeepens` |
| `RequestConsumed` | `MatchSpec => []WalkConsumes` |
| `ReplyIsMeant` | `MatchSpec => []ReplyFits` |

*Assumption*: also `RequestsAssumption`, that paths have no braces.

*Argument*. `MatchInv` is `IInv` with an entry that is at a node of the tree and
has no route before `r3_tree_match_route` looks for one. The loops of the code
find the first of something, which exists because `<` is well founded on the
natural numbers (`LeastNatural`, `FirstOrNone`, `RunInText`). Going down an edge
lengthens the text, as its pattern is not empty (`EdgeDown`), whatever was taken
from the request; `WalkStepEntry` puts the ways down together. That is why a greedy slug
which takes nothing does no harm.

For the reply, `ConsumedInv` adds `Sound`, the invariant of the single nodes, and
what has been consumed: text and tokens make up the path as far as it was taken
(`Consumed`), at the end all of it (`Found`), and each slug passed takes its
token. `Found` asks for at least as many tokens as slugs, not for equality: a
greedy edge tried at the end of a path leaves its token behind when it leads
nowhere. An edge taken by its opcode yields one token because its pattern is one
slug with that opcode, which is where `Sound` is needed (`OpcodeEdgeIsSlug`); an
edge taken by its text has literals only, because what it was compared with has
no braces (`LiteralGoesOn`). What `Filled` computes for a longer pattern is
`FilledAppend`. Which texts a slug takes is a parameter of these lemmas, a set of
pairs, so that they serve both builds.

### The answers: `R3AnswerProofs`

| Theorem | Statement |
|---|---|
| `ServesMeant` | `MatchSpec => []ServesWhatIsMeant` |
| `RefusedHarmless` | `MatchSpec => RefusedAddHarmless` |

*Argument*. `ServesMeant` is about a whole match, of which `AnswerRuns` gives the entries one
after the other. `FitsIf` computes, for each place in a pattern, the positions the
path can be cut at (`FitsUnfolds`). In an unambiguous tree (`Clear`) at most one
edge of a node can be crossed and by one number of characters (`CrossesOnce`), and
the match crosses it exactly if there is one (`ClearStep`). If the path can be cut
for the text of a node below, it can be crossed on the way there (`CrossesOn`): a
slug that took less would leave a character to the next edge which that edge,
being a literal the slug does not take, cannot begin with. That a node with the
meant text lies below a next edge is `Reached`, from `R3TreeProofs`. So a match
of a request that is meant for node n stays on the way to n (`Heading`), and one that
gets to n cut the path as its pattern says (`Came`, by `CrossesBack`). All these
lemmas need of a call is `StaysOnWay` (`ClearStays`), so that they serve the build with
PCRE, too. A match is over in as many calls as there are nodes, because the nodes with texts as long as the
one reached become fewer (`AheadShrinks`, `WalkEnds`).

The request for the empty path had to be excepted: the root has no caller that
would look at its routes, so a route with the empty pattern is mounted there and
never found (`EmptyUnanswered`). The run `match` adds that pattern too.

`RefusedHarmless` holds in every tree, ambiguous or not; `RefusedAddHarmless` has
`NoneMakesUp` as its condition. A pattern with a malformed
token then never grows an edge, because the text of the node reached is well formed and
so the token is in the rest that `r3_slug_count` looks at; and mounting a route for it
would contradict `Whole` in the next state (`MalformedOnlySplits`). What is left are splits. `Split` says how two trees differ
by one, and `Tracks` relates the matches on them: they are the same, or both have
failed, or one is at the new node in the middle of the edge the other is about to
follow or to fail on (`Between`). Each step on the split tree keeps
`Tracks`, with a step on the other tree or without one (`SplitWalkStep`,
`BetweenStep`, `TracksStep`). An edge that can be split has no opcode (`Sound`), so the
loop over the opcode edges finds the same (`SplitOpcodeEdge`), and a pattern is a prefix of
the rest exactly if its two parts are prefixes of theirs (`PrefixInParts`). Both matches
end (`WalkEnds`, `RunSettles`), so the answers agree, route and values
(`SplitReply`).

### The binding: `R3BindingProofs`

| Theorem | Statement |
|---|---|
| `StringsHeld` | `BindingSpec => []PatternsHeld` |
| `RefusedUnused` | `BindingSpec => []RefusedNotBorrowed` |
| `FreedByOne` | `BindingSpec => []FreedOnce` |
| `BindingTypeCorrect` | `BindingSpec => []BindingTypeOK` |
| `DispatcherImplemented` | `NoneMakesUp => (BindingSpec => ImplementsDispatcher)` |

*Assumption*: also `RawPathsAssumption`, that the program gives the patterns of
the tree, with or without a slash behind them.

*Argument*. The tree copies no text, so what matters of a step is where the text
of a new node comes from: it begins the pattern being added, which is then well
formed if `NoneMakesUp` (`GrowsAcceptable`), or the text of the node below it, when an edge is split.
`StepTexts` proves it of every step of the tree, and is all the binding needs to know of
it. `BindingInv` is the invariant of the tree with `Open` while there is a tree: each edge's owner
is an addition whose pattern begins with the text of the node (`Held`), and what is
listed is kept in `@data` (`Kept`). `EndAdd` moves a pattern from the call to `@data`, where
`PatternOf` finds it under the same number. Types need `Typed` besides, which
goes on when the tree is gone, and `FreedOnce` is inductive by itself.

`DispatcherImplemented` is the refinement as a whole; it needs no fairness. Its
invariant is `Dispatching`: the indices in the routes are indices of `@data`
(`Indexed`), and the data of the call in progress is what the index it was given
leads to (`Passes`). As `@data` only gets longer (`Extends`), an index keeps its
meaning while patterns are pushed between the data. A step of the insertion
mounts its route or moves none (`RankedMounted`, `RankedKept`); the rank of a new route
among those of its pattern is their number plus one, which takes that no other
node has its text. A query is answered by `Answer`, a whole match as a function,
of which `AnswerUnderway` proves what `ConsumedInv` says of a match step by step;
that the hash has the last token of a name, as the code overwrites it, is
`LastOfName`.

### The build with PCRE: `R3MatchPcreProofs`

| Theorem | Statement |
|---|---|
| `PcreTypeCorrect` | `PcreSpec => []PcreTypeOK` |
| `PcreCallsDeepen` | `PcreSpec => PcreWalkDeepens` |
| `PcreReplyIsMeant` | `SlugsTakeText /\ PcreSpec => []PcreReplyFits` |
| `PcreServesMeant` | `SlugsTakeText /\ PcreSpec => []PcreServes` |

*Assumption*: also `PcreAssumption`, that `NoneMakesUp` (a slug left open in an edge
would be part of its expression), that `BadSlugs` are slugs, and that `PcreLanguage`
is given for every slug that has no opcode and can be compiled. The last two have the hypothesis `SlugsTakeText`: no
slug takes the empty text. It is needed, see *at the end of a path* in section 5,
and excludes `GREEDY` slugs; the instance of the run `match_pcre` satisfies it.

*Argument*. What holds of an expression all the time, also out of date, is
`Alternatives`: there are no more than edges, and edge i is the one alternative i was
made from or the part of it that a split has left. An insertion appends edges and
cuts them, and removes none (`ConnectSucceeds`, `CutSucceeds`). So a group's
number leads to an edge, and down the tree, whichever it is.

The reply needs more. While every alternative is the pattern of its edge
(`AllCurrent`), a group that has matched takes what its edge takes
(`GroupConsumes`), and without slugs that take the empty text the call behind the
last character does what it does without PCRE (`PcreEndStepSame`). `PcreReplyFits`
excepts nodes that are `OutOfDate`, which by definition does not cover a node
that is not up to date after a compilation and has slug edges: that there is no
such node must be proved. It holds because a compilation that succeeds has been at
every node (`CompileVisitsAll`): the order of its recursion covers what is below the node
it starts from (`VisitOrderReaches`), by `Reached`, which says that edges lead to every
node.

`PcreServesMeant` rests on both. Here one call may cross several tokens, and a
match decides how many characters their slug takes without looking below the
edge: it takes as many as let the rest of the pattern match (`OneAlternative`). That
this is the right number is `LongestOnWay`: if a shorter match of the edge leads on
to the route, the character behind it is one that follows the slug in the tree, and the
longer match has it in its slug, which does not take it (`ShorterMatch`). A path
can be cut behind a node exactly if what comes matches the edge and it can be cut
behind that (`PcreEdgeCut`), for which `OneSlugCut` puts together the characters before
the slug, the slug, and those behind it. `PcreClearStep` then says what a call does at any node:
by its opcode (`PcreRunStep`, where the scanning loop finds the longest match, too:
`RunIsLongest`), by its expression (`PcreGroupStep`) or by text (`PcreLiteralStep`). From
`PcreStays` on the argument is that for `ServesMeant`, with the same lemmas.

### Vectors: `VectorProofs`

`VectorProofs` proves, for every width of `unsigned int`, size of the elements
and bound on the room asked for:

| Theorem | Statement |
|---|---|
| `VectorTypeCorrect` | `Roomy => (Spec => []VectorTypeOK)` |
| `VectorCovers` | `Roomy => (Spec => []ElementsCovered)` |

*Assumption*: `Roomy`, that twice the room ever asked for can be counted in
bytes. It is needed: with elements of 8 bytes in words of 8 bits, room for 32
elements is 256 bytes, which wrap to 0.
*Argument*: a capacity is at most twice what was asked for (`CapacityBounded`),
so no product wraps (`NothingWraps`), so the memory is what the capacity says in
every state between calls, and at least what the elements take inside one
(`MemoryKnown`).

### Other conditions: `R3RouteCmpProofs`

| Theorem | Statement |
|---|---|
| `OnlyAllowedFound` | `Spec => []FoundIsAllowed` |
| `RefusedRightly` | `Spec => []RefusedForAReason` |

They hold for every width and number of words, so for the 32 bits and four words of C, which
no instance reaches.

*Assumption*: `RouteCmpAssumption`, that words have `Width` bits, an address as many
words as its kind, and that the bits of an IPv6 prefix fill its words from the
first. The last is needed: with bits in the second word only, the code compares
nothing.

*Argument*. The code shifts each word by the bits that do not count; the property
divides the whole number once. `BlockByWord` shows by induction on the words that
both drop the same: a word of which no bit counts is dropped by the division
(`DropsWord`), and one of which some count has only whole words before it, so that
two numbers with it differ where a word before or the kept part of the last one differs
(`KeepsWord`, `KeepsBoth`). That powers of two multiply is not known to the
provers; `Powers` derives it from the number of subsets of a set (`SubsetsOf`).
A host is compared character by character from its end, which is what a suffix
is (`SuffixByChar`, `HostCompared`).

### Names and patterns: `SlugSearchProofs`

| Theorem | Statement |
|---|---|
| `NamesAndPatterns` | `SearchSpec => []NameAndPattern` |

It holds for patterns of every length and every depth of braces, where the run has six
characters.

*Assumption*: `SearchesAssumption`, that patterns and edges are texts.

*Argument*. A slug of a pattern is a text with a brace around it that stays open until
its end (`OuterSlugText`). `r3_slug_find_pattern` begins to count behind the colon,
where some braces are open already, and stops when one more has been closed than
opened. The balance of a text is the sum of those of its parts (`BalanceAdd`) and
changes by at most one with a character (`BalanceStep`), so a slug with a colon has
such a place (`PatternExists`). If no brace but the slug's own is open at the colon, it
is the slug's end, and no place before it (`PatternIs`). `r3_slug_find_name` looks for the colon in
the pattern, not in the slug, and one character too far: `NameFound` says what it finds
of a slug with and without a colon. The name ends where the pattern begins
(`SlugParts`).

### Recursion in the proofs

`SlugsOf` and `Filled` flatten sequences of sequences, `Answer` runs a match, and the
order of a compilation is a recursive function on the nodes. `R3MatchProofs` has what these need once:
`AllNaturals`, induction over a set of natural numbers; `Iteration`, that a step
function can be repeated from a first value, which gives a recursive definition
the function it chooses; `Flattened` for `FlattenSeq`. The recursion of a
compilation goes down the tree instead of the natural numbers: repeated often
enough it reaches a fixed point, as texts get longer and there is a longest one
(`LongestText`, `VisitOrderExists`).

### Only model-checked

- The fairness of `ImplementsRouteTable`, `AddReturns`, `MatchReturns` and
  `CallsReturn`: liveness, out of the prover's reach.
- `PrefixIsTokens`, `ScansAreTokens` and `ParsingAdvances`, which compare the
  scanners with each other and with `R3Path` by folds over a whole text: what a fold
  computes for every text is an induction over data.

## 5. Where the code and its documents disagree

1. **Adjacent slugs abort** (`tree_assert`). `r3_tree_insert_pathl_ex` looks for
   the slug to break a pattern at from one character behind the first slug's end
   (`node.c` 747). For `{a}{b}` it finds none, and `assert(p)` (748) ends the
   process.
2. **The README's first example is not answered** (`feeds`). Without PCRE,
   `/users/{user_id}/feeds/{feed_id}` gets an edge `/users/{user_id}/feeds/`
   without an opcode, when no shorter route was added before. Its node compares
   by PCRE, and `/users/1/feeds/2` gives `nil`. When `/users/{user_id}` is added
   first the pattern is broken at the slug, and it works.
3. **Compiling again can end a route** (`recompile`). After `/{id}` and a
   compilation, adding `/a` and compiling turns the node back to the PCRE
   comparison, and requests for `/{id}` give `nil`.

These three are runs that end in a violation. The rest is where a property needs
a condition, which its comment names, or where a model follows code that does
not do what its comment says:

- *Escapes.* `r3_slug_parse` and `r3_slug_count` skip escaped characters ("escape
  one character", `slug.c` 97); `r3_slug_find_placeholder` and
  `r3_path_contains_slug_char` do not. For a text whose only brace is escaped the
  parser returns 1, "Slug found" (`slug.c` 76), and leaves the caller's pointers
  NULL; the route gets a slug name for which no edge ever yields a token.
  `ScansAreTokens` and `ParsingAdvances` are about patterns without escaped braces.
- *Malformed patterns that are accepted.* `r3_slug_count` reports a pattern as
  incomplete when its braces do not balance in number (`slug.c` 166-186). In
  `/}a{` they do: `add` mounts it as one literal edge (`node.c` 811-821), and with
  that edge in the tree the malformed `/}b` is mounted below `/}`, as
  `find_common_prefix` and `r3_slug_count` see only parts of it.
  `MalformedMakesUp` says that no malformed pattern gets in but for these, and
  `RefusedAddHarmless`, `RefusedNotBorrowed`, `AddReturns`,
  `ImplementsRouteTable` and `ImplementsDispatcher` are about programs without
  patterns that make up for their flaws (`NoneMakesUp`).
- *Additions that never return.* When a second pattern of this kind shares a
  beginning with an edge, `r3_slug_parse` returns 1, "Slug found" (`slug.c` 76), for
  a text without one, and the loop of `r3_node_find_common_prefix` goes on with the
  slug of the call before, again and again (`node.c` 668-671), as with `{a}a}{`
  beside an edge `{a}a`, or reads through NULL. `ParseAstray` is that end;
  `PrefixIsTokens` says exactly when it comes, and `ParsingAdvances` and
  `AddReturns` except it.
- *A name that leaves its slug.* `r3_slug_find_name` looks one character too far
  for the colon (`str.c` 191): `{a}:` has the name `a}`. `NameAndPattern` excepts
  a slug with a colon behind it.
- *A pattern that is the beginning of another.* `r3_pattern_to_opcode` compares
  over the pattern's own length (`str.c` 55): `{a:.}` is matched as `{a:.*}`.
  `SlugOpcode` stands for the result, so no property depends on it.
- *Expressions that outlive their edges.* When the slug edge of a node is split at
  its slug, the node has literal edges only, and compiling leaves its old
  expression (`node.c` 165-168): a request for the first route can be answered
  with the second. `PcreReplyFits` excepts trees with such a node (`OutOfDate`).
- *At the end of a path.* With `is_end` no group is skipped (`node.c` 407): with
  PCRE, of `/a7` and `/a{x:.*}`, `/a` gets the route of `/a7`. `PcreAtEnd` has it
  so.
- *Bytes wrap before elements.* `element_size * capacity` is an `unsigned int`
  (`memory.c` 42), against "or dies if impossible" (`memory.h` 91). A program
  reaches it by a large capacity given to `R3::Tree.new` only. The theorems about
  `Vector` assume `Roomy`.
- *A required host that is not required.* `r3_route_cmp` compares hosts only when
  the request has one, and as suffixes also without `*` (`node.c` 945-961).
  `HostAllowed` says so.

## 6. Not modelled, and why

- *Lengths of fixed buffers*: the 192 bytes of the combined pattern (`node.c`
  188), the 200 of `r3_slug_compile`, and the buffer of `save_route`, which lacks
  one byte for an `OPTIONS` route. Texts are far shorter in any instance TLC can
  enumerate, so a bound would be the model's own.
- *Patterns outside `PathsAssumption`*, see section 2: among them two slugs left open
  in one pattern, and an inner brace the search for the next slug would stop at.
- *What a slug's pattern is compiled to* (`r3_slug_compile`,
  `r3_pattern_to_opcode`): the constant `SlugOpcode` has the result for each slug.
- *Bytes outside a text*: what a search that starts behind a pattern's end finds
  there. `InsertAborts` goes astray, and nothing is claimed of what follows. The
  byte before an empty path (`mrb_r3.c` 53) belongs to a header and is taken not
  to be a slash.
- *NUL characters in paths*, which `strdup` stops at while the length goes on.
- *Text as a regular expression*: literals with metacharacters, which `compile`
  does not escape, and slug patterns with groups, which shift the numbers of the
  groups behind them. That `\w` matches an underscore and the opcode for it does
  not is a difference between the builds, which are modelled apart.
- *`initialize` called twice*, which leaks the first tree; a capacity below one,
  which raises before anything is set.
- *What `remote_addr_pattern` means*: nothing in the repository says it.
- *Failing allocations* other than a vector's: they end the process, or return
  NULL where nothing was changed yet.
- Debugging output (`r3_tree_dump`, `info`), the platform replacements (`mman.c`,
  `getpagesize.c`, `asprintf.c`), the tables of method names in `mrblib/r3.rb`.
