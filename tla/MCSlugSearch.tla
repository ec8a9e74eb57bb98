---------------------------- MODULE MCSlugSearch ----------------------------
(***************************************************************************)
(* Instances of SlugSearch for TLC: all texts of a few characters.         *)
(***************************************************************************)
EXTENDS SlugSearch

CONSTANTS MaxPattern, MaxEdge

MCBraces == {"a", Open, Close}
MCWithColon == MCBraces \cup {Escape, Colon}

Texts(alphabet, n) == UNION {[1..k -> alphabet] : k \in 1..n}

MCPatterns(alphabet) == {text \in Texts(alphabet, MaxPattern) : PlainBraces(text)}

MCEdges == {text \in Texts(MCBraces, MaxEdge) : PlainBraces(text)}
MCBalancedEdges == {text \in MCEdges : Balanced(text)}

\* Nodes with one edge, or two that begin with different tokens.
MCEdgeLists ==
    {<<edge>> : edge \in MCEdges}
        \cup {pair \in MCBalancedEdges \X MCBalancedEdges :
                TokenAt(pair[1], 1) # TokenAt(pair[2], 1)}

\* Patterns of braces on all these nodes, and patterns with colons and
\* backslashes that are scanned for a node without edges.
MCSearches ==
    [path : MCPatterns(MCBraces), edges : MCEdgeLists]
        \cup [path : MCPatterns(MCWithColon), edges : {(<<>>)}]
=============================================================================
