----------------------------- MODULE R3RouteCmp -----------------------------
(***************************************************************************)
(* r3_route_cmp: the conditions a route puts on a request besides its      *)
(* path.  The binding sets the methods only; the other fields belong to    *)
(* the interface of libr3 (r3.h).                                          *)
(*                                                                         *)
(* A mask is the set of its bits.  An address is its text, with the words  *)
(* of Width bits inet_pton and ntohl make of it: one for IPv4, several for *)
(* IPv6.                                                                   *)
(***************************************************************************)
EXTENDS Integers, SequencesExt

CONSTANTS
    Width,      \* bits of a word, 32 in C
    Words,      \* words of an IPv6 address, 4 in C
    Chars,      \* the characters of a host
    Routes,     \* [method, scheme, host, remote_addr_pattern,
                \*  v4, v4_bits, v6, v6_bits]
    Requests,   \* [method, scheme, host, remote_addr], the last one
                \* [kind : {"none", "v4", "v6"}, text, words]
    Star        \* the character '*'

\* The bits of an IPv6 prefix fill its words from the first; inet_pton fills all
\* words of an address it makes.
ASSUME RouteCmpAssumption ==
    /\ Width \in Nat \ {0} /\ Words \in Nat \ {0}
    /\ \A route \in Routes :
        /\ route.host \in Seq(Chars)
        /\ route.v4 \in 0..2^Width - 1
        /\ route.v4_bits \in 0..Width
        /\ Len(route.v6) = Words /\ Len(route.v6_bits) = Words
        /\ \A i \in 1..Words :
            /\ route.v6[i] \in 0..2^Width - 1
            /\ route.v6_bits[i] \in 0..Width
            /\ i > 1 /\ route.v6_bits[i] > 0 => route.v6_bits[i - 1] = Width
    /\ \A entry \in Requests :
        LET addr == entry.remote_addr IN
        /\ entry.host \in Seq(Chars)
        /\ addr.kind \in {"none", "v4", "v6"}
        /\ addr.kind = "v4" => Len(addr.words) = 1
        /\ addr.kind = "v6" => Len(addr.words) = Words
        /\ \A i \in 1..Len(addr.words) : addr.words[i] \in 0..2^Width - 1

VARIABLES
    r1, r2,     \* the route and the match_entry
    result      \* of r3_route_cmp, 0 or -1; 1 before it has returned

vars == <<r1, r2, result>>

-----------------------------------------------------------------------------
(* The comparisons                                                         *)

Disjoint(mask1, mask2) == mask1 \cap mask2 = {}

\* Mutant: the '*' is a character like any other.
HostDiffers_NoStar(host1, host2) ==
    /\ host1 # <<>> /\ host2 # <<>>
    /\ \/ Len(host1) > Len(host2)
       \/ \E i \in 1..Len(host1) : host2[Len(host2) - Len(host1) + i] # host1[i]

\* The hosts are compared from their ends, up to a '*' that begins the route's.
HostDiffers(host1, host2) ==
    /\ host1 # <<>> /\ host2 # <<>>
    /\ \/ Len(host1) > Len(host2)
       \/ \E i \in 1..Len(host1) :
            /\ ~(i = 1 /\ host1[1] = Star)
            /\ host2[Len(host2) - Len(host1) + i] # host1[i]

\* strncmp with the length of the request's address.
PatternDiffers(pattern, text) ==
    pattern # <<>> /\ text # <<>> /\ ~IsPrefix(text, pattern)

ShiftRight(word, bits) == word \div 2^bits

V4Differs(addr, prefix, bits) ==
    /\ bits > 0
    /\ \/ addr.kind # "v4"      \* there is no address, or inet_pton fails
       \/ ShiftRight(prefix, Width - bits) # ShiftRight(addr.words[1], Width - bits)

\* Mutant: only the first word is compared.
V6Differs_FirstWord(addr, prefix, bits) ==
    /\ bits[1] > 0
    /\ \/ addr.kind # "v6"
       \/ ShiftRight(prefix[1], Width - bits[1])
            # ShiftRight(addr.words[1], Width - bits[1])

\* Word by word; the first one tells if there is a prefix at all.
V6Differs(addr, prefix, bits) ==
    /\ bits[1] > 0
    /\ \/ addr.kind # "v6"
       \/ \E i \in 1..Len(bits) :
            /\ bits[i] # 0
            /\ ShiftRight(prefix[i], Width - bits[i])
                # ShiftRight(addr.words[i], Width - bits[i])

RouteCmp(route, entry) ==
    LET addr == entry.remote_addr IN
    IF \/ route.method # {} /\ entry.method # {}
             /\ Disjoint(route.method, entry.method)
       \/ route.scheme # {} /\ Disjoint(route.scheme, entry.scheme)
       \/ HostDiffers(route.host, entry.host)
       \/ PatternDiffers(route.remote_addr_pattern, addr.text)
       \/ V4Differs(addr, route.v4, route.v4_bits)
       \/ V6Differs(addr, route.v6, route.v6_bits)
    THEN -1 ELSE 0

-----------------------------------------------------------------------------
(* Actions                                                                 *)

Init == r1 \in Routes /\ r2 \in Requests /\ result = 1

Compare ==
    /\ result = 1
    /\ result' = RouteCmp(r1, r2)
    /\ UNCHANGED <<r1, r2>>

Spec == Init /\ [][Compare]_vars

-----------------------------------------------------------------------------
(* What a route asks for, independently of the comparisons                 *)

\* The host of the request ends with the route's, or with what follows its '*',
\* which stands for one character at least.
HostAllowed ==
    \/ <<>> \in {r1.host, r2.host}
    \/ IsSuffix(r1.host, r2.host)
    \/ /\ r1.host[1] = Star
       /\ \E stem \in 1..Len(r2.host) :
            SubSeq(r2.host, stem + 1, Len(r2.host)) = Tail(r1.host)

\* The value of digits in a base, the first one weighing most.
Value(digits, base) ==
    LET upto[i \in 0..Len(digits)] ==
            IF i = 0 THEN 0 ELSE upto[i-1] * base + digits[i]
    IN upto[Len(digits)]

\* The number a sequence of words is.
Number(words) == Value(words, 2^Width)

Total(bits) == Value(bits, 1)

\* The address lies in a block: its number and that of the prefix are the same
\* once the low bits are dropped, those of all words together.
InBlock(kind, prefix, bits) ==
    LET size == 2^(Width * Len(prefix) - bits)
    IN bits > 0 =>
        /\ r2.remote_addr.kind = kind
        /\ Number(r2.remote_addr.words) \div size = Number(prefix) \div size

AddressAllowed ==
    /\ InBlock("v4", <<r1.v4>>, r1.v4_bits)
    /\ InBlock("v6", r1.v6, Total(r1.v6_bits))

-----------------------------------------------------------------------------
(* Properties                                                              *)

\* No route is found for another host, where both are known, nor for an address
\* outside its block: the word-wise shifts compare what one shift of the whole
\* address would.
FoundIsAllowed == result = 0 => HostAllowed /\ AddressAllowed

\* A route is refused only for a condition that does not hold.  That a request
\* has no method, host or text of an address is no reason; that it has no scheme,
\* or no address in a block, is one.
RefusedForAReason ==
    result = -1 =>
        \/ {} \notin {r1.method, r2.method} /\ Disjoint(r1.method, r2.method)
        \/ r1.scheme # {} /\ Disjoint(r1.scheme, r2.scheme)
        \/ ~HostAllowed
        \/ PatternDiffers(r1.remote_addr_pattern, r2.remote_addr.text)
        \/ ~AddressAllowed
=============================================================================
