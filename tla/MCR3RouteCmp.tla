---------------------------- MODULE MCR3RouteCmp ----------------------------
(***************************************************************************)
(* Instances of R3RouteCmp for TLC: words of two bits, two of them to an   *)
(* IPv6 address.                                                           *)
(***************************************************************************)
EXTENDS R3RouteCmp

Values == 0..3

MCHosts == {<<>>, <<"a">>, <<"*">>, <<"*", "a">>, <<"a", "b">>, <<"b", "a">>,
            <<"*", "b", "a">>, <<"b", "*", "a">>}

AnyRoute == [method |-> {}, scheme |-> {}, host |-> <<>>,
             remote_addr_pattern |-> <<>>, v4 |-> 0, v4_bits |-> 0,
             v6 |-> <<0, 0>>, v6_bits |-> <<0, 0>>]

\* Routes with conditions on method, scheme and host, with a block of IPv4
\* addresses, and with a block of IPv6 addresses.
MCRoutes ==
    {[AnyRoute EXCEPT !.method = method, !.scheme = scheme, !.host = host,
                      !.remote_addr_pattern = pattern] :
        method \in SUBSET {"GET", "POST"}, scheme \in {{}, {"HTTP"}},
        host \in MCHosts, pattern \in {<<>>, <<"1", ".", "1">>}}
    \cup
    {[AnyRoute EXCEPT !.host = host, !.v4 = prefix, !.v4_bits = bits] :
        host \in {<<>>, <<"*", "a">>}, prefix \in Values, bits \in 0..2}
    \cup
    {[AnyRoute EXCEPT !.method = {"GET"}, !.v6 = prefix, !.v6_bits = bits] :
        prefix \in Values \X Values,
        bits \in {<<1, 0>>, <<2, 0>>, <<2, 1>>, <<2, 2>>}}

Address(kind, text, words) == [kind |-> kind, text |-> text, words |-> words]

MCAddresses ==
    {Address("none", <<>>, <<>>)}
    \cup {Address("v4", <<"1", ".", "1">>, <<word>>) : word \in Values}
    \cup {Address("v4", <<"1">>, <<0>>), Address("v4", <<"1", ".", "1", "0">>, <<1>>)}
    \cup {Address("v6", <<"1", ":">>, words) : words \in Values \X Values}

MCRequests ==
    [method : {{}, {"GET"}, {"POST"}}, scheme : {{}, {"HTTP"}},
     host : {<<>>, <<"a">>, <<"b">>, <<"b", "a">>, <<"b", "b", "a">>, <<"a", "b">>},
     remote_addr : MCAddresses]
=============================================================================
