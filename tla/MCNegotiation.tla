--------------------------- MODULE MCNegotiation ---------------------------
(* An instance of Negotiation, over the candidates of MCCandidate. *)
EXTENDS Negotiation, MCCandidate
\* Bare; in the order that is looked for, without and with the cost; as
\* compact_candidate writes a host and a relay; without ufrag; out of order.
MCEndings ==
    LET related == <<"raddr", "0.0.0.0", "rport", "0">>
        named   == <<"generation", "0", "ufrag", "abcd">>
        network == <<"network-id", "1", "network-cost", "10">>
    IN  {<<"host">>,
         <<"srflx">> \o related \o named,
         <<"host">> \o related \o named \o <<"network-cost", "999">>,
         <<"host">> \o named \o network,
         <<"relay">> \o related \o named \o network,
         <<"srflx">> \o related \o <<"generation", "0">>,
         <<"srflx">> \o named \o related}
MCFingerprints ==
    {<<"sha-256", Space, "AA:BB">>, <<"sha-256", Space, Space, "AA:BB">>,
     <<"sha-256", "AA:BB">>, <<"sha-1", Space, "CC">>}
MCWord ==
    {"raddr", "rport", "generation", "ufrag", "network-cost", Space}
    \cup UNION {Range(text) : text \in MCEndings \cup MCFingerprints}
=============================================================================
