------------------------ MODULE MCEndpointBootstrap ------------------------
(* Three addresses: an IPv4 one, an IPv4 one that cannot be used, and an IPv6 *)
(* one; answers of up to two records, and some at and above the limits.       *)
EXTENDS EndpointBootstrap

MCTimes == 0..3
MCRecords == [address : {1, 2, 3}, valid_until : MCTimes]
Ends(s, t) == [i \in DOMAIN s |-> [address |-> s[i], valid_until |-> t[i]]]

MCResponses ==
  {<<>>} \cup {<<r>> : r \in MCRecords}
  \cup {<<r, q>> : r, q \in {x \in MCRecords : x.address # 2 /\ x.valid_until > 0}}
  \cup {Ends(<<1, 3, 1>>, <<3, 2, 2>>), Ends(<<3, 1, 3>>, <<2, 2, 3>>),
        Ends(<<1, 2, 3>>, <<3, 3, 3>>), Ends(<<1, 3, 1, 3>>, <<3, 3, 3, 3>>)}
=============================================================================
