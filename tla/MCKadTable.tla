----------------------------- MODULE MCKadTable -----------------------------
(* Hosts 1 and 2 share a /24, and a /16 with host 3; host 1 is named with two *)
(* ports.  Id 1 moves between hosts 1 and 2, id 3 between two /16s, and id 2   *)
(* wants host 2.                                                               *)
EXTENDS KadTable

HostOf == [a |-> 1, a2 |-> 1, b |-> 2, c |-> 3, d |-> 4]
NetOf == [a |-> 1, a2 |-> 1, b |-> 1, c |-> 2, d |-> 3]
Net16Of == [a |-> 1, a2 |-> 1, b |-> 1, c |-> 1, d |-> 2]

Claimed == {<<1, "a">>, <<1, "a2">>, <<1, "b">>, <<2, "b">>, <<3, "c">>, <<3, "d">>}
Speaking == {<<1, "a">>, <<1, "b">>}
NodesDat == {<<>>, <<<<1, "a", TRUE, TRUE>>, <<3, "c", FALSE, FALSE>>>>}
=============================================================================
