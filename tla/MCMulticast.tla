----------------------------- MODULE MCMulticast -----------------------------
(* Multicast with a robot that is started twice or rotates its identity,   *)
(* and one that does neither and has the smaller socket buffer.            *)
EXTENDS Multicast

CONSTANTS a, b

Robots == {a, b}
Identities == [r \in Robots |-> IF r = a THEN 2 ELSE 1]
Buffers == [r \in Robots |-> IF r = a THEN 2 ELSE 1]
=============================================================================
