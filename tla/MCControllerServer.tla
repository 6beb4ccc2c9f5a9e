------------------------- MODULE MCControllerServer -------------------------
(* Small instances of ControllerServer for TLC. *)
EXTENDS ControllerServer

CONSTANTS t1, t2, m1, m2, v1, v2

NoFixed == [m \in Mac |-> NoVip]
FixedForM1 == [m \in Mac |-> IF m = m1 THEN v1 ELSE NoVip]

OneTenant == [c \in Channel |-> t1]

\* Connections 1 and 3 are of the same node, which reconnects.
Reconnecting == [c \in Channel |-> IF c = 2 THEN m2 ELSE m1]

\* A node that reconnects, and the last connection is of another node.
SameNode == [c \in Channel |-> IF c = NChannel THEN m2 ELSE m1]

\* Two tenants whose pools have the same vips.
LastOther == [c \in Channel |-> IF c = NChannel THEN t2 ELSE t1]

EachOnce == [c \in Channel |-> 1]
EachTwice == [c \in Channel |-> 2]
LastTwice == [c \in Channel |-> IF c = NChannel THEN 2 ELSE 1]
=============================================================================
