------------------------------ MODULE VipLease ------------------------------
(***************************************************************************)
(* What the local data service and the controller promise together: a vip  *)
(* of a tenant is leased to one connection at a time, a connection is        *)
(* announced as online only while it holds its lease, and it gives the lease *)
(* back only after it has stopped being announced.                           *)
(***************************************************************************)
EXTENDS Naturals

CONSTANTS Connection, Tenant, Vip, Nobody

VARIABLES lease, online

vars == <<lease, online>>

Holds(c) == \E t \in Tenant, v \in Vip : lease[t][v] = c

Init ==
    /\ lease = [t \in Tenant |-> [v \in Vip |-> Nobody]]
    /\ online = {}

Grant(c, t, v) ==
    /\ lease[t][v] = Nobody
    /\ ~ Holds(c)
    /\ lease' = [lease EXCEPT ![t][v] = c]
    /\ UNCHANGED online

GoOnline(c) ==
    /\ Holds(c)
    /\ online' = online \cup {c}
    /\ UNCHANGED lease

GoOffline(c) ==
    /\ online' = online \ {c}
    /\ UNCHANGED lease

Release(c, t, v) ==
    /\ c \notin online
    /\ lease[t][v] = c
    /\ lease' = [lease EXCEPT ![t][v] = Nobody]
    /\ UNCHANGED online

Next ==
    \E c \in Connection :
        \/ GoOnline(c) \/ GoOffline(c)
        \/ \E t \in Tenant, v \in Vip : Grant(c, t, v) \/ Release(c, t, v)

Spec == Init /\ [][Next]_vars
=============================================================================
