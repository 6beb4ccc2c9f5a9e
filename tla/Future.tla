------------------------------- MODULE Future -------------------------------
(***************************************************************************)
(* What waitTask promises its caller: a future that ends once, with a result   *)
(* or with a timeout, and stays as it ended.                                    *)
(***************************************************************************)
CONSTANT Task

VARIABLE state

Init == state = [k \in Task |-> "none"]

Ask(k) == state[k] = "none" /\ state' = [state EXCEPT ![k] = "waiting"]
Succeed(k) == state[k] = "waiting" /\ state' = [state EXCEPT ![k] = "result"]
Fail(k) == state[k] = "waiting" /\ state' = [state EXCEPT ![k] = "timeout"]

(* The caller drops a future that is over; a later request has another id. *)
Drop(k) == state[k] \in {"result", "timeout"} /\ state' = [state EXCEPT ![k] = "none"]

Next == \E k \in Task : Ask(k) \/ Succeed(k) \/ Fail(k) \/ Drop(k)

Safety == Init /\ [][Next]_state

Spec == Safety /\ \A k \in Task : WF_state(Succeed(k) \/ Fail(k))
=============================================================================
