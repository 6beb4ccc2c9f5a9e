-------------------------- MODULE AsyncTaskProofs --------------------------
(***************************************************************************)
(* Proofs about AsyncTask, for every set of ids: an entry always has somebody *)
(* who will complete its future (EntryOwned), from which the map of entries     *)
(* and timers implements a future.  A module that uses AsyncTask has to show     *)
(* that its steps are TaskNext steps or leave taskVars alone.                      *)
(***************************************************************************)
EXTENDS AsyncTask, TLAPS

TaskNext ==
    \E k \in Task : \/ WaitPut(k) \/ WaitArm(k)
                    \/ Answer(k) \/ Expire(k) \/ Complete(k) \/ Forget(k)

(* At the beginning there is no request. *)
LEMMA TaskInitial == TaskInit => TaskTypeOK /\ EntryOwned /\ Pending!Init
BY DEF TaskInit, TaskTypeOK, EntryOwned, Pending!Init

(* Every operation keeps the types. *)
LEMMA TaskTypeStep == TaskTypeOK /\ [TaskNext]_taskVars => TaskTypeOK'
<1> SUFFICES ASSUME TaskTypeOK, [TaskNext]_taskVars PROVE TaskTypeOK'
  OBVIOUS
<1> USE DEF TaskTypeOK
<1>1. ASSUME NEW k \in Task, WaitPut(k) PROVE TaskTypeOK'
  BY <1>1 DEF WaitPut
<1>2. ASSUME NEW k \in Task, WaitArm(k) PROVE TaskTypeOK'
  BY <1>2 DEF WaitArm
<1>3. ASSUME NEW k \in Task, Answer(k) PROVE TaskTypeOK'
  BY <1>3 DEF Answer
<1>4. ASSUME NEW k \in Task, Expire(k) PROVE TaskTypeOK'
  BY <1>4 DEF Expire
<1>5. ASSUME NEW k \in Task, Complete(k) PROVE TaskTypeOK'
  BY <1>5 DEF Complete
<1>6. ASSUME NEW k \in Task, Forget(k) PROVE TaskTypeOK'
  BY <1>6 DEF Forget
<1>7. CASE UNCHANGED taskVars
  BY <1>7 DEF taskVars
<1> QED
  BY <1>1, <1>2, <1>3, <1>4, <1>5, <1>6, <1>7 DEF TaskNext

(* What EntryOwned says of one id. *)
Owned(k) ==
    /\ future[k] = "waiting" => k \in futureMap \/ claim[k] # "none"
    /\ k \in futureMap => future[k] = "waiting" /\ claim[k] = "none" /\ timer[k] # "over"
    /\ claim[k] # "none" => future[k] = "waiting"

(* An operation touches one id; removing the entry and claiming the completion is *)
(* one step, so that an id never has neither or both.                               *)
LEMMA EntryStep == TaskTypeOK /\ EntryOwned /\ [TaskNext]_taskVars => EntryOwned'
<1> SUFFICES ASSUME TaskTypeOK, EntryOwned, [TaskNext]_taskVars, NEW j \in Task
             PROVE  Owned(j)'
  BY DEF EntryOwned, Owned
<1>0. Owned(j)
  BY DEF EntryOwned, Owned
<1> USE DEF TaskTypeOK, Owned
<1>1. ASSUME NEW k \in Task, WaitPut(k) PROVE Owned(j)'
  BY <1>0, <1>1 DEF WaitPut
<1>2. ASSUME NEW k \in Task, WaitArm(k) PROVE Owned(j)'
  BY <1>0, <1>2 DEF WaitArm
<1>3. ASSUME NEW k \in Task, Answer(k) PROVE Owned(j)'
  BY <1>0, <1>3 DEF Answer
<1>4. ASSUME NEW k \in Task, Expire(k) PROVE Owned(j)'
  BY <1>0, <1>4 DEF Expire
<1>5. ASSUME NEW k \in Task, Complete(k) PROVE Owned(j)'
  BY <1>0, <1>5 DEF Complete
<1>6. ASSUME NEW k \in Task, Forget(k) PROVE Owned(j)'
  BY <1>0, <1>6 DEF Forget
<1>7. CASE UNCHANGED taskVars
  BY <1>0, <1>7 DEF taskVars
<1> QED
  BY <1>1, <1>2, <1>3, <1>4, <1>5, <1>6, <1>7 DEF TaskNext

(* A future ends once: whoever completes it finds it waiting, and the caller does *)
(* not drop it before.                                                              *)
LEMMA FutureStep == TaskTypeOK /\ EntryOwned /\ [TaskNext]_taskVars => [Pending!Next]_future
<1> SUFFICES ASSUME TaskTypeOK, EntryOwned, [TaskNext]_taskVars PROVE [Pending!Next]_future
  OBVIOUS
<1> USE DEF TaskTypeOK, Pending!Next
<1>1. ASSUME NEW k \in Task, WaitPut(k) PROVE Pending!Next
  BY <1>1 DEF WaitPut, Pending!Ask
<1>2. ASSUME NEW k \in Task, WaitArm(k) PROVE UNCHANGED future
  BY <1>2 DEF WaitArm
<1>3. ASSUME NEW k \in Task, Answer(k) PROVE UNCHANGED future
  BY <1>3 DEF Answer
<1>4. ASSUME NEW k \in Task, Expire(k) PROVE UNCHANGED future
  BY <1>4 DEF Expire
<1>5. ASSUME NEW k \in Task, Complete(k) PROVE Pending!Next
  <2>1. future[k] = "waiting"
    BY <1>5 DEF Complete, EntryOwned
  <2>2. CASE claim[k] = "answer"
    BY <1>5, <2>1, <2>2 DEF Complete, Pending!Succeed
  <2>3. CASE claim[k] # "answer"
    BY <1>5, <2>1, <2>3 DEF Complete, Pending!Fail
  <2> QED
    BY <2>2, <2>3
<1>6. ASSUME NEW k \in Task, Forget(k) PROVE [Pending!Next]_future
  <2>1. future[k] # "waiting"
    BY <1>6 DEF Forget, EntryOwned
  <2>2. CASE future[k] = "none"
    <3>1. future' = future
      BY <1>6, <2>2 DEF Forget
    <3> QED
      BY <3>1
  <2>3. CASE future[k] \in {"result", "timeout"}
    BY <1>6, <2>3 DEF Forget, Pending!Drop
  <2> QED
    BY <2>1, <2>2, <2>3
<1>7. CASE UNCHANGED taskVars
  BY <1>7 DEF taskVars
<1> QED
  BY <1>1, <1>2, <1>3, <1>4, <1>5, <1>6, <1>7 DEF TaskNext
=============================================================================
