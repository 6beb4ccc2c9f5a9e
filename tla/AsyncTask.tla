----------------------------- MODULE AsyncTask -----------------------------
(***************************************************************************)
(* Requests that wait for an answer (sdwan-common AsyncTask.java).  A caller   *)
(* enters a future under a fresh id, arms its timer and only then writes the    *)
(* request.  The event loop that reads an answer and the timer thread race for   *)
(* the entry of futureMap; the remove decides who completes the future.           *)
(***************************************************************************)
EXTENDS Naturals

CONSTANT Task      \* ids; an id stands for many, used one after the other

VARIABLES
    futureMap,     \* ids that have an entry
    future,        \* the caller's future
    timer,
    claim          \* who has removed the entry and is about to complete it

taskVars == <<futureMap, future, timer, claim>>

TaskTypeOK ==
    /\ futureMap \subseteq Task
    /\ future \in [Task -> {"none", "waiting", "result", "timeout"}]
    /\ timer \in [Task -> {"off", "set", "over"}]
    /\ claim \in [Task -> {"none", "answer", "timeout"}]

TaskInit ==
    /\ futureMap = {}
    /\ future = [k \in Task |-> "none"]
    /\ timer = [k \in Task |-> "off"]
    /\ claim = [k \in Task |-> "none"]

(* waitTask: the entry first, then the timer. *)
WaitPut(k) ==
    /\ future[k] = "none" /\ timer[k] = "off" /\ claim[k] = "none" /\ k \notin futureMap
    /\ futureMap' = futureMap \cup {k}
    /\ future' = [future EXCEPT ![k] = "waiting"]
    /\ UNCHANGED <<timer, claim>>

WaitArm(k) ==
    /\ k \in futureMap /\ timer[k] = "off"
    /\ timer' = [timer EXCEPT ![k] = "set"]
    /\ UNCHANGED <<futureMap, future, claim>>

(* Mutant: the entry is read, and removed when the future is completed. *)
AnswerGet(k) ==
    /\ claim' = IF k \in futureMap THEN [claim EXCEPT ![k] = "answer"] ELSE claim
    /\ UNCHANGED <<futureMap, future, timer>>

(* completeTask: an answer finds the entry or is dropped. *)
Answer(k) ==
    /\ futureMap' = futureMap \ {k}
    /\ claim' = IF k \in futureMap THEN [claim EXCEPT ![k] = "answer"] ELSE claim
    /\ UNCHANGED <<future, timer>>

(* Mutant: the entry stays when the timer fires. *)
ExpireKept(k) ==
    /\ timer[k] = "set"
    /\ timer' = [timer EXCEPT ![k] = "over"]
    /\ claim' = IF k \in futureMap THEN [claim EXCEPT ![k] = "timeout"] ELSE claim
    /\ UNCHANGED <<futureMap, future>>

(* Mutant: the timer does nothing. *)
ExpireNever(k) ==
    /\ timer[k] = "set"
    /\ UNCHANGED taskVars

(* The timer fires: completeExceptionallyTask. *)
Expire(k) ==
    /\ timer[k] = "set"
    /\ timer' = [timer EXCEPT ![k] = "over"]
    /\ futureMap' = futureMap \ {k}
    /\ claim' = IF k \in futureMap THEN [claim EXCEPT ![k] = "timeout"] ELSE claim
    /\ UNCHANGED future

(* complete cancels the timer, which has no effect on one that fires already; *)
(* neither completion changes a future that is done.                            *)
Complete(k) ==
    /\ claim[k] # "none"
    /\ claim' = [claim EXCEPT ![k] = "none"]
    /\ timer' = IF claim[k] = "answer" THEN [timer EXCEPT ![k] = "over"] ELSE timer
    /\ future' = IF future[k] # "waiting" THEN future
                 ELSE [future EXCEPT ![k] = IF claim[k] = "answer" THEN "result" ELSE "timeout"]
    /\ UNCHANGED futureMap

(* The caller lets go of a future that is over, and its id is not used again. *)
Forget(k) ==
    /\ timer[k] = "over" /\ claim[k] = "none" /\ k \notin futureMap
    /\ future' = [future EXCEPT ![k] = "none"]
    /\ timer' = [timer EXCEPT ![k] = "off"]
    /\ UNCHANGED <<futureMap, claim>>
-----------------------------------------------------------------------------
(* An entry always has a timer that will remove it, once it is armed, and a future *)
(* is over exactly when its entry is gone and nobody is about to complete it: the    *)
(* map leaks nothing and no caller waits for a future that nobody completes.           *)
EntryOwned ==
    \A k \in Task :
        /\ future[k] = "waiting" => k \in futureMap \/ claim[k] # "none"
        /\ k \in futureMap => future[k] = "waiting" /\ claim[k] = "none" /\ timer[k] # "over"
        /\ claim[k] # "none" => future[k] = "waiting"

(* The map of entries and timers implements a future. *)
Pending == INSTANCE Future WITH state <- future
PendingSpec == Pending!Spec
=============================================================================
