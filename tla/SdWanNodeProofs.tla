-------------------------- MODULE SdWanNodeProofs --------------------------
(***************************************************************************)
(* Proofs about SdWanNode, for any number of routers, requests, starts and     *)
(* changes of the peer: its types; that requests are completed once and leave    *)
(* no entry; and, if start waits for the last loop thread (Patient) and an          *)
(* interrupted thread leaves its wait before an answer is read (Prompt), that a      *)
(* node that is stopped is out of the directory and none of its other routers is      *)
(* ever in it; and that a router that has read what the controller sent knows what        *)
(* the directory says, unless a push overtook the list of its registration.                *)
(***************************************************************************)
EXTENDS SdWanNode, AsyncTaskProofs

USE NodeAssumption

Done == {"failed", "refused"}
Engaged == Installing \ {"install"}           \* a router is at work
Asking == Engaged \ {"connect", "config"}     \* and has asked the controller

(* The caller is in start. *)
Starting == at[Caller] \in Installing \cup Done

(* Who is in start or stop has the monitor. *)
MonitorOK ==
    /\ at[Caller] \in Installing \cup Done \cup Stopping \cup Uninstalling \cup {"off"}
    /\ monitor = Caller <=> at[Caller] \in Installing \cup Done \cup Uninstalling \cup {"interrupt"}
    /\ \A l \in Loop : at[l] = "interrupt" => monitor = l
    /\ \A l \in Loop : monitor = l => at[l] \in {"interrupt"} \cup Uninstalling

(* stop ends the loop before it interrupts, and status before it uninstalls. *)
StatusOK ==
    /\ status => loopThread \in Loop
    /\ ~ status => ~ loopStatus
    /\ \A p \in Thread : at[p] = "interrupt" => status /\ ~ loopStatus
    /\ \A p \in Thread : monitor = p /\ at[p] \in Uninstalling => ~ status
    /\ Starting => ~ status

(* One loop thread at a time, and none while the caller starts. *)
LoopsOK ==
    /\ \A l \in Loop : at[l] # "off" => l = loopThread
    /\ Starting => \A l \in Loop : at[l] = "off"

(* A thread at work on a router has one, and a request once it has asked. *)
Placed ==
    \A p \in Thread : /\ at[p] \in Engaged => mine[p] \in Router
                      /\ at[p] \in Asking => task[p] \in Task

(* Requests and messages are on connections that are open. *)
OpenOK ==
    /\ \A k \in Task : query[k] # NoQuery => query[k].router \in open
    /\ \A r \in Router : wire[r] # << >> => r \in open

TypeInv == TypeOK /\ Placed /\ OpenOK

(* The router a thread installs is the node's, as long as nobody stops the node. *)
MineOK ==
    /\ \A p \in Thread : at[p] \notin Engaged \cup Done => mine[p] = NoRouter
    /\ Starting /\ at[Caller] # "install" => mine[Caller] = virtualRouter /\ mine[Caller] \notin stopped
    /\ \A l \in Loop : status /\ at[l] \in Engaged => mine[l] = virtualRouter /\ mine[l] \notin stopped

(* r is in the directory, or on its way there. *)
Tied(r) == r \in registered \/ \E k \in Task : query[k] = [router |-> r, kind |-> "regist"]

(* A router that was stopped is not used any more. *)
StoppedOK ==
    /\ \A r \in stopped : r = virtualRouter \/ \E q \in Thread : mine[q] = r
    /\ virtualRouter \in stopped => \E p \in Thread : at[p] = "unset"
    /\ \A l \in Loop : at[l] = "install" => virtualRouter = NoRouter
    /\ \A l \in Loop : at[l] = "unset" /\ monitor # l => virtualRouter \in stopped \cup {NoRouter}
    /\ \A p \in Thread : at[p] \in Asking /\ mine[p] \in stopped => mine[p] \notin open
    /\ \A r \in stopped : ~ Tied(r)

(* stop is about to uninstall. *)
ToUninstall == monitor \in Thread /\ at[monitor] = "uninstall"

(* l will not get an answer. *)
Unanswered(l) == future[task[l]] # "result" /\ claim[task[l]] # "answer"

(* What a loop thread is doing when the node is stopped does not put a router into   *)
(* the directory that stays there: it is not installing; or it was interrupted and      *)
(* has no answer yet; or its router is stopped, or the one that stop is going to stop.    *)
Harmless == Done \cup Stopping \cup {"off", "head", "await", "check", "sleep"}

Ending(l) ==
    \/ at[l] \in Harmless \/ monitor = l
    \/ at[l] \in Uninstalling \cup {"install", "connect", "config"} /\ l \in flag
    \/ at[l] \in {"configSend", "configWait"} /\ l \in flag /\ Unanswered(l)
    \/ at[l] \in Engaged /\ mine[l] \in stopped
    \/ at[l] \in Engaged /\ mine[l] = virtualRouter /\ ToUninstall

EndingOK == ~ status => \A l \in Loop : Ending(l)

(* r is the router of a node that runs, starts, or is going to be uninstalled. *)
Held(r) ==
    /\ r = virtualRouter
    /\ status \/ (Starting /\ at[Caller] # "install") \/ ToUninstall

TiedOK == \A r \in Router : Tied(r) => r \in open /\ (r \in abandoned \/ Held(r))

IInv ==
    /\ TypeInv /\ MonitorOK /\ StatusOK /\ LoopsOK /\ MineOK
    /\ StoppedOK /\ EndingOK /\ TiedOK

Restricted == Patient /\ Prompt
-----------------------------------------------------------------------------
(* Types *)

Message == [task : Task \cup {NoTask}, info : Info \cup {Absent}]

(* What is read from a connection is a message, and what is left are messages. *)
LEMMA WireTypes ==
    ASSUME TypeOK, NEW r \in Router, wire[r] # << >>
    PROVE  /\ Head(wire[r]) \in Message
           /\ [wire EXCEPT ![r] = Tail(@)] \in [Router -> Seq(Message)]
<1>1. wire \in [Router -> Seq(Message)]
  BY DEF TypeOK, NetTypeOK, Message
<1>2. wire[r] \in Seq(Message)
  BY <1>1
<1>3. Head(wire[r]) \in Message
  BY <1>2
<1>4. Tail(wire[r]) \in Seq(Message)
  BY <1>2
<1> QED
  BY <1>1, <1>3, <1>4

(* A step of the node is an operation on one request, or touches none. *)
LEMMA TaskPart == ASSUME TypeOK, [Next]_vars PROVE [TaskNext]_taskVars
<1> USE DEF TaskNext
<1>1. CASE CallStart
  BY <1>1 DEF CallStart
<1>2. CASE CallStop
  BY <1>2 DEF CallStop
<1>3. ASSUME NEW p \in Thread, InstallStep(p) PROVE [TaskNext]_taskVars
  <2>1. CASE Ask(p)
    BY <2>1 DEF Ask, FreshTask
  <2>2. CASE Send(p)
    <3>1. task[p] \in Task
      BY <2>2 DEF Send, WaitArm, TypeOK, TaskTypeOK
    <3> QED
      BY <2>2, <3>1 DEF Send
  <2>3. CASE ~ Ask(p) /\ ~ Send(p)
    BY <1>3, <2>3 DEF InstallStep, Install, Connect, ConnectFail, GetResult, GetTimeout, GetInterrupted,
         Apply, IceStart, IceFail, StoppedMeanwhile
  <2> QED
    BY <2>1, <2>2, <2>3
<1>4. ASSUME NEW p \in Thread, StopStep(p) PROVE UNCHANGED taskVars
  BY <1>4 DEF StopStep, StopEnter, StopInterrupt, Uninstall, Unset
<1>5. CASE Started \/ StartFailed
  BY <1>5 DEF Started, StartFailed
<1>6. ASSUME NEW l \in Loop, LoopStep(l) PROVE UNCHANGED taskVars
  BY <1>6 DEF LoopStep, LoopHead, Await, Check, ReinstallOver, Sleep
<1>7. ASSUME NEW r \in Router, ReadReply(r) PROVE TaskNext
  <2>1. Head(wire[r]).task \in Task
    BY <1>7, WireTypes DEF ReadReply, Message
  <2> QED
    BY <1>7, <2>1 DEF ReadReply
<1>8. ASSUME NEW r \in Router, ReadPush(r) PROVE UNCHANGED taskVars
  BY <1>8 DEF ReadPush
<1>9. ASSUME NEW r \in Router, Lose(r) PROVE UNCHANGED taskVars
  BY <1>9 DEF Lose
<1>10. ASSUME NEW k \in Task, TaskStep(k) \/ Refuse(k) PROVE [TaskNext]_taskVars
  BY <1>10 DEF TaskStep, CompleteTask, ExpireTask, ForgetTask, Serve, Refuse, Served
<1>11. ASSUME NEW x \in Info \cup {Absent}, PeerChange(x) PROVE UNCHANGED taskVars
  BY <1>11 DEF PeerChange
<1>12. CASE UNCHANGED vars
  BY <1>12 DEF vars
<1> QED
  BY <1>1, <1>2, <1>3, <1>4, <1>5, <1>6, <1>7, <1>8, <1>9, <1>10, <1>11, <1>12
     DEF Next, ThreadStep, EventLoopStep
LEMMA TypeInit == Init => TypeInv
<1> SUFFICES ASSUME Init PROVE TypeInv
  OBVIOUS
<1>1. TaskTypeOK
  BY TaskInitial DEF Init
<1>2. NetTypeOK
  <2>1. wire \in [Router -> Seq(Message)]
    BY DEF Init
  <2>2. /\ answer \in [Task -> [code : {"ok", "refused"}, list : Info \cup {Absent}]]
        /\ query \in [Task -> [router : Router \cup {NoRouter}, kind : {"config", "regist"}]]
    BY DEF Init, NoAnswer, NoQuery
  <2> QED
    BY <2>1, <2>2 DEF Init, NetTypeOK, Message
<1>3. RouterTypeOK
  BY DEF Init, RouterTypeOK
<1>4. NodeTypeOK
  <2>1. pushes \in Nat /\ starts \in Nat /\ pushes + starts <= MaxCall
    BY DEF Init
  <2>2. virtualRouter \in Router \cup {NoRouter}
    BY DEF Init
  <2>3. status \in BOOLEAN /\ loopStatus \in BOOLEAN
    BY DEF Init
  <2> QED
    BY <2>1, <2>2, <2>3 DEF Init, NodeTypeOK
<1>5. ThreadTypeOK
  BY DEF Init, ThreadTypeOK
<1>6. Placed
  BY DEF Init, Placed, Engaged, Asking, Installing
<1>7. OpenOK
  BY DEF Init, OpenOK
<1> QED
  BY <1>1, <1>2, <1>3, <1>4, <1>5, <1>6, <1>7 DEF TypeInv, TypeOK

(* The types of what a lost connection leaves. *)
LEMMA DisconnectTypes ==
    ASSUME NetTypeOK, OpenOK, NEW r \in Router, Disconnect(r)
    PROVE  NetTypeOK' /\ OpenOK' /\ pushes' = pushes
<1>1. wire \in [Router -> Seq(Message)]
  BY DEF NetTypeOK, Message
<1>2. << >> \in Seq(Message)
  OBVIOUS
<1>3. wire' \in [Router -> Seq(Message)]
  BY <1>1, <1>2 DEF Disconnect
<1>4. query' \in [Task -> [router : Router \cup {NoRouter}, kind : {"config", "regist"}]]
  BY DEF Disconnect, NetTypeOK, NoQuery
<1>5. OpenOK'
  BY <1>1 DEF Disconnect, NetTypeOK, OpenOK
<1> QED
  BY <1>3, <1>4, <1>5 DEF Disconnect, NetTypeOK, Message

LEMMA NetSame ==
    ASSUME TypeInv, UNCHANGED netVars PROVE NetTypeOK' /\ OpenOK' /\ pushes' = pushes
BY DEF netVars, TypeInv, TypeOK, NetTypeOK, OpenOK

(* The steps of install. *)
LEMMA TypeInstall ==
    ASSUME TypeInv, NEW p \in Thread, InstallStep(p)
    PROVE  NetTypeOK' /\ RouterTypeOK' /\ NodeTypeOK' /\ ThreadTypeOK' /\ Placed' /\ OpenOK'
<1> USE DEF TypeInv, TypeOK, NetTypeOK, OpenOK, RouterTypeOK, NodeTypeOK, ThreadTypeOK, Placed, Engaged, Asking,
            netVars, routerVars, nodeVars, GoTo, Installing
<1>1. CASE Install(p)
  <2>1. PICK r \in FreshRouter : /\ virtualRouter' = r /\ mine' = [mine EXCEPT ![p] = r]
                               /\ table' = [table EXCEPT ![r] = Absent]
    BY <1>1 DEF Install
  <2>2. r \in Router
    BY DEF FreshRouter
  <2>3. /\ NetTypeOK' /\ RouterTypeOK' /\ OpenOK'
    BY <1>1, <2>1, <2>2 DEF Install
  <2>4. NodeTypeOK'
    BY <1>1, <2>1, <2>2 DEF Install
  <2>5. ThreadTypeOK'
    BY <1>1, <2>1, <2>2 DEF Install
  <2>6. Placed'
    BY <1>1, <2>1, <2>2 DEF Install
  <2> QED
    BY <2>3, <2>4, <2>5, <2>6
<1>2. CASE Connect(p)
  <2>1. mine[p] \in Router
    BY <1>2 DEF Connect
  <2> QED
    BY <1>2, <2>1 DEF Connect
<1>3. CASE ConnectFail(p) \/ IceFail(p) \/ StoppedMeanwhile(p) \/ IceStart(p)
  <2>1. CASE ConnectFail(p)
    <3>1. NetTypeOK' /\ RouterTypeOK' /\ NodeTypeOK' /\ OpenOK'
      BY <2>1 DEF ConnectFail
    <3>2. ThreadTypeOK' /\ Placed'
      BY <2>1 DEF ConnectFail
    <3> QED
      BY <3>1, <3>2
  <2>2. CASE IceFail(p)
    <3>1. NetTypeOK' /\ RouterTypeOK' /\ NodeTypeOK' /\ OpenOK'
      BY <2>2 DEF IceFail
    <3>2. ThreadTypeOK' /\ Placed'
      BY <2>2 DEF IceFail
    <3> QED
      BY <3>1, <3>2
  <2>3. CASE StoppedMeanwhile(p)
    <3>1. NetTypeOK' /\ RouterTypeOK' /\ NodeTypeOK' /\ OpenOK'
      BY <2>3 DEF StoppedMeanwhile
    <3>2. ThreadTypeOK' /\ Placed'
      BY <2>3 DEF StoppedMeanwhile
    <3> QED
      BY <3>1, <3>2
  <2>4. CASE IceStart(p)
    <3>1. NetTypeOK' /\ RouterTypeOK' /\ NodeTypeOK' /\ OpenOK'
      BY <2>4 DEF IceStart
    <3>2. ThreadTypeOK' /\ Placed'
      BY <2>4 DEF IceStart
    <3> QED
      BY <3>1, <3>2
  <2> QED
    BY <1>3, <2>1, <2>2, <2>3, <2>4
<1>4. CASE Ask(p)
  <2>1. NetTypeOK' /\ OpenOK' /\ pushes' = pushes
    BY <1>4, NetSame DEF Ask, FreshTask
  <2>2. RouterTypeOK'
    BY <1>4 DEF Ask, FreshTask
  <2>3. NodeTypeOK'
    BY <1>4, <2>1 DEF Ask, FreshTask
  <2>4. ThreadTypeOK'
    BY <1>4 DEF Ask, FreshTask
  <2>5. Placed'
    BY <1>4 DEF Ask, FreshTask
  <2> QED
    BY <2>1, <2>2, <2>3, <2>4, <2>5
<1>5. CASE Send(p)
  BY <1>5 DEF Send
<1>6. CASE GetResult(p) \/ GetTimeout(p) \/ GetInterrupted(p)
  <2>1. CASE GetResult(p)
    <3>1. NetTypeOK' /\ RouterTypeOK' /\ NodeTypeOK' /\ OpenOK'
      BY <2>1 DEF GetResult, Waiting
    <3>2. ThreadTypeOK' /\ Placed'
      BY <2>1 DEF GetResult, Waiting
    <3> QED
      BY <3>1, <3>2
  <2>2. CASE GetTimeout(p)
    <3>1. NetTypeOK' /\ RouterTypeOK' /\ NodeTypeOK' /\ OpenOK'
      BY <2>2 DEF GetTimeout, Waiting
    <3>2. ThreadTypeOK' /\ Placed'
      BY <2>2 DEF GetTimeout, Waiting
    <3> QED
      BY <3>1, <3>2
  <2>3. CASE GetInterrupted(p)
    <3>1. NetTypeOK' /\ RouterTypeOK' /\ NodeTypeOK' /\ OpenOK'
      BY <2>3 DEF GetInterrupted, Waiting
    <3>2. ThreadTypeOK' /\ Placed'
      BY <2>3 DEF GetInterrupted, Waiting
    <3> QED
      BY <3>1, <3>2
  <2> QED
    BY <1>6, <2>1, <2>2, <2>3
<1>7. CASE Apply(p)
  <2>1. mine[p] \in Router /\ answer[task[p]].list \in Info \cup {Absent}
    BY <1>7 DEF Apply
  <2>2. RouterTypeOK'
    BY <1>7, <2>1 DEF Apply
  <2>3. NetTypeOK' /\ OpenOK' /\ NodeTypeOK' /\ ThreadTypeOK' /\ Placed'
    BY <1>7, <2>1 DEF Apply
  <2> QED
    BY <2>2, <2>3
<1> QED
  BY <1>1, <1>2, <1>3, <1>4, <1>5, <1>6, <1>7 DEF InstallStep
(* The steps of start and stop. *)
LEMMA TypeStop ==
    ASSUME TypeInv, StatusOK, NEW p \in Thread, StopStep(p)
    PROVE  NetTypeOK' /\ RouterTypeOK' /\ NodeTypeOK' /\ ThreadTypeOK' /\ Placed' /\ OpenOK'
<1> USE DEF TypeInv, TypeOK, RouterTypeOK, NodeTypeOK, ThreadTypeOK, Placed, Engaged, Asking,
            routerVars, nodeVars, GoTo, Installing, Stopping, Uninstalling, Back
<1>1. CASE StopEnter(p)
  <2>1. NetTypeOK' /\ OpenOK' /\ pushes' = pushes
    BY <1>1, NetSame DEF StopEnter
  <2>2. RouterTypeOK'
    BY <1>1 DEF StopEnter
  <2>3. NodeTypeOK'
    BY <1>1, <2>1 DEF StopEnter
  <2>4. ThreadTypeOK'
    BY <1>1 DEF StopEnter
  <2>5. Placed'
    BY <1>1 DEF StopEnter
  <2> QED
    BY <2>1, <2>2, <2>3, <2>4, <2>5
<1>2. CASE StopInterrupt(p)
  <2>1. NetTypeOK' /\ OpenOK' /\ pushes' = pushes
    BY <1>2, NetSame DEF StopInterrupt
  <2>2. RouterTypeOK'
    BY <1>2 DEF StopInterrupt
  <2>3. NodeTypeOK'
    BY <1>2, <2>1 DEF StopInterrupt
  <2>4. ThreadTypeOK'
    <3>1. loopThread \in Loop
      BY <1>2 DEF StopInterrupt, StatusOK
    <3> QED
      BY <1>2, <3>1 DEF StopInterrupt
  <2>5. Placed'
    BY <1>2 DEF StopInterrupt
  <2> QED
    BY <2>1, <2>2, <2>3, <2>4, <2>5
<1>3. CASE Uninstall(p) /\ virtualRouter = NoRouter
  <2>1. NetTypeOK' /\ OpenOK' /\ pushes' = pushes
    BY <1>3, NetSame DEF Uninstall, Uninstalled
  <2>2. RouterTypeOK'
    BY <1>3 DEF Uninstall, Uninstalled
  <2>3. NodeTypeOK'
    BY <1>3, <2>1 DEF Uninstall, Uninstalled
  <2>4. ThreadTypeOK'
    BY <1>3 DEF Uninstall, Uninstalled
  <2>5. Placed'
    BY <1>3 DEF Uninstall, Uninstalled
  <2> QED
    BY <2>1, <2>2, <2>3, <2>4, <2>5
<1>4. CASE Uninstall(p) /\ virtualRouter # NoRouter
  <2>1. virtualRouter \in Router /\ Disconnect(virtualRouter)
    BY <1>4 DEF Uninstall
  <2>2. NetTypeOK' /\ OpenOK' /\ pushes' = pushes
    BY <2>1, DisconnectTypes
  <2>3. RouterTypeOK'
    BY <1>4, <2>1 DEF Uninstall
  <2>4. NodeTypeOK' /\ ThreadTypeOK' /\ Placed'
    BY <1>4, <2>2 DEF Uninstall
  <2> QED
    BY <2>2, <2>3, <2>4
<1>5. CASE Unset(p)
  <2>1. NetTypeOK' /\ OpenOK' /\ pushes' = pushes
    BY <1>5, NetSame DEF Unset, Uninstalled
  <2>2. RouterTypeOK'
    BY <1>5 DEF Unset, Uninstalled
  <2>3. NodeTypeOK'
    BY <1>5, <2>1 DEF Unset, Uninstalled
  <2>4. ThreadTypeOK'
    BY <1>5 DEF Unset, Uninstalled
  <2>5. Placed'
    BY <1>5 DEF Unset, Uninstalled
  <2> QED
    BY <2>1, <2>2, <2>3, <2>4, <2>5
<1> QED
  BY <1>1, <1>2, <1>3, <1>4, <1>5 DEF StopStep

LEMMA TypeCaller ==
    ASSUME TypeInv, CallStart \/ CallStop \/ Started \/ StartFailed
    PROVE  NetTypeOK' /\ RouterTypeOK' /\ NodeTypeOK' /\ ThreadTypeOK' /\ Placed' /\ OpenOK'
<1> Caller \in Thread
  BY DEF Thread
<1> USE DEF TypeInv, TypeOK, NetTypeOK, OpenOK, RouterTypeOK, NodeTypeOK, ThreadTypeOK, Placed, Engaged, Asking,
            netVars, routerVars, nodeVars, GoTo, Installing, Stopping, Uninstalling, Release
<1>1. CASE CallStart
  <2>1. NetTypeOK' /\ OpenOK' /\ pushes' = pushes
    BY <1>1, NetSame DEF CallStart
  <2>2. RouterTypeOK'
    BY <1>1 DEF CallStart
  <2>3. NodeTypeOK'
    BY <1>1, <2>1 DEF CallStart
  <2>4. ThreadTypeOK'
    BY <1>1 DEF CallStart
  <2>5. Placed'
    BY <1>1 DEF CallStart
  <2> QED
    BY <2>1, <2>2, <2>3, <2>4, <2>5
<1>2. CASE CallStop
  BY <1>2 DEF CallStop
<1>3. CASE Started
  <2>1. PICK l \in Loop : /\ loopThread' = l
                         /\ at' = [at EXCEPT ![Caller] = "off", ![l] = "head"]
                         /\ up' = [up EXCEPT ![l] = TRUE]
                         /\ flag' = flag \ {l}
    BY <1>3 DEF Started
  <2>2. l \in Thread
    BY DEF Thread
  <2> QED
    BY <1>3, <2>1, <2>2 DEF Started
<1>4. CASE StartFailed
  BY <1>4 DEF StartFailed
<1> QED
  BY <1>1, <1>2, <1>3, <1>4

LEMMA TypeLoop ==
    ASSUME TypeInv, NEW l \in Loop, LoopStep(l)
    PROVE  NetTypeOK' /\ RouterTypeOK' /\ NodeTypeOK' /\ ThreadTypeOK' /\ Placed' /\ OpenOK'
<1> l \in Thread
  BY DEF Thread
<1> USE DEF TypeInv, TypeOK, NetTypeOK, OpenOK, RouterTypeOK, NodeTypeOK, ThreadTypeOK, Placed, Engaged, Asking,
            netVars, routerVars, nodeVars, GoTo, Installing, Stopping, Uninstalling, Release
<1>1. CASE LoopHead(l) \/ Check(l)
  <2>1. NetTypeOK' /\ OpenOK' /\ pushes' = pushes
    BY <1>1, NetSame DEF LoopHead, Check
  <2>2. RouterTypeOK'
    BY <1>1 DEF LoopHead, Check
  <2>3. NodeTypeOK'
    BY <1>1, <2>1 DEF LoopHead, Check
  <2>4. ThreadTypeOK'
    BY <1>1 DEF LoopHead, Check
  <2>5. Placed'
    <3>1. at' = [at EXCEPT ![l] = at'[l]] /\ at'[l] \in {"off", "await", "check", "uninstall"}
      BY <1>1 DEF LoopHead, Check
    <3>2. UNCHANGED <<mine, task>>
      BY <1>1 DEF LoopHead, Check
    <3> QED
      BY <3>1, <3>2
  <2> QED
    BY <2>1, <2>2, <2>3, <2>4, <2>5
<1>2. CASE Await(l)
  <2>1. NetTypeOK' /\ OpenOK' /\ pushes' = pushes
    BY <1>2, NetSame DEF Await
  <2>2. /\ \E stage \in {"sleep", "head", "check"} : at' = [at EXCEPT ![l] = stage]
        /\ \E u \in BOOLEAN : up' = [up EXCEPT ![l] = u]
        /\ flag' = flag \ {l}
        /\ UNCHANGED <<routerVars, nodeVars, mine, task>>
    <3>1. CASE virtualRouter = NoRouter
      <4>1. up' = [up EXCEPT ![l] = up[l]] /\ up[l] \in BOOLEAN
        BY <1>2, <3>1 DEF Await
      <4> QED
        BY <1>2, <3>1, <4>1 DEF Await
    <3>2. CASE virtualRouter # NoRouter /\ Running
      BY <1>2, <3>2 DEF Await
    <3>3. CASE virtualRouter # NoRouter /\ ~ Running
      <4>1. (Running <=> FALSE) /\ Running \in BOOLEAN
        BY <3>3 DEF Running
      <4>2. /\ up' = [up EXCEPT ![l] = Running]
            /\ at' = [at EXCEPT ![l] = "check"]
        BY <1>2, <3>3 DEF Await
      <4> QED
        BY <1>2, <4>1, <4>2 DEF Await
    <3> QED
      BY <3>1, <3>2, <3>3
  <2>3. RouterTypeOK' /\ NodeTypeOK'
    BY <2>1, <2>2
  <2>4. PICK stage \in {"sleep", "head", "check"} : at' = [at EXCEPT ![l] = stage]
    BY <2>2
  <2>5. ThreadTypeOK'
    BY <2>2, <2>4
  <2>6. Placed'
    BY <2>2, <2>4
  <2> QED
    BY <2>1, <2>3, <2>5, <2>6
<1>3. CASE ReinstallOver(l)
  <2>1. NetTypeOK' /\ OpenOK' /\ pushes' = pushes
    BY <1>3, NetSame DEF ReinstallOver
  <2>2. RouterTypeOK'
    BY <1>3 DEF ReinstallOver
  <2>3. NodeTypeOK'
    BY <1>3, <2>1 DEF ReinstallOver
  <2>4. ThreadTypeOK'
    <3>1. at' \in [Thread -> Installing \cup Stopping \cup Uninstalling
                    \cup {"off", "failed", "refused", "head", "await", "check", "sleep"}]
      BY <1>3 DEF ReinstallOver
    <3>2. up' \in [Loop -> BOOLEAN]
      <4>1. Running \in BOOLEAN
        BY DEF Running
      <4>2. up' = [up EXCEPT ![l] = IF at[l] = "installed" THEN Running ELSE @]
        BY <1>3 DEF ReinstallOver
      <4> QED
        BY <4>1, <4>2
    <3> QED
      BY <1>3, <3>1, <3>2 DEF ReinstallOver
  <2>5. Placed'
    BY <1>3 DEF ReinstallOver
  <2> QED
    BY <2>1, <2>2, <2>3, <2>4, <2>5
<1>4. CASE Sleep(l)
  BY <1>4 DEF Sleep
<1> QED
  BY <1>1, <1>2, <1>3, <1>4 DEF LoopStep

(* The steps of the connections, the requests and the controller. *)
LEMMA TypeRead ==
    ASSUME TypeInv, NEW r \in Router, EventLoopStep(r)
    PROVE  /\ NetTypeOK' /\ RouterTypeOK' /\ OpenOK'
           /\ UNCHANGED <<nodeVars, pushes, threadVars>>
<1>1. r \in open /\ Head(wire[r]) \in Message /\ wire' = [wire EXCEPT ![r] = Tail(@)]
  BY WireTypes DEF TypeInv, OpenOK, EventLoopStep, ReadReply, ReadPush
<1>2. wire' \in [Router -> Seq(Message)]
  BY WireTypes DEF TypeInv, EventLoopStep, ReadReply, ReadPush
<1>3. wire \in [Router -> Seq(Message)]
  BY DEF TypeInv, TypeOK, NetTypeOK, Message
<1>4. OpenOK'
  BY <1>1, <1>3 DEF TypeInv, OpenOK, EventLoopStep, ReadReply, ReadPush
<1>5. CASE ReadReply(r)
  BY <1>2, <1>4, <1>5 DEF ReadReply, routerVars, TypeInv, TypeOK, NetTypeOK, RouterTypeOK, Message
<1>6. CASE ReadPush(r)
  <2>1. NetTypeOK'
    <3>1. overtaken' \subseteq open
      BY <1>1, <1>6 DEF ReadPush, TypeInv, TypeOK, NetTypeOK
    <3> QED
      BY <1>2, <1>6, <3>1 DEF ReadPush, TypeInv, TypeOK, NetTypeOK, Message
  <2>2. RouterTypeOK'
    BY <1>1, <1>6 DEF ReadPush, TypeInv, TypeOK, RouterTypeOK, Message
  <2> QED
    BY <1>4, <1>6, <2>1, <2>2 DEF ReadPush
<1> QED
  BY <1>5, <1>6 DEF EventLoopStep

LEMMA TypeServed ==
    ASSUME TypeInv, NEW k \in Task, NEW code \in {"ok", "refused"}, Served(k, code),
           registered' \subseteq registered \cup {query[k].router}
    PROVE  /\ NetTypeOK' /\ OpenOK'
           /\ UNCHANGED <<routerVars, nodeVars, pushes, threadVars>>
<1> DEFINE r == query[k].router
<1>1. r \in open /\ r \in Router
  BY DEF Served, TypeInv, OpenOK, TypeOK, NetTypeOK
<1>2. wire \in [Router -> Seq(Message)] /\ Reply(k) \in Message
  BY DEF TypeInv, TypeOK, NetTypeOK, Message, Reply
<1>3. wire' = [wire EXCEPT ![r] = Append(wire[r], Reply(k))]
  BY DEF Served
<1> HIDE DEF r
<1>4. wire' \in [Router -> Seq(Message)]
  BY <1>1, <1>2, <1>3
<1>5. query' = [query EXCEPT ![k] = NoQuery]
  BY DEF Served
<1>6. query' \in [Task -> [router : Router \cup {NoRouter}, kind : {"config", "regist"}]]
  BY <1>5 DEF TypeInv, TypeOK, NetTypeOK, NoQuery
<1>7. answer' \in [Task -> [code : {"ok", "refused"}, list : Info \cup {Absent}]]
  BY DEF Served, TypeInv, TypeOK, NetTypeOK
<1>8. registered' \subseteq open
  BY <1>1 DEF TypeInv, TypeOK, NetTypeOK, r
<1>9. OpenOK'
  BY <1>1, <1>2, <1>3, <1>5 DEF Served, TypeInv, OpenOK, TypeOK, NetTypeOK
<1> QED
  BY <1>4, <1>6, <1>7, <1>8, <1>9 DEF Served, TypeInv, TypeOK, NetTypeOK, Message

LEMMA TypeTask ==
    ASSUME TypeInv, NEW k \in Task, TaskStep(k) \/ Refuse(k)
    PROVE  /\ NetTypeOK' /\ OpenOK'
           /\ UNCHANGED <<routerVars, nodeVars, pushes, threadVars>>
<1>1. CASE CompleteTask(k) \/ ExpireTask(k)
  BY <1>1 DEF CompleteTask, ExpireTask, TypeInv, TypeOK, NetTypeOK, OpenOK, netVars
<1>2. CASE ForgetTask(k)
  <2>1. answer' \in [Task -> [code : {"ok", "refused"}, list : Info \cup {Absent}]]
    BY <1>2 DEF ForgetTask, TypeInv, TypeOK, NetTypeOK, NoAnswer
  <2> QED
    BY <1>2, <2>1 DEF ForgetTask, TypeInv, TypeOK, NetTypeOK, OpenOK
<1>3. CASE Serve(k)
  <2>1. Served(k, "ok") /\ registered' \subseteq registered \cup {query[k].router}
    BY <1>3 DEF Serve
  <2> QED
    BY <2>1, TypeServed
<1>4. CASE Refuse(k)
  <2>1. Served(k, "refused") /\ registered' \subseteq registered \cup {query[k].router}
    BY <1>4 DEF Refuse
  <2> QED
    BY <2>1, TypeServed
<1> QED
  BY <1>1, <1>2, <1>3, <1>4 DEF TaskStep

LEMMA TypePeer ==
    ASSUME TypeInv, NEW x \in Info \cup {Absent}, PeerChange(x)
    PROVE  /\ NetTypeOK' /\ OpenOK' /\ NodeTypeOK'
           /\ UNCHANGED <<routerVars, nodeVars, threadVars>>
<1>1. wire \in [Router -> Seq(Message)] /\ Push(x) \in Message
  BY DEF TypeInv, TypeOK, NetTypeOK, Message, Push
<1>2. wire' = [r \in Router |-> IF r \in registered THEN Append(wire[r], Push(x)) ELSE wire[r]]
  BY DEF PeerChange
<1>3. wire' \in [Router -> Seq(Message)]
  BY <1>1, <1>2
<1>4. OpenOK'
  BY <1>2 DEF PeerChange, TypeInv, OpenOK, TypeOK, NetTypeOK
<1>5. NodeTypeOK'
  BY DEF PeerChange, TypeInv, TypeOK, NodeTypeOK, nodeVars
<1> QED
  BY <1>3, <1>4, <1>5 DEF PeerChange, TypeInv, TypeOK, NetTypeOK, Message

LEMMA TypeStep == TypeInv /\ StatusOK /\ [Next]_vars => TypeInv'
<1> SUFFICES ASSUME TypeInv, StatusOK, [Next]_vars PROVE TypeInv'
  OBVIOUS
<1>0. TaskTypeOK'
  BY TaskPart, TaskTypeStep DEF TypeInv, TypeOK
<1> USE DEF TypeInv, TypeOK
<1>1. CASE CallStart \/ CallStop \/ Started \/ StartFailed
  BY <1>0, <1>1, TypeCaller
<1>2. ASSUME NEW p \in Thread, InstallStep(p) PROVE TypeInv'
  BY <1>0, <1>2, TypeInstall
<1>3. ASSUME NEW p \in Thread, StopStep(p) PROVE TypeInv'
  BY <1>0, <1>3, TypeStop
<1>4. ASSUME NEW l \in Loop, LoopStep(l) PROVE TypeInv'
  BY <1>0, <1>4, TypeLoop
<1> USE DEF RouterTypeOK, NodeTypeOK, ThreadTypeOK, Placed, routerVars, nodeVars, threadVars
<1>5. ASSUME NEW r \in Router, EventLoopStep(r) PROVE TypeInv'
  BY <1>0, <1>5, TypeRead
<1>6. ASSUME NEW r \in Router, Lose(r) PROVE TypeInv'
  BY <1>0, <1>6, DisconnectTypes DEF Lose
<1>7. ASSUME NEW k \in Task, TaskStep(k) \/ Refuse(k) PROVE TypeInv'
  BY <1>0, <1>7, TypeTask
<1>8. ASSUME NEW x \in Info \cup {Absent}, PeerChange(x) PROVE TypeInv'
  BY <1>0, <1>8, TypePeer
<1>9. CASE UNCHANGED vars
  BY <1>0, <1>9 DEF vars, netVars, NetTypeOK, OpenOK
<1> QED
  BY <1>1, <1>2, <1>3, <1>4, <1>5, <1>6, <1>7, <1>8, <1>9 DEF Next, ThreadStep
-----------------------------------------------------------------------------
(* The monitor and the states of start and stop *)

NetStep ==
    \/ \E r \in Router : EventLoopStep(r) \/ Lose(r)
    \/ \E k \in Task : TaskStep(k) \/ Refuse(k)
    \/ \E x \in Info \cup {Absent} : PeerChange(x)

(* The connections, the requests and the controller leave the threads alone. *)
LEMMA NetQuiet ==
    ASSUME NetStep PROVE UNCHANGED <<stopped, nodeVars, threadVars>>
BY DEF NetStep, EventLoopStep, ReadReply, ReadPush, Lose, TaskStep, CompleteTask, ExpireTask,
       ForgetTask, Serve, Refuse, Served, PeerChange, routerVars

(* A thread in install goes on there, or leaves it with an exception. *)
LEMMA InstallMoves ==
    ASSUME TypeInv, NEW p \in Thread, InstallStep(p)
    PROVE  /\ at[p] \in Installing \ {"installed"}
           /\ at' = [at EXCEPT ![p] = at'[p]] /\ at'[p] \in Engaged \cup Done
           /\ UNCHANGED <<status, loopStatus, loopThread, monitor, stopped, abandoned>>
           /\ \/ at[p] \in Engaged /\ UNCHANGED <<virtualRouter, mine>>
              \/ Install(p)
<1> at \in [Thread -> Installing \cup Stopping \cup Uninstalling
                     \cup {"off", "failed", "refused", "head", "await", "check", "sleep"}]
  BY DEF TypeInv, TypeOK, ThreadTypeOK
<1> USE DEF GoTo, Installing, Engaged, Done, nodeVars, routerVars, netVars
<1>1. CASE Install(p) \/ Connect(p) \/ ConnectFail(p)
  BY <1>1 DEF Install, Connect, ConnectFail
<1>2. CASE Ask(p)
  BY <1>2 DEF Ask
<1>3. CASE Send(p)
  BY <1>3 DEF Send
<1>4. CASE GetResult(p)
  BY <1>4 DEF GetResult, Waiting
<1>5. CASE GetTimeout(p) \/ GetInterrupted(p)
  BY <1>5 DEF GetTimeout, GetInterrupted, Waiting
<1>6. CASE Apply(p) \/ IceStart(p) \/ IceFail(p) \/ StoppedMeanwhile(p)
  BY <1>6 DEF Apply, IceStart, IceFail, StoppedMeanwhile
<1> QED
  BY <1>1, <1>2, <1>3, <1>4, <1>5, <1>6 DEF InstallStep

(* A loop thread between two reinstallations. *)
LEMMA LoopMoves ==
    ASSUME TypeInv, NEW l \in Loop, LoopStep(l)
    PROVE  /\ at[l] \in {"head", "await", "check", "installed", "failed", "refused", "sleep"}
           /\ at' = [at EXCEPT ![l] = at'[l]]
           /\ at'[l] \in {"off", "await", "check", "sleep", "head", "uninstall", "stop"}
           /\ at'[l] = "uninstall" => loopStatus
           /\ UNCHANGED <<nodeVars, netVars, taskVars>>
           /\ \/ at[l] \notin Done \cup {"installed"} /\ UNCHANGED <<mine, task, stopped>>
              \/ at[l] \in Done \cup {"installed"} /\ Release(l) /\ flag' = flag
<1> Loop \subseteq Thread /\ at \in [Thread -> Installing \cup Stopping \cup Uninstalling
                     \cup {"off", "failed", "refused", "head", "await", "check", "sleep"}]
  BY DEF TypeInv, TypeOK, ThreadTypeOK, Thread
<1> USE DEF GoTo, Done, routerVars
<1>1. CASE LoopHead(l) \/ Check(l)
  BY <1>1 DEF LoopHead, Check
<1>2. CASE Await(l)
  BY <1>2 DEF Await
<1>3. CASE ReinstallOver(l)
  BY <1>3 DEF ReinstallOver
<1>4. CASE Sleep(l)
  BY <1>4 DEF Sleep
<1> QED
  BY <1>1, <1>2, <1>3, <1>4 DEF LoopStep

(* Nobody but the holder of the monitor is in start or stop, and status follows. *)
LEMMA MonitorStep ==
    ASSUME TypeInv, MonitorOK, StatusOK, [Next]_vars
    PROVE  MonitorOK' /\ StatusOK'
<1> Caller \in Thread /\ Caller \notin Loop /\ Nobody \notin Thread /\ Loop \subseteq Thread
  BY DEF Thread
<1>0. /\ at \in [Thread -> Installing \cup Stopping \cup Uninstalling
                     \cup {"off", "failed", "refused", "head", "await", "check", "sleep"}]
      /\ monitor \in Thread \cup {Nobody}
      /\ \A p \in Thread : p = Caller \/ p \in Loop
  BY DEF TypeInv, TypeOK, ThreadTypeOK, NodeTypeOK, Thread
<1> USE <1>0 DEF GoTo, Installing, Engaged, Done, Stopping, Uninstalling, Starting, nodeVars
<1>1. CASE NetStep \/ UNCHANGED vars
  <2>1. UNCHANGED <<nodeVars, threadVars>>
    BY <1>1, NetQuiet DEF vars
  <2> QED
    BY <2>1 DEF threadVars, MonitorOK, StatusOK
<1>2. ASSUME NEW p \in Thread, InstallStep(p) PROVE MonitorOK' /\ StatusOK'
  BY <1>2, InstallMoves DEF MonitorOK, StatusOK
<1>3. CASE CallStart
  BY <1>3 DEF CallStart, MonitorOK, StatusOK
<1>4. CASE CallStop
  BY <1>4 DEF CallStop, MonitorOK, StatusOK
<1>5. CASE Started
  BY <1>5 DEF Started, MonitorOK, StatusOK
<1>6. CASE StartFailed
  BY <1>6 DEF StartFailed, MonitorOK, StatusOK
<1>7. ASSUME NEW p \in Thread, StopEnter(p) PROVE MonitorOK' /\ StatusOK'
  BY <1>7 DEF StopEnter, Back, MonitorOK, StatusOK
<1>8. ASSUME NEW p \in Thread, StopInterrupt(p) PROVE MonitorOK' /\ StatusOK'
  BY <1>8 DEF StopInterrupt, MonitorOK, StatusOK
<1>9. ASSUME NEW p \in Thread, Uninstall(p) PROVE MonitorOK' /\ StatusOK'
  BY <1>9 DEF Uninstall, Uninstalled, Back, MonitorOK, StatusOK
<1>10. ASSUME NEW p \in Thread, Unset(p) PROVE MonitorOK' /\ StatusOK'
  BY <1>10 DEF Unset, Uninstalled, Back, MonitorOK, StatusOK
<1>11. ASSUME NEW l \in Loop, LoopStep(l) PROVE MonitorOK' /\ StatusOK'
  BY <1>11, LoopMoves DEF MonitorOK, StatusOK
<1> QED
  BY <1>1, <1>2, <1>3, <1>4, <1>5, <1>6, <1>7, <1>8, <1>9, <1>10, <1>11
     DEF Next, ThreadStep, StopStep, NetStep
(* What stop does to the thread that calls it. *)
LEMMA StopMoves ==
    ASSUME TypeInv, NEW p \in Thread, StopStep(p)
    PROVE  /\ at[p] \in Stopping \cup Uninstalling
           /\ at' = [at EXCEPT ![p] = at'[p]]
           /\ at'[p] \in {"interrupt", "uninstall", "unset", "install", Back(p)}
           /\ at'[p] = "install" => at[p] \in Uninstalling /\ monitor # p
           /\ UNCHANGED <<loopThread, mine, task, taskVars>>
<1> at \in [Thread -> Installing \cup Stopping \cup Uninstalling
                     \cup {"off", "failed", "refused", "head", "await", "check", "sleep"}]
  BY DEF TypeInv, TypeOK, ThreadTypeOK
<1> USE DEF GoTo, Stopping, Uninstalling, nodeVars, Back
<1>1. CASE StopEnter(p) \/ StopInterrupt(p)
  BY <1>1 DEF StopEnter, StopInterrupt
<1>2. CASE Uninstall(p)
  BY <1>2 DEF Uninstall, Uninstalled
<1>3. CASE Unset(p)
  BY <1>3 DEF Unset, Uninstalled
<1> QED
  BY <1>1, <1>2, <1>3 DEF StopStep

(* A loop thread is started only when there is no other, if start is patient. *)
LEMMA LoopsStep ==
    ASSUME TypeInv, MonitorOK, LoopsOK, Patient, [Next]_vars
    PROVE  LoopsOK'
<1> Caller \in Thread /\ Caller \notin Loop /\ Loop \subseteq Thread
  BY DEF Thread
<1>0. /\ at \in [Thread -> Installing \cup Stopping \cup Uninstalling
                     \cup {"off", "failed", "refused", "head", "await", "check", "sleep"}]
      /\ \A p \in Thread : p = Caller \/ p \in Loop
  BY DEF TypeInv, TypeOK, ThreadTypeOK, Thread
<1> USE <1>0 DEF GoTo, Installing, Engaged, Done, Stopping, Uninstalling, Starting
<1>1. CASE NetStep \/ UNCHANGED vars
  <2>1. UNCHANGED <<nodeVars, threadVars>>
    BY <1>1, NetQuiet DEF vars
  <2> QED
    BY <2>1 DEF nodeVars, threadVars, LoopsOK
<1>2. ASSUME NEW p \in Thread, InstallStep(p) PROVE LoopsOK'
  BY <1>2, InstallMoves DEF LoopsOK
<1>3. CASE CallStart
  BY <1>3 DEF CallStart, LoopsOK
<1>4. CASE CallStop
  BY <1>4 DEF CallStop, LoopsOK, nodeVars
<1>5. CASE Started
  BY <1>5 DEF Started, LoopsOK
<1>6. CASE StartFailed
  BY <1>6 DEF StartFailed, LoopsOK
<1>7. ASSUME NEW p \in Thread, StopStep(p) PROVE LoopsOK'
  BY <1>7, StopMoves DEF LoopsOK, MonitorOK, Back
<1>8. ASSUME NEW l \in Loop, LoopStep(l) PROVE LoopsOK'
  BY <1>8, LoopMoves DEF LoopsOK, nodeVars
<1> QED
  BY <1>1, <1>2, <1>3, <1>4, <1>5, <1>6, <1>7, <1>8 DEF Next, ThreadStep, NetStep
-----------------------------------------------------------------------------
(* The routers of the threads *)

(* What is known of threads and loop threads, for the lemmas that follow. *)
LEMMA Threads ==
    ASSUME TypeInv
    PROVE  /\ Caller \in Thread /\ Caller \notin Loop /\ Loop \subseteq Thread
           /\ \A p \in Thread : p = Caller \/ p \in Loop
           /\ at \in [Thread -> Installing \cup Stopping \cup Uninstalling
                               \cup {"off", "failed", "refused", "head", "await", "check", "sleep"}]
           /\ mine \in [Thread -> Router \cup {NoRouter}]
           /\ NoRouter \notin Router /\ stopped \subseteq Router
           /\ virtualRouter \in Router \cup {NoRouter} /\ monitor \in Thread \cup {Nobody}
           /\ status \in BOOLEAN
BY DEF TypeInv, TypeOK, ThreadTypeOK, NodeTypeOK, RouterTypeOK, Thread, NoRouter, Router

(* A thread that installs has no router yet, and takes one that nobody has. *)
LEMMA InstallFresh ==
    ASSUME TypeInv, StatusOK, LoopsOK, MineOK, StoppedOK, NEW p \in Thread, Install(p)
    PROVE  \E r \in Router :
              /\ r \notin stopped /\ r \notin open /\ \A q \in Thread : mine[q] # r
              /\ virtualRouter' = r /\ mine' = [mine EXCEPT ![p] = r]
              /\ mine[p] = NoRouter /\ virtualRouter \notin stopped
              /\ at[p] = "install" /\ at' = [at EXCEPT ![p] = "connect"]
              /\ UNCHANGED <<status, monitor, stopped, open, registered, query, flag, abandoned>>
<1> USE Threads DEF Installing, Engaged, Done
<1>1. PICK r \in FreshRouter : virtualRouter' = r /\ mine' = [mine EXCEPT ![p] = r]
  BY DEF Install
<1>2. at[p] = "install" /\ mine[p] = NoRouter
  BY DEF Install, MineOK
<1>3. virtualRouter \notin stopped
  <2>1. CASE p = Caller
    <3>1. \A l \in Loop : at[l] = "off"
      BY <1>2, <2>1 DEF LoopsOK, Starting
    <3> QED
      BY <1>2, <2>1, <3>1 DEF StoppedOK
  <2>2. CASE p \in Loop
    BY <1>2, <2>2 DEF StoppedOK
  <2> QED
    BY <2>1, <2>2
<1>4. r \in Router /\ r \notin open /\ r # virtualRouter /\ \A q \in Thread : mine[q] # r
  BY DEF FreshRouter
<1>5. r \notin stopped
  BY <1>4 DEF StoppedOK
<1> QED
  BY <1>1, <1>2, <1>3, <1>4, <1>5 DEF Install, GoTo, netVars

(* The router a thread is at work on is the node's while nobody stops it. *)
LEMMA MineStep ==
    ASSUME TypeInv, MonitorOK, StatusOK, LoopsOK, MineOK, StoppedOK, [Next]_vars
    PROVE  MineOK'
<1> USE Threads DEF GoTo, Installing, Engaged, Done, Stopping, Uninstalling, Starting
<1>1. CASE NetStep \/ UNCHANGED vars
  <2>1. UNCHANGED <<stopped, nodeVars, threadVars>>
    BY <1>1, NetQuiet DEF vars, routerVars
  <2> QED
    BY <2>1 DEF nodeVars, threadVars, MineOK
<1>2. ASSUME NEW p \in Thread, InstallStep(p) PROVE MineOK'
  <2>1. CASE Install(p)
    BY <2>1, InstallFresh DEF MineOK, LoopsOK, StatusOK
  <2>2. CASE ~ Install(p)
    BY <1>2, <2>2, InstallMoves DEF MineOK
  <2> QED
    BY <2>1, <2>2
<1>3. CASE CallStart
  BY <1>3 DEF CallStart, MineOK, LoopsOK, routerVars
<1>4. CASE CallStop
  BY <1>4 DEF CallStop, MineOK, nodeVars, routerVars
<1>5. CASE Started
  BY <1>5 DEF Started, MineOK, LoopsOK, Release
<1>6. CASE StartFailed
  BY <1>6 DEF StartFailed, MineOK, LoopsOK, StatusOK, Release
<1>7. ASSUME NEW p \in Thread, StopEnter(p) \/ StopInterrupt(p) PROVE MineOK'
  BY <1>7, StopMoves DEF StopStep, StopEnter, StopInterrupt, MineOK, Back, routerVars
<1>8. ASSUME NEW p \in Thread, Uninstall(p) \/ Unset(p) PROVE MineOK'
  <2>1. /\ at[p] \in Uninstalling /\ UNCHANGED <<mine, status>>
        /\ at' = [at EXCEPT ![p] = at'[p]] /\ at'[p] \in {"unset", "install", Back(p)}
    BY <1>8, StopMoves DEF StopStep, Uninstall, Unset, Uninstalled
  <2>2. ~ Starting'
    <3>1. CASE p = Caller
      <4>1. monitor = p
        BY <2>1, <3>1 DEF MonitorOK
      <4>2. at'[p] # "install"
        BY <1>8, <4>1, StopMoves DEF StopStep
      <4> QED
        BY <2>1, <3>1, <4>2 DEF Back
    <3>2. CASE p \in Loop
      <4>1. ~ Starting /\ at'[Caller] = at[Caller]
        BY <2>1, <3>2 DEF LoopsOK
      <4> QED
        BY <4>1
    <3> QED
      BY <3>1, <3>2
  <2>3. \A l \in Loop : ~ (status /\ at'[l] \in Engaged)
    BY <2>1 DEF LoopsOK, StatusOK, MonitorOK, Back
  <2> QED
    BY <2>1, <2>2, <2>3 DEF MineOK, Back
<1>9. ASSUME NEW l \in Loop, LoopStep(l) PROVE MineOK'
  <2>1. /\ at[l] \in {"head", "await", "check", "installed", "failed", "refused", "sleep"}
        /\ at' = [at EXCEPT ![l] = at'[l]] /\ UNCHANGED nodeVars
        /\ at'[l] \in {"off", "await", "check", "sleep", "head", "uninstall", "stop"}
    BY <1>9, LoopMoves
  <2>2. ~ Starting /\ at'[Caller] = at[Caller]
    BY <2>1 DEF LoopsOK
  <2>3. CASE UNCHANGED <<mine, stopped>> /\ at[l] \notin Done \cup {"installed"}
    BY <2>1, <2>2, <2>3 DEF MineOK, nodeVars
  <2>4. CASE Release(l)
    BY <2>1, <2>2, <2>4 DEF MineOK, nodeVars, Release
  <2> QED
    BY <1>9, <2>3, <2>4, LoopMoves
<1> QED
  BY <1>1, <1>2, <1>3, <1>4, <1>5, <1>6, <1>7, <1>8, <1>9 DEF Next, ThreadStep, StopStep, NetStep
-----------------------------------------------------------------------------
(* Routers that were stopped *)

(* At most one thread installs, and no loop thread is left but itself. *)
LEMMA Alone ==
    ASSUME TypeInv, LoopsOK, NEW p \in Thread, at[p] \in Installing \cup Done,
           NEW q \in Thread, at[q] \in Installing \cup Done \/ (q \in Loop /\ at[q] # "off")
    PROVE  p = q
BY Threads DEF LoopsOK, Starting, Installing, Done

(* A lost connection leaves nothing in the directory, nor on the way to it. *)
LEMMA Gone ==
    ASSUME TypeInv, NEW r \in Router, Disconnect(r)
    PROVE  /\ open' = open \ {r} /\ abandoned' = abandoned \ {r} /\ ~ Tied(r)'
           /\ \A s \in Router : Tied(s)' => Tied(s)
<1>1. query \in [Task -> [router : Router \cup {NoRouter}, kind : {"config", "regist"}]]
  BY DEF TypeInv, TypeOK, NetTypeOK
<1>2. /\ registered' = registered \ {r}
      /\ query' = [k \in Task |-> IF query[k].router = r THEN NoQuery ELSE query[k]]
      /\ open' = open \ {r} /\ abandoned' = abandoned \ {r}
  BY DEF Disconnect
<1>3. ASSUME NEW s \in Router, Tied(s)' PROVE Tied(s) /\ s # r
  <2>1. CASE s \in registered'
    BY <1>2, <2>1 DEF Tied
  <2>2. ASSUME NEW k \in Task, query'[k] = [router |-> s, kind |-> "regist"]
        PROVE  query[k] = [router |-> s, kind |-> "regist"] /\ s # r
    <3>1. NoQuery.kind = "config" /\ [router |-> s, kind |-> "regist"].kind = "regist"
      BY DEF NoQuery
    <3>2. query'[k] # NoQuery
      BY <2>2, <3>1
    <3>3. query'[k] = query[k] /\ query[k].router # r
      BY <1>2, <3>2
    <3> QED
      BY <2>2, <3>3
  <2> QED
    BY <1>3, <2>1, <2>2 DEF Tied
<1> QED
  BY <1>2, <1>3

(* Nothing gets into the directory or on its way there but by a request that is sent. *)
LEMMA NetTied ==
    ASSUME TypeInv, NetStep
    PROVE  /\ open' \subseteq open
           /\ \A r \in Router : Tied(r)' => /\ Tied(r)
                                            /\ r \in open => r \in open'
                                            /\ r \in abandoned => r \in abandoned'
<1>1. ASSUME NEW r \in Router, Lose(r) PROVE Disconnect(r)
  BY <1>1 DEF Lose
<1>2. ASSUME NEW k \in Task, Serve(k) \/ Refuse(k)
      PROVE  /\ UNCHANGED <<open, abandoned>>
             /\ \A r \in Router : Tied(r)' => Tied(r)
  <2>1. /\ query' = [query EXCEPT ![k] = NoQuery] /\ UNCHANGED <<open, abandoned>>
        /\ \/ registered' = registered
           \/ query[k].kind = "regist" /\ registered' = registered \cup {query[k].router}
    BY <1>2 DEF Serve, Refuse, Served
  <2>2. query \in [Task -> [router : Router \cup {NoRouter}, kind : {"config", "regist"}]]
    BY DEF TypeInv, TypeOK, NetTypeOK
  <2>3. ASSUME NEW r \in Router, r \in registered' PROVE Tied(r)
    <3>1. CASE r \in registered
      BY <3>1 DEF Tied
    <3>2. CASE r = query[k].router /\ query[k].kind = "regist"
      <4>1. query[k] = [router |-> r, kind |-> "regist"]
        BY <2>2, <3>2
      <4> QED
        BY <4>1 DEF Tied
    <3> QED
      BY <2>1, <2>3, <3>1, <3>2
  <2>4. ASSUME NEW r \in Router, NEW j \in Task, query'[j] = [router |-> r, kind |-> "regist"]
        PROVE  Tied(r)
    <3>1. [router |-> r, kind |-> "regist"] # NoQuery
      <4>1. NoQuery.kind = "config" /\ [router |-> r, kind |-> "regist"].kind = "regist"
        BY DEF NoQuery
      <4> QED
        BY <4>1
    <3>2. query'[j] = query[j]
      BY <2>1, <2>2, <2>4, <3>1
    <3> QED
      BY <2>4, <3>2 DEF Tied
  <2> QED
    BY <2>1, <2>3, <2>4 DEF Tied
<1>3. ASSUME NEW r \in Router, EventLoopStep(r) PROVE UNCHANGED <<open, registered, query, abandoned>>
  BY <1>3 DEF EventLoopStep, ReadReply, ReadPush
<1>4. ASSUME NEW k \in Task, CompleteTask(k) \/ ExpireTask(k) \/ ForgetTask(k)
      PROVE  UNCHANGED <<open, registered, query, abandoned>>
  BY <1>4 DEF CompleteTask, ExpireTask, ForgetTask, netVars
<1>5. ASSUME NEW x \in Info \cup {Absent}, PeerChange(x) PROVE UNCHANGED <<open, registered, query, abandoned>>
  BY <1>5 DEF PeerChange
<1>6. UNCHANGED <<open, registered, query, abandoned>>
        => open' \subseteq open /\ abandoned' = abandoned /\ \A r \in Router : Tied(r)' => Tied(r)
  BY DEF Tied
<1> QED
  BY <1>1, <1>2, <1>3, <1>4, <1>5, <1>6, Gone DEF NetStep, TaskStep

(* A thread in install puts its own router there, if the connection is open. *)
LEMMA InstallTied ==
    ASSUME TypeInv, NEW p \in Thread, InstallStep(p)
    PROVE  /\ \/ open' = open
              \/ at[p] = "connect" /\ at'[p] = "config" /\ open' = open \cup {mine[p]}
           /\ \A r \in Router : Tied(r)' =>
                 Tied(r) \/ (at[p] = "registSend" /\ r = mine[p] /\ r \in open)
<1> at \in [Thread -> Installing \cup Stopping \cup Uninstalling
                     \cup {"off", "failed", "refused", "head", "await", "check", "sleep"}]
  BY DEF TypeInv, TypeOK, ThreadTypeOK
<1> USE DEF GoTo, netVars
<1>1. CASE Send(p)
  <2>1. query \in [Task -> [router : Router \cup {NoRouter}, kind : {"config", "regist"}]]
    BY DEF TypeInv, TypeOK, NetTypeOK
  <2>2. open' = open /\ registered' = registered
    BY <1>1 DEF Send
  <2>3. ASSUME NEW r \in Router, NEW k \in Task, query'[k] = [router |-> r, kind |-> "regist"]
        PROVE  Tied(r) \/ (at[p] = "registSend" /\ r = mine[p] /\ r \in open)
    <3>1. CASE query'[k] = query[k]
      BY <2>3, <3>1 DEF Tied
    <3>2. CASE query'[k] # query[k]
      <4>1. /\ mine[p] \in open /\ at[p] \in {"configSend", "registSend"}
            /\ query'[k] = [router |-> mine[p], kind |-> IF at[p] = "configSend" THEN "config" ELSE "regist"]
        BY <1>1, <2>1, <3>2 DEF Send
      <4>2. /\ query'[k].router = mine[p] /\ query'[k].kind = IF at[p] = "configSend" THEN "config" ELSE "regist"
            /\ query'[k].router = r /\ query'[k].kind = "regist"
        BY <2>3, <4>1
      <4> QED
        BY <4>1, <4>2
    <3> QED
      BY <3>1, <3>2
  <2> QED
    BY <2>2, <2>3 DEF Tied
<1>2. CASE Connect(p)
  <2>1. UNCHANGED <<registered, query>> /\ at[p] = "connect" /\ at'[p] = "config" /\ open' = open \cup {mine[p]}
    BY <1>2 DEF Connect
  <2> QED
    BY <2>1 DEF Tied
<1>3. CASE ~ Send(p) /\ ~ Connect(p)
  <2>1. UNCHANGED <<open, registered, query>>
    BY <1>3 DEF InstallStep, Install, ConnectFail, Ask, GetResult, GetTimeout, GetInterrupted,
       Apply, IceStart, IceFail, StoppedMeanwhile
  <2> QED
    BY <2>1 DEF Tied
<1> QED
  BY <1>1, <1>2, <1>3

(* A router that was stopped stays out of use. *)
LEMMA StoppedStep ==
    ASSUME TypeInv, MonitorOK, StatusOK, LoopsOK, MineOK, StoppedOK, [Next]_vars
    PROVE  StoppedOK'
<1> USE Threads DEF Installing, Engaged, Done, Stopping, Uninstalling, Asking
<1> DEFINE S1 == \A r \in stopped : r = virtualRouter \/ \E q \in Thread : mine[q] = r
           S2 == virtualRouter \in stopped => \E p \in Thread : at[p] = "unset"
           S3 == \A l \in Loop : at[l] = "install" => virtualRouter = NoRouter
           S4 == \A l \in Loop : at[l] = "unset" /\ monitor # l => virtualRouter \in stopped \cup {NoRouter}
           S5 == \A p \in Thread : at[p] \in Asking /\ mine[p] \in stopped => mine[p] \notin open
           S6 == \A r \in stopped : ~ Tied(r)
<1>0. /\ StoppedOK <=> S1 /\ S2 /\ S3 /\ S4 /\ S5 /\ S6
      /\ StoppedOK' <=> S1' /\ S2' /\ S3' /\ S4' /\ S5' /\ S6'
  BY DEF StoppedOK
<1>1. CASE NetStep
  <2>1. UNCHANGED <<stopped, nodeVars, threadVars>> /\ open' \subseteq open
    BY <1>1, NetQuiet, NetTied
  <2>2. S6'
    BY <1>0, <1>1, <2>1, NetTied
  <2> QED
    BY <1>0, <2>1, <2>2 DEF nodeVars, threadVars
<1>2. ASSUME NEW p \in Thread, Install(p) PROVE StoppedOK'
  <2>1. PICK r \in Router :
              /\ r \notin stopped /\ r \notin open /\ \A q \in Thread : mine[q] # r
              /\ virtualRouter' = r /\ mine' = [mine EXCEPT ![p] = r]
              /\ mine[p] = NoRouter /\ virtualRouter \notin stopped
              /\ at[p] = "install" /\ at' = [at EXCEPT ![p] = "connect"]
              /\ UNCHANGED <<status, monitor, stopped, open, registered, query, flag, abandoned>>
    BY <1>2, InstallFresh
  <2>2. \A l \in Loop : at'[l] # "install" /\ at'[l] # "unset"
    BY <2>1, Alone
  <2>3. S1' /\ S2'
    BY <1>0, <2>1
  <2>4. S5'
    BY <1>0, <2>1
  <2>5. S6'
    BY <1>0, <2>1 DEF Tied
  <2> QED
    BY <1>0, <2>2, <2>3, <2>4, <2>5
<1>3. ASSUME NEW p \in Thread, InstallStep(p), ~ Install(p) PROVE StoppedOK'
  <2>1. /\ at[p] \in Engaged \ {"installed"} /\ UNCHANGED <<virtualRouter, mine, monitor, stopped>>
        /\ at' = [at EXCEPT ![p] = at'[p]] /\ at'[p] \in Engaged \cup Done
    BY <1>3, InstallMoves
  <2>2. S1' /\ S2' /\ S3' /\ S4'
    BY <1>0, <2>1
  <2>3. S5'
    <3> SUFFICES ASSUME NEW q \in Thread, at'[q] \in Asking, mine[q] \in stopped PROVE mine[q] \notin open'
      BY <2>1
    <3>1. q = p
      BY <2>1, Alone
    <3>2. at[p] \in Asking
      <4>1. CASE at[p] = "config"
        BY <1>3, <2>1, <3>1, <4>1 DEF InstallStep, Install, Connect, ConnectFail, Ask, Send, GetResult, GetTimeout,
           GetInterrupted, Waiting, Apply, IceStart, IceFail, StoppedMeanwhile, GoTo
      <4>2. CASE at[p] = "connect"
        BY <1>3, <2>1, <3>1, <4>2 DEF InstallStep, Install, Connect, ConnectFail, Ask, Send, GetResult, GetTimeout,
           GetInterrupted, Waiting, Apply, IceStart, IceFail, StoppedMeanwhile, GoTo
      <4> QED
        BY <2>1, <4>1, <4>2
    <3>3. open' = open
      BY <1>3, <3>2, InstallTied
    <3> QED
      BY <1>0, <3>1, <3>2, <3>3
  <2>4. S6'
    BY <1>0, <1>3, <2>1, InstallTied
  <2> QED
    BY <1>0, <2>2, <2>3, <2>4
<1>4. CASE CallStart \/ CallStop
  <2>1. /\ UNCHANGED <<stopped, virtualRouter, mine, open, registered, query>>
        /\ at' = [at EXCEPT ![Caller] = at'[Caller]] /\ at[Caller] = "off"
        /\ at'[Caller] \in {"install", "stop"} /\ monitor \in {monitor', Nobody}
    BY <1>4 DEF CallStart, CallStop, GoTo, nodeVars, routerVars, netVars, threadVars
  <2>2. S1' /\ S2' /\ S3' /\ S5'
    BY <1>0, <2>1
  <2>3. S4'
    BY <1>0, <2>1
  <2>4. S6'
    BY <1>0, <2>1 DEF Tied
  <2> QED
    BY <1>0, <2>2, <2>3, <2>4
<1>5. CASE Started \/ StartFailed
  <2>1. /\ at[Caller] \in {"installed"} \cup Done /\ Release(Caller)
        /\ UNCHANGED <<virtualRouter, open, registered, query>>
        /\ \/ at' = [at EXCEPT ![Caller] = "off"]
           \/ \E l \in Loop : at' = [at EXCEPT ![Caller] = "off", ![l] = "head"]
    BY <1>5 DEF Started, StartFailed, GoTo, netVars
  <2>2. \A l \in Loop : at[l] = "off"
    BY <2>1, Alone
  <2>3. \A l \in Loop : at'[l] \in {"off", "head"}
    BY <2>1, <2>2
  <2>4. virtualRouter \notin stopped /\ stopped' \subseteq stopped
    BY <1>0, <2>1, <2>2 DEF Release
  <2>5. S1'
    BY <1>0, <2>1 DEF Release
  <2>6. S5'
    <3>1. at'[Caller] = "off"
      BY <2>1
    <3> QED
      BY <2>3, <3>1
  <2>7. S6'
    BY <1>0, <2>1, <2>4 DEF Tied
  <2> QED
    BY <1>0, <2>1, <2>3, <2>4, <2>5, <2>6, <2>7
<1>6. ASSUME NEW p \in Thread, StopEnter(p) \/ StopInterrupt(p) PROVE StoppedOK'
  <2>1. /\ UNCHANGED <<stopped, virtualRouter, mine, open, registered, query>>
        /\ at' = [at EXCEPT ![p] = at'[p]] /\ at[p] \in Stopping
        /\ at'[p] \in {"interrupt", "uninstall", Back(p)} /\ monitor \in {monitor', Nobody}
    BY <1>6 DEF StopEnter, StopInterrupt, GoTo, routerVars, netVars
  <2>2. at'[p] \in {"interrupt", "uninstall", "off", "sleep"}
    BY <2>1 DEF Back
  <2>3. S1' /\ S2'
    BY <1>0, <2>1, <2>2
  <2>4. S3' /\ S4'
    BY <1>0, <2>1, <2>2
  <2>5. S5'
    BY <1>0, <2>1, <2>2
  <2>6. S6'
    BY <1>0, <2>1 DEF Tied
  <2> QED
    BY <1>0, <2>3, <2>4, <2>5, <2>6
<1>7. ASSUME NEW p \in Thread, Uninstall(p), virtualRouter = NoRouter PROVE StoppedOK'
  <2>1. /\ UNCHANGED <<stopped, virtualRouter, mine, open, registered, query>>
        /\ at' = [at EXCEPT ![p] = at'[p]] /\ at[p] = "uninstall"
        /\ at'[p] \in {"install", "off", "sleep"}
    BY <1>7 DEF Uninstall, Uninstalled, GoTo, routerVars, netVars, Back
  <2>2. S5'
    BY <1>0, <2>1
  <2>3. S6'
    BY <1>0, <2>1 DEF Tied
  <2> QED
    BY <1>0, <1>7, <2>1, <2>2, <2>3
<1>8. ASSUME NEW p \in Thread, Uninstall(p), virtualRouter # NoRouter PROVE StoppedOK'
  <2>1. /\ UNCHANGED <<virtualRouter, mine, monitor>> /\ stopped' = stopped \cup {virtualRouter}
        /\ at' = [at EXCEPT ![p] = "unset"] /\ Disconnect(virtualRouter) /\ virtualRouter \in Router
    BY <1>8 DEF Uninstall, GoTo
  <2>2. S1' /\ S2'
    BY <1>0, <2>1
  <2>3. S3'
    BY <1>0, <1>8, <2>1
  <2>4. S4'
    BY <2>1
  <2>5. S5'
    BY <1>0, <2>1, Gone
  <2>6. S6'
    BY <1>0, <2>1, Gone
  <2> QED
    BY <1>0, <2>2, <2>3, <2>4, <2>5, <2>6
<1>9. ASSUME NEW p \in Thread, Unset(p) PROVE StoppedOK'
  <2>1. /\ UNCHANGED <<mine, open, registered, query>> /\ virtualRouter' = NoRouter
        /\ stopped' = {r \in stopped : \E q \in Thread : mine[q] = r}
        /\ at' = [at EXCEPT ![p] = at'[p]] /\ at'[p] \in {"install", "off", "sleep"}
    BY <1>9 DEF Unset, Uninstalled, GoTo, Back, netVars
  <2>2. S1' /\ S2' /\ S3' /\ S4'
    BY <1>0, <2>1
  <2>3. S5'
    BY <1>0, <2>1
  <2>4. S6'
    BY <1>0, <2>1 DEF Tied
  <2> QED
    BY <1>0, <2>2, <2>3, <2>4
<1>10. ASSUME NEW l \in Loop, LoopStep(l) PROVE StoppedOK'
  <2>1. /\ at[l] \in {"head", "await", "check", "installed", "failed", "refused", "sleep"}
        /\ at' = [at EXCEPT ![l] = at'[l]] /\ UNCHANGED <<nodeVars, netVars>>
        /\ at'[l] \in {"off", "await", "check", "sleep", "head", "uninstall", "stop"}
        /\ UNCHANGED <<mine, stopped>> \/ Release(l)
    BY <1>10, LoopMoves
  <2>2. UNCHANGED <<virtualRouter, monitor, open, registered, query>>
    BY <2>1 DEF nodeVars, netVars
  <2>3. /\ stopped' \subseteq stopped
        /\ virtualRouter \in stopped => virtualRouter \in stopped'
        /\ \A q \in Thread : q # l => mine'[q] = mine[q]
    BY <2>1 DEF Release
  <2>4. S1'
    BY <1>0, <2>1, <2>2 DEF Release
  <2>5. S2' /\ S3' /\ S4'
    BY <1>0, <2>1, <2>2, <2>3
  <2>6. S5'
    BY <1>0, <2>1, <2>2, <2>3
  <2>7. S6'
    BY <1>0, <2>2, <2>3 DEF Tied
  <2> QED
    BY <1>0, <2>4, <2>5, <2>6, <2>7
<1>11. CASE UNCHANGED vars
  <2>1. S6'
    BY <1>0, <1>11 DEF vars, Tied, netVars, routerVars
  <2>2. S1' /\ S2' /\ S3' /\ S4' /\ S5'
    BY <1>0, <1>11 DEF vars, netVars, routerVars, nodeVars, threadVars
  <2> QED
    BY <1>0, <2>1, <2>2
<1> QED
  BY <1>1, <1>2, <1>3, <1>4, <1>5, <1>6, <1>7, <1>8, <1>9, <1>10, <1>11
     DEF Next, ThreadStep, StopStep, NetStep
-----------------------------------------------------------------------------
(* A loop thread that outlives stop *)

(* The answers that are read and the timers that fire do not reach a thread that *)
(* was interrupted before.                                                         *)
LEMMA UnansweredStep ==
    ASSUME TypeInv, Prompt, NetStep, NEW l \in Loop, l \in flag, task[l] \in Task, Unanswered(l)
    PROVE  Unanswered(l)'
<1>0. /\ task' = task
      /\ future \in [Task -> {"none", "waiting", "result", "timeout"}]
      /\ claim \in [Task -> {"none", "answer", "timeout"}]
  BY NetQuiet DEF TypeInv, TypeOK, TaskTypeOK, threadVars
<1> USE <1>0 DEF Unanswered
<1>1. ASSUME NEW r \in Router, ReadReply(r) PROVE Unanswered(l)'
  <2>1. Head(wire[r]).task \in Task /\ Head(wire[r]).task # task[l] /\ Answer(Head(wire[r]).task)
    BY <1>1, WireTypes DEF ReadReply, Message, TypeInv
  <2> QED
    BY <2>1 DEF Answer
<1>2. ASSUME NEW k \in Task, Complete(k) \/ Expire(k) \/ Forget(k) PROVE Unanswered(l)'
  BY <1>2 DEF Complete, Expire, Forget
<1>3. CASE UNCHANGED taskVars
  BY <1>3 DEF taskVars
<1>4. (\E r \in Router : ReadReply(r)) \/ (\E k \in Task : Complete(k) \/ Expire(k) \/ Forget(k))
        \/ UNCHANGED taskVars
  BY DEF NetStep, EventLoopStep, ReadPush, Lose, TaskStep, CompleteTask, ExpireTask, ForgetTask,
         Serve, Refuse, Served, PeerChange
<1> QED
  BY <1>1, <1>2, <1>3, <1>4

(* A loop thread that installs while the node is stopped gets no further than allowed. *)
LEMMA EndingInstall ==
    ASSUME TypeInv, MonitorOK, NEW l \in Loop, InstallStep(l), Ending(l) PROVE Ending(l)'
<1> USE Threads DEF Installing, Engaged, Done, Harmless, Uninstalling, Stopping
<1>1. /\ at[l] \in Installing \ {"installed"} /\ monitor # l /\ monitor' = monitor
      /\ at' = [at EXCEPT ![l] = at'[l]] /\ at'[l] \in Engaged \cup Done
      /\ stopped' = stopped
  BY InstallMoves DEF MonitorOK
<1>2. CASE at[l] \in Engaged /\ mine[l] \in stopped
  <2>1. mine' = mine
    BY <1>2, InstallMoves DEF Install
  <2> QED
    BY <1>1, <1>2, <2>1 DEF Ending
<1>3. CASE at[l] \in Engaged /\ mine[l] = virtualRouter /\ ToUninstall
  <2>1. mine' = mine /\ virtualRouter' = virtualRouter
    BY <1>3, InstallMoves DEF Install
  <2>2. ToUninstall'
    BY <1>1, <1>3 DEF ToUninstall
  <2> QED
    BY <1>1, <1>3, <2>1, <2>2 DEF Ending
<1>4. CASE at[l] \in {"install", "connect"} /\ l \in flag
  BY <1>1, <1>4 DEF InstallStep, Install, Connect, ConnectFail, Ask, Send, GetResult, GetTimeout,
     GetInterrupted, Waiting, Apply, IceStart, IceFail, StoppedMeanwhile, GoTo, Ending
<1>5. CASE at[l] = "config" /\ l \in flag
  <2>1. CASE StoppedMeanwhile(l)
    BY <1>1, <2>1 DEF StoppedMeanwhile, GoTo, Ending
  <2>2. CASE Ask(l)
    <3>1. PICK k \in Task : WaitPut(k) /\ task' = [task EXCEPT ![l] = k]
      BY <2>2 DEF Ask, FreshTask
    <3>2. Unanswered(l)'
      BY <3>1 DEF WaitPut, Unanswered, TypeInv, TypeOK, TaskTypeOK, ThreadTypeOK
    <3> QED
      BY <1>1, <1>5, <2>2, <3>2 DEF Ask, GoTo, Ending
  <2> QED
    BY <1>5, <2>1, <2>2 DEF InstallStep, Install, Connect, ConnectFail, Send, GetResult, GetTimeout,
       GetInterrupted, Waiting, Apply, IceStart, IceFail
<1>6. CASE at[l] = "configSend" /\ l \in flag /\ Unanswered(l)
  <2>1. Send(l)
    BY <1>6 DEF InstallStep, Install, Connect, ConnectFail, Ask, GetResult, GetTimeout,
       GetInterrupted, Waiting, Apply, IceStart, IceFail, StoppedMeanwhile
  <2>2. Unanswered(l)' /\ flag' = flag /\ at'[l] = "configWait"
    BY <1>1, <1>6, <2>1 DEF Send, WaitArm, Unanswered, GoTo
  <2> QED
    BY <1>6, <2>2 DEF Ending
<1>7. CASE at[l] = "configWait" /\ l \in flag /\ Unanswered(l)
  <2>1. GetTimeout(l) \/ GetInterrupted(l)
    BY <1>7 DEF InstallStep, Install, Connect, ConnectFail, Ask, Send, GetResult, Unanswered,
       Apply, IceStart, IceFail, StoppedMeanwhile
  <2> QED
    BY <1>1, <2>1 DEF GetTimeout, GetInterrupted, GoTo, Ending
<1> QED
  BY <1>1, <1>2, <1>3, <1>4, <1>5, <1>6, <1>7 DEF Ending

(* While the node is stopped, a loop thread that is left comes to nothing. *)
LEMMA EndingStep ==
    ASSUME IInv, Restricted, [Next]_vars PROVE EndingOK'
<1> USE DEF IInv
<1> USE Threads DEF Installing, Engaged, Done, Harmless, Uninstalling, Stopping
<1> SUFFICES ASSUME ~ status', NEW l \in Loop PROVE Ending(l)'
  BY DEF EndingOK
<1>1. CASE NetStep
  <2>1. UNCHANGED <<stopped, nodeVars, threadVars>>
    BY <1>1, NetQuiet
  <2>2. Ending(l) /\ UNCHANGED <<at, mine, flag, monitor, virtualRouter, stopped>> /\ (ToUninstall <=> ToUninstall')
    BY <2>1 DEF nodeVars, threadVars, EndingOK, ToUninstall
  <2>3. CASE at[l] \in {"configSend", "configWait"} /\ l \in flag /\ Unanswered(l)
    <3>1. task[l] \in Task
      BY <2>3 DEF TypeInv, Placed, Asking
    <3>2. Unanswered(l)'
      BY <1>1, <2>3, <3>1, UnansweredStep DEF Restricted
    <3> QED
      BY <2>2, <2>3, <3>2 DEF Ending
  <2>4. CASE ~ (at[l] \in {"configSend", "configWait"} /\ l \in flag /\ Unanswered(l))
    BY <2>2, <2>4 DEF Ending
  <2> QED
    BY <2>3, <2>4
<1>2. ASSUME NEW p \in Thread, InstallStep(p) PROVE Ending(l)'
  <2>1. ~ status /\ at[p] \in Installing /\ at' = [at EXCEPT ![p] = at'[p]]
    BY <1>2, InstallMoves
  <2>2. CASE p = l
    BY <1>2, <2>1, <2>2, EndingInstall DEF EndingOK
  <2>3. CASE p # l
    <3>1. at'[l] = "off"
      BY <2>1, <2>3, Alone
    <3> QED
      BY <3>1 DEF Ending
  <2> QED
    BY <2>2, <2>3
<1>3. CASE CallStart \/ StartFailed
  <2>1. at'[l] = "off"
    <3>1. CASE CallStart
      BY <3>1 DEF CallStart, GoTo, Restricted
    <3>2. CASE StartFailed
      BY <3>2, Alone DEF StartFailed, GoTo
    <3> QED
      BY <1>3, <3>1, <3>2
  <2> QED
    BY <2>1 DEF Ending
<1>4. CASE CallStop
  <2>1. /\ Ending(l) /\ at'[l] = at[l] /\ monitor # Caller
        /\ UNCHANGED <<mine, flag, monitor, virtualRouter, stopped, task, future, claim>>
        /\ at' = [at EXCEPT ![Caller] = "stop"]
    BY <1>4 DEF CallStop, GoTo, nodeVars, routerVars, taskVars, EndingOK, MonitorOK
  <2>2. ToUninstall' <=> ToUninstall
    BY <2>1 DEF ToUninstall
  <2>3. Unanswered(l)' <=> Unanswered(l)
    BY <2>1 DEF Unanswered
  <2> QED
    BY <2>1, <2>2, <2>3 DEF Ending
<1>5. ASSUME NEW p \in Thread, StopEnter(p) PROVE Ending(l)'
  <2>1. /\ Ending(l) /\ at' = [at EXCEPT ![p] = Back(p)] /\ monitor = Nobody
        /\ UNCHANGED <<mine, flag, monitor, virtualRouter, stopped, task, future, claim>>
    BY <1>5 DEF StopEnter, GoTo, routerVars, taskVars, EndingOK
  <2>2. ~ ToUninstall
    BY <2>1 DEF ToUninstall
  <2>3. Unanswered(l)' <=> Unanswered(l)
    BY <2>1 DEF Unanswered
  <2>4. CASE p = l
    BY <2>1, <2>4 DEF Back, Ending
  <2>5. CASE p # l
    BY <2>1, <2>2, <2>3, <2>5 DEF Ending
  <2> QED
    BY <2>4, <2>5
<1>6. ASSUME NEW p \in Thread, StopInterrupt(p) PROVE Ending(l)'
  <2>1. /\ at[p] = "interrupt" /\ at' = [at EXCEPT ![p] = "uninstall"]
        /\ UNCHANGED <<mine, monitor, virtualRouter>>
        /\ flag' = IF at[loopThread] = "off" THEN flag ELSE flag \cup {loopThread}
    BY <1>6 DEF StopInterrupt, GoTo
  <2>2. monitor = p /\ status
    BY <2>1 DEF MonitorOK, StatusOK
  <2>3. ToUninstall'
    BY <2>1, <2>2 DEF ToUninstall
  <2>4. CASE l = p \/ at[l] = "off"
    BY <2>1, <2>2, <2>4 DEF Ending
  <2>5. CASE l # p /\ at[l] # "off"
    <3>1. l \in flag' /\ at'[l] = at[l]
      BY <2>1, <2>5 DEF LoopsOK
    <3>2. CASE at[l] \in Engaged
      <4>1. mine'[l] = virtualRouter'
        BY <2>1, <2>2, <3>2 DEF MineOK
      <4> QED
        BY <2>3, <3>1, <3>2, <4>1 DEF Ending
    <3>3. CASE at[l] \notin Engaged
      BY <2>5, <3>1, <3>3 DEF Ending
    <3> QED
      BY <3>2, <3>3
  <2> QED
    BY <2>4, <2>5
<1>7. ASSUME NEW p \in Thread, Uninstall(p) \/ Unset(p) PROVE Ending(l)'
  <2>1. /\ Ending(l) /\ at[p] \in Uninstalling /\ at' = [at EXCEPT ![p] = at'[p]]
        /\ UNCHANGED <<mine, flag, task, future, claim>>
    BY <1>7, StopMoves DEF StopStep, Uninstall, Unset, taskVars, EndingOK
  <2>2. CASE monitor # p
    <3>1. p \in Loop /\ at'[p] \in {"unset", "install"}
      BY <1>7, <2>1, <2>2 DEF MonitorOK, Uninstall, Unset, Uninstalled, GoTo
    <3>2. CASE l = p
      BY <2>1, <2>2, <3>1, <3>2 DEF Ending
    <3>3. CASE l # p
      <4>1. at'[l] = "off"
        BY <2>1, <3>1, <3>3 DEF LoopsOK
      <4> QED
        BY <4>1 DEF Ending
    <3> QED
      BY <3>2, <3>3
  <2>3. CASE monitor = p /\ at'[p] = Back(p)
    <3>1. CASE l = p
      BY <2>1, <2>3, <3>1 DEF Back, Ending
    <3>2. CASE l # p
      <4>1. Unanswered(l)' <=> Unanswered(l)
        BY <2>1 DEF Unanswered
      <4>2. ~ (at[l] \in Engaged /\ mine[l] = virtualRouter /\ ToUninstall)
        <5>1. CASE Unset(p)
          BY <2>3, <5>1 DEF Unset, ToUninstall
        <5>2. CASE Uninstall(p) /\ virtualRouter = NoRouter
          BY <5>2 DEF TypeInv, Placed
        <5>3. CASE Uninstall(p) /\ virtualRouter # NoRouter
          BY <2>1, <2>3, <5>3 DEF Uninstall, GoTo, Back
        <5> QED
          BY <1>7, <5>1, <5>2, <5>3
      <4>3. at[l] \in Engaged /\ mine[l] \in stopped => mine[l] \in stopped'
        BY <1>7 DEF Uninstall, Unset, routerVars
      <4> QED
        BY <2>1, <2>3, <3>2, <4>1, <4>2, <4>3 DEF Ending
    <3> QED
      BY <3>1, <3>2
  <2>4. CASE monitor = p /\ at'[p] # Back(p)
    <3>1. Uninstall(p) /\ virtualRouter # NoRouter
      BY <1>7, <2>1, <2>4 DEF Uninstall, Unset, Uninstalled, GoTo
    <3>2. stopped' = stopped \cup {virtualRouter} /\ monitor' = monitor
      BY <3>1 DEF Uninstall
    <3>3. CASE l = p
      BY <2>4, <3>2, <3>3 DEF Ending
    <3>4. CASE l # p
      <4>1. Unanswered(l)' <=> Unanswered(l)
        BY <2>1 DEF Unanswered
      <4> QED
        BY <2>1, <2>4, <3>2, <3>4, <4>1 DEF Ending
    <3> QED
      BY <3>3, <3>4
  <2> QED
    BY <2>2, <2>3, <2>4
<1>8. ASSUME NEW m \in Loop, LoopStep(m) PROVE Ending(l)'
  <2>1. /\ at[m] \in {"head", "await", "check", "installed", "failed", "refused", "sleep"}
        /\ at' = [at EXCEPT ![m] = at'[m]] /\ UNCHANGED nodeVars
        /\ at'[m] \in {"off", "await", "check", "sleep", "head", "uninstall", "stop"}
        /\ at'[m] = "uninstall" => loopStatus
    BY <1>8, LoopMoves
  <2>2. at'[m] # "uninstall"
    BY <2>1 DEF StatusOK, nodeVars
  <2>3. m # l => at[l] = "off"
    BY <2>1 DEF LoopsOK
  <2> QED
    BY <2>1, <2>2, <2>3 DEF Ending
<1>9. CASE Started
  BY <1>9 DEF Started
<1>10. CASE UNCHANGED vars
  BY <1>10 DEF vars, taskVars, netVars, routerVars, nodeVars, threadVars, EndingOK, Ending, ToUninstall, Unanswered
<1> QED
  BY <1>1, <1>2, <1>3, <1>4, <1>5, <1>6, <1>7, <1>8, <1>9, <1>10 DEF Next, ThreadStep, StopStep, NetStep
-----------------------------------------------------------------------------
(* The directory *)

(* A router in the directory is the one that stop will disconnect, or abandoned. *)
LEMMA TiedStep ==
    ASSUME IInv, Restricted, [Next]_vars PROVE TiedOK'
<1> USE DEF IInv
<1> USE Threads DEF Installing, Engaged, Done, Uninstalling, Stopping, Starting
<1> SUFFICES ASSUME NEW r \in Router, Tied(r)' PROVE r \in open' /\ (r \in abandoned' \/ Held(r)')
  BY DEF TiedOK
<1>0. Tied(r) => r \in open /\ (r \in abandoned \/ Held(r))
  BY DEF TiedOK
<1>1. CASE NetStep
  <2>1. UNCHANGED <<nodeVars, threadVars>>
    BY <1>1, NetQuiet
  <2>2. Held(r)' <=> Held(r)
    BY <2>1 DEF nodeVars, threadVars, Held, ToUninstall
  <2> QED
    BY <1>0, <1>1, <2>2, NetTied
<1>2. ASSUME NEW p \in Thread, Install(p) PROVE r \in open' /\ (r \in abandoned' \/ Held(r)')
  <2>1. Tied(r) /\ UNCHANGED <<open, abandoned>> /\ at[p] = "install"
    BY <1>2 DEF Install, netVars, Tied
  <2>2. ~ Held(r)
    <3>1. CASE p = Caller
      BY <2>1, <3>1 DEF StatusOK, MonitorOK, Held, ToUninstall
    <3>2. CASE p \in Loop
      BY <2>1, <3>2 DEF StoppedOK, Held
    <3> QED
      BY <3>1, <3>2
  <2> QED
    BY <1>0, <2>1, <2>2
<1>3. ASSUME NEW p \in Thread, InstallStep(p), ~ Install(p)
      PROVE  r \in open' /\ (r \in abandoned' \/ Held(r)')
  <2>1. /\ at[p] \in Engaged \ {"installed"} /\ UNCHANGED <<virtualRouter, mine, monitor, status, abandoned>>
        /\ at' = [at EXCEPT ![p] = at'[p]] /\ at'[p] \in Engaged \cup Done
    BY <1>3, InstallMoves
  <2>2. Held(r) => Held(r)'
    <3>1. ToUninstall => ToUninstall'
      BY <2>1 DEF ToUninstall
    <3>2. Starting /\ at[Caller] # "install" => Starting' /\ at'[Caller] # "install"
      BY <2>1
    <3> QED
      BY <2>1, <3>1, <3>2 DEF Held
  <2>3. open \subseteq open'
    BY <1>3, InstallTied
  <2>4. CASE Tied(r)
    BY <1>0, <2>1, <2>2, <2>3, <2>4
  <2>5. CASE at[p] = "registSend" /\ r = mine[p] /\ r \in open
    <3>1. ASSUME p = Caller PROVE Held(r)
      BY <2>5, <3>1 DEF MineOK, Held
    <3>2. ASSUME p \in Loop, status PROVE Held(r)
      BY <2>5, <3>2 DEF MineOK, Held
    <3>3. ASSUME p \in Loop, ~ status PROVE Held(r)
      <4>1. Ending(p) /\ monitor # p
        BY <2>5, <3>3 DEF EndingOK, MonitorOK
      <4>2. mine[p] \notin stopped
        BY <2>5 DEF StoppedOK, Asking
      <4>3. r = virtualRouter /\ ToUninstall
        BY <2>5, <4>1, <4>2 DEF Ending, Harmless
      <4> QED
        BY <4>3 DEF Held
    <3>4. Held(r)
      BY <3>1, <3>2, <3>3
    <3> QED
      BY <2>2, <2>3, <2>5, <3>4
  <2> QED
    BY <1>3, <2>4, <2>5, InstallTied
<1>4. CASE CallStart \/ CallStop
  <2>1. /\ UNCHANGED <<open, registered, query, abandoned, virtualRouter, status>> /\ at[Caller] = "off"
        /\ at' = [at EXCEPT ![Caller] = at'[Caller]]
        /\ \/ monitor = Nobody
           \/ monitor' = monitor
    BY <1>4 DEF CallStart, CallStop, GoTo, nodeVars, netVars
  <2>2. Tied(r)
    BY <2>1 DEF Tied
  <2>3. Held(r) => Held(r)'
    BY <2>1 DEF Held, ToUninstall, MonitorOK
  <2> QED
    BY <1>0, <2>1, <2>2, <2>3
<1>5. CASE Started
  <2>1. UNCHANGED <<open, registered, query, abandoned, virtualRouter>> /\ status'
    BY <1>5 DEF Started, netVars
  <2>2. Tied(r)
    BY <2>1 DEF Tied
  <2> QED
    BY <1>0, <2>1, <2>2 DEF Held
<1>6. CASE StartFailed
  <2>1. /\ UNCHANGED <<open, registered, query, virtualRouter>>
        /\ abandoned' = abandoned \cup ({mine[Caller]} \cap open) /\ at[Caller] \in Done
    BY <1>6 DEF StartFailed
  <2>2. Tied(r) /\ mine[Caller] = virtualRouter
    BY <2>1 DEF Tied, MineOK
  <2> QED
    BY <1>0, <2>1, <2>2 DEF Held
<1>7. ASSUME NEW p \in Thread, StopEnter(p) PROVE r \in open' /\ (r \in abandoned' \/ Held(r)')
  <2>1. /\ UNCHANGED <<open, registered, query, abandoned, virtualRouter, status>> /\ at[p] = "stop"
        /\ at' = [at EXCEPT ![p] = at'[p]] /\ monitor = Nobody
    BY <1>7 DEF StopEnter, GoTo, netVars
  <2>2. Tied(r)
    BY <2>1 DEF Tied
  <2>3. Held(r) => Held(r)'
    BY <2>1 DEF Held, ToUninstall
  <2> QED
    BY <1>0, <2>1, <2>2, <2>3
<1>8. ASSUME NEW p \in Thread, StopInterrupt(p) PROVE r \in open' /\ (r \in abandoned' \/ Held(r)')
  <2>1. /\ UNCHANGED <<open, registered, query, abandoned, virtualRouter, monitor>> /\ at[p] = "interrupt"
        /\ at' = [at EXCEPT ![p] = "uninstall"]
    BY <1>8 DEF StopInterrupt, GoTo, netVars
  <2>2. Tied(r)
    BY <2>1 DEF Tied
  <2>3. ToUninstall'
    BY <2>1 DEF ToUninstall, MonitorOK
  <2> QED
    BY <1>0, <2>1, <2>2, <2>3 DEF Held
<1>9. ASSUME NEW p \in Thread, Uninstall(p) PROVE r \in open' /\ (r \in abandoned' \/ Held(r)')
  <2>1. CASE virtualRouter = NoRouter
    <3>1. UNCHANGED <<open, registered, query, abandoned>>
      BY <1>9, <2>1 DEF Uninstall, netVars
    <3>2. Tied(r) /\ ~ Held(r)
      BY <2>1, <3>1 DEF Tied, Held
    <3> QED
      BY <1>0, <3>1, <3>2
  <2>2. CASE virtualRouter # NoRouter
    <3>1. Disconnect(virtualRouter) /\ virtualRouter \in Router
      BY <1>9, <2>2 DEF Uninstall
    <3>2. Tied(r) /\ r # virtualRouter
      BY <3>1, Gone
    <3> QED
      BY <1>0, <3>1, <3>2, Gone DEF Held
  <2> QED
    BY <2>1, <2>2
<1>10. ASSUME NEW p \in Thread, Unset(p) PROVE r \in open' /\ (r \in abandoned' \/ Held(r)')
  <2>1. UNCHANGED <<open, registered, query, abandoned>> /\ at[p] = "unset"
    BY <1>10 DEF Unset, netVars
  <2>2. Tied(r)
    BY <2>1 DEF Tied
  <2>3. ~ Held(r)
    <3>1. CASE monitor = p
      BY <2>1, <3>1 DEF StatusOK, LoopsOK, Held, ToUninstall
    <3>2. CASE monitor # p
      <4>1. p \in Loop
        BY <2>1, <3>2 DEF MonitorOK
      <4>2. r # virtualRouter
        BY <2>1, <2>2, <3>2, <4>1 DEF StoppedOK
      <4> QED
        BY <4>2 DEF Held
    <3> QED
      BY <3>1, <3>2
  <2> QED
    BY <1>0, <2>1, <2>2, <2>3
<1>11. ASSUME NEW l \in Loop, LoopStep(l) PROVE r \in open' /\ (r \in abandoned' \/ Held(r)')
  <2>1. /\ at[l] \in {"head", "await", "check", "installed", "failed", "refused", "sleep"}
        /\ at' = [at EXCEPT ![l] = at'[l]] /\ UNCHANGED <<nodeVars, netVars>>
    BY <1>11, LoopMoves
  <2>2. Tied(r) /\ UNCHANGED <<open, abandoned>>
    BY <2>1 DEF netVars, Tied
  <2>3. Held(r) => Held(r)'
    BY <2>1 DEF nodeVars, Held, ToUninstall
  <2> QED
    BY <1>0, <2>2, <2>3
<1>12. CASE UNCHANGED vars
  <2>1. UNCHANGED <<open, registered, query, abandoned, virtualRouter, status, monitor, at>>
    BY <1>12 DEF vars, netVars, nodeVars, threadVars
  <2>2. Tied(r)
    BY <2>1 DEF Tied
  <2>3. Held(r) => Held(r)'
    BY <2>1 DEF Held, ToUninstall
  <2> QED
    BY <1>0, <2>1, <2>2, <2>3
<1> QED
  BY <1>1, <1>2, <1>3, <1>4, <1>5, <1>6, <1>7, <1>8, <1>9, <1>10, <1>11, <1>12
     DEF Next, ThreadStep, StopStep, NetStep
-----------------------------------------------------------------------------
(* The theorems *)

(* The types, the monitor and the flags of start and stop, without restrictions. *)
BaseInv == TypeInv /\ MonitorOK /\ StatusOK

LEMMA BaseInvariant == Spec => []BaseInv
<1>1. Init => BaseInv
  <2>1. Init => MonitorOK /\ StatusOK
    BY DEF Init, MonitorOK, StatusOK, Starting, Installing, Done, Stopping, Uninstalling, Thread
  <2> QED
    BY <2>1, TypeInit DEF BaseInv
<1>2. BaseInv /\ [Next]_vars => BaseInv'
  BY TypeStep, MonitorStep DEF BaseInv
<1> QED
  BY <1>1, <1>2, PTL DEF Spec

(* Every variable keeps its type: in particular a reply is only ever for a request  *)
(* that was made, and what is in the directory is on a connection that is open.        *)
THEOREM TypeCorrect == Spec => []TypeOK
<1>1. BaseInv => TypeOK
  BY DEF BaseInv, TypeInv
<1> QED
  BY <1>1, BaseInvariant, PTL

(* AsyncTask leaks no entry and leaves no caller with a future that nobody completes, *)
(* whatever the order of put, arm, answer, timeout and completion.                      *)
THEOREM RequestsOwned == Spec => []EntryOwned
<1>1. Init => EntryOwned
  BY TaskInitial DEF Init
<1>2. BaseInv /\ EntryOwned /\ [Next]_vars => EntryOwned'
  BY TaskPart, EntryStep DEF BaseInv, TypeInv, TypeOK
<1> QED
  BY <1>1, <1>2, BaseInvariant, PTL DEF Spec

(* The races for an entry implement a future: it ends once, with a result or with a   *)
(* timeout, and stays as it ended until the caller drops it.                           *)
THEOREM FuturesKept == Spec => Pending!Safety
<1>1. Init => Pending!Init
  BY TaskInitial DEF Init
<1>2. BaseInv /\ EntryOwned /\ [Next]_vars => [Pending!Next]_future
  BY TaskPart, FutureStep DEF BaseInv, TypeInv, TypeOK
<1> QED
  BY <1>1, <1>2, BaseInvariant, RequestsOwned, PTL DEF Spec, Pending!Safety

LEMMA Invariant == ASSUME Restricted PROVE Spec => []IInv
<1>1. Init => IInv
  <2> SUFFICES ASSUME Init PROVE IInv
    OBVIOUS
  <2>1. TypeInv /\ MonitorOK /\ StatusOK
    BY TypeInit DEF Init, MonitorOK, StatusOK, Starting, Installing, Done, Stopping, Uninstalling, Thread
  <2>2. LoopsOK /\ MineOK
    BY DEF Init, LoopsOK, MineOK, Starting, Installing, Done, Engaged, Thread
  <2>3. \A r \in Router : ~ Tied(r)
    BY DEF Init, Tied, NoQuery
  <2>4. StoppedOK
    BY <2>3 DEF Init, StoppedOK, Thread, Asking, Engaged, Installing
  <2>5. EndingOK /\ TiedOK
    BY <2>3 DEF Init, EndingOK, Ending, Harmless, TiedOK, Thread
  <2> QED
    BY <2>1, <2>2, <2>4, <2>5 DEF IInv
<1>2. IInv /\ [Next]_vars => IInv'
  BY TypeStep, MonitorStep, LoopsStep, MineStep, StoppedStep, EndingStep, TiedStep DEF IInv, Restricted
<1> QED
  BY <1>1, <1>2, PTL DEF Spec

(* When stop has returned, no connection of the node is in the controller's directory, *)
(* even if the loop thread was about to reinstall; starts that failed are left out.      *)
THEOREM StoppedIsGone == ASSUME Restricted PROVE Spec => []StopDisconnects
<1>1. IInv => StopDisconnects
  <2> SUFFICES ASSUME IInv, ~ status, monitor = Nobody, NEW r \in registered PROVE r \in abandoned
    BY DEF StopDisconnects
  <2>1. r \in Router /\ Tied(r)
    BY DEF IInv, TypeInv, TypeOK, NetTypeOK, Tied
  <2>2. ~ Held(r)
    BY Threads DEF IInv, MonitorOK, Starting, ToUninstall, Held
  <2> QED
    BY <2>1, <2>2 DEF IInv, TiedOK
<1> QED
  BY <1>1, Invariant, PTL

(* A reinstallation leaves no connection in the directory that the node does not use. *)
THEOREM NoOrphanEver == ASSUME Restricted PROVE Spec => []NoOrphan
<1>1. IInv => NoOrphan
  BY DEF IInv, TiedOK, Tied, Held, NoOrphan, TypeInv, TypeOK, NetTypeOK
<1> QED
  BY <1>1, Invariant, PTL
-----------------------------------------------------------------------------
(* What a router knows of the peer *)

(* The stages of install at which the answer of the controller still counts.  Before *)
(* the registration is sent, the controller has nothing to say to the router.           *)
Before == {"connect", "config", "configSend", "configWait", "regist", "registSend"}
Working == Before \cup {"registWait", "apply"}
Sending == {"configSend", "registSend"}
Owning == Sending \cup {"configWait", "registWait", "apply"}

(* The next message of r is the answer to k; its last message, when that is a push. *)
Answering(r, k) == wire[r] # << >> /\ Head(wire[r]).task = k
Newest(r) == wire[r][Len(wire[r])]
Pushed(r) == wire[r] # << >> /\ Newest(r).task = NoTask

(* A request is on its way, its answer has been read, neither has ever been. *)
Asked(k) == query[k].router \in Router
Answered(k) == future[k] = "result" \/ claim[k] = "answer"
Untouched(k) == ~ Asked(k) /\ ~ Answered(k) /\ \A r \in Router : ~ Answering(r, k)

(* A router belongs to one thread at most. *)
OneThread == \A p, q \in Thread : mine[p] = mine[q] /\ mine[p] # NoRouter => p = q

(* An answer comes before all pushes, and pushes come to routers in the directory. *)
QueueOK ==
    \A r \in Router : \A i \in 1..Len(wire[r]) :
        IF wire[r][i].task = NoTask THEN r \in registered ELSE i = 1

(* A request is at one place: on its way, in the queue of one router, or answered. *)
PlaceOK ==
    /\ \A k \in Task : Asked(k) => ~ Answered(k) /\ \A r \in Router : ~ Answering(r, k)
    /\ \A k \in Task, r \in Router : Answering(r, k) => ~ Answered(k)
    /\ \A k \in Task, r, s \in Router : Answering(r, k) /\ Answering(s, k) => r = s
    /\ \A k \in Task : future[k] = "none" => Untouched(k)
    /\ \A p \in Thread : at[p] \in Sending => Untouched(task[p])

(* A thread has its request for itself until it has used the answer. *)
OwnOK ==
    /\ \A p \in Thread : at[p] \in Owning => future[task[p]] # "none"
    /\ \A p \in Thread : at[p] = "apply" => future[task[p]] = "result"
    /\ \A p, q \in Thread : at[p] \in Owning /\ at[q] \in Owning /\ task[p] = task[q] => p = q

(* The controller has said nothing to r while it has a request of r to answer, and *)
(* the request is that of the thread that installs r.                                 *)
AskedOK ==
    \A k \in Task, r \in Router : query[k].router = r =>
        /\ \A j \in Task : query[j].router = r => j = k
        /\ wire[r] = << >> /\ table[r] = Absent
        /\ r \notin registered /\ r \notin applied /\ r \notin stopped
        /\ \A p \in Thread : at[p] \in Owning => (mine[p] = r <=> task[p] = k)
        /\ \A p \in Thread : at[p] = "configWait" /\ task[p] = k => query[k].kind = "config"

WorkOK ==
    /\ \A p \in Thread : at[p] = "connect" => mine[p] \notin open
    /\ \A p \in Thread : at[p] \in Before =>
          mine[p] \notin registered /\ mine[p] \notin applied /\ table[mine[p]] = Absent
    /\ \A p \in Thread : at[p] \in Before \ {"configWait"} => wire[mine[p]] = << >>
    /\ \A p \in Thread, k \in Task :
          at[p] \in (Before \ {"configWait"}) \cup {"apply"} => query[k].router # mine[p]
    /\ \A p \in Thread, r \in Router, k \in Task :
          at[p] \in Owning /\ Answering(r, k) => (mine[p] = r <=> task[p] = k)
    /\ \A p \in Thread : at[p] \in Working \ {"connect", "config"} /\ mine[p] \in stopped => mine[p] \notin open

StoppedGone == \A r \in stopped : r \notin registered

(* p will enter the list of its registration, or has it before it. *)
Expecting(p) == at[p] \in {"registWait", "apply"} /\ (Answered(task[p]) \/ Answering(mine[p], task[p]))

(* What was last said to a router in the directory is what the directory says: it is *)
(* the last push under way, or else in the table, or else the list still to be entered. *)
Followed ==
    /\ \A r \in registered : Pushed(r) => Newest(r).info = peer
    /\ \A r \in registered : r \in applied /\ r \notin overtaken /\ ~ Pushed(r) => table[r] = peer
    /\ \A p \in Thread : Expecting(p) /\ mine[p] \in registered /\ mine[p] \notin overtaken =>
          table[mine[p]] = Absent /\ (~ Pushed(mine[p]) => answer[task[p]].list = peer)

DirectoryInv ==
    /\ OneThread /\ QueueOK /\ PlaceOK /\ OwnOK /\ AskedOK /\ WorkOK /\ StoppedGone /\ Followed

LEMMA WorkTypes ==
    ASSUME TypeInv
    PROVE  /\ wire \in [Router -> Seq(Message)] /\ table \in [Router -> Info \cup {Absent}]
           /\ registered \subseteq open /\ applied \subseteq open /\ overtaken \subseteq open
           /\ open \subseteq Router /\ stopped \subseteq Router
           /\ Router \subseteq Nat /\ NoRouter \notin Router /\ NoTask \notin Task
           /\ Caller \in Thread /\ Loop \subseteq Thread /\ Caller \notin Loop
           /\ at \in [Thread -> Installing \cup Stopping \cup Uninstalling
                               \cup {"off", "failed", "refused", "head", "await", "check", "sleep"}]
           /\ mine \in [Thread -> Router \cup {NoRouter}] /\ task \in [Thread -> Task \cup {NoTask}]
           /\ \A p \in Thread : at[p] \in Working => mine[p] \in Router
           /\ \A p \in Thread : at[p] \in Owning => task[p] \in Task
           /\ future \in [Task -> {"none", "waiting", "result", "timeout"}]
           /\ claim \in [Task -> {"none", "answer", "timeout"}]
           /\ DOMAIN query = Task /\ DOMAIN answer = Task
           /\ \A k \in Task : query[k].router \in Router \cup {NoRouter}
           /\ \A k \in Task : query[k] # NoQuery <=> query[k].router \in Router
           /\ \A k \in Task : query[k].router \in Router => query[k].router \in open
           /\ \A r \in Router : wire[r] # << >> => r \in open
<1> USE DEF TypeInv, TypeOK
<1>1. /\ wire \in [Router -> Seq(Message)] /\ registered \subseteq open /\ applied \subseteq open
      /\ overtaken \subseteq open /\ open \subseteq Router
      /\ query \in [Task -> [router : Router \cup {NoRouter}, kind : {"config", "regist"}]]
      /\ DOMAIN answer = Task
  BY DEF NetTypeOK, Message
<1>2. NoQuery.router = NoRouter /\ NoRouter \notin Router /\ Router \subseteq Nat
  BY DEF NoQuery, NoRouter, Router
<1>3. /\ stopped \subseteq Router /\ table \in [Router -> Info \cup {Absent}]
  BY DEF RouterTypeOK
<1>4. /\ at \in [Thread -> Installing \cup Stopping \cup Uninstalling
                               \cup {"off", "failed", "refused", "head", "await", "check", "sleep"}]
      /\ mine \in [Thread -> Router \cup {NoRouter}] /\ task \in [Thread -> Task \cup {NoTask}]
  BY DEF ThreadTypeOK
<1>5. /\ \A p \in Thread : at[p] \in Working => mine[p] \in Router
      /\ \A p \in Thread : at[p] \in Owning => task[p] \in Task
  BY DEF Placed, Working, Owning, Sending, Before, Engaged, Asking, Installing
<1>6. /\ future \in [Task -> {"none", "waiting", "result", "timeout"}]
      /\ claim \in [Task -> {"none", "answer", "timeout"}]
  BY DEF TaskTypeOK
<1>7. \A k \in Task : query[k].router \in Router \cup {NoRouter}
  BY <1>1
<1>8. \A k \in Task : query[k] # NoQuery => query[k].router \in Router /\ query[k].router \in open
  BY <1>1 DEF OpenOK
<1>9. \A r \in Router : wire[r] # << >> => r \in open
  BY DEF OpenOK
<1> QED
  BY <1>1, <1>2, <1>3, <1>4, <1>5, <1>6, <1>7, <1>8, <1>9 DEF Thread

LEMMA SameWire ==
    ASSUME NEW r \in Router, wire'[r] = wire[r]
    PROVE  /\ \A k \in Task : Answering(r, k)' <=> Answering(r, k)
           /\ Pushed(r)' <=> Pushed(r)
           /\ Newest(r)' = Newest(r)
BY DEF Answering, Pushed, Newest

(* The stages, one within the other. *)
LEMMA Stages ==
    /\ Before \subseteq Working /\ Owning \subseteq Working /\ Sending \subseteq Owning /\ Sending \subseteq Before
    /\ {"registWait", "apply"} \subseteq Owning /\ "connect" \in Before /\ "configWait" \in Before \cap Owning
    /\ "install" \notin Working /\ "failed" \notin Working /\ "refused" \notin Working /\ "ice" \notin Working
BY DEF Working, Owning, Sending, Before

(* A thread that goes elsewhere with nothing else done. *)
LEMMA QuietFollowed ==
    ASSUME TypeInv, DirectoryInv,
           UNCHANGED <<taskVars, open, registered, applied, overtaken, peer, wire, query, answer, table>>,
           stopped' \subseteq stopped,
           \A q \in Thread : /\ at'[q] \in Working => at'[q] = at[q] /\ task'[q] = task[q]
                             /\ mine'[q] \in {mine[q], NoRouter}
                             /\ at'[q] \in Working => mine'[q] = mine[q]
    PROVE  DirectoryInv'
<1> USE DEF DirectoryInv, taskVars
<1>1. OneThread'
  BY DEF OneThread
<1>2. QueueOK' /\ StoppedGone'
  BY DEF QueueOK, StoppedGone
<1>3. \A r \in Router, k \in Task : /\ Answering(r, k)' <=> Answering(r, k)
                                    /\ Pushed(r)' <=> Pushed(r)
                                    /\ Newest(r)' = Newest(r)
  BY SameWire
<1>4. \A k \in Task : (Asked(k)' <=> Asked(k)) /\ (Answered(k)' <=> Answered(k)) /\ (Untouched(k)' <=> Untouched(k))
  BY <1>3 DEF Asked, Answered, Untouched
<1>5. Before \subseteq Working /\ Owning \subseteq Working /\ Sending \subseteq Owning /\ {"registWait", "apply"} \subseteq Working
  BY DEF Working, Owning, Sending, Before
<1>6. PlaceOK'
  BY <1>3, <1>4, <1>5, WorkTypes DEF PlaceOK
<1>7. OwnOK'
  BY <1>5 DEF OwnOK, Working
<1>8. AskedOK'
  BY <1>5 DEF AskedOK, Owning
<1>9. WorkOK'
  <2>1. \A p \in Thread, r \in Router, k \in Task :
          at'[p] \in Owning /\ Answering(r, k)' => (mine'[p] = r <=> task'[p] = k)
    <3> SUFFICES ASSUME NEW p \in Thread, NEW r \in Router, NEW k \in Task, at'[p] \in Owning, Answering(r, k)
                 PROVE  mine'[p] = r <=> task'[p] = k
      BY <1>3
    <3>1. at'[p] = at[p] /\ task'[p] = task[p] /\ mine'[p] = mine[p]
      BY <1>5
    <3> QED
      BY <3>1 DEF WorkOK
  <2> QED
    BY <1>5, <2>1, WorkTypes DEF WorkOK, Working, Before
<1>10. Followed'
  <2>1. \A p \in Thread : Expecting(p)' => Expecting(p) /\ at'[p] = at[p] /\ task'[p] = task[p] /\ mine'[p] = mine[p]
    BY <1>5, WorkTypes DEF Expecting, Answered, Answering
  <2> QED
    BY <1>3, <2>1, WorkTypes DEF Followed, Pushed, Newest
<1> QED
  BY <1>1, <1>2, <1>6, <1>7, <1>8, <1>9, <1>10

(* A connection that ends takes all there is about its router with it. *)
LEMMA GoneFollowed ==
    ASSUME TypeInv, DirectoryInv, NEW r \in Router, Disconnect(r),
           UNCHANGED <<taskVars, mine, task>>,
           stopped' \subseteq stopped \cup {r},
           \/ table' = table
           \/ table' = [table EXCEPT ![r] = Absent],
           \A q \in Thread : at'[q] \in Working => at'[q] = at[q]
    PROVE  DirectoryInv'
<1> USE DEF DirectoryInv, taskVars
<1>1. /\ open' = open \ {r} /\ registered' = registered \ {r}
      /\ applied' = applied \ {r} /\ overtaken' = overtaken \ {r}
      /\ wire' = [wire EXCEPT ![r] = << >>]
      /\ query' = [k \in Task |-> IF query[k].router = r THEN NoQuery ELSE query[k]]
      /\ UNCHANGED <<peer, answer>>
  BY DEF Disconnect
<1>2. /\ wire'[r] = << >> /\ \A s \in Router : s # r => wire'[s] = wire[s]
      /\ \A s \in Router : s # r => table'[s] = table[s]
      /\ \A s \in Router : table[s] = Absent => table'[s] = Absent
  BY <1>1, WorkTypes
<1>3. /\ \A k \in Task : ~ Answering(r, k)'
      /\ ~ Pushed(r)'
      /\ \A s \in Router, k \in Task : s # r => (Answering(s, k)' <=> Answering(s, k))
      /\ \A s \in Router : s # r => (Pushed(s)' <=> Pushed(s)) /\ Newest(s)' = Newest(s)
  BY <1>2, SameWire DEF Answering, Pushed
<1>4. /\ \A k \in Task, s \in Router : query'[k].router = s => query[k].router = s /\ s # r /\ query'[k] = query[k]
      /\ \A k \in Task : Asked(k)' => Asked(k)
  BY <1>1, WorkTypes DEF Asked, NoQuery
<1>5. \A k \in Task : (Answered(k)' <=> Answered(k)) /\ (Untouched(k) => Untouched(k)')
  BY <1>3, <1>4 DEF Answered, Untouched
<1>6. OneThread'
  BY DEF OneThread
<1>7. QueueOK'
  BY <1>1, <1>2 DEF QueueOK
<1>8. PlaceOK'
  <2>1. \A p \in Thread : at'[p] \in Sending => at[p] \in Sending
    BY DEF Sending, Working, Before
  <2>2. \A s \in Router, k \in Task : Answering(s, k)' => Answering(s, k)
    BY <1>3
  <2>3. \A p \in Thread : at'[p] \in Sending => Untouched(task[p])'
    <3> SUFFICES ASSUME NEW p \in Thread, NEW k \in Task, task[p] = k, at[p] \in Sending PROVE Untouched(task[p])'
      BY <2>1, WorkTypes, Stages
    <3>1. Untouched(k)'
      BY <1>5 DEF PlaceOK
    <3> QED
      BY <3>1 DEF Untouched, Asked, Answered, Answering
  <2> QED
    BY <1>4, <1>5, <2>2, <2>3 DEF PlaceOK
<1>9. OwnOK'
  BY DEF OwnOK, Working, Owning, Sending, Before
<1>10. AskedOK'
  <2> SUFFICES ASSUME NEW k \in Task, NEW s \in Router, query'[k].router = s
               PROVE  /\ \A j \in Task : query'[j].router = s => j = k
                      /\ wire'[s] = << >> /\ table'[s] = Absent
                      /\ s \notin registered' /\ s \notin applied' /\ s \notin stopped'
                      /\ \A p \in Thread : at'[p] \in Owning => (mine'[p] = s <=> task'[p] = k)
                      /\ \A p \in Thread : at'[p] = "configWait" /\ task'[p] = k => query'[k].kind = "config"
    BY DEF AskedOK
  <2>1. query[k].router = s /\ s # r /\ query'[k] = query[k]
    BY <1>4
  <2>2. \A p \in Thread : at'[p] \in Owning => at[p] \in Owning /\ at'[p] = at[p]
    BY DEF Owning, Sending, Working, Before
  <2>3. \A j \in Task : query'[j].router = s => j = k
    BY <1>4, <2>1 DEF AskedOK
  <2>4. /\ wire'[s] = << >> /\ table'[s] = Absent
        /\ s \notin registered' /\ s \notin applied' /\ s \notin stopped'
    BY <1>1, <1>2, <2>1 DEF AskedOK
  <2>5. \A p \in Thread : at'[p] \in Owning => (mine'[p] = s <=> task'[p] = k)
    BY <2>1, <2>2 DEF AskedOK
  <2>6. \A p \in Thread : at'[p] = "configWait" /\ task'[p] = k => query'[k].kind = "config"
    BY <2>1, <2>2 DEF AskedOK, Owning
  <2> QED
    BY <2>3, <2>4, <2>5, <2>6
<1>11. WorkOK'
  <2>1. \A p \in Thread : at'[p] \in Working => at'[p] = at[p] /\ mine[p] \in Router /\ mine'[p] = mine[p] /\ task'[p] = task[p]
    BY WorkTypes
  <2>2. \A p \in Thread : at'[p] = "connect" => mine'[p] \notin open'
    BY <1>1, <2>1 DEF WorkOK, Working, Before
  <2>3. \A p \in Thread : at'[p] \in Before =>
          mine'[p] \notin registered' /\ mine'[p] \notin applied' /\ table'[mine'[p]] = Absent
    BY <1>1, <1>2, <2>1 DEF WorkOK, Working
  <2>4. \A p \in Thread : at'[p] \in Before \ {"configWait"} => wire'[mine'[p]] = << >>
    BY <1>2, <2>1 DEF WorkOK, Working
  <2>5. \A p \in Thread, k \in Task :
          at'[p] \in (Before \ {"configWait"}) \cup {"apply"} => query'[k].router # mine'[p]
    BY <1>4, <2>1 DEF WorkOK, Working
  <2>6. \A p \in Thread, s \in Router, k \in Task :
          at'[p] \in Owning /\ Answering(s, k)' => (mine'[p] = s <=> task'[p] = k)
    <3> SUFFICES ASSUME NEW p \in Thread, NEW s \in Router, NEW k \in Task, at'[p] \in Owning, Answering(s, k)'
                 PROVE  mine'[p] = s <=> task'[p] = k
      OBVIOUS
    <3>1. at'[p] = at[p] /\ task'[p] = task[p] /\ mine'[p] = mine[p]
      BY <2>1 DEF Working, Owning, Sending, Before
    <3>2. Answering(s, k)
      BY <1>3
    <3> QED
      BY <3>1, <3>2 DEF WorkOK
  <2>7. \A p \in Thread : at'[p] \in Working \ {"connect", "config"} /\ mine'[p] \in stopped' => mine'[p] \notin open'
    BY <1>1, <2>1 DEF WorkOK
  <2> QED
    BY <2>2, <2>3, <2>4, <2>5, <2>6, <2>7 DEF WorkOK
<1>12. StoppedGone'
  BY <1>1 DEF StoppedGone
<1>13. Followed'
  <2>1. registered \subseteq Router
    BY WorkTypes
  <2>2. \A s \in registered' : Pushed(s)' => Newest(s)'.info = peer'
    BY <1>1, <1>3, <2>1 DEF Followed
  <2>3. \A s \in registered' : s \in applied' /\ s \notin overtaken' /\ ~ Pushed(s)' => table'[s] = peer'
    BY <1>1, <1>2, <1>3, <2>1 DEF Followed
  <2>4. ASSUME NEW p \in Thread, Expecting(p)', mine'[p] \in registered', mine'[p] \notin overtaken'
        PROVE  table'[mine'[p]] = Absent /\ (~ Pushed(mine[p])' => answer'[task'[p]].list = peer')
    <3>1. at'[p] = at[p] /\ at[p] \in {"registWait", "apply"} /\ mine'[p] = mine[p] /\ task'[p] = task[p]
      BY <2>4 DEF Expecting, Working
    <3>2. mine[p] \in Router /\ mine[p] # r /\ mine[p] \in registered /\ mine[p] \notin overtaken
      BY <1>1, <2>1, <2>4, <3>1
    <3>3. Expecting(p)
      BY <1>2, <2>4, <3>1, <3>2 DEF Expecting, Answered, Answering
    <3>4. Pushed(mine[p])' <=> Pushed(mine[p])
      BY <1>2, <3>1, <3>2 DEF Pushed, Newest
    <3> QED
      BY <1>1, <1>2, <3>1, <3>2, <3>3, <3>4 DEF Followed
  <2> QED
    BY <2>2, <2>3, <2>4 DEF Followed
<1> QED
  BY <1>6, <1>7, <1>8, <1>9, <1>10, <1>11, <1>12, <1>13

(* A router that is installed is new to the controller. *)
LEMMA InstallFollowed == ASSUME TypeInv, DirectoryInv, NEW p \in Thread, Install(p) PROVE DirectoryInv'
<1> USE DEF DirectoryInv, taskVars, netVars
<1>1. PICK r \in Router : /\ r \notin open /\ \A q \in Thread : mine[q] # r
                          /\ mine' = [mine EXCEPT ![p] = r]
                          /\ table' = [table EXCEPT ![r] = Absent]
  BY DEF Install, FreshRouter
<1>2. /\ at[p] = "install" /\ at' = [at EXCEPT ![p] = "connect"]
      /\ UNCHANGED <<taskVars, open, registered, applied, overtaken, peer, wire, query, answer, stopped, task>>
  BY DEF Install, GoTo
<1>3. /\ r \notin registered /\ r \notin applied /\ wire[r] = << >>
      /\ \A k \in Task : query[k].router # r
      /\ mine'[p] = r /\ at'[p] = "connect"
      /\ \A q \in Thread : q # p => mine'[q] = mine[q] /\ at'[q] = at[q]
      /\ \A s \in Router : s # r => table'[s] = table[s]
      /\ table'[r] = Absent
  BY <1>1, <1>2, WorkTypes
<1>4. OneThread'
  BY <1>1, <1>3 DEF OneThread
<1>5. QueueOK' /\ StoppedGone'
  BY <1>2 DEF QueueOK, StoppedGone
<1>6. PlaceOK'
  <2>1. \A q \in Thread : at'[q] \in Sending => q # p
    BY <1>3 DEF Sending
  <2> QED
    BY <1>2, <1>3, <2>1 DEF PlaceOK, Untouched, Asked, Answered, Answering
<1>7. OwnOK'
  <2>1. \A q \in Thread : at'[q] \in Owning => q # p
    BY <1>3 DEF Owning, Sending
  <2> QED
    BY <1>2, <1>3, <2>1 DEF OwnOK
<1>8. AskedOK'
  <2> SUFFICES ASSUME NEW k \in Task, NEW s \in Router, query[k].router = s
               PROVE  /\ \A j \in Task : query[j].router = s => j = k
                      /\ wire[s] = << >> /\ table'[s] = Absent
                      /\ s \notin registered /\ s \notin applied /\ s \notin stopped
                      /\ \A q \in Thread : at'[q] \in Owning => (mine'[q] = s <=> task[q] = k)
                      /\ \A q \in Thread : at'[q] = "configWait" /\ task[q] = k => query[k].kind = "config"
    BY <1>2 DEF AskedOK
  <2>1. \A q \in Thread : at'[q] \in Owning => q # p /\ at[q] \in Owning
    BY <1>3 DEF Owning, Sending
  <2>2. \A q \in Thread : at'[q] \in Owning => (mine'[q] = s <=> task[q] = k)
    BY <1>3, <2>1 DEF AskedOK
  <2>3. \A q \in Thread : at'[q] = "configWait" /\ task[q] = k => query[k].kind = "config"
    BY <1>3 DEF AskedOK
  <2> QED
    BY <1>3, <2>2, <2>3 DEF AskedOK
<1>9. WorkOK'
  <2>1. \A q \in Thread : at'[q] \in Working /\ q # p => mine'[q] = mine[q] /\ mine[q] \in Router /\ mine[q] # r
    BY <1>1, <1>3, WorkTypes
  <2>2. \A q \in Thread : at'[q] = "connect" => mine'[q] \notin open
    BY <1>1, <1>3, <2>1 DEF WorkOK
  <2>3. \A q \in Thread : at'[q] \in Before =>
          mine'[q] \notin registered /\ mine'[q] \notin applied /\ table'[mine'[q]] = Absent
    BY <1>3, <2>1, Stages DEF WorkOK
  <2>4. \A q \in Thread : at'[q] \in Before \ {"configWait"} => wire[mine'[q]] = << >>
    BY <1>3, <2>1 DEF WorkOK
  <2>5. \A q \in Thread, k \in Task :
          at'[q] \in (Before \ {"configWait"}) \cup {"apply"} => query[k].router # mine'[q]
    BY <1>3, <2>1 DEF WorkOK
  <2>6. \A q \in Thread, s \in Router, k \in Task :
          at'[q] \in Owning /\ Answering(s, k) => (mine'[q] = s <=> task[q] = k)
    BY <1>3, <2>1, Stages DEF WorkOK, Owning, Sending
  <2>7. \A q \in Thread : at'[q] \in Working \ {"connect", "config"} /\ mine'[q] \in stopped => mine'[q] \notin open
    BY <1>3, <2>1 DEF WorkOK
  <2> QED
    BY <1>2, <2>2, <2>3, <2>4, <2>5, <2>6, <2>7 DEF WorkOK, Answering
<1>10. Followed'
  <2>1. \A q \in Thread : Expecting(q)' => Expecting(q) /\ q # p /\ mine'[q] = mine[q] /\ mine[q] # r
    BY <1>1, <1>2, <1>3 DEF Expecting, Answered, Answering
  <2> QED
    BY <1>2, <1>3, <2>1, WorkTypes DEF Followed, Pushed, Newest
<1> QED
  BY <1>4, <1>5, <1>6, <1>7, <1>8, <1>9, <1>10

(* Its connection opens. *)
LEMMA ConnectFollowed == ASSUME TypeInv, DirectoryInv, NEW p \in Thread, Connect(p) PROVE DirectoryInv'
<1> USE DEF DirectoryInv, taskVars, routerVars
<1>1. /\ at[p] = "connect" /\ at' = [at EXCEPT ![p] = "config"] /\ open' = open \cup {mine[p]}
      /\ UNCHANGED <<taskVars, registered, applied, overtaken, peer, wire, query, answer, stopped, table, mine, task>>
  BY DEF Connect, GoTo
<1>2. /\ at'[p] = "config" /\ \A q \in Thread : q # p => at'[q] = at[q]
  BY <1>1, WorkTypes
<1>3. \A q \in Thread : q # p /\ at[q] \in Working => mine[q] # mine[p]
  BY <1>1, WorkTypes, Stages DEF OneThread
<1>4. OneThread' /\ QueueOK' /\ StoppedGone'
  BY <1>1 DEF OneThread, QueueOK, StoppedGone
<1>5. PlaceOK' /\ OwnOK' /\ AskedOK'
  <2>1. \A q \in Thread : at'[q] \in Owning => q # p
    BY <1>2 DEF Owning, Sending
  <2> QED
    BY <1>1, <1>2, <2>1, Stages DEF PlaceOK, Untouched, Asked, Answered, Answering, OwnOK, AskedOK
<1>6. WorkOK'
  <2>1. \A q \in Thread : at'[q] = "connect" => mine[q] \notin open'
    BY <1>1, <1>2, <1>3, Stages DEF WorkOK
  <2>2. \A q \in Thread : at'[q] \in Working \ {"connect", "config"} /\ mine[q] \in stopped => mine[q] \notin open'
    BY <1>1, <1>2, <1>3 DEF WorkOK
  <2>3. \A q \in Thread : at'[q] \in Before => at[q] \in Before /\ (at'[q] # "configWait" => at[q] # "configWait")
    BY <1>1, <1>2, Stages
  <2>4. \A q \in Thread : at'[q] \in Owning \cup {"apply"} => q # p /\ at'[q] = at[q]
    BY <1>2 DEF Owning, Sending
  <2> QED
    BY <1>1, <2>1, <2>2, <2>3, <2>4 DEF WorkOK, Answering
<1>7. Followed'
  <2>1. \A q \in Thread : Expecting(q)' => Expecting(q)
    BY <1>1, <1>2 DEF Expecting, Answered, Answering
  <2> QED
    BY <1>1, <2>1 DEF Followed, Pushed, Newest
<1> QED
  BY <1>4, <1>5, <1>6, <1>7

(* A request gets an id that nothing under way refers to. *)
LEMMA AskFollowed == ASSUME TypeInv, DirectoryInv, NEW p \in Thread, Ask(p) PROVE DirectoryInv'
<1> USE DEF DirectoryInv, netVars, routerVars
<1>1. PICK k \in Task : /\ future[k] = "none" /\ future' = [future EXCEPT ![k] = "waiting"]
                        /\ claim' = claim /\ task' = [task EXCEPT ![p] = k]
  BY DEF Ask, WaitPut, FreshTask
<1>2. /\ at[p] \in {"config", "regist"} /\ mine[p] \notin stopped
      /\ at'[p] = IF at[p] = "config" THEN "configSend" ELSE "registSend"
      /\ \A q \in Thread : q # p => at'[q] = at[q]
      /\ UNCHANGED <<open, registered, applied, overtaken, peer, wire, query, answer, stopped, table, mine>>
  BY WorkTypes DEF Ask, GoTo
<1>3. /\ at'[p] \in Sending /\ at[p] \in Before \ {"configWait", "connect"}
      /\ task'[p] = k /\ \A q \in Thread : q # p => task'[q] = task[q]
      /\ future'[k] = "waiting" /\ \A j \in Task : j # k => future'[j] = future[j]
  BY <1>1, <1>2, WorkTypes DEF Sending, Before
<1>4. \A j \in Task : (Answered(j)' <=> Answered(j)) /\ (Untouched(j)' <=> Untouched(j))
  BY <1>1, <1>2, <1>3 DEF Answered, Untouched, Asked, Answering
<1>5. Untouched(k)
  BY <1>1 DEF PlaceOK
<1>6. \A q \in Thread : at[q] \in Owning => q # p /\ task[q] # k
  BY <1>1, <1>2 DEF OwnOK, Owning, Sending
<1>7. \A j \in Task : query[j].router # mine[p]
  BY <1>3 DEF WorkOK
<1>8. OneThread' /\ QueueOK' /\ StoppedGone'
  BY <1>2 DEF OneThread, QueueOK, StoppedGone
<1>9. PlaceOK'
  <2>1. \A q \in Thread : at'[q] \in Sending => task'[q] \in Task /\ Untouched(task'[q])
    BY <1>2, <1>3, <1>5, WorkTypes, Stages DEF PlaceOK
  <2>2. \A q \in Thread : at'[q] \in Sending => Untouched(task[q])'
    BY <1>1, <1>2, <1>3, <2>1 DEF Untouched, Asked, Answered, Answering
  <2>3. \A j \in Task : future'[j] = "none" => future[j] = "none"
    BY <1>3
  <2> QED
    BY <1>2, <1>4, <2>2, <2>3 DEF PlaceOK, Asked, Answering
<1>10. OwnOK'
  <2>1. \A q \in Thread : q # p /\ at'[q] \in Owning => at[q] \in Owning /\ task[q] # k /\ task[q] \in Task
    BY <1>2, <1>6, WorkTypes
  <2> QED
    BY <1>2, <1>3, <2>1, Stages DEF OwnOK, Sending
<1>11. AskedOK'
  <2> SUFFICES ASSUME NEW j \in Task, NEW r \in Router, query[j].router = r
               PROVE  /\ \A q \in Thread : at'[q] \in Owning => (mine[q] = r <=> task'[q] = j)
                      /\ \A q \in Thread : at'[q] = "configWait" /\ task'[q] = j => query[j].kind = "config"
    BY <1>2 DEF AskedOK
  <2>1. j # k /\ mine[p] # r
    BY <1>5, <1>7 DEF Untouched, Asked
  <2> QED
    BY <1>2, <1>3, <2>1 DEF AskedOK, Sending
<1>12. WorkOK'
  <2>1. \A r \in Router, j \in Task : Answering(r, j) => mine[p] # r /\ j # k
    BY <1>3, <1>5 DEF WorkOK, Answering, Untouched
  <2>2. \A q \in Thread, r \in Router, j \in Task :
          at'[q] \in Owning /\ Answering(r, j) => (mine[q] = r <=> task'[q] = j)
    BY <1>2, <1>3, <2>1 DEF WorkOK
  <2>3. \A q \in Thread : at'[q] \in Before => at[q] \in Before /\ (at'[q] # "configWait" => at[q] # "configWait")
    BY <1>2, <1>3, Stages
  <2>4. \A q \in Thread : at'[q] \in Working \ {"connect", "config"} /\ mine[q] \in stopped => mine[q] \notin open
    BY <1>2, <1>3 DEF WorkOK
  <2>5. \A q \in Thread : at'[q] \in {"connect", "apply"} => at'[q] = at[q]
    BY <1>2
  <2> QED
    BY <1>2, <2>2, <2>3, <2>4, <2>5 DEF WorkOK, Answering
<1>13. Followed'
  <2>1. \A q \in Thread : Expecting(q)' => Expecting(q) /\ q # p
    BY <1>2, <1>3, <1>4, WorkTypes, Stages DEF Expecting, Answering
  <2> QED
    BY <1>2, <1>3, <2>1 DEF Followed, Pushed, Newest
<1> QED
  BY <1>8, <1>9, <1>10, <1>11, <1>12, <1>13

(* It is sent on a connection on which nothing is under way. *)
LEMMA SendFollowed == ASSUME TypeInv, DirectoryInv, NEW p \in Thread, Send(p) PROVE DirectoryInv'
<1> USE DEF DirectoryInv, routerVars
<1> DEFINE k == task[p]
           r == mine[p]
<1>1. /\ at[p] \in Sending
      /\ at'[p] = IF at[p] = "configSend" THEN "configWait" ELSE "registWait"
      /\ \A q \in Thread : q # p => at'[q] = at[q]
      /\ UNCHANGED <<future, claim, open, registered, applied, overtaken, peer, wire, answer, stopped, table, mine, task>>
  BY WorkTypes DEF Send, GoTo, WaitArm, Sending
<1>2. k \in Task /\ r \in Router /\ at[p] \in Before \ {"configWait"} /\ Untouched(k)
  BY <1>1, WorkTypes, Stages DEF PlaceOK, Sending
<1>3. /\ wire[r] = << >> /\ table[r] = Absent /\ r \notin registered /\ r \notin applied
      /\ \A j \in Task : query[j].router # r
      /\ r \in stopped => r \notin open
  BY <1>1, <1>2, Stages DEF WorkOK, Sending
<1>4. \/ query' = query
      \/ /\ r \notin stopped
         /\ query'[k].router = r /\ (at[p] = "configSend" => query'[k].kind = "config")
         /\ \A j \in Task : j # k => query'[j] = query[j]
  BY <1>2, <1>3, WorkTypes DEF Send
<1>5. \A j \in Task, s \in Router : query'[j].router = s =>
          \/ query'[j] = query[j] /\ s # r /\ j # k
          \/ j = k /\ s = r /\ r \notin stopped /\ (at[p] = "configSend" => query'[k].kind = "config")
  BY <1>2, <1>3, <1>4 DEF Untouched, Asked
<1>6. \A j \in Task, s \in Router : (Answering(s, j)' <=> Answering(s, j)) /\ (Answered(j)' <=> Answered(j))
  BY <1>1 DEF Answering, Answered
<1>7. OneThread' /\ QueueOK' /\ StoppedGone'
  BY <1>1 DEF OneThread, QueueOK, StoppedGone
<1>8. OwnOK'
  BY <1>1, Stages DEF OwnOK
<1>9. PlaceOK'
  <2>1. \A j \in Task : Asked(j)' => Asked(j) \/ j = k
    BY <1>5 DEF Asked
  <2>2. \A j \in Task : j # k => (Untouched(j) => Untouched(j)')
    BY <1>1, <2>1 DEF Untouched, Answering, Answered
  <2>3. \A q \in Thread : at'[q] \in Sending => q # p /\ task[q] # k /\ at[q] \in Sending /\ task[q] \in Task
    BY <1>1, WorkTypes, Stages DEF OwnOK, Sending
  <2>4. \A j \in Task : future[j] = "none" => j # k
    BY <1>1, Stages DEF OwnOK
  <2> QED
    BY <1>1, <1>2, <1>6, <2>1, <2>2, <2>3, <2>4 DEF PlaceOK, Untouched
<1>10. AskedOK'
  <2> SUFFICES ASSUME NEW j \in Task, NEW s \in Router, query'[j].router = s
               PROVE  /\ \A i \in Task : query'[i].router = s => i = j
                      /\ wire[s] = << >> /\ table[s] = Absent
                      /\ s \notin registered /\ s \notin applied /\ s \notin stopped
                      /\ \A q \in Thread : at'[q] \in Owning => (mine[q] = s <=> task[q] = j)
                      /\ \A q \in Thread : at'[q] = "configWait" /\ task[q] = j => query'[j].kind = "config"
    BY <1>1 DEF AskedOK
  <2>1. \A q \in Thread : at'[q] \in Owning => at[q] \in Owning
    BY <1>1, Stages
  <2>2. CASE query'[j] = query[j] /\ s # r /\ j # k
    <3>1. \A i \in Task : query'[i].router = s => i = j
      BY <1>5, <2>2 DEF AskedOK
    <3>2. \A q \in Thread : at'[q] = "configWait" /\ task[q] = j => query'[j].kind = "config"
      BY <1>1, <2>2 DEF AskedOK
    <3> QED
      BY <2>1, <2>2, <3>1, <3>2 DEF AskedOK
  <2>3. CASE j = k /\ s = r /\ r \notin stopped /\ (at[p] = "configSend" => query'[k].kind = "config")
    <3>1. \A i \in Task : query'[i].router = s => i = j
      BY <1>5, <2>3
    <3>2. \A q \in Thread : at'[q] \in Owning => (mine[q] = r <=> q = p) /\ (task[q] = k <=> q = p)
      BY <1>1, <1>2, <2>1, WorkTypes, Stages DEF OwnOK, OneThread
    <3>3. \A q \in Thread : at'[q] = "configWait" /\ task[q] = j => query'[j].kind = "config"
      BY <1>1, <2>3, <3>2, Stages DEF Sending
    <3> QED
      BY <1>3, <2>3, <3>1, <3>2, <3>3
  <2> QED
    BY <1>5, <2>2, <2>3
<1>11. WorkOK'
  <2>1. \A q \in Thread : at'[q] \in Before => at[q] \in Before
    BY <1>1, Stages
  <2>2. \A q \in Thread : at'[q] \in (Before \ {"configWait"}) \cup {"apply"} => q # p /\ at'[q] = at[q]
    BY <1>1 DEF Before
  <2>3. \A q \in Thread, j \in Task :
          at'[q] \in (Before \ {"configWait"}) \cup {"apply"} => query'[j].router # mine[q]
    <3> SUFFICES ASSUME NEW q \in Thread, NEW j \in Task, at'[q] \in (Before \ {"configWait"}) \cup {"apply"}
                 PROVE  query'[j].router # mine[q]
      OBVIOUS
    <3>1. mine[q] \in Router /\ mine[q] # r /\ query[j].router # mine[q]
      BY <1>2, <2>2, WorkTypes, Stages DEF OneThread, WorkOK
    <3> QED
      BY <1>4, <3>1
  <2>4. \A q \in Thread, s \in Router, j \in Task :
          at'[q] \in Owning /\ Answering(s, j) => (mine[q] = s <=> task[q] = j)
    BY <1>1, Stages DEF WorkOK
  <2>5. \A q \in Thread : at'[q] \in Working \ {"connect", "config"} /\ mine[q] \in stopped => mine[q] \notin open
    BY <1>1, Stages DEF WorkOK, Sending
  <2>6. \A q \in Thread : at'[q] = "connect" => at[q] = "connect"
    BY <1>1
  <2> QED
    BY <1>1, <2>1, <2>2, <2>3, <2>4, <2>5, <2>6 DEF WorkOK, Answering
<1>12. Followed'
  <2>1. \A q \in Thread : Expecting(q)' /\ mine[q] \in registered => Expecting(q)
    BY <1>1, <1>3 DEF Expecting, Answering, Answered
  <2> QED
    BY <1>1, <2>1 DEF Followed, Pushed, Newest
<1> QED
  BY <1>7, <1>8, <1>9, <1>10, <1>11, <1>12

(* The thread goes on with an answer: nothing but pushes is left for its router. *)
LEMMA ResultFollowed == ASSUME TypeInv, DirectoryInv, NEW p \in Thread, GetResult(p) PROVE DirectoryInv'
<1> USE DEF DirectoryInv, taskVars, netVars, routerVars
<1> DEFINE k == task[p]
           r == mine[p]
<1>1. /\ at[p] \in {"configWait", "registWait"} /\ future[k] = "result"
      /\ at'[p] \in {"failed", "refused"} \cup {IF at[p] = "configWait" THEN "regist" ELSE "apply"}
      /\ \A q \in Thread : q # p => at'[q] = at[q]
      /\ UNCHANGED <<future, claim, open, registered, applied, overtaken, peer, wire, query, answer, stopped, table, mine, task>>
  BY WorkTypes DEF GetResult, GoTo, Waiting
<1>2. k \in Task /\ r \in Router /\ at[p] \in Owning
  BY <1>1, WorkTypes, Stages
<1>3. Answered(k) /\ ~ Asked(k) /\ \A s \in Router : ~ Answering(s, k)
  BY <1>1, <1>2 DEF PlaceOK, Answered
<1>4. \A j \in Task : query[j].router # r
  BY <1>2, <1>3 DEF AskedOK, Asked
<1>5. \A j \in Task : ~ Answering(r, j)
  BY <1>2, <1>3 DEF WorkOK
<1>6. at[p] = "configWait" => wire[r] = << >>
  <2> SUFFICES ASSUME at[p] = "configWait", wire[r] # << >> PROVE FALSE
    OBVIOUS
  <2>1. wire[r] \in Seq(Message)
    BY <1>2, WorkTypes
  <2>2. 1 \in 1..Len(wire[r]) /\ wire[r][1] = Head(wire[r]) /\ Head(wire[r]) \in Message
    BY <2>1
  <2>3. r \notin registered
    BY <1>2, Stages DEF WorkOK
  <2>4. wire[r][1].task # NoTask
    BY <1>2, <2>2, <2>3 DEF QueueOK
  <2>5. Head(wire[r]).task \in Task
    BY <2>2, <2>4 DEF Message
  <2> QED
    BY <1>5, <2>5 DEF Answering
<1>7. OneThread' /\ QueueOK' /\ StoppedGone'
  BY <1>1 DEF OneThread, QueueOK, StoppedGone
<1>8. PlaceOK' /\ OwnOK' /\ AskedOK'
  <2>1. \A q \in Thread : at'[q] \in Sending \cup {"configWait"} => q # p
    BY <1>1 DEF Sending
  <2>2. \A q \in Thread : at'[q] \in Owning => at[q] \in Owning
    BY <1>1, Stages
  <2>3. OwnOK'
    BY <1>1, <2>2 DEF OwnOK
  <2>4. PlaceOK'
    BY <1>1, <2>1 DEF PlaceOK, Untouched, Asked, Answered, Answering
  <2>5. AskedOK'
    BY <1>1, <2>1, <2>2 DEF AskedOK
  <2> QED
    BY <2>3, <2>4, <2>5
<1>9. WorkOK'
  <2>1. \A q \in Thread : at'[q] = "connect" => q # p
    BY <1>1
  <2>2. \A q \in Thread : at'[q] \in Before => at[q] \in Before
    BY <1>1, Stages DEF Before
  <2>3. \A q \in Thread : at'[q] \in Before \ {"configWait"} => wire[mine[q]] = << >>
    BY <1>1, <1>6 DEF WorkOK, Before
  <2>4. \A q \in Thread, j \in Task :
          at'[q] \in (Before \ {"configWait"}) \cup {"apply"} => query[j].router # mine[q]
    BY <1>1, <1>4 DEF WorkOK
  <2>5. \A q \in Thread : at'[q] \in Owning => at[q] \in Owning
    BY <1>1, Stages
  <2>6. \A q \in Thread : at'[q] \in Working \ {"connect", "config"} => at[q] \in Working \ {"connect", "config"}
    BY <1>1, Stages
  <2> QED
    BY <1>1, <2>1, <2>2, <2>3, <2>4, <2>5, <2>6 DEF WorkOK, Answering
<1>10. Followed'
  <2>1. \A q \in Thread : Expecting(q)' => Expecting(q)
    BY <1>1, <1>2 DEF Expecting, Answered, Answering
  <2> QED
    BY <1>1, <2>1 DEF Followed, Pushed, Newest
<1> QED
  BY <1>7, <1>8, <1>9, <1>10

(* The list is entered: if no push has overtaken it, nothing else is in the table. *)
LEMMA ApplyFollowed == ASSUME TypeInv, DirectoryInv, NEW p \in Thread, Apply(p) PROVE DirectoryInv'
<1> USE DEF DirectoryInv, taskVars
<1> DEFINE k == task[p]
           r == mine[p]
<1>1. /\ at[p] = "apply" /\ at'[p] = "ice" /\ \A q \in Thread : q # p => at'[q] = at[q]
      /\ applied' = applied \cup ({r} \cap open)
      /\ UNCHANGED <<future, claim, open, registered, overtaken, peer, wire, query, answer, stopped, mine, task>>
  BY WorkTypes DEF Apply, GoTo
<1>2. k \in Task /\ r \in Router /\ at[p] \in Owning /\ at[p] \in Working
  BY <1>1, WorkTypes, Stages
<1>3. /\ \A s \in Router : s # r => table'[s] = table[s]
      /\ table'[r] = IF answer[k].list = Absent THEN table[r] ELSE answer[k].list
  BY <1>2, WorkTypes DEF Apply
<1>4. \A q \in Thread : at'[q] \in Working => q # p /\ mine[q] # r /\ mine[q] \in Router
  <2>1. p \in Thread /\ at'[p] \notin Working
    BY <1>1, Stages
  <2> QED
    BY <1>1, <1>2, <2>1, WorkTypes DEF OneThread
<1>5. \A j \in Task : query[j].router # r
  BY <1>1 DEF WorkOK
<1>6. OneThread' /\ QueueOK' /\ StoppedGone'
  BY <1>1 DEF OneThread, QueueOK, StoppedGone
<1>7. PlaceOK' /\ OwnOK'
  BY <1>1, <1>4, Stages DEF PlaceOK, OwnOK, Untouched, Asked, Answered, Answering
<1>8. AskedOK'
  <2> SUFFICES ASSUME NEW j \in Task, NEW s \in Router, query[j].router = s
               PROVE  /\ \A i \in Task : query[i].router = s => i = j
                      /\ wire[s] = << >> /\ table'[s] = Absent
                      /\ s \notin registered /\ s \notin applied' /\ s \notin stopped
                      /\ \A q \in Thread : at'[q] \in Owning => (mine[q] = s <=> task[q] = j)
                      /\ \A q \in Thread : at'[q] = "configWait" /\ task[q] = j => query[j].kind = "config"
    BY <1>1 DEF AskedOK
  <2>1. s # r
    BY <1>5
  <2>2. \A q \in Thread : at'[q] \in Owning => at'[q] = at[q]
    BY <1>1, <1>4, Stages
  <2> QED
    BY <1>1, <1>3, <2>1, <2>2, Stages DEF AskedOK
<1>9. WorkOK'
  <2>1. \A q \in Thread : at'[q] \in Working => at'[q] = at[q]
    BY <1>1, <1>4
  <2>2. \A q \in Thread : at'[q] \in Before =>
          mine[q] \notin registered /\ mine[q] \notin applied' /\ table'[mine[q]] = Absent
    BY <1>1, <1>3, <1>4, <2>1, Stages DEF WorkOK
  <2> QED
    BY <1>1, <2>1, <2>2, Stages DEF WorkOK, Answering
<1>10. Followed'
  <2>1. \A q \in Thread : Expecting(q)' => Expecting(q) /\ mine[q] # r /\ mine[q] \in Router
    BY <1>1, <1>4, Stages DEF Expecting, Answered, Answering
  <2>2. r \in registered /\ r \notin overtaken /\ ~ Pushed(r) => table'[r] = peer
    <3>1. future[k] = "result"
      BY <1>1 DEF OwnOK
    <3>2. Expecting(p)
      BY <1>1, <3>1 DEF Expecting, Answered
    <3> QED
      BY <1>3, <3>2 DEF Followed
  <2>3. \A s \in registered : s \in applied' /\ s \notin overtaken /\ ~ Pushed(s) => table'[s] = peer
    BY <1>1, <1>3, <2>2, WorkTypes DEF Followed
  <2> QED
    BY <1>1, <1>3, <2>1, <2>3 DEF Followed, Pushed, Newest
<1> QED
  BY <1>6, <1>7, <1>8, <1>9, <1>10

LEMMA TailOf ==
    ASSUME NEW S, NEW q \in Seq(S), q # << >>
    PROVE  /\ Tail(q) \in Seq(S) /\ Len(q) \in Nat /\ Len(q) >= 1 /\ Len(Tail(q)) = Len(q) - 1
           /\ Head(q) = q[1] /\ (Tail(q) = << >> => Len(q) = 1)
           /\ \A i \in 1..Len(Tail(q)) : Tail(q)[i] = q[i + 1]
<1>1. /\ Tail(q) \in Seq(S) /\ Len(q) \in Nat /\ Len(q) >= 1 /\ Len(Tail(q)) = Len(q) - 1
      /\ Head(q) = q[1]
      /\ \A i \in 1..Len(Tail(q)) : Tail(q)[i] = q[i + 1]
  OBVIOUS
<1>2. ASSUME Tail(q) = << >> PROVE Len(q) = 1
  <2>1. Len(Tail(q)) = Len(<< >>)
    BY <1>2, Zenon
  <2>2. Len(<< >>) = 0
    OBVIOUS
  <2>3. Len(Tail(q)) = 0
    BY <2>1, <2>2, Zenon
  <2>4. Len(q) \in Nat /\ Len(q) - 1 = 0
    BY <1>1, <2>3
  <2> QED
    BY ONLY <2>4
<1> QED
  BY <1>1, <1>2

(* After its first message has been read, a router has only pushes to read. *)
LEMMA ReadWire ==
    ASSUME TypeInv, QueueOK, NEW r \in Router, wire[r] # << >>, wire' = [wire EXCEPT ![r] = Tail(@)]
    PROVE  /\ \A k \in Task : ~ Answering(r, k)'
           /\ Pushed(r)' => Pushed(r) /\ Newest(r)' = Newest(r)
           /\ ~ Pushed(r)' => Newest(r) = Head(wire[r])
           /\ \A i \in 1..Len(wire'[r]) : wire'[r][i].task = NoTask /\ r \in registered
           /\ \A s \in Router : s # r => wire'[s] = wire[s]
<1> DEFINE q == wire[r]
<1>1. q \in Seq(Message) /\ wire'[r] = Tail(q) /\ \A s \in Router : s # r => wire'[s] = wire[s]
  BY WorkTypes
<1>2. /\ Tail(q) \in Seq(Message) /\ Len(q) \in Nat /\ Len(q) >= 1 /\ Len(Tail(q)) = Len(q) - 1
      /\ Head(q) = q[1]
      /\ \A i \in 1..Len(Tail(q)) : Tail(q)[i] = q[i + 1]
  BY <1>1, TailOf
<1>3. \A i \in 1..Len(Tail(q)) : Tail(q)[i].task = NoTask /\ r \in registered
  <2> SUFFICES ASSUME NEW i \in 1..Len(Tail(q)) PROVE q[i + 1].task = NoTask /\ r \in registered
    BY <1>2
  <2>1. i + 1 \in 1..Len(q) /\ i + 1 # 1
    BY <1>2
  <2> QED
    BY <2>1 DEF QueueOK
<1>4. CASE Tail(q) = << >>
  <2>1. ~ Pushed(r)' /\ \A k \in Task : ~ Answering(r, k)'
    BY <1>1, <1>4 DEF Pushed, Answering
  <2>2. Len(q) = 1
    BY <1>1, <1>4, TailOf
  <2>3. Newest(r) = Head(q)
    BY <1>2, <2>2 DEF Newest
  <2> QED
    BY <1>1, <1>3, <2>1, <2>3
<1>5. CASE Tail(q) # << >>
  <2>1. /\ Len(Tail(q)) \in Nat /\ Len(Tail(q)) >= 1 /\ Head(Tail(q)) = Tail(q)[1]
    BY <1>2, <1>5, TailOf
  <2>2. /\ Len(Tail(q)) \in 1..Len(Tail(q)) /\ 1 \in 1..Len(Tail(q))
    BY <2>1
  <2>3. Tail(q)[Len(Tail(q))] = q[Len(q)]
    <3>1. Tail(q)[Len(Tail(q))] = q[Len(Tail(q)) + 1]
      BY <1>2, <2>2
    <3>2. Len(Tail(q)) + 1 = Len(q)
      BY <1>2
    <3> QED
      BY <3>1, <3>2
  <2>4. Newest(r)' = Newest(r)
    BY <1>1, <2>3 DEF Newest
  <2>5. Newest(r)'.task = NoTask /\ Head(Tail(q)).task = NoTask
    BY <1>1, <1>3, <2>1, <2>2 DEF Newest
  <2>6. Pushed(r)' /\ Pushed(r)
    BY <1>1, <1>5, <2>4, <2>5 DEF Pushed
  <2>7. \A k \in Task : ~ Answering(r, k)'
    BY <1>1, <2>5, WorkTypes DEF Answering
  <2> QED
    BY <1>1, <1>3, <2>4, <2>6, <2>7
<1> QED
  BY <1>4, <1>5

(* Timers and completions do not answer what has not been answered. *)
LEMMA TaskFollowed ==
    ASSUME TypeInv, DirectoryInv, UNCHANGED <<netVars, routerVars, nodeVars, threadVars>>,
           \A k \in Task : Answered(k)' => Answered(k),
           \A k \in Task : future'[k] = "none" <=> future[k] = "none",
           \A k \in Task : future[k] = "result" => future'[k] = "result"
    PROVE  DirectoryInv'
<1> USE DEF DirectoryInv, netVars, routerVars, threadVars
<1>1. OneThread' /\ QueueOK' /\ StoppedGone' /\ AskedOK' /\ WorkOK'
  BY DEF OneThread, QueueOK, StoppedGone, AskedOK, WorkOK, Answering
<1>2. OwnOK'
  BY WorkTypes, Stages DEF OwnOK
<1>3. PlaceOK'
  <2>1. \A k \in Task : Untouched(k) => Untouched(k)'
    BY DEF Untouched, Asked, Answering
  <2>2. \A p \in Thread : at[p] \in Sending => Untouched(task[p])'
    <3> SUFFICES ASSUME NEW p \in Thread, at[p] \in Sending PROVE Untouched(task[p])'
      OBVIOUS
    <3>1. task[p] \in Task /\ Untouched(task[p])
      BY WorkTypes, Stages DEF PlaceOK
    <3>2. ~ Answered(task[p])'
      BY <3>1 DEF Untouched, Answered
    <3> QED
      BY <3>1, <3>2 DEF Untouched, Asked, Answering
  <2> QED
    BY <2>1, <2>2 DEF PlaceOK, Asked, Answering
<1>4. Followed'
  <2>1. ASSUME NEW p \in Thread, Expecting(p)' PROVE Expecting(p)
    <3>1. at[p] \in {"registWait", "apply"} /\ task[p] \in Task
      BY <2>1, WorkTypes, Stages DEF Expecting
    <3> QED
      BY <2>1, <3>1 DEF Expecting, Answering, Answered
  <2> QED
    BY <2>1 DEF Followed, Pushed, Newest
<1> QED
  BY <1>1, <1>2, <1>3, <1>4

LEMMA CompleteFollowed ==
    ASSUME TypeInv, DirectoryInv, NEW k \in Task, CompleteTask(k) \/ ExpireTask(k) PROVE DirectoryInv'
<1>1. UNCHANGED <<netVars, routerVars, nodeVars, threadVars>>
  BY DEF CompleteTask, ExpireTask
<1>2. /\ \A j \in Task : future'[j] \in {future[j], "result", "timeout"}
      /\ \A j \in Task : future'[j] # future[j] => future[j] = "waiting"
      /\ \A j \in Task : future'[j] = "result" => future[j] = "result" \/ claim[j] = "answer"
      /\ \A j \in Task : claim'[j] = "answer" => claim[j] = "answer"
  BY WorkTypes DEF CompleteTask, ExpireTask, Complete, Expire
<1>3. \A j \in Task : future[j] = "none" \/ future[j] = "result" => future'[j] = future[j]
  BY <1>2
<1> QED
  BY <1>1, <1>2, <1>3, TaskFollowed DEF Answered

(* An id is free again when nothing refers to it any more. *)
LEMMA ForgetFollowed == ASSUME TypeInv, DirectoryInv, NEW k \in Task, ForgetTask(k) PROVE DirectoryInv'
<1> USE DEF DirectoryInv, routerVars, threadVars
<1>1. /\ claim[k] = "none" /\ claim' = claim /\ query[k] = NoQuery
      /\ \A p \in Thread : task[p] # k
      /\ future'[k] = "none" /\ \A j \in Task : j # k => future'[j] = future[j] /\ answer'[j] = answer[j]
      /\ UNCHANGED <<open, registered, applied, overtaken, peer, wire, query, stopped, table, at, mine, task>>
  BY WorkTypes DEF ForgetTask, Forget
<1>2. \A r \in Router : ~ Answering(r, k)
  <2> SUFFICES ASSUME NEW r \in Router, wire[r] # << >> PROVE Head(wire[r]).task # k
    BY DEF Answering
  <2>1. wire[r] \in Seq(Message)
    BY WorkTypes
  <2>2. 1 \in 1..Len(wire[r]) /\ Head(wire[r]) = wire[r][1]
    BY <2>1
  <2> QED
    BY <2>2 DEF ForgetTask
<1>3. ~ Asked(k) /\ ~ Answered(k)'
  BY <1>1, WorkTypes DEF Asked, Answered
<1>4. \A j \in Task : j # k => (Answered(j)' <=> Answered(j))
  BY <1>1 DEF Answered
<1>5. Untouched(k)' /\ \A j \in Task : Untouched(j) => Untouched(j)'
  BY <1>1, <1>2, <1>3, <1>4 DEF Untouched, Asked, Answering
<1>6. OneThread' /\ QueueOK' /\ StoppedGone' /\ AskedOK' /\ WorkOK'
  BY <1>1 DEF OneThread, QueueOK, StoppedGone, AskedOK, WorkOK, Answering
<1>7. OwnOK'
  BY <1>1, WorkTypes, Stages DEF OwnOK
<1>8. PlaceOK'
  <2>1. \A p \in Thread : at[p] \in Sending => Untouched(task[p])'
    <3> SUFFICES ASSUME NEW p \in Thread, at[p] \in Sending PROVE Untouched(task[p])'
      OBVIOUS
    <3>1. task[p] \in Task /\ Untouched(task[p]) /\ task[p] # k
      BY <1>1, WorkTypes, Stages DEF PlaceOK
    <3> QED
      BY <1>1, <3>1 DEF Untouched, Asked, Answering, Answered
  <2> QED
    BY <1>1, <1>2, <1>3, <1>4, <1>5, <2>1 DEF PlaceOK, Asked, Answering
<1>9. Followed'
  <2>1. ASSUME NEW p \in Thread, Expecting(p)' PROVE Expecting(p) /\ answer'[task[p]] = answer[task[p]]
    <3>1. at[p] \in {"registWait", "apply"} /\ task[p] \in Task /\ task[p] # k
      BY <1>1, <2>1, WorkTypes, Stages DEF Expecting
    <3> QED
      BY <1>1, <2>1, <3>1 DEF Expecting, Answering, Answered
  <2> QED
    BY <1>1, <2>1 DEF Followed, Pushed, Newest
<1> QED
  BY <1>6, <1>7, <1>8, <1>9

(* The event loop reads an answer: only the thread that asked goes on with it. *)
LEMMA ReplyFollowed == ASSUME TypeInv, DirectoryInv, NEW r \in Router, ReadReply(r) PROVE DirectoryInv'
<1> USE DEF DirectoryInv, routerVars, threadVars
<1> DEFINE k == Head(wire[r]).task
<1>1. /\ wire[r] # << >> /\ k \in Task /\ Answering(r, k)
      /\ wire' = [wire EXCEPT ![r] = Tail(@)]
      /\ UNCHANGED <<future, open, registered, applied, overtaken, peer, query, answer, stopped, table, at, mine, task>>
  BY WireTypes DEF ReadReply, Answer, Answering, Message, TypeInv
<1>2. \A j \in Task : j # k => (Answered(j)' <=> Answered(j))
  BY <1>1, WorkTypes DEF ReadReply, Answer, Answered
<1>3. /\ \A j \in Task : ~ Answering(r, j)'
      /\ Pushed(r)' => Pushed(r) /\ Newest(r)' = Newest(r)
      /\ ~ Pushed(r)' => Newest(r) = Head(wire[r])
      /\ \A i \in 1..Len(wire'[r]) : wire'[r][i].task = NoTask /\ r \in registered
      /\ \A s \in Router : s # r => wire'[s] = wire[s]
  BY <1>1, ReadWire
<1>4. \A s \in Router : /\ Pushed(s)' <=> Pushed(s)
                        /\ Pushed(s) => Newest(s)' = Newest(s)
  BY <1>1, <1>3, WorkTypes DEF Pushed, Newest
<1>5. \A s \in Router, j \in Task : Answering(s, j)' => Answering(s, j) /\ s # r /\ j # k
  <2> SUFFICES ASSUME NEW s \in Router, NEW j \in Task, Answering(s, j)' PROVE Answering(s, j) /\ s # r /\ j # k
    OBVIOUS
  <2>1. s # r
    BY <1>3
  <2>2. Answering(s, j)
    BY <1>3, <2>1, SameWire
  <2> QED
    BY <1>1, <2>1, <2>2 DEF PlaceOK
<1>6. OneThread' /\ StoppedGone' /\ OwnOK'
  BY <1>1 DEF OneThread, StoppedGone, OwnOK
<1>7. QueueOK'
  BY <1>1, <1>3 DEF QueueOK
<1>8. PlaceOK'
  <2>1. \A j \in Task : Untouched(j) => j # k
    BY <1>1 DEF Untouched
  <2>2. \A j \in Task : Untouched(j) => Untouched(j)'
    <3> SUFFICES ASSUME NEW j \in Task, Untouched(j) PROVE Untouched(j)'
      OBVIOUS
    <3>1. \A s \in Router : ~ Answering(s, j)'
      BY <1>5 DEF Untouched
    <3>2. ~ Answered(j)' /\ ~ Asked(j)'
      BY <1>1, <1>2, <2>1 DEF Untouched, Asked
    <3> QED
      BY <3>1, <3>2 DEF Untouched
  <2>3. \A p \in Thread : at[p] \in Sending => Untouched(task[p])'
    <3> SUFFICES ASSUME NEW p \in Thread, at[p] \in Sending PROVE Untouched(task[p])'
      OBVIOUS
    <3>1. task[p] \in Task /\ Untouched(task[p])
      BY WorkTypes, Stages DEF PlaceOK
    <3>2. task[p] # k
      BY <2>1, <3>1
    <3>3. ~ Answered(task[p])'
      BY <1>1, <3>1, <3>2, WorkTypes DEF Untouched, Answered, ReadReply, Answer
    <3>4. \A s \in Router : ~ Answering(s, task[p])'
      BY <1>1, <1>3, <3>1, <3>2, WorkTypes DEF Untouched, Answering
    <3> QED
      BY <1>1, <3>1, <3>3, <3>4 DEF Untouched, Asked
  <2>4. \A j \in Task : Asked(j)' => Asked(j) /\ j # k
    BY <1>1 DEF Asked, PlaceOK
  <2> QED
    BY <1>1, <1>2, <1>5, <2>2, <2>3, <2>4 DEF PlaceOK
<1>9. AskedOK'
  <2>1. \A j \in Task : query[j].router # r
    BY <1>1 DEF AskedOK
  <2> QED
    BY <1>1, <1>3, <2>1 DEF AskedOK
<1>10. WorkOK'
  <2>1. \A p \in Thread : at[p] \in Before \ {"configWait"} => mine[p] # r /\ mine[p] \in Router
    BY <1>1, WorkTypes, Stages DEF WorkOK
  <2> QED
    BY <1>1, <1>3, <1>5, <2>1 DEF WorkOK
<1>11. Followed'
  <2>1. ASSUME NEW p \in Thread, Expecting(p)' PROVE Expecting(p) /\ mine[p] \in Router
    <3>1. at[p] \in {"registWait", "apply"} /\ task[p] \in Task /\ mine[p] \in Router /\ at[p] \in Owning
      BY <1>1, <2>1, WorkTypes, Stages DEF Expecting
    <3>2. CASE task[p] = k
      BY <1>1, <3>1, <3>2 DEF WorkOK, Expecting
    <3>3. CASE task[p] # k
      <4>1. Answered(task[p])' => Answered(task[p])
        BY <1>1, <3>1, <3>3, WorkTypes DEF Answered, ReadReply, Answer
      <4>2. Answering(mine[p], task[p])' => Answering(mine[p], task[p])
        BY <1>1, <1>3, <3>1, WorkTypes DEF Answering
      <4> QED
        BY <1>1, <2>1, <3>1, <4>1, <4>2 DEF Expecting
    <3> QED
      BY <3>1, <3>2, <3>3
  <2>2. registered \subseteq Router
    BY WorkTypes
  <2>3. \A s \in registered : Pushed(s)' => Newest(s)'.info = peer
    BY <1>4, <2>2 DEF Followed
  <2>4. \A s \in registered : s \in applied /\ s \notin overtaken /\ ~ Pushed(s)' => table[s] = peer
    BY <1>4, <2>2 DEF Followed
  <2>5. ASSUME NEW p \in Thread, Expecting(p)', mine[p] \in registered, mine[p] \notin overtaken
        PROVE  table[mine[p]] = Absent /\ (~ Pushed(mine[p])' => answer[task[p]].list = peer)
    <3>1. Pushed(mine[p]) => Pushed(mine[p])'
      BY <1>1, <1>3, <2>1, <2>5, WorkTypes DEF Pushed, Newest
    <3> QED
      BY <2>1, <2>5, <3>1 DEF Followed
  <2> QED
    BY <1>1, <2>3, <2>4, <2>5 DEF Followed
<1> QED
  BY <1>6, <1>7, <1>8, <1>9, <1>10, <1>11

(* The event loop reads a push, which overtakes a list that is not entered yet. *)
LEMMA PushFollowed == ASSUME TypeInv, DirectoryInv, NEW r \in Router, ReadPush(r) PROVE DirectoryInv'
<1> USE DEF DirectoryInv, threadVars
<1>1. /\ wire[r] # << >> /\ Head(wire[r]).task = NoTask
      /\ wire' = [wire EXCEPT ![r] = Tail(@)]
      /\ UNCHANGED <<future, claim, open, registered, applied, peer, query, answer, stopped, at, mine, task>>
  BY DEF ReadPush, taskVars
<1>2. r \in registered /\ r \notin stopped
  <2>1. wire[r] \in Seq(Message)
    BY WorkTypes
  <2>2. 1 \in 1..Len(wire[r]) /\ wire[r][1] = Head(wire[r])
    BY <1>1, <2>1
  <2> QED
    BY <1>1, <2>2 DEF QueueOK, StoppedGone
<1>3. /\ table'[r] = Head(wire[r]).info /\ \A s \in Router : s # r => table'[s] = table[s]
      /\ overtaken' = IF Replied(r) THEN overtaken \cup {r} ELSE overtaken
  BY <1>2, WorkTypes DEF ReadPush
<1>4. /\ \A j \in Task : ~ Answering(r, j)'
      /\ Pushed(r)' => Pushed(r) /\ Newest(r)' = Newest(r)
      /\ ~ Pushed(r)' => Newest(r) = Head(wire[r])
      /\ \A i \in 1..Len(wire'[r]) : wire'[r][i].task = NoTask /\ r \in registered
      /\ \A s \in Router : s # r => wire'[s] = wire[s]
  BY <1>1, ReadWire
<1>5. \A j \in Task : ~ Answering(r, j)
  BY <1>1, WorkTypes DEF Answering
<1>6. \A s \in Router, j \in Task : Answering(s, j)' <=> Answering(s, j)
  <2> SUFFICES ASSUME NEW s \in Router, NEW j \in Task PROVE Answering(s, j)' <=> Answering(s, j)
    OBVIOUS
  <2>1. CASE s = r
    BY <1>4, <1>5, <2>1
  <2>2. CASE s # r
    BY <1>4, <2>2, SameWire
  <2> QED
    BY <2>1, <2>2
<1>7. \A j \in Task : (Answered(j)' <=> Answered(j)) /\ (Untouched(j)' <=> Untouched(j))
  BY <1>1, <1>6 DEF Answered, Untouched, Asked
<1>8. OneThread' /\ StoppedGone' /\ OwnOK'
  BY <1>1 DEF OneThread, StoppedGone, OwnOK
<1>9. QueueOK'
  BY <1>1, <1>4 DEF QueueOK
<1>10. PlaceOK'
  <2>1. \A p \in Thread : at[p] \in Sending => Untouched(task[p])'
    <3> SUFFICES ASSUME NEW p \in Thread, at[p] \in Sending PROVE Untouched(task[p])'
      OBVIOUS
    <3>1. task[p] \in Task /\ Untouched(task[p])
      BY WorkTypes, Stages DEF PlaceOK
    <3>2. \A s \in Router : ~ Answering(s, task[p])'
      BY <1>1, <1>4, <3>1, WorkTypes DEF Untouched, Answering
    <3> QED
      BY <1>1, <3>1, <3>2 DEF Untouched, Asked, Answered
  <2> QED
    BY <1>1, <1>6, <1>7, <2>1 DEF PlaceOK, Asked
<1>11. AskedOK'
  <2>1. \A j \in Task : query[j].router # r
    BY <1>1 DEF AskedOK
  <2> QED
    BY <1>1, <1>3, <1>4, <2>1 DEF AskedOK
<1>12. WorkOK'
  <2>1. \A p \in Thread : at[p] \in Before => mine[p] # r /\ mine[p] \in Router
    BY <1>2, WorkTypes, Stages DEF WorkOK
  <2> QED
    BY <1>1, <1>3, <1>4, <1>6, <2>1 DEF WorkOK
<1>13. Followed'
  <2>1. registered \subseteq Router
    BY WorkTypes
  <2>2. \A s \in Router : s # r => (Pushed(s)' <=> Pushed(s)) /\ Newest(s)' = Newest(s)
    BY <1>4 DEF Pushed, Newest
  <2>3. ~ Pushed(r)' => table'[r] = peer
    BY <1>1, <1>2, <1>3, <1>4 DEF Followed, Pushed
  <2>4. \A s \in registered : Pushed(s)' => Newest(s)'.info = peer
    BY <1>4, <2>1, <2>2 DEF Followed
  <2>5. \A s \in registered : s \in applied /\ s \notin overtaken' /\ ~ Pushed(s)' => table'[s] = peer
    BY <1>3, <2>1, <2>2, <2>3 DEF Followed
  <2>6. ASSUME NEW p \in Thread, Expecting(p)', mine[p] \in registered, mine[p] \notin overtaken'
        PROVE  /\ Expecting(p) /\ mine[p] # r /\ mine[p] \notin overtaken
    <3>1. at[p] \in {"registWait", "apply"} /\ task[p] \in Task /\ mine[p] \in Router
      BY <1>1, <2>6, WorkTypes, Stages DEF Expecting
    <3>2. Answering(mine[p], task[p])' => Answering(mine[p], task[p]) /\ mine[p] # r
      BY <1>1, <1>4, <1>5, <3>1, WorkTypes DEF Answering
    <3>3. Expecting(p)
      BY <1>1, <2>6, <3>1, <3>2 DEF Expecting, Answered
    <3>4. ASSUME mine[p] = r PROVE FALSE
      <4>1. Answered(task[p])
        BY <1>5, <3>1, <3>3, <3>4 DEF Expecting
      <4>2. Replied(r)
        BY <3>1, <3>4, <4>1 DEF Replied, Answered
      <4> QED
        BY <1>3, <2>6, <3>4, <4>2
    <3> QED
      BY <1>3, <2>6, <3>3, <3>4
  <2>7. ASSUME NEW p \in Thread, Expecting(p)', mine[p] \in registered, mine[p] \notin overtaken'
        PROVE  table'[mine[p]] = Absent /\ (~ Pushed(mine[p])' => answer[task[p]].list = peer)
    <3>1. /\ Expecting(p) /\ mine[p] # r /\ mine[p] \notin overtaken /\ mine[p] \in Router
      BY <2>1, <2>6, <2>7
    <3>2. Pushed(mine[p])' <=> Pushed(mine[p])
      BY <1>1, <1>4, <3>1 DEF Pushed, Newest
    <3> QED
      BY <1>3, <2>7, <3>1, <3>2 DEF Followed
  <2> QED
    BY <1>1, <2>4, <2>5, <2>7 DEF Followed
<1> QED
  BY <1>8, <1>9, <1>10, <1>11, <1>12, <1>13

(* The controller answers: what it says is the first that the router hears of it. *)
LEMMA ServedFollowed == ASSUME TypeInv, DirectoryInv, NEW k \in Task, Serve(k) \/ Refuse(k) PROVE DirectoryInv'
<1> USE DEF DirectoryInv, routerVars, threadVars
<1>0. PICK r \in Router : query[k].router = r
  BY WorkTypes DEF Serve, Refuse, Served
<1>1. /\ r \in Router /\ query'[k] = NoQuery /\ \A j \in Task : j # k => query'[j] = query[j]
      /\ \A j \in Task : j # k => answer'[j] = answer[j]
      /\ wire' = [wire EXCEPT ![r] = Append(@, Reply(k))]
      /\ UNCHANGED <<future, claim, open, applied, overtaken, peer, stopped, table, at, mine, task>>
  BY <1>0, WorkTypes DEF Serve, Refuse, Served, taskVars
<1>2. \/ registered' = registered
      \/ /\ registered' = registered \cup {r} /\ query[k].kind = "regist"
         /\ answer'[k].list = peer
  BY <1>0, WorkTypes DEF Serve, Refuse, Served
<1>3. /\ \A j \in Task : query[j].router = r => j = k
      /\ wire[r] = << >> /\ table[r] = Absent
      /\ r \notin registered /\ r \notin applied /\ r \notin stopped
      /\ \A p \in Thread : at[p] \in Owning => (mine[p] = r <=> task[p] = k)
      /\ \A p \in Thread : at[p] = "configWait" /\ task[p] = k => query[k].kind = "config"
  BY <1>0, <1>1 DEF AskedOK
<1>4. /\ wire'[r] = << Reply(k) >> /\ \A s \in Router : s # r => wire'[s] = wire[s]
  BY <1>1, <1>3, WorkTypes
<1>5. Reply(k).task = k /\ Asked(k) /\ ~ Answered(k) /\ \A s \in Router : ~ Answering(s, k)
  BY <1>0, <1>1 DEF Reply, PlaceOK, Asked
<1>6. /\ \A j \in Task : Answering(r, j)' <=> j = k
      /\ ~ Pushed(r)'
  BY <1>4, <1>5, WorkTypes DEF Answering, Pushed, Newest
<1>7. \A s \in Router, j \in Task : Answering(s, j)' <=> Answering(s, j) \/ (s = r /\ j = k)
  <2> SUFFICES ASSUME NEW s \in Router, NEW j \in Task
               PROVE  Answering(s, j)' <=> Answering(s, j) \/ (s = r /\ j = k)
    OBVIOUS
  <2>1. CASE s = r
    <3>1. ~ Answering(s, j)
      BY <1>3, <2>1 DEF Answering
    <3>2. Answering(s, j)' <=> j = k
      BY <1>4, <1>5, <2>1 DEF Answering
    <3> QED
      BY <2>1, <3>1, <3>2
  <2>2. CASE s # r
    BY <1>4, <2>2, SameWire
  <2> QED
    BY <2>1, <2>2
<1>8. /\ \A j \in Task, s \in Router : query'[j].router = s => j # k /\ s # r /\ query'[j] = query[j]
      /\ \A j \in Task : Asked(j)' <=> Asked(j) /\ j # k
  BY <1>0, <1>1, <1>3, WorkTypes DEF Asked, NoQuery
<1>9. OneThread' /\ OwnOK'
  BY <1>1 DEF OneThread, OwnOK
<1>10. StoppedGone'
  BY <1>1, <1>2, <1>3 DEF StoppedGone
<1>11. QueueOK'
  <2>1. Len(wire'[r]) = 1 /\ wire'[r][1].task = k /\ k # NoTask
    BY <1>4, <1>5, WorkTypes
  <2> QED
    BY <1>2, <1>4, <2>1 DEF QueueOK
<1>12. PlaceOK'
  <2>1. \A j \in Task : Untouched(j) => j # k
    BY <1>5 DEF Untouched
  <2>2. \A j \in Task : Answered(j)' <=> Answered(j)
    BY <1>1 DEF Answered
  <2>3. \A j \in Task : Untouched(j) => Untouched(j)'
    <3> SUFFICES ASSUME NEW j \in Task, Untouched(j) PROVE Untouched(j)'
      OBVIOUS
    <3>1. j # k
      BY <2>1
    <3>2. \A s \in Router : ~ Answering(s, j)'
      BY <1>7, <3>1 DEF Untouched
    <3> QED
      BY <1>8, <2>2, <3>1, <3>2 DEF Untouched
  <2>4. \A p \in Thread : at[p] \in Sending => Untouched(task[p])'
    <3> SUFFICES ASSUME NEW p \in Thread, at[p] \in Sending PROVE Untouched(task[p])'
      OBVIOUS
    <3>1. task[p] \in Task /\ Untouched(task[p])
      BY WorkTypes, Stages DEF PlaceOK
    <3>2. task[p] # k
      BY <2>1, <3>1
    <3>3. \A s \in Router : ~ Answering(s, task[p])'
      BY <1>1, <1>4, <1>5, <3>1, <3>2, WorkTypes DEF Untouched, Answering
    <3> QED
      BY <1>1, <3>1, <3>2, <3>3 DEF Untouched, Asked, Answered
  <2> QED
    BY <1>1, <1>5, <1>7, <1>8, <2>2, <2>3, <2>4 DEF PlaceOK
<1>13. AskedOK'
  <2> SUFFICES ASSUME NEW j \in Task, NEW s \in Router, query'[j].router = s
               PROVE  /\ \A i \in Task : query'[i].router = s => i = j
                      /\ wire'[s] = << >> /\ table[s] = Absent
                      /\ s \notin registered' /\ s \notin applied /\ s \notin stopped
                      /\ \A p \in Thread : at[p] \in Owning => (mine[p] = s <=> task[p] = j)
                      /\ \A p \in Thread : at[p] = "configWait" /\ task[p] = j => query'[j].kind = "config"
    BY <1>1 DEF AskedOK
  <2>1. j # k /\ s # r /\ query'[j] = query[j] /\ query[j].router = s
    BY <1>8
  <2>2. \A i \in Task : query'[i].router = s => i = j
    BY <1>8, <2>1 DEF AskedOK
  <2>3. wire'[s] = << >> /\ s \notin registered'
    BY <1>2, <1>4, <2>1 DEF AskedOK
  <2> QED
    BY <2>1, <2>2, <2>3 DEF AskedOK
<1>14. WorkOK'
  <2>1. \A p \in Thread : at[p] \in (Before \ {"configWait"}) \cup {"apply"} => mine[p] # r /\ mine[p] \in Router
    BY <1>0, WorkTypes, Stages DEF WorkOK
  <2>2. \A p \in Thread : at[p] \in Before => mine[p] \notin registered'
    <3> SUFFICES ASSUME NEW p \in Thread, at[p] \in Before, mine[p] = r, registered' # registered PROVE FALSE
      BY <1>2 DEF WorkOK
    <3>1. at[p] = "configWait" /\ task[p] = k
      BY <1>3, <2>1, Stages
    <3> QED
      BY <1>2, <1>3, <3>1
  <2>3. \A p \in Thread, j \in Task :
          at[p] \in (Before \ {"configWait"}) \cup {"apply"} => query'[j].router # mine[p]
    BY <1>8, <2>1 DEF WorkOK
  <2>4. \A p \in Thread, s \in Router, j \in Task :
          at[p] \in Owning /\ Answering(s, j)' => (mine[p] = s <=> task[p] = j)
    BY <1>3, <1>7 DEF WorkOK
  <2> QED
    BY <1>1, <1>4, <2>1, <2>2, <2>3, <2>4 DEF WorkOK
<1>15. Followed'
  <2>1. registered \subseteq Router
    BY WorkTypes
  <2>2. \A s \in Router : s # r => (Pushed(s)' <=> Pushed(s)) /\ Newest(s)' = Newest(s)
    BY <1>4 DEF Pushed, Newest
  <2>3. \A s \in registered' : Pushed(s)' => Newest(s)'.info = peer
    BY <1>2, <1>6, <2>1, <2>2 DEF Followed
  <2>4. \A s \in registered' : s \in applied /\ s \notin overtaken /\ ~ Pushed(s)' => table[s] = peer
    BY <1>2, <1>3, <2>1, <2>2 DEF Followed
  <2>5. ASSUME NEW p \in Thread, Expecting(p)', mine[p] \in registered', mine[p] \notin overtaken
        PROVE  table[mine[p]] = Absent /\ (~ Pushed(mine[p])' => answer'[task[p]].list = peer)
    <3>1. at[p] \in {"registWait", "apply"} /\ at[p] \in Owning /\ task[p] \in Task /\ mine[p] \in Router
      BY <1>1, <2>5, WorkTypes, Stages DEF Expecting
    <3>2. CASE mine[p] = r
      BY <1>2, <1>3, <2>5, <3>1, <3>2
    <3>3. CASE mine[p] # r
      <4>1. task[p] # k /\ mine[p] \in registered
        BY <1>2, <1>3, <2>5, <3>1, <3>3
      <4>2. Answering(mine[p], task[p])' => Answering(mine[p], task[p])
        BY <1>1, <1>4, <3>1, <3>3 DEF Answering
      <4>3. Expecting(p)
        BY <1>1, <2>5, <3>1, <4>2 DEF Expecting, Answered
      <4>4. Pushed(mine[p])' <=> Pushed(mine[p])
        BY <1>1, <1>4, <3>1, <3>3 DEF Pushed, Newest
      <4> QED
        BY <1>1, <2>5, <3>1, <4>1, <4>3, <4>4 DEF Followed
    <3> QED
      BY <3>2, <3>3
  <2> QED
    BY <1>1, <2>3, <2>4, <2>5 DEF Followed
<1> QED
  BY <1>9, <1>10, <1>11, <1>12, <1>13, <1>14, <1>15

LEMMA AppendOf ==
    ASSUME NEW S, NEW q \in Seq(S), NEW m \in S
    PROVE  /\ Append(q, m) # << >> /\ Len(Append(q, m)) = Len(q) + 1 /\ Len(q) \in Nat
           /\ Append(q, m)[Len(q) + 1] = m
           /\ \A i \in 1..Len(q) : Append(q, m)[i] = q[i]
           /\ q # << >> => Head(Append(q, m)) = Head(q)
           /\ q = << >> => Head(Append(q, m)) = m
<1>1. /\ Len(Append(q, m)) = Len(q) + 1 /\ Len(q) \in Nat
      /\ Append(q, m)[Len(q) + 1] = m
      /\ \A i \in 1..Len(q) : Append(q, m)[i] = q[i]
      /\ Append(q, m) \in Seq(S)
  OBVIOUS
<1>2. Append(q, m) # << >>
  OBVIOUS
<1>3. q # << >> => Head(Append(q, m)) = Head(q)
  OBVIOUS
<1>4. q = << >> => Head(Append(q, m)) = m
  OBVIOUS
<1> QED
  BY <1>1, <1>2, <1>3, <1>4

(* What changes is said to all who are in the directory. *)
LEMMA PeerFollowed == ASSUME TypeInv, DirectoryInv, NEW x \in Info \cup {Absent}, PeerChange(x) PROVE DirectoryInv'
<1> USE DEF DirectoryInv, routerVars, threadVars
<1>1. /\ peer' = x
      /\ \A r \in Router : wire'[r] = IF r \in registered THEN Append(wire[r], Push(x)) ELSE wire[r]
      /\ UNCHANGED <<future, claim, open, registered, applied, overtaken, query, answer, stopped, table, at, mine, task>>
  BY DEF PeerChange, taskVars
<1>2. Push(x).task = NoTask /\ Push(x).info = x /\ Push(x) \in Message /\ NoTask \notin Task
  BY WorkTypes DEF Push, Message
<1>3. ASSUME NEW r \in registered
      PROVE  /\ r \in Router /\ wire'[r] # << >> /\ Newest(r)' = Push(x)
             /\ \A k \in Task : Answering(r, k)' <=> Answering(r, k)
             /\ \A i \in 1..Len(wire'[r]) : wire'[r][i].task = NoTask \/ (i \in 1..Len(wire[r]) /\ wire'[r][i] = wire[r][i])
  <2>1. r \in Router /\ wire[r] \in Seq(Message) /\ wire'[r] = Append(wire[r], Push(x))
    BY <1>1, <1>3, WorkTypes
  <2>2. /\ Append(wire[r], Push(x)) # << >> /\ Len(Append(wire[r], Push(x))) = Len(wire[r]) + 1 /\ Len(wire[r]) \in Nat
        /\ Append(wire[r], Push(x))[Len(wire[r]) + 1] = Push(x)
        /\ \A i \in 1..Len(wire[r]) : Append(wire[r], Push(x))[i] = wire[r][i]
        /\ wire[r] # << >> => Head(Append(wire[r], Push(x))) = Head(wire[r])
        /\ wire[r] = << >> => Head(Append(wire[r], Push(x))) = Push(x)
    BY <1>2, <2>1, AppendOf
  <2>3. Newest(r)' = Push(x)
    BY <2>1, <2>2 DEF Newest
  <2>4. ASSUME NEW k \in Task PROVE Answering(r, k)' <=> Answering(r, k)
    BY <1>2, <2>1, <2>2 DEF Answering
  <2>5. ASSUME NEW i \in 1..Len(wire'[r])
        PROVE  wire'[r][i].task = NoTask \/ (i \in 1..Len(wire[r]) /\ wire'[r][i] = wire[r][i])
    <3>1. i \in 1..Len(wire[r]) \/ i = Len(wire[r]) + 1
      BY <2>1, <2>2
    <3> QED
      BY <1>2, <2>1, <2>2, <3>1
  <2> QED
    BY <2>1, <2>2, <2>3, <2>4, <2>5
<1>4. \A s \in Router, k \in Task : Answering(s, k)' <=> Answering(s, k)
  <2> SUFFICES ASSUME NEW s \in Router, NEW k \in Task PROVE Answering(s, k)' <=> Answering(s, k)
    OBVIOUS
  <2> QED
    BY <1>1, <1>3, SameWire
<1>5. \A p \in Thread, k \in Task : mine[p] \in Router => (Answering(mine[p], k)' <=> Answering(mine[p], k))
  <2> SUFFICES ASSUME NEW p \in Thread, NEW s \in Router, NEW k \in Task, mine[p] = s
               PROVE  Answering(mine[p], k)' <=> Answering(mine[p], k)
    OBVIOUS
  <2>1. Answering(s, k)' <=> Answering(s, k)
    BY <1>4
  <2> QED
    BY <1>1, <2>1 DEF Answering
<1>6. OneThread' /\ StoppedGone' /\ OwnOK'
  BY <1>1 DEF OneThread, StoppedGone, OwnOK
<1>7. QueueOK'
  BY <1>1, <1>3 DEF QueueOK
<1>8. PlaceOK'
  <2>1. \A k \in Task : Untouched(k) => Untouched(k)'
    BY <1>1, <1>4 DEF Untouched, Asked, Answered
  <2>2. \A p \in Thread : at[p] \in Sending => Untouched(task[p])'
    <3> SUFFICES ASSUME NEW p \in Thread, NEW k \in Task, task[p] = k, at[p] \in Sending PROVE Untouched(task[p])'
      BY WorkTypes, Stages
    <3>1. Untouched(k)'
      BY <2>1 DEF PlaceOK
    <3> QED
      BY <1>1, <3>1 DEF Untouched, Asked, Answered, Answering
  <2> QED
    BY <1>1, <1>4, <2>1, <2>2 DEF PlaceOK, Asked, Answered
<1>9. AskedOK'
  BY <1>1 DEF AskedOK
<1>10. WorkOK'
  <2>1. \A p \in Thread : at[p] \in Before => mine[p] \in Router /\ mine[p] \notin registered
    BY WorkTypes, Stages DEF WorkOK
  <2> QED
    BY <1>1, <1>4, <2>1 DEF WorkOK
<1>11. Followed'
  <2>1. \A s \in registered : Pushed(s)' /\ Newest(s)'.info = peer'
    BY <1>1, <1>2, <1>3 DEF Pushed
  <2>2. ASSUME NEW p \in Thread, Expecting(p)', mine[p] \in registered, mine[p] \notin overtaken
        PROVE  table[mine[p]] = Absent /\ Pushed(mine[p])'
    <3>1. at[p] \in {"registWait", "apply"} /\ task[p] \in Task /\ mine[p] \in Router
      BY <1>1, <2>2, WorkTypes, Stages DEF Expecting
    <3>2. Answering(mine[p], task[p])' => Answering(mine[p], task[p])
      <4>1. PICK k \in Task : task[p] = k
        BY <3>1
      <4>2. Answering(mine[p], k)' => Answering(mine[p], k)
        BY <1>5, <3>1
      <4> QED
        BY <1>1, <4>1, <4>2 DEF Answering
    <3>3. Expecting(p)
      BY <1>1, <2>2, <3>1, <3>2 DEF Expecting, Answered
    <3>4. Pushed(mine[p])'
      <4>1. PICK s \in registered : mine[p] = s
        BY <2>2
      <4>2. Pushed(s)'
        BY <2>1
      <4> QED
        BY <1>1, <4>1, <4>2 DEF Pushed, Newest
    <3> QED
      BY <2>2, <3>3, <3>4 DEF Followed
  <2> QED
    BY <1>1, <2>1, <2>2 DEF Followed
<1> QED
  BY <1>6, <1>7, <1>8, <1>9, <1>10, <1>11

(* The steps of threads that say nothing and use no answer. *)
LEMMA IdleFollowed ==
    ASSUME TypeInv, DirectoryInv,
           \/ CallStart \/ CallStop \/ Started \/ StartFailed
           \/ \E p \in Thread : \/ StopEnter(p) \/ StopInterrupt(p) \/ Unset(p)
                                \/ Uninstall(p) /\ virtualRouter = NoRouter
                                \/ ConnectFail(p) \/ GetTimeout(p) \/ GetInterrupted(p)
                                \/ IceStart(p) \/ IceFail(p) \/ StoppedMeanwhile(p)
           \/ \E l \in Loop : LoopStep(l)
           \/ UNCHANGED vars
    PROVE  DirectoryInv'
<1> USE WorkTypes DEF GoTo, Working, Before, netVars, routerVars
<1> DEFINE Away(q) == /\ at'[q] \in Working => at'[q] = at[q] /\ task'[q] = task[q]
                      /\ mine'[q] \in {mine[q], NoRouter}
                      /\ at'[q] \in Working => mine'[q] = mine[q]
           Silent == UNCHANGED <<taskVars, open, registered, applied, overtaken, peer, wire, query, answer, table>>
<1>1. CASE CallStart \/ CallStop
  <2>1. Silent /\ stopped' \subseteq stopped /\ \A q \in Thread : Away(q)
    BY <1>1 DEF CallStart, CallStop
  <2> QED
    BY <2>1, QuietFollowed
<1>2. CASE Started \/ StartFailed
  <2>1. Silent /\ stopped' \subseteq stopped /\ \A q \in Thread : Away(q)
    BY <1>2 DEF Started, StartFailed, Release
  <2> QED
    BY <2>1, QuietFollowed
<1>3. ASSUME NEW p \in Thread, StopEnter(p) \/ StopInterrupt(p) PROVE DirectoryInv'
  <2>1. Silent /\ stopped' \subseteq stopped /\ \A q \in Thread : Away(q)
    BY <1>3 DEF StopEnter, StopInterrupt, Back
  <2> QED
    BY <2>1, QuietFollowed
<1>4. ASSUME NEW p \in Thread, Unset(p) \/ (Uninstall(p) /\ virtualRouter = NoRouter) PROVE DirectoryInv'
  <2>1. Silent /\ stopped' \subseteq stopped /\ \A q \in Thread : Away(q)
    BY <1>4 DEF Unset, Uninstall, Uninstalled, Back
  <2> QED
    BY <2>1, QuietFollowed
<1>5. ASSUME NEW p \in Thread, \/ ConnectFail(p) \/ GetTimeout(p) \/ GetInterrupted(p)
                               \/ IceStart(p) \/ IceFail(p) \/ StoppedMeanwhile(p)
      PROVE  DirectoryInv'
  <2>1. Silent /\ stopped' \subseteq stopped /\ \A q \in Thread : Away(q)
    BY <1>5 DEF ConnectFail, GetTimeout, GetInterrupted, IceStart, IceFail, StoppedMeanwhile
  <2> QED
    BY <2>1, QuietFollowed
<1>6. ASSUME NEW l \in Loop, LoopStep(l) PROVE DirectoryInv'
  <2>1. /\ at' = [at EXCEPT ![l] = at'[l]] /\ UNCHANGED <<netVars, taskVars>>
        /\ at'[l] \in {"off", "await", "check", "sleep", "head", "uninstall", "stop"}
        /\ UNCHANGED <<mine, task, stopped>> \/ Release(l)
    BY <1>6, LoopMoves
  <2>2. table' = table
    BY <1>6 DEF LoopStep, LoopHead, Await, Check, ReinstallOver, Sleep
  <2>3. Silent /\ stopped' \subseteq stopped /\ \A q \in Thread : Away(q)
    BY <2>1, <2>2 DEF Release
  <2> QED
    BY <2>3, QuietFollowed
<1>7. CASE UNCHANGED vars
  <2>1. Silent /\ stopped' \subseteq stopped /\ \A q \in Thread : Away(q)
    BY <1>7 DEF vars, threadVars
  <2> QED
    BY <2>1, QuietFollowed
<1> QED
  BY <1>1, <1>2, <1>3, <1>4, <1>5, <1>6, <1>7

LEMMA DirectoryStep == TypeInv /\ DirectoryInv /\ [Next]_vars => DirectoryInv'
<1> SUFFICES ASSUME TypeInv, DirectoryInv, [Next]_vars PROVE DirectoryInv'
  OBVIOUS
<1>1. ASSUME NEW p \in Thread, InstallStep(p) PROVE DirectoryInv'
  BY <1>1, InstallFollowed, ConnectFollowed, AskFollowed, SendFollowed, ResultFollowed, ApplyFollowed,
     IdleFollowed DEF InstallStep
<1>2. ASSUME NEW p \in Thread, StopStep(p) PROVE DirectoryInv'
  <2>1. CASE Uninstall(p) /\ virtualRouter # NoRouter
    <3>1. /\ virtualRouter \in Router /\ Disconnect(virtualRouter)
          /\ stopped' = stopped \cup {virtualRouter} /\ table' = [table EXCEPT ![virtualRouter] = Absent]
          /\ at' = [at EXCEPT ![p] = "unset"] /\ UNCHANGED <<taskVars, mine, task>>
      BY <2>1, Threads DEF Uninstall, GoTo
    <3>2. \A q \in Thread : at'[q] \in Working => at'[q] = at[q]
      BY <3>1, WorkTypes DEF Working, Before
    <3> QED
      BY <3>1, <3>2, GoneFollowed
  <2> QED
    BY <1>2, <2>1, IdleFollowed DEF StopStep
<1>3. ASSUME NEW r \in Router, Lose(r) PROVE DirectoryInv'
  <2>1. Disconnect(r) /\ UNCHANGED <<taskVars, mine, task, stopped, table, at>>
    BY <1>3 DEF Lose, routerVars, threadVars
  <2> QED
    BY <2>1, GoneFollowed
<1>4. CASE NetStep
  BY <1>3, <1>4, ReplyFollowed, PushFollowed, CompleteFollowed, ForgetFollowed, ServedFollowed, PeerFollowed
     DEF NetStep, EventLoopStep, TaskStep
<1>5. CASE CallStart \/ CallStop \/ UNCHANGED vars
  BY <1>5, IdleFollowed
<1>6. ASSUME NEW p \in Thread, \/ p = Caller /\ (Started \/ StartFailed)
                               \/ p \in Loop /\ LoopStep(p)
      PROVE  DirectoryInv'
  BY <1>6, IdleFollowed
<1> QED
  BY <1>1, <1>2, <1>4, <1>5, <1>6 DEF Next, ThreadStep, NetStep

LEMMA DirectoryInit == Init => DirectoryInv
<1> SUFFICES ASSUME Init PROVE DirectoryInv
  OBVIOUS
<1>1. /\ \A p \in Thread : at[p] = "off" /\ mine[p] = NoRouter
      /\ \A r \in Router : wire[r] = << >>
      /\ \A k \in Task : query[k].router \notin Router /\ future[k] = "none" /\ claim[k] = "none"
      /\ registered = {} /\ stopped = {}
  BY DEF Init, TaskInit, NoQuery, NoRouter, Router
<1>2. OneThread /\ QueueOK /\ StoppedGone
  BY <1>1 DEF OneThread, QueueOK, StoppedGone
<1>3. PlaceOK
  BY <1>1 DEF PlaceOK, Untouched, Asked, Answered, Answering, Sending
<1>4. OwnOK /\ AskedOK /\ WorkOK /\ Followed
  BY <1>1 DEF OwnOK, AskedOK, WorkOK, Followed, Expecting, Owning, Sending, Before, Working
<1> QED
  BY <1>2, <1>3, <1>4 DEF DirectoryInv

(* Whatever is pushed while a router registers, in whatever order it reads the answer  *)
(* and the pushes: once it has read all of it, its table is what the directory says,      *)
(* unless it entered the list after a push that was newer.  Starts need not be patient      *)
(* nor threads prompt.                                                                         *)
THEOREM TableFollows == Spec => []DirectoryCurrent
<1>1. BaseInv /\ DirectoryInv /\ [Next]_vars => DirectoryInv'
  BY DirectoryStep DEF BaseInv
<1>2. DirectoryInv => DirectoryCurrent
  BY DEF DirectoryInv, Followed, DirectoryCurrent, Pushed
<1> QED
  BY <1>1, <1>2, DirectoryInit, BaseInvariant, PTL DEF Spec
=============================================================================
