----------------------------- MODULE SdWanNode -----------------------------
(***************************************************************************)
(* The life of a node: BaseSdWanNode starts, stops and reinstalls its           *)
(* VirtualRouter, whose start connects to the controller (SdWanClient), asks     *)
(* for the configuration, registers and takes over the list of peers; peers that *)
(* come, change and go meanwhile are pushed over the same connection.             *)
(*                                                                         *)
(* Threads: the caller of start and stop, the loop thread that reinstalls, and   *)
(* for every router the event loop of its connection.  The controller, and        *)
(* everything that may fail on the way to it, is the environment.                  *)
(***************************************************************************)
EXTENDS AsyncTask, Sequences

CONSTANTS
    NRouter,   \* VirtualRouter objects that exist at a time
    Caller,    \* the thread that calls start and stop
    Loop,      \* loop threads
    Nobody,
    NoTask,
    Info,      \* what the controller may say of the peer
    Absent,
    First,     \* what it says at first
    MaxCall,   \* bound: calls of start and changes of the peer, together
    Patient,   \* start is called only when the last loop thread has ended
    Prompt     \* an interrupted thread leaves its wait before an answer is read

Router == 1..NRouter
NoRouter == 0
Thread == {Caller} \cup Loop

ASSUME NodeAssumption ==
    /\ NRouter \in Nat /\ MaxCall \in Nat /\ First \in Info \cup {Absent}
    /\ Caller \notin Loop /\ Nobody \notin Thread /\ NoTask \notin Task /\ Absent \notin Info
    /\ Patient \in BOOLEAN /\ Prompt \in BOOLEAN

VARIABLES
    virtualRouter, \* the field of BaseSdWanNode
    stopped,       \* routers whose stop has run: their fields are null
    open,          \* routers whose connection is open
    table,         \* nodeInfoMap of a router, at the peer's vip
    applied,       \* routers that took over the list of their registration
    overtaken,     \* of them, those that had read a newer push before
    registered,    \* routers the controller has in its directory
    peer,          \* what the controller's directory says of the peer
    wire,          \* messages on their way to a router
    query,         \* requests on their way to the controller
    answer,        \* what the controller answered
    pushes,
    status, loopStatus,
    loopThread,
    monitor,       \* who is in start or stop (synchronized)
    starts,
    abandoned,     \* routers of starts that failed, which no stop will reach
    at, mine, task,  \* a thread's position, the router and request it is at work on
    up,            \* local variable of run()
    flag           \* interrupted threads

netVars == <<open, registered, applied, overtaken, abandoned, peer, wire, query, answer, pushes>>
routerVars == <<stopped, table>>
nodeVars == <<virtualRouter, status, loopStatus, loopThread, monitor, starts>>
threadVars == <<at, mine, task, up, flag>>
vars == <<taskVars, netVars, routerVars, nodeVars, threadVars>>

NoQuery == [router |-> NoRouter, kind |-> "config"]
NoAnswer == [code |-> "ok", list |-> Absent]
Reply(k) == [task |-> k, info |-> Absent]
Push(x) == [task |-> NoTask, info |-> x]

Installing == {"install", "connect", "config", "configSend", "configWait",
               "regist", "registSend", "registWait", "apply", "ice", "installed"}
Stopping == {"stop", "interrupt"}
Uninstalling == {"uninstall", "unset"}

NetTypeOK ==
    /\ open \subseteq Router /\ registered \subseteq open
    /\ applied \subseteq open /\ overtaken \subseteq open /\ abandoned \subseteq open
    /\ peer \in Info \cup {Absent}
    /\ wire \in [Router -> Seq([task : Task \cup {NoTask}, info : Info \cup {Absent}])]
    /\ query \in [Task -> [router : Router \cup {NoRouter}, kind : {"config", "regist"}]]
    /\ answer \in [Task -> [code : {"ok", "refused"}, list : Info \cup {Absent}]]

RouterTypeOK ==
    /\ stopped \subseteq Router
    /\ table \in [Router -> Info \cup {Absent}]

NodeTypeOK ==
    /\ virtualRouter \in Router \cup {NoRouter}
    /\ status \in BOOLEAN /\ loopStatus \in BOOLEAN
    /\ loopThread \in Loop \cup {Nobody} /\ monitor \in Thread \cup {Nobody}
    /\ pushes \in Nat /\ starts \in Nat /\ pushes + starts <= MaxCall

ThreadTypeOK ==
    /\ at \in [Thread -> Installing \cup Stopping \cup Uninstalling
                         \cup {"off", "failed", "refused", "head", "await", "check", "sleep"}]
    /\ mine \in [Thread -> Router \cup {NoRouter}]
    /\ task \in [Thread -> Task \cup {NoTask}]
    /\ up \in [Loop -> BOOLEAN]
    /\ flag \subseteq Loop

TypeOK == TaskTypeOK /\ NetTypeOK /\ RouterTypeOK /\ NodeTypeOK /\ ThreadTypeOK

Init ==
    /\ TaskInit
    /\ virtualRouter = NoRouter
    /\ stopped = {} /\ open = {} /\ registered = {} /\ applied = {} /\ overtaken = {} /\ abandoned = {}
    /\ peer = First
    /\ table = [r \in Router |-> Absent]
    /\ wire = [r \in Router |-> << >>]
    /\ query = [k \in Task |-> NoQuery]
    /\ answer = [k \in Task |-> NoAnswer]
    /\ pushes = 0 /\ starts = 0
    /\ status = FALSE /\ loopStatus = FALSE
    /\ loopThread = Nobody /\ monitor = Nobody
    /\ at = [p \in Thread |-> "off"]
    /\ mine = [p \in Thread |-> NoRouter]
    /\ task = [p \in Thread |-> NoTask]
    /\ up = [l \in Loop |-> TRUE]
    /\ flag = {}

GoTo(p, stage) == at' = [at EXCEPT ![p] = stage]

(* isRunning of the router the field refers to. *)
Running == virtualRouter \in open \ stopped

(* Mutant: the directory keeps the router. *)
DisconnectKept(r) ==
    /\ open' = open \ {r}
    /\ registered' = registered
    /\ wire' = [wire EXCEPT ![r] = << >>]
    /\ applied' = applied \ {r} /\ overtaken' = overtaken \ {r} /\ abandoned' = abandoned \ {r}
    /\ query' = [k \in Task |-> IF query[k].router = r THEN NoQuery ELSE query[k]]
    /\ UNCHANGED <<peer, answer, pushes>>

(* The connection of r is gone, on both sides and with all that was under way. *)
Disconnect(r) ==
    /\ open' = open \ {r}
    /\ registered' = registered \ {r}
    /\ wire' = [wire EXCEPT ![r] = << >>]
    /\ applied' = applied \ {r} /\ overtaken' = overtaken \ {r} /\ abandoned' = abandoned \ {r}
    /\ query' = [k \in Task |-> IF query[k].router = r THEN NoQuery ELSE query[k]]
    /\ UNCHANGED <<peer, answer, pushes>>
-----------------------------------------------------------------------------
(* install() and VirtualRouter.start, on the caller's or a loop thread *)

FreshRouter ==
    {r \in Router : /\ r \notin open /\ r # virtualRouter
                    /\ \A p \in Thread : mine[p] # r}

(* A new VirtualRouter is stored in the field, whatever the field refers to. *)
Install(p) ==
    /\ at[p] = "install"
    /\ \E r \in FreshRouter :
          /\ \A s \in FreshRouter : r <= s
          /\ virtualRouter' = r
          /\ mine' = [mine EXCEPT ![p] = r]
          /\ table' = [table EXCEPT ![r] = Absent]
    /\ GoTo(p, "connect")
    /\ UNCHANGED <<taskVars, netVars, stopped, status, loopStatus, loopThread, monitor, starts, task, up, flag>>

(* SdWanClient.start, which is not interruptible and does not notice a stop. *)
Connect(p) ==
    /\ at[p] = "connect"
    /\ open' = open \cup {mine[p]}
    /\ GoTo(p, "config")
    /\ UNCHANGED <<taskVars, registered, applied, overtaken, abandoned, peer, wire, query, answer, pushes,
                   routerVars, nodeVars, mine, task, up, flag>>

ConnectFail(p) ==
    /\ at[p] = "connect"
    /\ GoTo(p, "failed")
    /\ UNCHANGED <<taskVars, netVars, routerVars, nodeVars, mine, task, up, flag>>

FreshTask == {k \in Task : timer[k] = "off" /\ future[k] = "none"}

(* getConfig and regist: the future, then its timer and the message; the field     *)
(* sdWanClient is null once the router is stopped.                                  *)
Ask(p) ==
    /\ at[p] \in {"config", "regist"}
    /\ mine[p] \notin stopped
    /\ \E k \in FreshTask :
          /\ \A j \in FreshTask : k <= j
          /\ WaitPut(k)
          /\ task' = [task EXCEPT ![p] = k]
    /\ GoTo(p, IF at[p] = "config" THEN "configSend" ELSE "registSend")
    /\ UNCHANGED <<netVars, routerVars, nodeVars, mine, up, flag>>

Send(p) ==
    /\ at[p] \in {"configSend", "registSend"}
    /\ WaitArm(task[p])
    /\ query' = IF mine[p] \notin open THEN query
                ELSE [query EXCEPT ![task[p]] =
                        [router |-> mine[p], kind |-> IF at[p] = "configSend" THEN "config" ELSE "regist"]]
    /\ GoTo(p, IF at[p] = "configSend" THEN "configWait" ELSE "registWait")
    /\ UNCHANGED <<open, registered, applied, overtaken, abandoned, peer, wire, answer, pushes,
                   routerVars, nodeVars, mine, task, up, flag>>

Waiting(p) == at[p] \in {"configWait", "registWait"}

(* get() returns: the configuration or the registration is used or refused. *)
GetResult(p) ==
    /\ Waiting(p) /\ future[task[p]] = "result"
    /\ GoTo(p, IF answer[task[p]].code = "ok"
               THEN IF at[p] = "configWait" THEN "regist" ELSE "apply"
               ELSE IF at[p] = "configWait" THEN "failed" ELSE "refused")
    /\ UNCHANGED <<taskVars, netVars, routerVars, nodeVars, mine, task, up, flag>>

GetTimeout(p) ==
    /\ Waiting(p) /\ future[task[p]] = "timeout"
    /\ GoTo(p, "failed")
    /\ UNCHANGED <<taskVars, netVars, routerVars, nodeVars, mine, task, up, flag>>

GetInterrupted(p) ==
    /\ Waiting(p) /\ future[task[p]] = "waiting" /\ p \in flag
    /\ flag' = flag \ {p}
    /\ GoTo(p, "failed")
    /\ UNCHANGED <<taskVars, netVars, routerVars, nodeVars, mine, task, up>>

(* The list of the reply is entered over what the pushes entered. *)
Apply(p) ==
    /\ at[p] = "apply"
    /\ mine[p] \notin stopped
    /\ table' = IF answer[task[p]].list = Absent THEN table
                ELSE [table EXCEPT ![mine[p]] = answer[task[p]].list]
    /\ applied' = applied \cup ({mine[p]} \cap open)
    /\ GoTo(p, "ice")
    /\ UNCHANGED <<taskVars, open, registered, overtaken, abandoned, peer, wire, query, answer, pushes,
                   stopped, nodeVars, mine, task, up, flag>>

(* iceClient.start *)
IceStart(p) ==
    /\ at[p] = "ice"
    /\ mine[p] \notin stopped
    /\ GoTo(p, "installed")
    /\ UNCHANGED <<taskVars, netVars, routerVars, nodeVars, mine, task, up, flag>>

IceFail(p) ==
    /\ at[p] = "ice"
    /\ GoTo(p, "failed")
    /\ UNCHANGED <<taskVars, netVars, routerVars, nodeVars, mine, task, up, flag>>

(* A field of a router that was stopped meanwhile is null. *)
StoppedMeanwhile(p) ==
    /\ at[p] \in {"config", "regist", "apply"}
    /\ mine[p] \in stopped
    /\ GoTo(p, "failed")
    /\ UNCHANGED <<taskVars, netVars, routerVars, nodeVars, mine, task, up, flag>>
-----------------------------------------------------------------------------
(* BaseSdWanNode.start and stop *)

(* The thread has left install; a router nobody refers to any more is garbage. *)
Release(p) ==
    /\ stopped' = {r \in stopped : r = virtualRouter \/ \E q \in Thread \ {p} : mine[q] = r}
    /\ mine' = [mine EXCEPT ![p] = NoRouter]
    /\ task' = [task EXCEPT ![p] = NoTask]

CallStart ==
    /\ at[Caller] = "off" /\ ~ status /\ monitor = Nobody
    /\ starts + pushes < MaxCall
    /\ Patient => \A l \in Loop : at[l] = "off"
    /\ starts' = starts + 1
    /\ monitor' = Caller
    /\ GoTo(Caller, "install")
    /\ UNCHANGED <<taskVars, netVars, routerVars, virtualRouter, status, loopStatus, loopThread,
                   mine, task, up, flag>>

(* start after install: with autoReconnect, a loop thread is started. *)
Started ==
    /\ at[Caller] = "installed"
    /\ \E l \in Loop :
          /\ at[l] = "off"
          /\ loopThread' = l
          /\ at' = [at EXCEPT ![Caller] = "off", ![l] = "head"]
          /\ up' = [up EXCEPT ![l] = TRUE]
          /\ flag' = flag \ {l}
    /\ loopStatus' = TRUE
    /\ status' = TRUE
    /\ monitor' = Nobody
    /\ Release(Caller)
    /\ UNCHANGED <<taskVars, netVars, table, virtualRouter, starts>>

(* An exception leaves start, with virtualRouter and its connection as they are. *)
StartFailed ==
    /\ at[Caller] \in {"failed", "refused"}
    /\ abandoned' = abandoned \cup ({mine[Caller]} \cap open)
    /\ monitor' = Nobody
    /\ GoTo(Caller, "off")
    /\ Release(Caller)
    /\ UNCHANGED <<taskVars, open, registered, applied, overtaken, peer, wire, query, answer, pushes,
                   table, virtualRouter, status, loopStatus, loopThread, starts, up, flag>>

CallStop ==
    /\ at[Caller] = "off"
    /\ GoTo(Caller, "stop")
    /\ UNCHANGED <<taskVars, netVars, routerVars, nodeVars, mine, task, up, flag>>

(* Where a thread goes on after stop: the event listener of a loop thread may call it. *)
Back(p) == IF p = Caller THEN "off" ELSE "sleep"

(* Mutant: stop interrupts the loop thread before it ends the loop. *)
StopEnterLoopOn(p) ==
    /\ at[p] = "stop" /\ monitor = Nobody
    /\ IF status
       THEN /\ monitor' = p
            /\ GoTo(p, "interrupt")
       ELSE /\ GoTo(p, Back(p))
            /\ UNCHANGED monitor
    /\ UNCHANGED <<taskVars, netVars, routerVars, virtualRouter, status, loopStatus, loopThread, starts,
                   mine, task, up, flag>>

StopEnter(p) ==
    /\ at[p] = "stop" /\ monitor = Nobody
    /\ IF status
       THEN /\ monitor' = p
            /\ loopStatus' = FALSE
            /\ GoTo(p, "interrupt")
       ELSE /\ GoTo(p, Back(p))
            /\ UNCHANGED <<monitor, loopStatus>>
    /\ UNCHANGED <<taskVars, netVars, routerVars, virtualRouter, status, loopThread, starts,
                   mine, task, up, flag>>

(* Mutant: the loop thread is not interrupted. *)
StopNoInterrupt(p) ==
    /\ at[p] = "interrupt"
    /\ status' = FALSE
    /\ GoTo(p, "uninstall")
    /\ UNCHANGED <<taskVars, netVars, routerVars, virtualRouter, loopStatus, loopThread, monitor, starts,
                   mine, task, up, flag>>

StopInterrupt(p) ==
    /\ at[p] = "interrupt"
    /\ flag' = IF at[loopThread] = "off" THEN flag ELSE flag \cup {loopThread}
    /\ status' = FALSE
    /\ GoTo(p, "uninstall")
    /\ UNCHANGED <<taskVars, netVars, routerVars, virtualRouter, loopStatus, loopThread, monitor, starts,
                   mine, task, up>>
-----------------------------------------------------------------------------
(* uninstall(), for stop or for the loop: VirtualRouter.stop, then the field *)

Uninstalled(p) ==
    IF monitor = p
    THEN /\ GoTo(p, Back(p))
         /\ monitor' = Nobody
    ELSE /\ GoTo(p, "install")
         /\ UNCHANGED monitor

Uninstall(p) ==
    /\ at[p] = "uninstall"
    /\ IF virtualRouter = NoRouter
       THEN /\ Uninstalled(p)
            /\ UNCHANGED <<netVars, routerVars>>
       ELSE /\ stopped' = stopped \cup {virtualRouter}
            /\ table' = [table EXCEPT ![virtualRouter] = Absent]
            /\ Disconnect(virtualRouter)
            /\ GoTo(p, "unset")
            /\ UNCHANGED monitor
    /\ UNCHANGED <<taskVars, virtualRouter, status, loopStatus, loopThread, starts,
                   mine, task, up, flag>>

Unset(p) ==
    /\ at[p] = "unset"
    /\ virtualRouter' = NoRouter
    /\ stopped' = {r \in stopped : \E q \in Thread : mine[q] = r}
    /\ Uninstalled(p)
    /\ UNCHANGED <<taskVars, netVars, table, status, loopStatus, loopThread, starts,
                   mine, task, up, flag>>
-----------------------------------------------------------------------------
(* run() of the loop thread *)

LoopHead(l) ==
    /\ at[l] = "head"
    /\ IF ~ loopStatus THEN GoTo(l, "off") ELSE GoTo(l, IF up[l] THEN "await" ELSE "check")
    /\ UNCHANGED <<taskVars, netVars, routerVars, nodeVars, mine, task, up, flag>>

(* The wait ends by its timeout, by signalAll or by an interrupt; without a router *)
(* isRunning throws.                                                                *)
Await(l) ==
    /\ at[l] = "await"
    /\ flag' = flag \ {l}
    /\ IF virtualRouter = NoRouter
       THEN /\ GoTo(l, "sleep")
            /\ UNCHANGED up
       ELSE /\ up' = [up EXCEPT ![l] = Running]
            /\ GoTo(l, IF Running THEN "head" ELSE "check")
    /\ UNCHANGED <<taskVars, netVars, routerVars, nodeVars, mine, task>>

(* Mutant: the loop is not checked again after the wait. *)
CheckNever(l) ==
    /\ at[l] = "check"
    /\ GoTo(l, "uninstall")
    /\ UNCHANGED <<taskVars, netVars, routerVars, nodeVars, mine, task, up, flag>>

Check(l) ==
    /\ at[l] = "check"
    /\ GoTo(l, IF loopStatus THEN "uninstall" ELSE "off")
    /\ UNCHANGED <<taskVars, netVars, routerVars, nodeVars, mine, task, up, flag>>

(* Mutant: a reinstallation counts as up whatever became of it. *)
ReinstallOverUp(l) ==
    /\ at[l] \in {"installed", "failed", "refused"}
    /\ up' = [up EXCEPT ![l] = TRUE]
    /\ GoTo(l, "sleep")
    /\ Release(l)
    /\ UNCHANGED <<taskVars, netVars, table, nodeVars, flag>>

(* install has returned or thrown; the listener may call stop when the node was  *)
(* refused (onError of the main window).                                          *)
ReinstallOver(l) ==
    /\ at[l] \in {"installed", "failed", "refused"}
    /\ up' = [up EXCEPT ![l] = IF at[l] = "installed" THEN Running ELSE @]
    /\ \/ GoTo(l, "sleep")
       \/ at[l] = "refused" /\ GoTo(l, "stop")
    /\ Release(l)
    /\ UNCHANGED <<taskVars, netVars, table, nodeVars, flag>>

Sleep(l) ==
    /\ at[l] = "sleep"
    /\ flag' = flag \ {l}
    /\ GoTo(l, "head")
    /\ UNCHANGED <<taskVars, netVars, routerVars, nodeVars, mine, task, up>>
-----------------------------------------------------------------------------
(* The event loop of a connection (SdWanClient, VirtualRouter's handler) *)

(* It is completing the future of an answer. *)
Busy(r) == \E p \in Thread : mine[p] = r /\ task[p] # NoTask /\ claim[task[p]] = "answer"

(* The reply of the registration has been read, its list is not yet entered. *)
Replied(r) == \E p \in Thread : /\ mine[p] = r /\ at[p] \in {"registWait", "apply"}
                                /\ future[task[p]] = "result" \/ claim[task[p]] = "answer"

ReadReply(r) ==
    /\ wire[r] # << >> /\ Head(wire[r]).task # NoTask /\ ~ Busy(r)
    /\ Prompt => \A l \in flag : task[l] # Head(wire[r]).task
    /\ Answer(Head(wire[r]).task)
    /\ wire' = [wire EXCEPT ![r] = Tail(@)]
    /\ UNCHANGED <<open, registered, applied, overtaken, abandoned, peer, query, answer, pushes,
                   routerVars, nodeVars, threadVars>>

(* Mutant: NodeOffline leaves the entry. *)
ReadPushKept(r) ==
    /\ wire[r] # << >> /\ Head(wire[r]).task = NoTask /\ ~ Busy(r)
    /\ IF r \in stopped THEN UNCHANGED <<table, overtaken>>
       ELSE /\ table' = [table EXCEPT ![r] = IF Head(wire[r]).info = Absent THEN @ ELSE Head(wire[r]).info]
            /\ overtaken' = IF Replied(r) THEN overtaken \cup {r} ELSE overtaken
    /\ wire' = [wire EXCEPT ![r] = Tail(@)]
    /\ UNCHANGED <<taskVars, open, registered, applied, abandoned, peer, query, answer, pushes,
                   stopped, nodeVars, threadVars>>

(* NodeOnline puts the peer, NodeOffline removes it; without nodeManager the handler throws. *)
ReadPush(r) ==
    /\ wire[r] # << >> /\ Head(wire[r]).task = NoTask /\ ~ Busy(r)
    /\ IF r \in stopped THEN UNCHANGED <<table, overtaken>>
       ELSE /\ table' = [table EXCEPT ![r] = Head(wire[r]).info]
            /\ overtaken' = IF Replied(r) THEN overtaken \cup {r} ELSE overtaken
    /\ wire' = [wire EXCEPT ![r] = Tail(@)]
    /\ UNCHANGED <<taskVars, open, registered, applied, abandoned, peer, query, answer, pushes,
                   stopped, nodeVars, threadVars>>

CompleteTask(k) ==
    /\ Complete(k)
    /\ UNCHANGED <<netVars, routerVars, nodeVars, threadVars>>

ExpireTask(k) ==
    /\ Expire(k)
    /\ UNCHANGED <<netVars, routerVars, nodeVars, threadVars>>

ForgetTask(k) ==
    /\ Forget(k)
    /\ query[k] = NoQuery
    /\ \A p \in Thread : task[p] # k
    /\ \A r \in Router : \A i \in 1..Len(wire[r]) : wire[r][i].task # k
    /\ answer' = [answer EXCEPT ![k] = NoAnswer]
    /\ UNCHANGED <<open, registered, applied, overtaken, abandoned, peer, wire, query, pushes,
                   routerVars, nodeVars, threadVars>>
-----------------------------------------------------------------------------
(* The controller and the network *)

Served(k, code) ==
    /\ query[k] # NoQuery
    /\ query' = [query EXCEPT ![k] = NoQuery]
    /\ answer' = [answer EXCEPT ![k] = [code |-> code,
                    list |-> IF code = "ok" /\ query[k].kind = "regist" THEN peer ELSE Absent]]
    /\ wire' = [wire EXCEPT ![query[k].router] = Append(@, Reply(k))]
    /\ UNCHANGED <<taskVars, open, applied, overtaken, abandoned, peer, pushes, routerVars, nodeVars, threadVars>>

(* From here on pushes are sent to the router as well. *)
Serve(k) ==
    /\ Served(k, "ok")
    /\ registered' = IF query[k].kind = "regist" THEN registered \cup {query[k].router} ELSE registered

Refuse(k) ==
    /\ Served(k, "refused")
    /\ UNCHANGED registered

PeerChange(x) ==
    /\ x # peer /\ starts + pushes < MaxCall
    /\ peer' = x
    /\ pushes' = pushes + 1
    /\ wire' = [r \in Router |-> IF r \in registered THEN Append(wire[r], Push(x)) ELSE wire[r]]
    /\ UNCHANGED <<taskVars, open, registered, applied, overtaken, abandoned, query, answer,
                   routerVars, nodeVars, threadVars>>

(* The connection breaks, or a heartbeat is not answered (SdWanClient.run). *)
Lose(r) ==
    /\ r \in open
    /\ Disconnect(r)
    /\ UNCHANGED <<taskVars, routerVars, nodeVars, threadVars>>
-----------------------------------------------------------------------------
InstallStep(p) ==
    \/ Install(p) \/ Connect(p) \/ ConnectFail(p) \/ Ask(p) \/ Send(p)
    \/ GetResult(p) \/ GetTimeout(p) \/ GetInterrupted(p)
    \/ Apply(p) \/ IceStart(p) \/ IceFail(p) \/ StoppedMeanwhile(p)

StopStep(p) == StopEnter(p) \/ StopInterrupt(p) \/ Uninstall(p) \/ Unset(p)

LoopStep(l) == LoopHead(l) \/ Await(l) \/ Check(l) \/ ReinstallOver(l) \/ Sleep(l)

ThreadStep(p) ==
    \/ InstallStep(p) \/ StopStep(p)
    \/ p = Caller /\ (Started \/ StartFailed)
    \/ p \in Loop /\ LoopStep(p)

EventLoopStep(r) == ReadReply(r) \/ ReadPush(r)

TaskStep(k) == CompleteTask(k) \/ ExpireTask(k) \/ ForgetTask(k) \/ Serve(k)

Next ==
    \/ CallStart \/ CallStop
    \/ \E p \in Thread : ThreadStep(p)
    \/ \E r \in Router : EventLoopStep(r) \/ Lose(r)
    \/ \E k \in Task : TaskStep(k) \/ Refuse(k)
    \/ \E x \in Info \cup {Absent} : PeerChange(x)

Spec == Init /\ [][Next]_vars

(* Threads run on, timers fire, and the controller answers what reaches it; nobody *)
(* has to call start or stop.                                                        *)
FairSpec ==
    /\ Spec
    /\ \A p \in Thread : WF_vars(ThreadStep(p))
    /\ \A r \in Router : WF_vars(EventLoopStep(r))
    /\ \A k \in Task : WF_vars(TaskStep(k))
-----------------------------------------------------------------------------
(* Properties. *)

(* When stop has returned no connection of the node is in the directory of the      *)
(* controller, although the loop thread may have been about to reinstall: it has      *)
(* been interrupted and does not get as far as to register.  Left out are the routers   *)
(* that a start which failed left behind.                                                *)
StopDisconnects ==
    ~ status /\ monitor = Nobody => registered \subseteq abandoned

(* A router in the directory is the one the node uses, or of a start that failed. *)
NoOrphan == registered \subseteq abandoned \cup {virtualRouter}

(* The node's table agrees with the controller's directory once its messages are   *)
(* read, except where a push was read before the list of the reply was entered.      *)
DirectoryCurrent ==
    \A r \in (registered \cap applied) \ overtaken :
        wire[r] = << >> => table[r] = peer

(* start and stop return, whatever becomes of the connection. *)
CallReturns == at[Caller] # "off" ~> at[Caller] = "off"

(* What fails, refuses or comes too late on the way to a registration. *)
Trouble ==
    \/ \E p \in Thread : ConnectFail(p) \/ IceFail(p) \/ (task[p] # NoTask /\ ExpireTask(task[p]))
    \/ \E r \in Router : Lose(r)
    \/ \E k \in Task : Refuse(k)

(* A node that was started and is not stopped finds its way back into the          *)
(* directory once the trouble is over, wherever its reinstallation was hit.          *)
Recovers ==
    <>[][~ Trouble]_vars => (status ~> ~ status \/ virtualRouter \in registered \cap applied)
=============================================================================
