-------------------------- MODULE ControllerServer --------------------------
(***************************************************************************)
(* The controller (sdwan-core ControllerServer.java, ChannelSpace.java) and *)
(* the data service that hands out virtual ips to it: registration of a    *)
(* connection, the directory pushed to the connected nodes, the close       *)
(* listeners that undo a registration, and the heartbeat sweep.             *)
(*                                                                         *)
(* Every connection (netty Channel) is served by one event loop: the        *)
(* handlers and the close listeners of one channel never overlap, those of  *)
(* two channels interleave at every access to a shared map.  A write of     *)
(* another loop to a channel is a task queued on that channel's loop and    *)
(* runs after the handler in progress; a write of its own loop is immediate.*)
(***************************************************************************)
EXTENDS Integers, Sequences

CONSTANTS
    NChannel,     \* connections are 1 .. NChannel, in the bin order of registChannelMap
    Tenant,       \* tenant codes a client may name
    KnownTenant,  \* tenants the data service has
    Mac,          \* mac addresses, the identity of a node
    Vip,          \* virtual ips of every tenant's pool
    NoVip,        \* "no virtual ip" (null)
    Addr,         \* address lists a node may report
    EmptyAddr,    \* the empty address list
    Absent,       \* a client has no directory entry for a vip
    TenantOf,     \* tenant named by the client of a connection
    MacOf,        \* mac address of the client of a connection
    FixedVip,     \* fixedVipMap of LocalConfigSdWanDataService
    Routed,       \* tenants whose local configuration has a route, a rule or a vnat
    Exclusive,    \* TRUE: LocalConfigSdWanDataService, FALSE: DatabaseSdWanDataService
    Mute,         \* connections whose client may stop sending heartbeats
    MaxRequests   \* bound: registrations and address updates, per connection

Channel == 1 .. NChannel
NoChannel == 0

ASSUME ChannelAssumption == NChannel \in Nat \ {0}
ASSUME TenantAssumption == KnownTenant \subseteq Tenant /\ Routed \subseteq Tenant /\ TenantOf \in [Channel -> Tenant]
ASSUME MacAssumption == MacOf \in [Channel -> Mac]
ASSUME VipAssumption == NoVip \notin Vip /\ FixedVip \in [Mac -> Vip \cup {NoVip}]
ASSUME AddrAssumption == EmptyAddr \in Addr /\ Absent \notin Addr
ASSUME ServiceAssumption == Exclusive \in BOOLEAN
ASSUME MuteAssumption == Mute \subseteq Channel
ASSUME BoundAssumption == MaxRequests \in [Channel -> Nat]

VARIABLES
    at,         \* what the event loop of a channel is doing
    cursor,     \* next bin of registChannelMap of the iteration in progress
    listeners,  \* close listeners of a channel, in the order they were added
    active,     \* channelMap: the connections the sweep looks at
    regist,     \* keys of registChannelMap
    space,      \* channelSpaceMap: tenant -> vip -> channel
    bind,       \* bindIPMap (local service): tenant -> vip -> owning channel
    nodeVip,    \* vip stored with a node (database service): tenant -> mac -> vip
    vip,        \* ChannelAttributes.vip
    addr,       \* ChannelAttributes.addressUriList
    tasks,      \* pushes other loops queued on this channel's loop
    view,       \* directory of a client that applied all that was written to it
    asked,      \* requests handled so far on a channel
    closeReq,   \* channels some thread has called close() on
    silent,     \* channels whose last heartbeat is older than heartTimeout
    overlap,    \* history: vips of a tenant given out while another channel still had them
    failed      \* history: channels that were given a vip and told SysError

directoryVars == <<regist, space, bind, nodeVip, vip, overlap, failed>>
loopVars == <<at, cursor, listeners, asked>>
wireVars == <<addr, tasks, view>>
heartVars == <<active, closeReq, silent>>
vars == <<directoryVars, loopVars, wireVars, heartVars>>

Stage == {"new", "idle", "space", "insert", "attrs", "list", "sort", "clash", "online", "update",
          "closing", "offline", "closed"}
Listener == {"channel", "regist", "bind", "space", "offline"}
NodeInfo == [vip : Vip, info : Addr \cup {Absent}]

(* One type invariant for the module. *)
TypeOK ==
    /\ at \in [Channel -> Stage]
    /\ cursor \in [Channel -> Channel]
    /\ listeners \in [Channel -> Seq(Listener)]
    /\ active \subseteq Channel
    /\ regist \subseteq Channel
    /\ space \in [Tenant -> [Vip -> Channel \cup {NoChannel}]]
    /\ bind \in [Tenant -> [Vip -> Channel \cup {NoChannel}]]
    /\ nodeVip \in [Tenant -> [Mac -> Vip \cup {NoVip}]]
    /\ vip \in [Channel -> Vip \cup {NoVip}]
    /\ addr \in [Channel -> Addr]
    /\ tasks \in [Channel -> Seq(NodeInfo)]
    /\ view \in [Channel -> [Vip -> Addr \cup {Absent}]]
    /\ asked \in [Channel -> Nat]
    /\ closeReq \subseteq Channel
    /\ silent \subseteq Channel
    /\ overlap \subseteq Tenant \X Vip
    /\ failed \subseteq Channel

Init ==
    /\ at = [c \in Channel |-> "new"]
    /\ cursor = [c \in Channel |-> 1]
    /\ listeners = [c \in Channel |-> << >>]
    /\ active = {} /\ regist = {} /\ closeReq = {} /\ silent = {} /\ overlap = {} /\ failed = {}
    /\ space = [t \in Tenant |-> [v \in Vip |-> NoChannel]]
    /\ bind = [t \in Tenant |-> [v \in Vip |-> NoChannel]]
    /\ nodeVip = [t \in Tenant |-> [m \in Mac |-> NoVip]]
    /\ vip = [c \in Channel |-> NoVip]
    /\ addr = [c \in Channel |-> EmptyAddr]
    /\ tasks = [c \in Channel |-> << >>]
    /\ view = [c \in Channel |-> [v \in Vip |-> Absent]]
    /\ asked = [c \in Channel |-> 0]

-----------------------------------------------------------------------------
(* Helpers. *)

AddListeners(c, added) == listeners' = [listeners EXCEPT ![c] = @ \o added]
PopListener(c) == listeners' = [listeners EXCEPT ![c] = Tail(@)]

GoTo(c, stage) == at' = [at EXCEPT ![c] = stage]

(* A new request of the client of c: its loop is idle and the bound allows it. *)
Request(c) ==
    /\ at[c] = "idle"
    /\ asked[c] < MaxRequests[c]
    /\ asked' = [asked EXCEPT ![c] = @ + 1]

(* push(item, NodeOnline/NodeOffline) from the loop of c to channel x: its own *)
(* loop writes at once, another loop queues a task; a closed channel drops it.  *)
Push(c, x, info) ==
    IF x \notin regist \/ at[x] \in {"closing", "offline", "closed"}
    THEN UNCHANGED <<tasks, view>>
    ELSE IF x = c
         THEN /\ view' = [view EXCEPT ![x][vip[c]] = info]
              /\ UNCHANGED tasks
         ELSE /\ tasks' = [tasks EXCEPT ![x] = Append(@, [vip |-> vip[c], info |-> info])]
              /\ UNCHANGED view

(* Mutant: the cursor is not reset for the next iteration. *)
AdvanceNoReset(c, next) ==
    /\ cursor' = [cursor EXCEPT ![c] = @ + 1]
    /\ IF cursor[c] < NChannel THEN UNCHANGED at ELSE GoTo(c, next)

(* The iteration over registChannelMap of c moves to its next bin, or ends and *)
(* the handler goes on.                                                        *)
Advance(c, next) ==
    IF cursor[c] < NChannel
    THEN /\ cursor' = [cursor EXCEPT ![c] = @ + 1]
         /\ UNCHANGED at
    ELSE /\ cursor' = [cursor EXCEPT ![c] = 1]
         /\ GoTo(c, next)

(* Mutant: no compareAndSet, a bound vip may be given out again. *)
AssignableBound(c) ==
    IF Exclusive
    THEN IF FixedVip[MacOf[c]] # NoVip THEN {FixedVip[MacOf[c]]} ELSE Vip
    ELSE {v \in Vip : \A n \in Mac \ {MacOf[c]} : nodeVip[TenantOf[c]][n] # v}

(* The vips the data service may give to channel c.  Local service: the fixed *)
(* vip of the mac if it is free, else any free one (bindIPMap is a hash map:   *)
(* its order is unspecified).  Database service: the vip stored with the node, *)
(* else one no node of the tenant has.                                         *)
Assignable(c) ==
    LET t == TenantOf[c]
        m == MacOf[c]
        free == {v \in Vip : bind[t][v] = NoChannel}
    IN  IF Exclusive
        THEN IF FixedVip[m] # NoVip THEN free \cap {FixedVip[m]} ELSE free
        ELSE IF nodeVip[t][m] # NoVip
             THEN {nodeVip[t][m]}
             ELSE {v \in Vip : \A n \in Mac : nodeVip[t][n] # v}

(* Another channel of the tenant that was given v has not finished closing. *)
StillHeld(c, v) ==
    \E d \in Channel \ {c} : TenantOf[d] = TenantOf[c] /\ vip[d] = v /\ at[d] # "closed"
-----------------------------------------------------------------------------
(* Requests of the clients. *)

(* channelActive: the connection is tracked by the sweep. *)
Connect(c) ==
    /\ at[c] = "new"
    /\ GoTo(c, "idle")
    /\ AddListeners(c, <<"channel">>)
    /\ active' = active \cup {c}
    /\ UNCHANGED <<directoryVars, wireVars, cursor, asked, closeReq, silent>>

(* processRegist of an unknown tenant: getChannelSpace throws, SysError reply. *)
RegistNoTenant(c) ==
    /\ Request(c)
    /\ TenantOf[c] \notin KnownTenant
    /\ UNCHANGED <<directoryVars, wireVars, heartVars, at, cursor, listeners>>

(* assignNodeInfo throws (VipBound, NotEnough) inside computeIfAbsent: the close *)
(* listener added before the call stays, the mapping is not made.                *)
RegistReject(c) ==
    /\ Request(c)
    /\ TenantOf[c] \in KnownTenant
    /\ c \notin regist
    /\ Assignable(c) = {}
    /\ AddListeners(c, <<"regist">>)
    /\ UNCHANGED <<directoryVars, wireVars, heartVars, at, cursor>>

(* Mutants: the registration's listener added after the data service's; the vip  *)
(* never released; the channel never removed from registChannelMap.              *)
AssignListenersSwapped == IF Exclusive THEN <<"bind", "regist">> ELSE <<"regist">>
AssignListenersUnbound == <<"regist">>
AssignListenersUnregistered == IF Exclusive THEN <<"bind">> ELSE << >>

(* processRegist's listener comes first, then the data service's. *)
AssignListeners == IF Exclusive THEN <<"regist", "bind">> ELSE <<"regist">>

(* computeIfAbsent, first part: the close listener is added, the data service   *)
(* binds a vip (and, in the local service, adds the listener that releases it). *)
RegistAssign(c) ==
    /\ Request(c)
    /\ TenantOf[c] \in KnownTenant
    /\ c \notin regist
    /\ \E v \in Assignable(c) :
          /\ vip' = [vip EXCEPT ![c] = v]
          /\ overlap' = IF StillHeld(c, v) THEN overlap \cup {<<TenantOf[c], v>>} ELSE overlap
          /\ IF Exclusive
             THEN /\ bind' = [bind EXCEPT ![TenantOf[c]][v] = c]
                  /\ UNCHANGED nodeVip
             ELSE /\ nodeVip' = [nodeVip EXCEPT ![TenantOf[c]][MacOf[c]] = v]
                  /\ UNCHANGED bind
    /\ AddListeners(c, AssignListeners)
    /\ GoTo(c, "space")
    /\ UNCHANGED <<regist, space, failed, cursor, wireVars, heartVars>>

(* Mutant: no close listener on the channel. *)
RegistAddChannelNoListener(c) ==
    /\ at[c] = "space"
    /\ space' = [space EXCEPT ![TenantOf[c]][vip[c]] = c]
    /\ GoTo(c, "insert")
    /\ UNCHANGED <<regist, bind, nodeVip, vip, overlap, failed, cursor, listeners, asked, wireVars, heartVars>>

(* ChannelSpace.addChannel *)
RegistAddChannel(c) ==
    /\ at[c] = "space"
    /\ AddListeners(c, <<"space">>)
    /\ space' = [space EXCEPT ![TenantOf[c]][vip[c]] = c]
    /\ GoTo(c, "insert")
    /\ UNCHANGED <<regist, bind, nodeVip, vip, overlap, failed, cursor, asked, wireVars, heartVars>>

(* computeIfAbsent returns: the channel is visible in registChannelMap. *)
RegistInsert(c) ==
    /\ at[c] = "insert"
    /\ regist' = regist \cup {c}
    /\ GoTo(c, "attrs")
    /\ UNCHANGED <<space, bind, nodeVip, vip, overlap, failed, cursor, listeners, asked, wireVars, heartVars>>

(* A channel that is registered already keeps its node config. *)
RegistAgain(c) ==
    /\ Request(c)
    /\ TenantOf[c] \in KnownTenant
    /\ c \in regist
    /\ GoTo(c, "attrs")
    /\ UNCHANGED <<directoryVars, wireVars, heartVars, cursor, listeners>>

(* The address list of the request (a node registers with an empty one). *)
RegistAttrs(c) ==
    /\ at[c] = "attrs"
    /\ addr' = [addr EXCEPT ![c] = EmptyAddr]
    /\ GoTo(c, "list")
    /\ UNCHANGED <<directoryVars, heartVars, cursor, listeners, asked, tasks, view>>

(* The node list of the reply, one bin of registChannelMap at a time.  Pushes of *)
(* other loops wait until this handler ends, so the reply, written at its end,   *)
(* is the only write in between and may be accounted for entry by entry.         *)
RegistList(c) ==
    /\ at[c] = "list"
    /\ LET x == cursor[c]
       IN  view' = IF x \in regist THEN [view EXCEPT ![c][vip[x]] = addr[x]] ELSE view
    /\ Advance(c, "sort")
    /\ UNCHANGED <<directoryVars, heartVars, listeners, asked, addr, tasks>>

(* The local service builds routes, rules and vnats without a name, which the *)
(* message builder refuses (NullPointerException).                             *)
Unnamed(c) == Exclusive /\ TenantOf[c] \in Routed

(* Mutant: every reply sorts a list of its own. *)
RegistSortCopy(c) ==
    /\ at[c] = "sort"
    /\ ~ Unnamed(c)
    /\ GoTo(c, "online")
    /\ UNCHANGED <<directoryVars, heartVars, wireVars, cursor, listeners, asked>>

(* buildRouteRuleList sorts the rules in place.  The local service gives the same *)
(* ArrayList to all: a sort that ends makes those in progress of other loops fail  *)
(* (ConcurrentModificationException, whatever the list holds).                     *)
RegistSort(c) ==
    /\ at[c] = "sort"
    /\ ~ Unnamed(c)
    /\ LET disturbed == {x \in Channel \ {c} : /\ Exclusive /\ at[x] = "sort"
                                               /\ TenantOf[x] = TenantOf[c]}
       IN  at' = [x \in Channel |-> IF x = c THEN "online"
                                    ELSE IF x \in disturbed THEN "clash" ELSE at[x]]
    /\ UNCHANGED <<directoryVars, heartVars, wireVars, cursor, listeners, asked>>

(* The catch block: SysError instead of the reply, and nothing of what was done is *)
(* undone; the channel stays registered and is not announced.  The client gives up  *)
(* its directory (VirtualRouter.start throws).                                      *)
RegistFail(c) ==
    /\ at[c] = "clash" \/ (at[c] = "sort" /\ Unnamed(c))
    /\ failed' = failed \cup {c}
    /\ view' = [view EXCEPT ![c] = [v \in Vip |-> Absent]]
    /\ GoTo(c, "idle")
    /\ UNCHANGED <<regist, space, bind, nodeVip, vip, overlap, heartVars, cursor, listeners,
                   asked, addr, tasks>>

(* updateNodeInfoToAllChannel at the end of processRegist, then the listener *)
(* that announces the node's end.                                            *)
RegistOnline(c) ==
    /\ at[c] = "online"
    /\ Push(c, cursor[c], addr[c])
    /\ Advance(c, "idle")
    /\ IF cursor[c] = NChannel THEN AddListeners(c, <<"offline">>) ELSE UNCHANGED listeners
    /\ UNCHANGED <<directoryVars, heartVars, asked, addr>>

(* processUpdateNodeInfo: without a vip the push fails and only the attribute *)
(* has changed.                                                                *)
UpdateNodeInfo(c) ==
    /\ Request(c)
    /\ \E a \in Addr : addr' = [addr EXCEPT ![c] = a]
    /\ IF vip[c] = NoVip THEN UNCHANGED at ELSE GoTo(c, "update")
    /\ UNCHANGED <<directoryVars, heartVars, cursor, listeners, tasks, view>>

UpdatePush(c) ==
    /\ at[c] = "update"
    /\ Push(c, cursor[c], addr[c])
    /\ Advance(c, "idle")
    /\ UNCHANGED <<directoryVars, heartVars, listeners, asked, addr>>

(* The loop runs a queued write. *)
RunTask(c) ==
    /\ at[c] = "idle"
    /\ tasks[c] # << >>
    /\ LET m == Head(tasks[c]) IN view' = [view EXCEPT ![c][m.vip] = m.info]
    /\ tasks' = [tasks EXCEPT ![c] = Tail(@)]
    /\ UNCHANGED <<directoryVars, heartVars, loopVars, addr>>

-----------------------------------------------------------------------------
(* The end of a connection. *)

(* The client's side of the connection goes away. *)
Disconnect(c) ==
    /\ at[c] \notin {"new", "closing", "offline", "closed"}
    /\ c \notin closeReq
    /\ closeReq' = closeReq \cup {c}
    /\ UNCHANGED <<directoryVars, loopVars, wireVars, active, silent>>

(* offlineChannel: the administrator kicks whoever is found under a vip. *)
OfflineChannel(t, v) ==
    /\ space[t][v] \in Channel \ closeReq
    /\ closeReq' = closeReq \cup {space[t][v]}
    /\ UNCHANGED <<directoryVars, loopVars, wireVars, active, silent>>

(* close() runs on the channel's loop, between two handlers; what was queued for *)
(* the client is lost with the connection.                                        *)
Close(c) ==
    /\ at[c] = "idle"
    /\ c \in closeReq
    /\ GoTo(c, "closing")
    /\ tasks' = [tasks EXCEPT ![c] = << >>]
    /\ UNCHANGED <<directoryVars, heartVars, cursor, listeners, asked, addr, view>>

(* The close listeners run in the order they were added. *)
Closing(c, listener) ==
    /\ at[c] = "closing"
    /\ listeners[c] # << >>
    /\ Head(listeners[c]) = listener

CloseChannelMap(c) ==
    /\ Closing(c, "channel")
    /\ active' = active \ {c}
    /\ PopListener(c)
    /\ UNCHANGED <<directoryVars, wireVars, at, cursor, asked, closeReq, silent>>

CloseRegist(c) ==
    /\ Closing(c, "regist")
    /\ regist' = regist \ {c}
    /\ PopListener(c)
    /\ UNCHANGED <<space, bind, nodeVip, vip, overlap, failed, wireVars, heartVars, at, cursor, asked>>

(* bindCloseFuture: set(null) whoever the owner is. *)
CloseBind(c) ==
    /\ Closing(c, "bind")
    /\ bind' = [bind EXCEPT ![TenantOf[c]][vip[c]] = NoChannel]
    /\ PopListener(c)
    /\ UNCHANGED <<regist, space, nodeVip, vip, overlap, failed, wireVars, heartVars, at, cursor, asked>>

(* Mutant: one ChannelSpace for all tenants. *)
CloseSpaceAllTenants(c) ==
    /\ Closing(c, "space")
    /\ space' = [t \in Tenant |-> [space[t] EXCEPT ![vip[c]] = NoChannel]]
    /\ PopListener(c)
    /\ UNCHANGED <<regist, bind, nodeVip, vip, overlap, failed, wireVars, heartVars, at, cursor, asked>>

(* ChannelSpace's listener: remove(vip) whatever channel is under it. *)
CloseSpace(c) ==
    /\ Closing(c, "space")
    /\ space' = [space EXCEPT ![TenantOf[c]][vip[c]] = NoChannel]
    /\ PopListener(c)
    /\ UNCHANGED <<regist, bind, nodeVip, vip, overlap, failed, wireVars, heartVars, at, cursor, asked>>

(* sendAllChannelNodeOffline, one bin of registChannelMap at a time. *)
CloseOffline(c) ==
    /\ Closing(c, "offline")
    /\ GoTo(c, "offline")
    /\ PopListener(c)
    /\ UNCHANGED <<directoryVars, wireVars, heartVars, cursor, asked>>

OfflinePush(c) ==
    /\ at[c] = "offline"
    /\ Push(c, cursor[c], Absent)
    /\ Advance(c, "closing")
    /\ UNCHANGED <<directoryVars, heartVars, listeners, asked, addr>>

Closed(c) ==
    /\ at[c] = "closing"
    /\ listeners[c] = << >>
    /\ GoTo(c, "closed")
    /\ UNCHANGED <<directoryVars, wireVars, heartVars, cursor, listeners, asked>>

-----------------------------------------------------------------------------
(* Heartbeats. *)

(* More than heartTimeout has gone by since the last heartbeat. *)
HeartTimeout(c) ==
    /\ c \in Mute \ silent
    /\ at[c] \notin {"new", "closed"}
    /\ silent' = silent \cup {c}
    /\ UNCHANGED <<directoryVars, loopVars, wireVars, active, closeReq>>

Heart(c) ==
    /\ at[c] = "idle"
    /\ c \in silent
    /\ silent' = silent \ {c}
    /\ UNCHANGED <<directoryVars, loopVars, wireVars, active, closeReq>>

(* Mutant: the sweep forgets the channel without closing it. *)
SweepForget(c) ==
    /\ c \in active \cap silent
    /\ active' = active \ {c}
    /\ UNCHANGED <<directoryVars, loopVars, wireVars, silent, closeReq>>

(* run(): one entry of channelMap; the entry goes at once, the rest on close. *)
Sweep(c) ==
    /\ c \in active \cap silent
    /\ closeReq' = closeReq \cup {c}
    /\ active' = active \ {c}
    /\ UNCHANGED <<directoryVars, loopVars, wireVars, silent>>

-----------------------------------------------------------------------------
(* What the event loop of c does by itself. *)
LoopStep(c) ==
    \/ RegistAddChannel(c) \/ RegistInsert(c) \/ RegistAttrs(c) \/ RegistList(c)
    \/ RegistSort(c) \/ RegistFail(c)
    \/ RegistOnline(c) \/ UpdatePush(c) \/ RunTask(c) \/ Close(c)
    \/ CloseChannelMap(c) \/ CloseRegist(c) \/ CloseBind(c) \/ CloseSpace(c)
    \/ CloseOffline(c) \/ OfflinePush(c) \/ Closed(c)

ClientStep(c) ==
    \/ Connect(c) \/ RegistNoTenant(c) \/ RegistReject(c) \/ RegistAssign(c)
    \/ RegistAgain(c) \/ UpdateNodeInfo(c) \/ Disconnect(c) \/ Heart(c)

Next ==
    \/ \E c \in Channel : ClientStep(c) \/ LoopStep(c) \/ HeartTimeout(c) \/ Sweep(c)
    \/ \E t \in Tenant, v \in Vip : OfflineChannel(t, v)

Spec == Init /\ [][Next]_vars

(* Event loop threads run what is queued on them (Close is such a task), and the *)
(* sweep is scheduled at a fixed rate and catches what it throws.                 *)
FairSpec == Spec /\ \A c \in Channel : WF_vars(LoopStep(c)) /\ WF_vars(Close(c)) /\ WF_vars(Sweep(c))
-----------------------------------------------------------------------------
(* Properties. *)

(* Two connections of a tenant that are in the directory at the same time never *)
(* have the same vip.  Local service only: the database service gives a node's  *)
(* vip to each of its connections (assignNodeInfo, registChannelMap).            *)
VipExclusive ==
    \A c, d \in regist : c # d /\ TenantOf[c] = TenantOf[d] => vip[c] # vip[d]

(* A registered node is found under its vip, so that an offer for it is forwarded *)
(* (ChannelSpace), whatever registrations and closes of other channels are in     *)
(* progress, unless its vip was given out while an earlier channel still had it.  *)
Routable ==
    \A c \in regist :
        <<TenantOf[c], vip[c]>> \notin overlap /\ at[c] \notin {"closing", "offline"}
            => space[TenantOf[c]][vip[c]] = c

(* ChannelSpace never keeps a connection whose close has completed, nor one of *)
(* another tenant or with another vip.                                          *)
NoStaleRoute ==
    \A t \in Tenant, v \in Vip :
        LET c == space[t][v]
        IN  c # NoChannel => at[c] # "closed" /\ TenantOf[c] = t /\ vip[c] = v

(* A connection whose close has completed is in no map of the controller and no vip *)
(* is bound to it: the pool of a tenant does not shrink, whatever registrations       *)
(* were refused, repeated or failed before (the close listeners, bindCloseFuture).      *)
NothingLeft ==
    \A c \in Channel :
        at[c] = "closed" => /\ c \notin active /\ c \notin regist
                            /\ \A t \in Tenant, v \in Vip : bind[t][v] # c

Quiet == \A c \in Channel : at[c] \in {"new", "idle", "closed"} /\ tasks[c] = << >>

(* The vips only one tenant uses, that never had two holders at a time and whose *)
(* holders were all announced.                                                     *)
Undisputed ==
    {v \in Vip : /\ \A t \in Tenant : <<t, v>> \notin overlap
                 /\ \A c \in failed : vip[c] # v
                 /\ \A c, d \in Channel : vip[c] = v /\ vip[d] = v => TenantOf[c] = TenantOf[d]}

(* When all handlers have ended and all queued writes are out, a client that     *)
(* applied what it was sent in order has exactly the registered nodes in its      *)
(* directory, each with its latest addresses: the reply's list and the pushes of  *)
(* processRegist, UpdateNodeInfo and close leave no node out and none behind,     *)
(* however they interleave.                                                        *)
Converged ==
    LET live == {c \in regist : at[c] # "closed"}
    IN  Quiet => \A c \in live \ failed, v \in Undisputed :
                    IF \E d \in live : vip[d] = v
                    THEN \E d \in live : vip[d] = v /\ view[c][v] = addr[d]
                    ELSE view[c][v] = Absent

(* A node that was given a vip of its tenant is told so: its registration is not *)
(* answered with an error (VirtualRouterTest starts its routers on such a tenant). *)
RegistAnswered == failed = {}

(* The local service and the controller implement the lease. *)
Lease == INSTANCE VipLease WITH Connection <- Channel, Nobody <- NoChannel,
                                lease <- bind, online <- regist
LeaseSpec == Lease!Spec

(* A connection that falls silent is heard again or closed (run()). *)
SilentIsClosed == \A c \in Channel : c \in silent ~> (c \notin silent \/ at[c] = "closed")

(* A closing connection gives its vip back to the pool (bindCloseFuture). *)
CloseReleasesVip ==
    \A c \in Channel : at[c] = "closing" ~> \A t \in Tenant, v \in Vip : bind[t][v] # c
=============================================================================
