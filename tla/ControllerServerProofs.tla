---------------------- MODULE ControllerServerProofs ----------------------
(* Theorems about ControllerServer, for any number of connections, tenants, *)
(* nodes and vips.                                                           *)
EXTENDS ControllerServer, SequenceTheorems, TLAPS

USE DEF Channel, NoChannel

Assumptions ==
    /\ NChannel \in Nat \ {0}
    /\ KnownTenant \subseteq Tenant /\ TenantOf \in [Channel -> Tenant]
    /\ MacOf \in [Channel -> Mac]
    /\ NoVip \notin Vip /\ FixedVip \in [Mac -> Vip \cup {NoVip}]
    /\ EmptyAddr \in Addr /\ Absent \notin Addr
    /\ Exclusive \in BOOLEAN
    /\ MaxRequests \in [Channel -> Nat]

LEMMA ConstantsOK == Assumptions
  BY ChannelAssumption, TenantAssumption, MacAssumption, VipAssumption, AddrAssumption,
     ServiceAssumption, BoundAssumption DEF Assumptions

(* What the queue of listeners or tasks of a channel looks like after an append *)
(* and after its head has run.                                                   *)
LEMMA TailType ==
  ASSUME NEW S, NEW q \in Seq(S), q # << >>
  PROVE  /\ Tail(q) \in Seq(S) /\ Head(q) \in S
  OBVIOUS

LEMMA PushType ==
  ASSUME TypeOK, NEW c \in Channel, NEW x \in Channel, NEW info \in Addr \cup {Absent},
         vip[c] \in Vip, Push(c, x, info)
  PROVE  /\ tasks' \in [Channel -> Seq(NodeInfo)]
         /\ view' \in [Channel -> [Vip -> Addr \cup {Absent}]]
  <1>1. [vip |-> vip[c], info |-> info] \in NodeInfo
    BY DEF NodeInfo
  <1>2. Append(tasks[x], [vip |-> vip[c], info |-> info]) \in Seq(NodeInfo)
    <2>1. tasks[x] \in Seq(NodeInfo)
      BY DEF TypeOK
    <2>2. ASSUME NEW q \in Seq(NodeInfo), NEW m \in NodeInfo PROVE Append(q, m) \in Seq(NodeInfo)
      OBVIOUS
    <2> QED
      BY <1>1, <2>1, <2>2
  <1>3. tasks' \in [Channel -> Seq(NodeInfo)]
    BY <1>2 DEF Push, TypeOK
  <1>4. view' \in [Channel -> [Vip -> Addr \cup {Absent}]]
    <2>1. CASE UNCHANGED view
      BY <2>1 DEF TypeOK
    <2>2. CASE view' = [view EXCEPT ![x][vip[c]] = info]
      BY <2>2 DEF TypeOK
    <2> QED
      BY <2>1, <2>2 DEF Push
  <1> QED
    BY <1>3, <1>4

LEMMA AdvanceType ==
  ASSUME TypeOK, NEW c \in Channel, NEW next \in Stage, Advance(c, next)
  PROVE  /\ cursor' \in [Channel -> Channel] /\ at' \in [Channel -> Stage]
  <1>1. at' \in [Channel -> Stage]
    BY DEF Advance, GoTo, TypeOK
  <1>2. cursor' \in [Channel -> Channel]
    <2>1. cursor \in [Channel -> 1 .. NChannel] /\ NChannel \in Nat /\ NChannel # 0
      BY ConstantsOK DEF TypeOK, Assumptions
    <2>2. CASE cursor[c] < NChannel
      <3>1. cursor[c] + 1 \in 1 .. NChannel
        BY <2>1, <2>2
      <3> QED
        BY <2>1, <2>2, <3>1 DEF Advance
    <2>3. CASE ~ (cursor[c] < NChannel)
      BY <2>1, <2>3 DEF Advance
    <2> QED
      BY <2>2, <2>3
  <1> QED
    BY <1>1, <1>2

LEMMA RequestType ==
  ASSUME TypeOK, NEW c \in Channel, Request(c)
  PROVE  asked' \in [Channel -> Nat]
  <1>1. asked \in [Channel -> Nat] /\ asked[c] + 1 \in Nat
    BY DEF TypeOK
  <1>2. asked' = [asked EXCEPT ![c] = asked[c] + 1]
    BY DEF Request
  <1> QED
    BY ONLY <1>1, <1>2

LEMMA AddType ==
  ASSUME TypeOK, NEW c \in Channel, NEW added \in Seq(Listener), AddListeners(c, added)
  PROVE  listeners' \in [Channel -> Seq(Listener)]
  <1>1. listeners \in [Channel -> Seq(Listener)] /\ listeners[c] \in Seq(Listener)
    BY DEF TypeOK
  <1>2. listeners[c] \o added \in Seq(Listener)
    BY <1>1, ConcatProperties
  <1>3. listeners' = [listeners EXCEPT ![c] = listeners[c] \o added]
    BY DEF AddListeners
  <1> QED
    BY ONLY <1>1, <1>2, <1>3

LEMMA PopType ==
  ASSUME TypeOK, NEW c \in Channel, listeners[c] # << >>, PopListener(c)
  PROVE  listeners' \in [Channel -> Seq(Listener)]
  BY TailType DEF PopListener, TypeOK
-----------------------------------------------------------------------------
(* Type correctness.  TypeOK is not inductive: a push writes the vip of its     *)
(* channel, which is a vip only because the channel has one at every stage that *)
(* pushes.                                                                       *)
HasListener(q, k) == \E i \in 1 .. Len(q) : q[i] = k

Pushing == {"space", "insert", "attrs", "list", "sort", "clash", "online", "update",
            "offline"}

VipKnown(c) ==
    /\ at[c] \in Pushing => vip[c] \in Vip
    /\ c \in regist => vip[c] \in Vip
    /\ HasListener(listeners[c], "offline") => vip[c] \in Vip

TInv == TypeOK /\ \A c \in Channel : VipKnown(c)

LEMMA ConcatHas ==
  ASSUME NEW q \in Seq(Listener), NEW a \in Seq(Listener), NEW k
  PROVE  HasListener(q \o a, k) <=> HasListener(q, k) \/ HasListener(a, k)
  <1>1. /\ Len(q \o a) = Len(q) + Len(a)
        /\ \A i \in 1 .. Len(q) + Len(a) :
              (q \o a)[i] = IF i <= Len(q) THEN q[i] ELSE a[i - Len(q)]
    BY ConcatProperties
  <1>2. Len(q) \in Nat /\ Len(a) \in Nat
    OBVIOUS
  <1>3. ASSUME HasListener(q, k) PROVE HasListener(q \o a, k)
    BY <1>1, <1>2, <1>3 DEF HasListener
  <1>4. ASSUME HasListener(a, k) PROVE HasListener(q \o a, k)
    <2>1. PICK j \in 1 .. Len(a) : a[j] = k
      BY <1>4 DEF HasListener
    <2>2. (q \o a)[j + Len(q)] = k /\ j + Len(q) \in 1 .. Len(q) + Len(a)
      BY <1>1, <1>2, <2>1
    <2> QED
      BY <1>1, <2>2 DEF HasListener
  <1>5. ASSUME HasListener(q \o a, k) PROVE HasListener(q, k) \/ HasListener(a, k)
    <2>1. PICK i \in 1 .. Len(q) + Len(a) : (q \o a)[i] = k
      BY <1>1, <1>5 DEF HasListener
    <2>2. CASE i <= Len(q)
      BY <1>1, <1>2, <2>1, <2>2 DEF HasListener
    <2>3. CASE ~ (i <= Len(q))
      <3>1. i - Len(q) \in 1 .. Len(a) /\ a[i - Len(q)] = k
        BY <1>1, <1>2, <2>1, <2>3
      <3> QED
        BY <3>1 DEF HasListener
    <2> QED
      BY <2>2, <2>3
  <1> QED
    BY <1>3, <1>4, <1>5

LEMMA TailHas ==
  ASSUME NEW q \in Seq(Listener), q # << >>, NEW k, HasListener(Tail(q), k)
  PROVE  HasListener(q, k)
  <1>1. Len(Tail(q)) = Len(q) - 1 /\ Len(q) \in Nat /\ \A i \in 1 .. Len(q) - 1 : Tail(q)[i] = q[i + 1]
    BY HeadTailProperties
  <1>2. PICK i \in 1 .. Len(q) - 1 : Tail(q)[i] = k
    BY <1>1 DEF HasListener
  <1>3. q[i + 1] = k /\ i + 1 \in 1 .. Len(q)
    BY <1>1, <1>2
  <1> QED
    BY <1>3 DEF HasListener

LEMMA TypeConnect ==
  ASSUME TInv, NEW c \in Channel, Connect(c)
  PROVE  TInv'
  <1>1. <<"channel">> \in Seq(Listener) /\ ~ HasListener(<<"channel">>, "offline")
    BY DEF Listener, HasListener
  <1>2. listeners' \in [Channel -> Seq(Listener)]
    BY <1>1, AddType DEF Connect, TInv
  <1>3. HasListener(listeners[c] \o <<"channel">>, "offline") => HasListener(listeners[c], "offline")
    BY <1>1, ConcatHas DEF TInv, TypeOK
  <1>4. TypeOK'
    BY <1>1, <1>2, <1>3 DEF Connect, TInv, TypeOK, VipKnown, Closing, GoTo, Stage,
       directoryVars, loopVars, wireVars, heartVars
  <1>5. ASSUME NEW d \in Channel PROVE VipKnown(d)'
    BY <1>4, <1>1, <1>2, <1>3 DEF Connect, TInv, TypeOK, VipKnown, AddListeners,
       PopListener, Closing, GoTo, Advance, Pushing, directoryVars, loopVars, wireVars,
       heartVars
  <1> QED
    BY <1>4, <1>5 DEF TInv

LEMMA TypeRegistNoTenant ==
  ASSUME TInv, NEW c \in Channel, RegistNoTenant(c)
  PROVE  TInv'
  <1>1. asked' \in [Channel -> Nat]
    BY RequestType DEF RegistNoTenant, TInv
  <1>2. TypeOK'
    BY <1>1 DEF RegistNoTenant, TInv, TypeOK, VipKnown, Closing, GoTo, Stage,
       directoryVars, loopVars, wireVars, heartVars
  <1>3. ASSUME NEW d \in Channel PROVE VipKnown(d)'
    BY <1>2, <1>1 DEF RegistNoTenant, TInv, TypeOK, VipKnown, AddListeners, PopListener,
       Closing, GoTo, Advance, Pushing, directoryVars, loopVars, wireVars, heartVars
  <1> QED
    BY <1>2, <1>3 DEF TInv

LEMMA TypeRegistReject ==
  ASSUME TInv, NEW c \in Channel, RegistReject(c)
  PROVE  TInv'
  <1>1. asked' \in [Channel -> Nat]
    BY RequestType DEF RegistReject, TInv
  <1>2. <<"regist">> \in Seq(Listener) /\ ~ HasListener(<<"regist">>, "offline")
    BY DEF Listener, HasListener
  <1>3. listeners' \in [Channel -> Seq(Listener)]
    BY <1>2, AddType DEF RegistReject, TInv
  <1>4. HasListener(listeners[c] \o <<"regist">>, "offline") => HasListener(listeners[c], "offline")
    BY <1>2, ConcatHas DEF TInv, TypeOK
  <1>5. TypeOK'
    BY <1>1, <1>2, <1>3, <1>4 DEF RegistReject, TInv, TypeOK, VipKnown, Closing, GoTo,
       Stage, directoryVars, loopVars, wireVars, heartVars
  <1>6. ASSUME NEW d \in Channel PROVE VipKnown(d)'
    BY <1>5, <1>1, <1>2, <1>3, <1>4 DEF RegistReject, TInv, TypeOK, VipKnown,
       AddListeners, PopListener, Closing, GoTo, Advance, Pushing, directoryVars,
       loopVars, wireVars, heartVars
  <1> QED
    BY <1>5, <1>6 DEF TInv

LEMMA TypeRegistAssign ==
  ASSUME TInv, NEW c \in Channel, RegistAssign(c)
  PROVE  TInv'
  <1>1. asked' \in [Channel -> Nat]
    BY RequestType DEF RegistAssign, TInv
  <1>2. AssignListeners \in Seq(Listener) /\ ~ HasListener(AssignListeners, "offline")
    <2>1. <<"regist", "bind">> \in Seq(Listener) /\ <<"regist">> \in Seq(Listener)
      BY DEF Listener
    <2>2. ~ HasListener(<<"regist", "bind">>, "offline") /\ ~ HasListener(<<"regist">>, "offline")
      BY DEF HasListener
    <2> QED
      BY <2>1, <2>2, Zenon DEF AssignListeners
  <1>3. listeners' \in [Channel -> Seq(Listener)]
    BY <1>2, AddType DEF RegistAssign, TInv
  <1>4. HasListener(listeners[c] \o AssignListeners, "offline") => HasListener(listeners[c], "offline")
    BY <1>2, ConcatHas DEF TInv, TypeOK
  <1>5. PICK v \in Assignable(c) :
          /\ vip' = [vip EXCEPT ![c] = v]
          /\ overlap' = IF StillHeld(c, v) THEN overlap \cup {<<TenantOf[c], v>>} ELSE overlap
          /\ IF Exclusive
             THEN /\ bind' = [bind EXCEPT ![TenantOf[c]][v] = c]
                  /\ UNCHANGED nodeVip
             ELSE /\ nodeVip' = [nodeVip EXCEPT ![TenantOf[c]][MacOf[c]] = v]
                  /\ UNCHANGED bind
    BY DEF RegistAssign
  <1>6. TenantOf[c] \in Tenant /\ MacOf[c] \in Mac
    BY TenantAssumption, MacAssumption
  <1>7. v \in Vip
    BY <1>6 DEF Assignable, TInv, TypeOK
  <1>8. bind' \in [Tenant -> [Vip -> Channel \cup {NoChannel}]]
    <2>1. CASE bind' = [bind EXCEPT ![TenantOf[c]][v] = c]
      BY <1>6, <1>7, <2>1 DEF TInv, TypeOK
    <2>2. CASE UNCHANGED bind
      BY <2>2 DEF TInv, TypeOK
    <2> QED
      BY <1>5, <2>1, <2>2
  <1>9. nodeVip' \in [Tenant -> [Mac -> Vip \cup {NoVip}]]
    <2>1. CASE nodeVip' = [nodeVip EXCEPT ![TenantOf[c]][MacOf[c]] = v]
      BY <1>6, <1>7, <2>1 DEF TInv, TypeOK
    <2>2. CASE UNCHANGED nodeVip
      BY <2>2 DEF TInv, TypeOK
    <2> QED
      BY <1>5, <2>1, <2>2
  <1>10. overlap' \subseteq Tenant \X Vip /\ vip' \in [Channel -> Vip \cup {NoVip}]
    BY <1>5, <1>6, <1>7 DEF TInv, TypeOK
  <1>11. TypeOK'
    BY <1>1, <1>3, <1>8, <1>9, <1>10 DEF RegistAssign, TInv, TypeOK, GoTo, Stage,
       wireVars, heartVars
  <1>12. ASSUME NEW d \in Channel PROVE VipKnown(d)'
    <2>1. CASE d = c
      BY <2>1, <1>5, <1>7 DEF VipKnown, TInv, TypeOK
    <2>2. CASE d # c
      <3>1. vip'[d] = vip[d] /\ at'[d] = at[d] /\ listeners'[d] = listeners[d] /\ regist' = regist
        BY <2>2, <1>5 DEF RegistAssign, TInv, TypeOK, GoTo, AddListeners
      <3> QED
        BY <3>1 DEF VipKnown, TInv
    <2> QED
      BY <2>1, <2>2
  <1> QED
    BY <1>11, <1>12 DEF TInv

LEMMA TypeRegistAddChannel ==
  ASSUME TInv, NEW c \in Channel, RegistAddChannel(c)
  PROVE  TInv'
  <1>1. <<"space">> \in Seq(Listener) /\ ~ HasListener(<<"space">>, "offline")
    BY DEF Listener, HasListener
  <1>2. listeners' \in [Channel -> Seq(Listener)]
    BY <1>1, AddType DEF RegistAddChannel, TInv
  <1>3. HasListener(listeners[c] \o <<"space">>, "offline") => HasListener(listeners[c], "offline")
    BY <1>1, ConcatHas DEF TInv, TypeOK
  <1>4. TypeOK'
    BY <1>1, <1>2, <1>3 DEF RegistAddChannel, TInv, TypeOK, VipKnown, Closing, GoTo,
       Stage, directoryVars, loopVars, wireVars, heartVars
  <1>5. ASSUME NEW d \in Channel PROVE VipKnown(d)'
    BY <1>4, <1>1, <1>2, <1>3 DEF RegistAddChannel, TInv, TypeOK, VipKnown, AddListeners,
       PopListener, Closing, GoTo, Advance, Pushing, directoryVars, loopVars, wireVars,
       heartVars
  <1> QED
    BY <1>4, <1>5 DEF TInv

LEMMA TypeRegistInsert ==
  ASSUME TInv, NEW c \in Channel, RegistInsert(c)
  PROVE  TInv'
  <1>1. TypeOK'
    BY DEF RegistInsert, TInv, TypeOK, VipKnown, Closing, GoTo, Stage, directoryVars,
       loopVars, wireVars, heartVars
  <1>2. ASSUME NEW d \in Channel PROVE VipKnown(d)'
    BY <1>1 DEF RegistInsert, TInv, TypeOK, VipKnown, AddListeners, PopListener, Closing,
       GoTo, Advance, Pushing, directoryVars, loopVars, wireVars, heartVars
  <1> QED
    BY <1>1, <1>2 DEF TInv

LEMMA TypeRegistAgain ==
  ASSUME TInv, NEW c \in Channel, RegistAgain(c)
  PROVE  TInv'
  <1>1. asked' \in [Channel -> Nat]
    BY RequestType DEF RegistAgain, TInv
  <1>2. TypeOK'
    BY <1>1 DEF RegistAgain, TInv, TypeOK, VipKnown, Closing, GoTo, Stage, directoryVars,
       loopVars, wireVars, heartVars
  <1>3. ASSUME NEW d \in Channel PROVE VipKnown(d)'
    BY <1>2, <1>1 DEF RegistAgain, TInv, TypeOK, VipKnown, AddListeners, PopListener,
       Closing, GoTo, Advance, Pushing, directoryVars, loopVars, wireVars, heartVars
  <1> QED
    BY <1>2, <1>3 DEF TInv

LEMMA TypeRegistAttrs ==
  ASSUME TInv, NEW c \in Channel, RegistAttrs(c)
  PROVE  TInv'
  <1>1. TypeOK'
    BY AddrAssumption DEF RegistAttrs, TInv, TypeOK, VipKnown, Closing, GoTo, Stage,
       directoryVars, loopVars, wireVars, heartVars
  <1>2. ASSUME NEW d \in Channel PROVE VipKnown(d)'
    BY <1>1 DEF RegistAttrs, TInv, TypeOK, VipKnown, AddListeners, PopListener, Closing,
       GoTo, Advance, Pushing, directoryVars, loopVars, wireVars, heartVars
  <1> QED
    BY <1>1, <1>2 DEF TInv

LEMMA TypeRegistList ==
  ASSUME TInv, NEW c \in Channel, RegistList(c)
  PROVE  TInv'
  <1>1. cursor' \in [Channel -> Channel] /\ at' \in [Channel -> Stage]
    BY AdvanceType DEF RegistList, TInv, Stage
  <1>2. TypeOK'
    BY <1>1 DEF RegistList, TInv, TypeOK, VipKnown, Closing, GoTo, Stage, directoryVars,
       loopVars, wireVars, heartVars
  <1>3. ASSUME NEW d \in Channel PROVE VipKnown(d)'
    BY <1>2, <1>1 DEF RegistList, TInv, TypeOK, VipKnown, AddListeners, PopListener,
       Closing, GoTo, Advance, Pushing, directoryVars, loopVars, wireVars, heartVars
  <1> QED
    BY <1>2, <1>3 DEF TInv

LEMMA TypeRegistSort ==
  ASSUME TInv, NEW c \in Channel, RegistSort(c)
  PROVE  TInv'
  <1>1. at' \in [Channel -> Stage]
    BY DEF RegistSort, TInv, TypeOK, Stage
  <1>2. TypeOK'
    BY <1>1 DEF RegistSort, TInv, TypeOK, directoryVars, loopVars, wireVars, heartVars
  <1>3. ASSUME NEW d \in Channel PROVE VipKnown(d)'
    BY <1>2 DEF RegistSort, TInv, TypeOK, VipKnown, Pushing, directoryVars, loopVars,
       wireVars, heartVars
  <1> QED
    BY <1>2, <1>3 DEF TInv

LEMMA TypeRegistFail ==
  ASSUME TInv, NEW c \in Channel, RegistFail(c)
  PROVE  TInv'
  <1>1. at' \in [Channel -> Stage]
    BY DEF RegistFail, GoTo, TInv, TypeOK, Stage
  <1>2. view' \in [Channel -> [Vip -> Addr \cup {Absent}]]
    BY DEF RegistFail, TInv, TypeOK
  <1>3. TypeOK'
    BY <1>1, <1>2 DEF RegistFail, TInv, TypeOK, heartVars
  <1>4. ASSUME NEW d \in Channel PROVE VipKnown(d)'
    BY <1>3 DEF RegistFail, TInv, TypeOK, VipKnown, GoTo, Pushing, heartVars
  <1> QED
    BY <1>3, <1>4 DEF TInv

LEMMA TypeRegistOnline ==
  ASSUME TInv, NEW c \in Channel, RegistOnline(c)
  PROVE  TInv'
  <1>1. <<"offline">> \in Seq(Listener)
    BY DEF Listener
  <1>2. listeners' \in [Channel -> Seq(Listener)]
    BY <1>1, AddType DEF RegistOnline, TInv, TypeOK
  <1>3. cursor' \in [Channel -> Channel] /\ at' \in [Channel -> Stage]
    BY AdvanceType DEF RegistOnline, TInv, Stage
  <1>4. vip[c] \in Vip
    BY DEF RegistOnline, TInv, VipKnown, Pushing
  <1>5. tasks' \in [Channel -> Seq(NodeInfo)] /\ view' \in [Channel -> [Vip -> Addr \cup {Absent}]]
    BY <1>4, PushType DEF RegistOnline, TInv, TypeOK
  <1>6. TypeOK'
    BY <1>1, <1>2, <1>3, <1>4, <1>5 DEF RegistOnline, TInv, TypeOK, VipKnown, Closing,
       GoTo, Stage, directoryVars, loopVars, wireVars, heartVars
  <1>7. ASSUME NEW d \in Channel PROVE VipKnown(d)'
    BY <1>6, <1>1, <1>2, <1>3, <1>4, <1>5 DEF RegistOnline, TInv, TypeOK, VipKnown,
       AddListeners, PopListener, Closing, GoTo, Advance, Pushing, directoryVars,
       loopVars, wireVars, heartVars
  <1> QED
    BY <1>6, <1>7 DEF TInv

LEMMA TypeUpdateNodeInfo ==
  ASSUME TInv, NEW c \in Channel, UpdateNodeInfo(c)
  PROVE  TInv'
  <1>1. asked' \in [Channel -> Nat]
    BY RequestType DEF UpdateNodeInfo, TInv
  <1>2. TypeOK'
    BY <1>1 DEF UpdateNodeInfo, TInv, TypeOK, VipKnown, Closing, GoTo, Stage,
       directoryVars, loopVars, wireVars, heartVars
  <1>3. ASSUME NEW d \in Channel PROVE VipKnown(d)'
    BY <1>2, <1>1 DEF UpdateNodeInfo, TInv, TypeOK, VipKnown, AddListeners, PopListener,
       Closing, GoTo, Advance, Pushing, directoryVars, loopVars, wireVars, heartVars
  <1> QED
    BY <1>2, <1>3 DEF TInv

LEMMA TypeUpdatePush ==
  ASSUME TInv, NEW c \in Channel, UpdatePush(c)
  PROVE  TInv'
  <1>1. cursor' \in [Channel -> Channel] /\ at' \in [Channel -> Stage]
    BY AdvanceType DEF UpdatePush, TInv, Stage
  <1>2. vip[c] \in Vip
    BY DEF UpdatePush, TInv, VipKnown, Pushing
  <1>3. tasks' \in [Channel -> Seq(NodeInfo)] /\ view' \in [Channel -> [Vip -> Addr \cup {Absent}]]
    BY <1>2, PushType DEF UpdatePush, TInv, TypeOK
  <1>4. TypeOK'
    BY <1>1, <1>2, <1>3 DEF UpdatePush, TInv, TypeOK, VipKnown, Closing, GoTo, Stage,
       directoryVars, loopVars, wireVars, heartVars
  <1>5. ASSUME NEW d \in Channel PROVE VipKnown(d)'
    BY <1>4, <1>1, <1>2, <1>3 DEF UpdatePush, TInv, TypeOK, VipKnown, AddListeners,
       PopListener, Closing, GoTo, Advance, Pushing, directoryVars, loopVars, wireVars,
       heartVars
  <1> QED
    BY <1>4, <1>5 DEF TInv

LEMMA TypeRunTask ==
  ASSUME TInv, NEW c \in Channel, RunTask(c)
  PROVE  TInv'
  <1>1. tasks' \in [Channel -> Seq(NodeInfo)] /\ Head(tasks[c]) \in NodeInfo
    BY TailType DEF RunTask, TInv, TypeOK
  <1>2. view' \in [Channel -> [Vip -> Addr \cup {Absent}]]
    BY <1>1 DEF RunTask, TInv, TypeOK, NodeInfo
  <1>3. TypeOK'
    BY <1>1, <1>2 DEF RunTask, TInv, TypeOK, VipKnown, Closing, GoTo, Stage,
       directoryVars, loopVars, wireVars, heartVars
  <1>4. ASSUME NEW d \in Channel PROVE VipKnown(d)'
    BY <1>3, <1>1, <1>2 DEF RunTask, TInv, TypeOK, VipKnown, AddListeners, PopListener,
       Closing, GoTo, Advance, Pushing, directoryVars, loopVars, wireVars, heartVars
  <1> QED
    BY <1>3, <1>4 DEF TInv

LEMMA TypeDisconnect ==
  ASSUME TInv, NEW c \in Channel, Disconnect(c)
  PROVE  TInv'
  <1>1. TypeOK'
    BY DEF Disconnect, TInv, TypeOK, VipKnown, Closing, GoTo, Stage, directoryVars,
       loopVars, wireVars, heartVars
  <1>2. ASSUME NEW d \in Channel PROVE VipKnown(d)'
    BY <1>1 DEF Disconnect, TInv, TypeOK, VipKnown, AddListeners, PopListener, Closing,
       GoTo, Advance, Pushing, directoryVars, loopVars, wireVars, heartVars
  <1> QED
    BY <1>1, <1>2 DEF TInv

LEMMA TypeClose ==
  ASSUME TInv, NEW c \in Channel, Close(c)
  PROVE  TInv'
  <1>1. TypeOK'
    BY DEF Close, TInv, TypeOK, VipKnown, Closing, GoTo, Stage, directoryVars, loopVars,
       wireVars, heartVars
  <1>2. ASSUME NEW d \in Channel PROVE VipKnown(d)'
    BY <1>1 DEF Close, TInv, TypeOK, VipKnown, AddListeners, PopListener, Closing, GoTo,
       Advance, Pushing, directoryVars, loopVars, wireVars, heartVars
  <1> QED
    BY <1>1, <1>2 DEF TInv

LEMMA TypeCloseChannelMap ==
  ASSUME TInv, NEW c \in Channel, CloseChannelMap(c)
  PROVE  TInv'
  <1>1. listeners' \in [Channel -> Seq(Listener)]
    BY PopType DEF CloseChannelMap, Closing, TInv
  <1>2. HasListener(Tail(listeners[c]), "offline") => HasListener(listeners[c], "offline")
    BY TailHas DEF CloseChannelMap, Closing, TInv, TypeOK
  <1>3. TypeOK'
    BY <1>1, <1>2 DEF CloseChannelMap, TInv, TypeOK, VipKnown, Closing, GoTo, Stage,
       directoryVars, loopVars, wireVars, heartVars
  <1>4. ASSUME NEW d \in Channel PROVE VipKnown(d)'
    BY <1>3, <1>1, <1>2 DEF CloseChannelMap, TInv, TypeOK, VipKnown, AddListeners,
       PopListener, Closing, GoTo, Advance, Pushing, directoryVars, loopVars, wireVars,
       heartVars
  <1> QED
    BY <1>3, <1>4 DEF TInv

LEMMA TypeCloseRegist ==
  ASSUME TInv, NEW c \in Channel, CloseRegist(c)
  PROVE  TInv'
  <1>1. listeners' \in [Channel -> Seq(Listener)]
    BY PopType DEF CloseRegist, Closing, TInv
  <1>2. HasListener(Tail(listeners[c]), "offline") => HasListener(listeners[c], "offline")
    BY TailHas DEF CloseRegist, Closing, TInv, TypeOK
  <1>3. TypeOK'
    BY <1>1, <1>2 DEF CloseRegist, TInv, TypeOK, VipKnown, Closing, GoTo, Stage,
       directoryVars, loopVars, wireVars, heartVars
  <1>4. ASSUME NEW d \in Channel PROVE VipKnown(d)'
    BY <1>3, <1>1, <1>2 DEF CloseRegist, TInv, TypeOK, VipKnown, AddListeners,
       PopListener, Closing, GoTo, Advance, Pushing, directoryVars, loopVars, wireVars,
       heartVars
  <1> QED
    BY <1>3, <1>4 DEF TInv

LEMMA TypeCloseBind ==
  ASSUME TInv, NEW c \in Channel, CloseBind(c)
  PROVE  TInv'
  <1>1. listeners' \in [Channel -> Seq(Listener)]
    BY PopType DEF CloseBind, Closing, TInv
  <1>2. HasListener(Tail(listeners[c]), "offline") => HasListener(listeners[c], "offline")
    BY TailHas DEF CloseBind, Closing, TInv, TypeOK
  <1>3. TypeOK'
    BY <1>1, <1>2 DEF CloseBind, TInv, TypeOK, VipKnown, Closing, GoTo, Stage,
       directoryVars, loopVars, wireVars, heartVars
  <1>4. ASSUME NEW d \in Channel PROVE VipKnown(d)'
    BY <1>3, <1>1, <1>2 DEF CloseBind, TInv, TypeOK, VipKnown, AddListeners, PopListener,
       Closing, GoTo, Advance, Pushing, directoryVars, loopVars, wireVars, heartVars
  <1> QED
    BY <1>3, <1>4 DEF TInv

LEMMA TypeCloseSpace ==
  ASSUME TInv, NEW c \in Channel, CloseSpace(c)
  PROVE  TInv'
  <1>1. listeners' \in [Channel -> Seq(Listener)]
    BY PopType DEF CloseSpace, Closing, TInv
  <1>2. HasListener(Tail(listeners[c]), "offline") => HasListener(listeners[c], "offline")
    BY TailHas DEF CloseSpace, Closing, TInv, TypeOK
  <1>3. TypeOK'
    BY <1>1, <1>2 DEF CloseSpace, TInv, TypeOK, VipKnown, Closing, GoTo, Stage,
       directoryVars, loopVars, wireVars, heartVars
  <1>4. ASSUME NEW d \in Channel PROVE VipKnown(d)'
    BY <1>3, <1>1, <1>2 DEF CloseSpace, TInv, TypeOK, VipKnown, AddListeners, PopListener,
       Closing, GoTo, Advance, Pushing, directoryVars, loopVars, wireVars, heartVars
  <1> QED
    BY <1>3, <1>4 DEF TInv

LEMMA TypeCloseOffline ==
  ASSUME TInv, NEW c \in Channel, CloseOffline(c)
  PROVE  TInv'
  <1>1. listeners' \in [Channel -> Seq(Listener)]
    BY PopType DEF CloseOffline, Closing, TInv
  <1>2. vip[c] \in Vip
    <2>1. HasListener(listeners[c], "offline")
      <3>1. listeners[c] \in Seq(Listener) /\ listeners[c] # << >> /\ listeners[c][1] = "offline"
        BY DEF CloseOffline, Closing, TInv, TypeOK
      <3> QED
        BY <3>1 DEF HasListener
    <2> QED
      BY <2>1 DEF TInv, VipKnown
  <1>3. TypeOK'
    BY <1>1 DEF CloseOffline, TInv, TypeOK, GoTo, Stage, directoryVars, wireVars, heartVars
  <1>4. ASSUME NEW d \in Channel PROVE VipKnown(d)'
    <2>1. CASE d = c
      BY <2>1, <1>2 DEF CloseOffline, VipKnown, directoryVars
    <2>2. CASE d # c
      BY <2>2 DEF CloseOffline, VipKnown, TInv, TypeOK, GoTo, PopListener, directoryVars
    <2> QED
      BY <2>1, <2>2
  <1> QED
    BY <1>3, <1>4 DEF TInv

LEMMA TypeOfflinePush ==
  ASSUME TInv, NEW c \in Channel, OfflinePush(c)
  PROVE  TInv'
  <1>1. cursor' \in [Channel -> Channel] /\ at' \in [Channel -> Stage]
    BY AdvanceType DEF OfflinePush, TInv, Stage
  <1>2. vip[c] \in Vip
    BY DEF OfflinePush, TInv, VipKnown, Pushing
  <1>3. tasks' \in [Channel -> Seq(NodeInfo)] /\ view' \in [Channel -> [Vip -> Addr \cup {Absent}]]
    BY <1>2, PushType DEF OfflinePush, TInv, TypeOK
  <1>4. TypeOK'
    BY <1>1, <1>2, <1>3 DEF OfflinePush, TInv, TypeOK, VipKnown, Closing, GoTo, Stage,
       directoryVars, loopVars, wireVars, heartVars
  <1>5. ASSUME NEW d \in Channel PROVE VipKnown(d)'
    BY <1>4, <1>1, <1>2, <1>3 DEF OfflinePush, TInv, TypeOK, VipKnown, AddListeners,
       PopListener, Closing, GoTo, Advance, Pushing, directoryVars, loopVars, wireVars,
       heartVars
  <1> QED
    BY <1>4, <1>5 DEF TInv

LEMMA TypeClosed ==
  ASSUME TInv, NEW c \in Channel, Closed(c)
  PROVE  TInv'
  <1>1. TypeOK'
    BY DEF Closed, TInv, TypeOK, VipKnown, Closing, GoTo, Stage, directoryVars, loopVars,
       wireVars, heartVars
  <1>2. ASSUME NEW d \in Channel PROVE VipKnown(d)'
    BY <1>1 DEF Closed, TInv, TypeOK, VipKnown, AddListeners, PopListener, Closing, GoTo,
       Advance, Pushing, directoryVars, loopVars, wireVars, heartVars
  <1> QED
    BY <1>1, <1>2 DEF TInv

LEMMA TypeHeartTimeout ==
  ASSUME TInv, NEW c \in Channel, HeartTimeout(c)
  PROVE  TInv'
  <1>1. TypeOK'
    BY DEF HeartTimeout, TInv, TypeOK, VipKnown, Closing, GoTo, Stage, directoryVars,
       loopVars, wireVars, heartVars
  <1>2. ASSUME NEW d \in Channel PROVE VipKnown(d)'
    BY <1>1 DEF HeartTimeout, TInv, TypeOK, VipKnown, AddListeners, PopListener, Closing,
       GoTo, Advance, Pushing, directoryVars, loopVars, wireVars, heartVars
  <1> QED
    BY <1>1, <1>2 DEF TInv

LEMMA TypeHeart ==
  ASSUME TInv, NEW c \in Channel, Heart(c)
  PROVE  TInv'
  <1>1. TypeOK'
    BY DEF Heart, TInv, TypeOK, VipKnown, Closing, GoTo, Stage, directoryVars, loopVars,
       wireVars, heartVars
  <1>2. ASSUME NEW d \in Channel PROVE VipKnown(d)'
    BY <1>1 DEF Heart, TInv, TypeOK, VipKnown, AddListeners, PopListener, Closing, GoTo,
       Advance, Pushing, directoryVars, loopVars, wireVars, heartVars
  <1> QED
    BY <1>1, <1>2 DEF TInv

LEMMA TypeSweep ==
  ASSUME TInv, NEW c \in Channel, Sweep(c)
  PROVE  TInv'
  <1>1. TypeOK'
    BY DEF Sweep, TInv, TypeOK, VipKnown, Closing, GoTo, Stage, directoryVars, loopVars,
       wireVars, heartVars
  <1>2. ASSUME NEW d \in Channel PROVE VipKnown(d)'
    BY <1>1 DEF Sweep, TInv, TypeOK, VipKnown, AddListeners, PopListener, Closing, GoTo,
       Advance, Pushing, directoryVars, loopVars, wireVars, heartVars
  <1> QED
    BY <1>1, <1>2 DEF TInv

LEMMA TypeOfflineChannel ==
  ASSUME TInv, NEW t \in Tenant, NEW v \in Vip, OfflineChannel(t, v)
  PROVE  TInv'
  <1>1. TypeOK'
    BY DEF OfflineChannel, TInv, TypeOK, directoryVars, loopVars, wireVars
  <1>2. ASSUME NEW d \in Channel PROVE VipKnown(d)'
    BY DEF OfflineChannel, TInv, VipKnown, directoryVars, loopVars
  <1> QED
    BY <1>1, <1>2 DEF TInv

LEMMA TInvInit == Init => TInv
  <1> SUFFICES ASSUME Init PROVE TInv
    OBVIOUS
  <1>1. TypeOK
    BY ConstantsOK DEF Assumptions, Init, TypeOK, Stage, Listener
  <1>2. ASSUME NEW c \in Channel PROVE VipKnown(c)
    BY DEF Init, VipKnown, Pushing, HasListener
  <1> QED
    BY <1>1, <1>2 DEF TInv

LEMMA TInvStep == TInv /\ [Next]_vars => TInv'
  <1> SUFFICES ASSUME TInv, [Next]_vars PROVE TInv'
    OBVIOUS
  <1>1. ASSUME NEW c \in Channel, ClientStep(c) PROVE TInv'
    BY <1>1, TypeConnect, TypeRegistNoTenant, TypeRegistReject, TypeRegistAssign,
       TypeRegistAgain, TypeUpdateNodeInfo, TypeDisconnect, TypeHeart DEF ClientStep
  <1>2. ASSUME NEW c \in Channel, LoopStep(c) PROVE TInv'
    BY <1>2, TypeRegistAddChannel, TypeRegistInsert, TypeRegistAttrs, TypeRegistList,
       TypeRegistSort, TypeRegistFail, TypeRegistOnline, TypeUpdatePush, TypeRunTask, TypeClose, TypeCloseChannelMap,
       TypeCloseRegist, TypeCloseBind, TypeCloseSpace, TypeCloseOffline, TypeOfflinePush,
       TypeClosed DEF LoopStep
  <1>3. ASSUME NEW c \in Channel, HeartTimeout(c) \/ Sweep(c) PROVE TInv'
    BY <1>3, TypeHeartTimeout, TypeSweep
  <1>4. ASSUME NEW t \in Tenant, NEW v \in Vip, OfflineChannel(t, v) PROVE TInv'
    BY <1>4, TypeOfflineChannel
  <1>5. CASE UNCHANGED vars
    BY <1>5 DEF TInv, TypeOK, VipKnown, vars, directoryVars, loopVars, wireVars, heartVars
  <1> QED
    BY <1>1, <1>2, <1>3, <1>4, <1>5 DEF Next

(* Every reachable state of the controller is of the declared types, whatever   *)
(* the number of connections and whichever data service it runs on.              *)
THEOREM TypeCorrect == Spec => []TypeOK
  <1>1. TInv => TypeOK
    BY DEF TInv
  <1> QED
    BY <1>1, TInvInit, TInvStep, PTL DEF Spec
-----------------------------------------------------------------------------
(* Routes.  A channel found under a vip still has the listener that will remove *)
(* it, so that the last of its listeners leaves no trace of it; and only another *)
(* channel with its vip, closing late, can remove a channel from under its vip.   *)

(* What the stages of a channel say of its registration. *)
Progress(c) ==
    /\ at[c] \in {"new", "idle"} /\ c \notin regist => vip[c] = NoVip
    /\ at[c] \in {"attrs", "list", "sort", "clash", "online", "update"} => c \in regist
    /\ c \in regist \/ at[c] \in {"space", "insert"} => HasListener(listeners[c], "regist")
    /\ at[c] = "closed" => listeners[c] = << >>

(* Whoever is found under v in t was put there and has not removed it yet. *)
Removable(c) ==
    \A t \in Tenant, v \in Vip :
        space[t][v] = c => /\ TenantOf[c] = t /\ vip[c] = v
                           /\ HasListener(listeners[c], "space")

(* Two channels that hold a vip of a tenant make it a vip of overlap. *)
Recorded(c, d) ==
    TenantOf[c] = TenantOf[d] /\ vip[c] = vip[d] /\ vip[c] # NoVip
        => at[c] = "closed" \/ at[d] = "closed" \/ <<TenantOf[c], vip[c]>> \in overlap

(* From addChannel on until it closes, a channel is found under its vip. *)
Placed(c) == at[c] = "insert" \/ (c \in regist /\ at[c] \notin {"closing", "offline"})

Found(c) ==
    Placed(c) /\ <<TenantOf[c], vip[c]>> \notin overlap
        => space[TenantOf[c]][vip[c]] = c

RInv ==
    /\ TInv
    /\ \A c \in Channel : Progress(c) /\ Removable(c) /\ Found(c)
    /\ \A c, d \in Channel : c # d => Recorded(c, d)

LEMMA RInvImplies == RInv => Routable /\ NoStaleRoute
  <1> SUFFICES ASSUME RInv PROVE Routable /\ NoStaleRoute
    OBVIOUS
  <1>1. Routable
    BY DEF Routable, RInv, Found, Placed, TInv, TypeOK
  <1>2. ASSUME NEW t \in Tenant, NEW v \in Vip, space[t][v] # NoChannel
        PROVE  at[space[t][v]] # "closed" /\ TenantOf[space[t][v]] = t /\ vip[space[t][v]] = v
    <2>1. space[t][v] \in Channel
      BY <1>2 DEF RInv, TInv, TypeOK
    <2>2. PICK c \in Channel : c = space[t][v]
      BY <2>1
    <2>3. /\ TenantOf[c] = t /\ vip[c] = v /\ HasListener(listeners[c], "space")
          /\ at[c] = "closed" => listeners[c] = << >>
      BY <2>2 DEF RInv, Removable, Progress
    <2>4. ~ HasListener(<< >>, "space")
      BY DEF HasListener
    <2> QED
      BY <2>2, <2>3, <2>4
  <1> QED
    BY <1>1, <1>2 DEF NoStaleRoute

LEMMA TailKeeps ==
  ASSUME NEW q \in Seq(Listener), q # << >>, NEW k, HasListener(q, k), Head(q) # k
  PROVE  HasListener(Tail(q), k)
  <1>1. /\ Len(Tail(q)) = Len(q) - 1 /\ Len(q) \in Nat \ {0} /\ Head(q) = q[1]
        /\ \A i \in 1 .. Len(q) - 1 : Tail(q)[i] = q[i + 1]
    BY HeadTailProperties, EmptySeq
  <1>2. PICK i \in 1 .. Len(q) : q[i] = k
    BY DEF HasListener
  <1>3. i # 1 /\ i \in Nat /\ i <= Len(q) /\ i >= 1
    BY <1>1, <1>2
  <1>4. i - 1 \in 1 .. Len(q) - 1
    BY <1>1, <1>3
  <1>5. Tail(q)[i - 1] = k
    BY <1>1, <1>2, <1>3, <1>4
  <1> QED
    BY <1>1, <1>4, <1>5 DEF HasListener

(* What does not move a channel, a listener or an entry leaves the routes alone. *)
LEMMA RouteStutter ==
  ASSUME RInv, TInv', UNCHANGED <<at, listeners, regist, space, vip, overlap>>
  PROVE  RInv'
  BY DEF RInv, Progress, Removable, Recorded, Found, Placed

(* A step of the loop of c that touches no map of the directory. *)
LEMMA RouteFrame ==
  ASSUME RInv, TInv', NEW c \in Channel, UNCHANGED <<regist, space, vip, overlap>>,
         \A d \in Channel \ {c} : at'[d] = at[d] /\ listeners'[d] = listeners[d],
         Progress(c)',
         HasListener(listeners[c], "space") => HasListener(listeners'[c], "space"),
         at[c] = "closed" => at'[c] = "closed",
         Placed(c)' => Placed(c)
  PROVE  RInv'
  <1>1. ASSUME NEW d \in Channel PROVE Progress(d)' /\ Removable(d)' /\ Found(d)'
    <2>1. CASE d = c
      BY <2>1 DEF RInv, Removable, Found
    <2>2. CASE d # c
      BY <2>2 DEF RInv, Progress, Removable, Found, Placed
    <2> QED
      BY <2>1, <2>2
  <1>2. ASSUME NEW d \in Channel, NEW e \in Channel, d # e PROVE Recorded(d, e)'
    <2>1. Recorded(d, e)
      BY <1>2 DEF RInv
    <2>2. (at[d] = "closed" => at'[d] = "closed") /\ (at[e] = "closed" => at'[e] = "closed")
      OBVIOUS
    <2> QED
      BY <2>1, <2>2 DEF Recorded
  <1> QED
    BY <1>1, <1>2 DEF RInv

(* The loop of c goes on to another stage, or stays where it is. *)
LEMMA RouteMove ==
  ASSUME RInv, TInv', NEW c \in Channel, NEW s \in Stage, at' = [at EXCEPT ![c] = s],
         UNCHANGED <<listeners, regist, space, vip, overlap>>,
         Progress(c)', at[c] = "closed" => s = "closed", Placed(c)' => Placed(c)
  PROVE  RInv'
  <1>1. at \in [Channel -> Stage]
    BY DEF RInv, TInv, TypeOK
  <1>2. at'[c] = s /\ \A d \in Channel \ {c} : at'[d] = at[d]
    BY <1>1
  <1> QED
    BY <1>2, RouteFrame

(* Listeners are added at the end of the queue of c. *)
LEMMA AddedListeners ==
  ASSUME TInv, NEW c \in Channel, NEW added \in Seq(Listener), AddListeners(c, added)
  PROVE  /\ \A d \in Channel \ {c} : listeners'[d] = listeners[d]
         /\ \A k \in Listener : HasListener(listeners'[c], k) <=>
                                  HasListener(listeners[c], k) \/ HasListener(added, k)
  <1>1. listeners \in [Channel -> Seq(Listener)] /\ listeners' = [listeners EXCEPT ![c] = @ \o added]
    BY DEF TInv, TypeOK, AddListeners
  <1>2. listeners'[c] = listeners[c] \o added /\ \A d \in Channel \ {c} : listeners'[d] = listeners[d]
    BY <1>1
  <1> QED
    BY <1>1, <1>2, ConcatHas

(* The listener that runs leaves the queue of c, and only it. *)
LEMMA PoppedListener ==
  ASSUME TInv, NEW c \in Channel, NEW k \in Listener, Closing(c, k), PopListener(c)
  PROVE  /\ \A d \in Channel \ {c} : listeners'[d] = listeners[d]
         /\ \A other \in Listener \ {k} :
               HasListener(listeners[c], other) => HasListener(listeners'[c], other)
  <1>1. /\ listeners \in [Channel -> Seq(Listener)] /\ listeners' = [listeners EXCEPT ![c] = Tail(@)]
        /\ listeners[c] # << >> /\ Head(listeners[c]) = k
    BY DEF TInv, TypeOK, PopListener, Closing
  <1>2. listeners'[c] = Tail(listeners[c]) /\ \A d \in Channel \ {c} : listeners'[d] = listeners[d]
    BY <1>1
  <1> QED
    BY <1>1, <1>2, TailKeeps

LEMMA RouteConnect ==
  ASSUME RInv, TInv', NEW c \in Channel, Connect(c)
  PROVE  RInv'
  <1>1. TypeOK /\ Progress(c) /\ TInv
    BY DEF RInv, TInv
  <1>2. <<"channel">> \in Seq(Listener) /\ "space" \in Listener /\ "regist" \in Listener
    BY DEF Listener
  <1>3. /\ \A d \in Channel \ {c} : listeners'[d] = listeners[d]
        /\ HasListener(listeners[c], "space") => HasListener(listeners'[c], "space")
        /\ HasListener(listeners[c], "regist") => HasListener(listeners'[c], "regist")
    BY <1>1, <1>2, AddedListeners DEF Connect
  <1>4. at[c] = "new" /\ at'[c] = "idle" /\ \A d \in Channel \ {c} : at'[d] = at[d]
    BY <1>1 DEF Connect, GoTo, TypeOK
  <1>5. UNCHANGED <<regist, space, vip, overlap>>
    BY DEF Connect, directoryVars
  <1>6. Progress(c)' /\ (Placed(c)' => Placed(c))
    BY <1>1, <1>3, <1>4, <1>5 DEF Progress, Placed
  <1> QED
    BY <1>3, <1>4, <1>5, <1>6, RouteFrame

LEMMA RouteRegistReject ==
  ASSUME RInv, TInv', NEW c \in Channel, RegistReject(c)
  PROVE  RInv'
  <1>1. TypeOK /\ Progress(c) /\ TInv
    BY DEF RInv, TInv
  <1>2. <<"regist">> \in Seq(Listener) /\ "space" \in Listener /\ "regist" \in Listener
    BY DEF Listener
  <1>3. /\ \A d \in Channel \ {c} : listeners'[d] = listeners[d]
        /\ HasListener(listeners[c], "space") => HasListener(listeners'[c], "space")
        /\ HasListener(listeners[c], "regist") => HasListener(listeners'[c], "regist")
    BY <1>1, <1>2, AddedListeners DEF RegistReject
  <1>4. at[c] = "idle" /\ UNCHANGED at
    BY DEF RegistReject, Request
  <1>5. UNCHANGED <<regist, space, vip, overlap>>
    BY DEF RegistReject, directoryVars
  <1>6. Progress(c)' /\ (Placed(c)' => Placed(c))
    BY <1>1, <1>3, <1>4, <1>5 DEF Progress, Placed
  <1> QED
    BY <1>3, <1>4, <1>5, <1>6, RouteFrame

(* The bins of an iteration leave the loop where it is or end it. *)
LEMMA AdvanceStage ==
  ASSUME TypeOK, NEW c \in Channel, NEW next \in Stage, Advance(c, next)
  PROVE  /\ at'[c] = at[c] \/ at'[c] = next
         /\ \A d \in Channel \ {c} : at'[d] = at[d]
  BY DEF Advance, GoTo, TypeOK

LEMMA RouteRegistOnline ==
  ASSUME RInv, TInv', NEW c \in Channel, RegistOnline(c)
  PROVE  RInv'
  <1>1. TypeOK /\ Progress(c) /\ TInv
    BY DEF RInv, TInv
  <1>2. <<"offline">> \in Seq(Listener) /\ "space" \in Listener /\ "regist" \in Listener
    BY DEF Listener
  <1>3. /\ \A d \in Channel \ {c} : listeners'[d] = listeners[d]
        /\ HasListener(listeners[c], "space") => HasListener(listeners'[c], "space")
        /\ HasListener(listeners[c], "regist") => HasListener(listeners'[c], "regist")
    <2>1. CASE AddListeners(c, <<"offline">>)
      BY <1>1, <1>2, <2>1, AddedListeners
    <2>2. CASE UNCHANGED listeners
      BY <2>2
    <2> QED
      BY <2>1, <2>2 DEF RegistOnline
  <1>4. /\ at[c] = "online" /\ (at'[c] = at[c] \/ at'[c] = "idle")
        /\ \A d \in Channel \ {c} : at'[d] = at[d]
    BY <1>1, AdvanceStage DEF RegistOnline, Stage
  <1>5. UNCHANGED <<regist, space, vip, overlap>>
    BY DEF RegistOnline, directoryVars
  <1>6. Progress(c)' /\ (Placed(c)' => Placed(c))
    BY <1>1, <1>3, <1>4, <1>5 DEF Progress, Placed
  <1> QED
    BY <1>3, <1>4, <1>5, <1>6, RouteFrame

LEMMA RouteCloseChannelMap ==
  ASSUME RInv, TInv', NEW c \in Channel, CloseChannelMap(c)
  PROVE  RInv'
  <1>1. TypeOK /\ Progress(c) /\ TInv
    BY DEF RInv, TInv
  <1>2. "channel" \in Listener /\ "space" \in Listener \ {"channel"} /\ "regist" \in Listener \ {"channel"}
    BY DEF Listener
  <1>3. /\ \A d \in Channel \ {c} : listeners'[d] = listeners[d]
        /\ HasListener(listeners[c], "space") => HasListener(listeners'[c], "space")
        /\ HasListener(listeners[c], "regist") => HasListener(listeners'[c], "regist")
    BY <1>1, <1>2, PoppedListener DEF CloseChannelMap
  <1>4. at[c] = "closing" /\ UNCHANGED at
    BY DEF CloseChannelMap, Closing
  <1>5. UNCHANGED <<regist, space, vip, overlap>>
    BY DEF CloseChannelMap, directoryVars
  <1>6. Progress(c)' /\ (Placed(c)' => Placed(c))
    BY <1>1, <1>3, <1>4, <1>5 DEF Progress, Placed
  <1> QED
    BY <1>3, <1>4, <1>5, <1>6, RouteFrame

LEMMA RouteCloseBind ==
  ASSUME RInv, TInv', NEW c \in Channel, CloseBind(c)
  PROVE  RInv'
  <1>1. TypeOK /\ Progress(c) /\ TInv
    BY DEF RInv, TInv
  <1>2. "bind" \in Listener /\ "space" \in Listener \ {"bind"} /\ "regist" \in Listener \ {"bind"}
    BY DEF Listener
  <1>3. /\ \A d \in Channel \ {c} : listeners'[d] = listeners[d]
        /\ HasListener(listeners[c], "space") => HasListener(listeners'[c], "space")
        /\ HasListener(listeners[c], "regist") => HasListener(listeners'[c], "regist")
    BY <1>1, <1>2, PoppedListener DEF CloseBind
  <1>4. at[c] = "closing" /\ UNCHANGED at
    BY DEF CloseBind, Closing
  <1>5. UNCHANGED <<regist, space, vip, overlap>>
    BY DEF CloseBind
  <1>6. Progress(c)' /\ (Placed(c)' => Placed(c))
    BY <1>1, <1>3, <1>4, <1>5 DEF Progress, Placed
  <1> QED
    BY <1>3, <1>4, <1>5, <1>6, RouteFrame

LEMMA RouteCloseOffline ==
  ASSUME RInv, TInv', NEW c \in Channel, CloseOffline(c)
  PROVE  RInv'
  <1>1. TypeOK /\ Progress(c) /\ TInv
    BY DEF RInv, TInv
  <1>2. "offline" \in Listener /\ "space" \in Listener \ {"offline"} /\ "regist" \in Listener \ {"offline"}
    BY DEF Listener
  <1>3. /\ \A d \in Channel \ {c} : listeners'[d] = listeners[d]
        /\ HasListener(listeners[c], "space") => HasListener(listeners'[c], "space")
        /\ HasListener(listeners[c], "regist") => HasListener(listeners'[c], "regist")
    BY <1>1, <1>2, PoppedListener DEF CloseOffline
  <1>4. at[c] = "closing" /\ at'[c] = "offline" /\ \A d \in Channel \ {c} : at'[d] = at[d]
    BY <1>1 DEF CloseOffline, Closing, GoTo, TypeOK
  <1>5. UNCHANGED <<regist, space, vip, overlap>>
    BY DEF CloseOffline, directoryVars
  <1>6. Progress(c)' /\ (Placed(c)' => Placed(c))
    BY <1>1, <1>3, <1>4, <1>5 DEF Progress, Placed
  <1> QED
    BY <1>3, <1>4, <1>5, <1>6, RouteFrame

(* The handlers that only go on. *)
LEMMA RouteHandler ==
  ASSUME RInv, TInv', NEW c \in Channel,
         RegistAgain(c) \/ RegistAttrs(c) \/ RegistList(c) \/ RegistFail(c) \/ UpdateNodeInfo(c)
         \/ UpdatePush(c) \/ Close(c) \/ OfflinePush(c) \/ Closed(c)
  PROVE  RInv'
  <1>1. TypeOK /\ Progress(c) /\ TInv /\ VipKnown(c)
    BY DEF RInv, TInv
  <1>2. UNCHANGED <<listeners, regist, space, vip, overlap>>
    BY DEF RegistAgain, RegistAttrs, RegistList, RegistFail, UpdateNodeInfo, UpdatePush, Close,
           OfflinePush, Closed, directoryVars
  <1>3. \A d \in Channel \ {c} : at'[d] = at[d]
    <2>1. CASE RegistList(c) \/ UpdatePush(c) \/ OfflinePush(c)
      BY <1>1, <2>1, AdvanceStage DEF RegistList, UpdatePush, OfflinePush, Stage
    <2>2. CASE ~ (RegistList(c) \/ UpdatePush(c) \/ OfflinePush(c))
      BY <1>1, <2>2 DEF RegistAgain, RegistAttrs, RegistFail, UpdateNodeInfo, Close, Closed, GoTo, TypeOK
    <2> QED
      BY <2>1, <2>2
  <1>4. \/ c \in regist /\ at[c] = "idle" /\ at'[c] = "attrs"
        \/ at[c] = "attrs" /\ at'[c] = "list"
        \/ at[c] = "list" /\ at'[c] \in {"list", "sort"}
        \/ at[c] \in {"clash", "sort"} /\ at'[c] = "idle"
        \/ at[c] = "idle" /\ at'[c] = "idle"
        \/ at[c] = "idle" /\ vip[c] # NoVip /\ at'[c] = "update"
        \/ at[c] = "update" /\ at'[c] \in {"update", "idle"}
        \/ at[c] = "idle" /\ at'[c] = "closing"
        \/ at[c] = "offline" /\ at'[c] \in {"offline", "closing"}
        \/ at[c] = "closing" /\ listeners[c] = << >> /\ at'[c] = "closed"
    <2>1. CASE RegistList(c)
      BY <1>1, <2>1, AdvanceStage DEF RegistList, Stage
    <2>2. CASE UpdatePush(c)
      BY <1>1, <2>2, AdvanceStage DEF UpdatePush, Stage
    <2>3. CASE OfflinePush(c)
      BY <1>1, <2>3, AdvanceStage DEF OfflinePush, Stage
    <2>4. CASE RegistAgain(c)
      BY <1>1, <2>4 DEF RegistAgain, Request, GoTo, TypeOK
    <2>5. CASE RegistAttrs(c)
      BY <1>1, <2>5 DEF RegistAttrs, GoTo, TypeOK
    <2>6. CASE RegistFail(c)
      BY <1>1, <2>6 DEF RegistFail, GoTo, TypeOK
    <2>7. CASE UpdateNodeInfo(c)
      BY <1>1, <2>7 DEF UpdateNodeInfo, Request, GoTo, TypeOK
    <2>8. CASE Close(c)
      BY <1>1, <2>8 DEF Close, GoTo, TypeOK
    <2>9. CASE Closed(c)
      BY <1>1, <2>9 DEF Closed, GoTo, TypeOK
    <2> QED
      BY <2>1, <2>2, <2>3, <2>4, <2>5, <2>6, <2>7, <2>8, <2>9
  <1>5. listeners[c] = << >> => c \notin regist
    BY <1>1 DEF Progress, HasListener
  <1>6. Progress(c)' /\ (Placed(c)' => Placed(c)) /\ (at[c] = "closed" => at'[c] = "closed")
    BY <1>1, <1>2, <1>4, <1>5 DEF Progress, Placed
  <1> QED
    BY <1>2, <1>3, <1>6, RouteFrame

LEMMA RouteRegistSort ==
  ASSUME RInv, TInv', NEW c \in Channel, RegistSort(c)
  PROVE  RInv'
  <1>1. UNCHANGED <<listeners, regist, space, vip, overlap>>
    BY DEF RegistSort, directoryVars
  <1>2. ASSUME NEW d \in Channel PROVE at'[d] = at[d] \/ (at[d] = "sort" /\ at'[d] \in {"online", "clash"})
    BY DEF RegistSort
  <1>3. ASSUME NEW d \in Channel PROVE Progress(d)' /\ Removable(d)' /\ Found(d)'
    <2>1. Progress(d) /\ Removable(d) /\ Found(d)
      BY DEF RInv
    <2> QED
      BY <1>1, <1>2, <2>1 DEF Progress, Removable, Found, Placed
  <1>4. ASSUME NEW d \in Channel, NEW e \in Channel, d # e PROVE Recorded(d, e)'
    <2>1. Recorded(d, e)
      BY <1>4 DEF RInv
    <2> QED
      BY <1>1, <1>2, <2>1 DEF Recorded
  <1> QED
    BY <1>3, <1>4 DEF RInv

(* A channel without a vip is found nowhere; the channels that hold its new one are *)
(* what overlap records.                                                              *)
LEMMA RouteRegistAssign ==
  ASSUME RInv, TInv', NEW c \in Channel, RegistAssign(c)
  PROVE  RInv'
  <1>1. TypeOK /\ Progress(c) /\ TInv
    BY DEF RInv, TInv
  <1>2. PICK v \in Assignable(c) :
          /\ vip' = [vip EXCEPT ![c] = v]
          /\ overlap' = IF StillHeld(c, v) THEN overlap \cup {<<TenantOf[c], v>>} ELSE overlap
    BY DEF RegistAssign
  <1>3. at[c] = "idle" /\ c \notin regist /\ vip[c] = NoVip
    BY <1>1 DEF RegistAssign, Request, Progress
  <1>4. /\ at'[c] = "space" /\ UNCHANGED <<regist, space>>
        /\ \A d \in Channel \ {c} : at'[d] = at[d] /\ vip'[d] = vip[d]
        /\ vip'[c] = v /\ overlap \subseteq overlap'
    BY <1>1, <1>2 DEF RegistAssign, GoTo, TypeOK
  <1>5. /\ \A d \in Channel \ {c} : listeners'[d] = listeners[d]
        /\ HasListener(listeners'[c], "regist")
    <2>1. AssignListeners \in Seq(Listener) /\ HasListener(AssignListeners, "regist")
      <3>1. <<"regist", "bind">> \in Seq(Listener) /\ <<"regist">> \in Seq(Listener)
        BY DEF Listener
      <3>2. HasListener(<<"regist", "bind">>, "regist") /\ HasListener(<<"regist">>, "regist")
        BY DEF HasListener
      <3> QED
        BY <3>1, <3>2, Zenon DEF AssignListeners
    <2>2. "regist" \in Listener
      BY DEF Listener
    <2> QED
      BY <1>1, <2>1, <2>2, AddedListeners DEF RegistAssign
  <1>6. ASSUME NEW d \in Channel PROVE Progress(d)' /\ Removable(d)' /\ Found(d)'
    <2>1. CASE d = c
      <3>1. Progress(c)' /\ Found(c)'
        BY <1>3, <1>4, <1>5 DEF Progress, Found, Placed
      <3>2. ASSUME NEW t \in Tenant, NEW w \in Vip PROVE space[t][w] # c
        BY <1>3, VipAssumption DEF RInv, Removable
      <3> QED
        BY <2>1, <3>1, <3>2, <1>4 DEF Removable
    <2>2. CASE d # c
      BY <2>2, <1>4, <1>5 DEF RInv, Progress, Removable, Found, Placed
    <2> QED
      BY <2>1, <2>2
  <1>7. ASSUME NEW d \in Channel \ {c}, TenantOf[d] = TenantOf[c], vip[d] = v, at[d] # "closed"
        PROVE  <<TenantOf[c], v>> \in overlap'
    BY <1>2, <1>7 DEF StillHeld
  <1>8. ASSUME NEW d \in Channel, NEW e \in Channel, d # e PROVE Recorded(d, e)'
    <2>1. CASE d # c /\ e # c
      <3>1. Recorded(d, e)
        BY <1>8 DEF RInv
      <3> QED
        BY <2>1, <3>1, <1>4 DEF Recorded
    <2>2. CASE d = c
      BY <2>2, <1>4, <1>7, <1>8 DEF Recorded
    <2>3. CASE e = c
      BY <2>3, <1>4, <1>7, <1>8 DEF Recorded
    <2> QED
      BY <2>1, <2>2, <2>3
  <1> QED
    BY <1>6, <1>8 DEF RInv

LEMMA RouteRegistAddChannel ==
  ASSUME RInv, TInv', NEW c \in Channel, RegistAddChannel(c)
  PROVE  RInv'
  <1>1. TypeOK /\ Progress(c) /\ TInv /\ VipKnown(c)
    BY DEF RInv, TInv
  <1>2. <<"space">> \in Seq(Listener) /\ "space" \in Listener /\ "regist" \in Listener
        /\ HasListener(<<"space">>, "space")
    BY DEF Listener, HasListener
  <1>3. /\ \A d \in Channel \ {c} : listeners'[d] = listeners[d]
        /\ HasListener(listeners'[c], "space")
        /\ HasListener(listeners[c], "regist") => HasListener(listeners'[c], "regist")
    BY <1>1, <1>2, AddedListeners DEF RegistAddChannel
  <1>4. /\ at[c] = "space" /\ at'[c] = "insert" /\ UNCHANGED <<regist, vip, overlap>>
        /\ \A d \in Channel \ {c} : at'[d] = at[d]
    BY <1>1 DEF RegistAddChannel, GoTo, TypeOK
  <1>5. vip[c] \in Vip /\ vip[c] # NoVip /\ TenantOf[c] \in Tenant
    BY <1>1, <1>4, VipAssumption, TenantAssumption DEF VipKnown, Pushing
  <1>6. ASSUME NEW t \in Tenant, NEW v \in Vip
        PROVE  space'[t][v] = IF t = TenantOf[c] /\ v = vip[c] THEN c ELSE space[t][v]
    BY <1>1, <1>5 DEF RegistAddChannel, TypeOK
  <1>7. Progress(c)' /\ Removable(c)' /\ Found(c)'
    <2>1. Progress(c)'
      BY <1>1, <1>3, <1>4 DEF Progress
    <2>2. Removable(c)'
      BY <1>3, <1>4, <1>6 DEF RInv, Removable
    <2>3. Found(c)'
      BY <1>4, <1>5, <1>6 DEF Found
    <2> QED
      BY <2>1, <2>2, <2>3
  <1>8. ASSUME NEW d \in Channel, d # c PROVE Progress(d)' /\ Removable(d)' /\ Found(d)'
    <2>1. Progress(d) /\ Removable(d) /\ Found(d) /\ Recorded(c, d) /\ VipKnown(d)
      BY <1>8 DEF RInv, TInv
    <2>2. at'[d] = at[d] /\ listeners'[d] = listeners[d]
      BY <1>3, <1>4, <1>8
    <2>3. Progress(d)'
      BY <1>4, <2>1, <2>2 DEF Progress
    <2>4. Removable(d)'
      BY <1>4, <1>6, <1>8, <2>1, <2>2 DEF Removable
    <2>5. Found(d)'
      <3>1. SUFFICES ASSUME Placed(d), <<TenantOf[d], vip[d]>> \notin overlap
                     PROVE  space'[TenantOf[d]][vip[d]] = d
        BY <1>4, <2>2 DEF Found, Placed
      <3>2. vip[d] \in Vip /\ TenantOf[d] \in Tenant
        BY <2>1, <3>1, TenantAssumption DEF VipKnown, Placed, Pushing
      <3>3. at[d] # "closed"
        BY <2>1, <3>1 DEF Placed, Progress, HasListener
      <3>4. TenantOf[c] # TenantOf[d] \/ vip[c] # vip[d]
        BY <1>4, <1>5, <2>1, <3>1, <3>3 DEF Recorded
      <3> QED
        BY <1>6, <2>1, <3>1, <3>2, <3>4 DEF Found
    <2> QED
      BY <2>3, <2>4, <2>5
  <1>9. ASSUME NEW d \in Channel, NEW e \in Channel, d # e PROVE Recorded(d, e)'
    <2>1. Recorded(d, e)
      BY <1>9 DEF RInv
    <2>2. (at'[d] = "closed" <=> at[d] = "closed") /\ (at'[e] = "closed" <=> at[e] = "closed")
      BY <1>4
    <2> QED
      BY <1>4, <2>1, <2>2 DEF Recorded
  <1> QED
    BY <1>7, <1>8, <1>9 DEF RInv

LEMMA RouteRegistInsert ==
  ASSUME RInv, TInv', NEW c \in Channel, RegistInsert(c)
  PROVE  RInv'
  <1>1. TypeOK /\ Progress(c) /\ TInv
    BY DEF RInv, TInv
  <1>2. /\ at[c] = "insert" /\ at'[c] = "attrs" /\ regist' = regist \cup {c}
        /\ UNCHANGED <<listeners, space, vip, overlap>>
        /\ \A d \in Channel \ {c} : at'[d] = at[d]
    BY <1>1 DEF RegistInsert, GoTo, TypeOK
  <1>3. ASSUME NEW d \in Channel PROVE Progress(d)' /\ Removable(d)' /\ Found(d)'
    <2>1. Progress(d) /\ Removable(d) /\ Found(d)
      BY DEF RInv
    <2>2. CASE d = c
      BY <1>2, <2>1, <2>2 DEF Progress, Removable, Found, Placed
    <2>3. CASE d # c
      BY <1>2, <2>1, <2>3 DEF Progress, Removable, Found, Placed
    <2> QED
      BY <2>2, <2>3
  <1>4. ASSUME NEW d \in Channel, NEW e \in Channel, d # e PROVE Recorded(d, e)'
    <2>1. Recorded(d, e)
      BY <1>4 DEF RInv
    <2>2. (at'[d] = "closed" <=> at[d] = "closed") /\ (at'[e] = "closed" <=> at[e] = "closed")
      BY <1>2
    <2> QED
      BY <1>2, <2>1, <2>2 DEF Recorded
  <1> QED
    BY <1>3, <1>4 DEF RInv

LEMMA RouteCloseRegist ==
  ASSUME RInv, TInv', NEW c \in Channel, CloseRegist(c)
  PROVE  RInv'
  <1>1. TypeOK /\ Progress(c) /\ TInv
    BY DEF RInv, TInv
  <1>2. "regist" \in Listener /\ "space" \in Listener \ {"regist"}
    BY DEF Listener
  <1>3. /\ \A d \in Channel \ {c} : listeners'[d] = listeners[d]
        /\ HasListener(listeners[c], "space") => HasListener(listeners'[c], "space")
    BY <1>1, <1>2, PoppedListener DEF CloseRegist
  <1>4. at[c] = "closing" /\ regist' = regist \ {c} /\ UNCHANGED <<at, space, vip, overlap>>
    BY DEF CloseRegist, Closing
  <1>5. ASSUME NEW d \in Channel PROVE Progress(d)' /\ Removable(d)' /\ Found(d)'
    <2>1. Progress(d) /\ Removable(d) /\ Found(d)
      BY DEF RInv
    <2>2. CASE d = c
      BY <1>3, <1>4, <2>1, <2>2 DEF Progress, Removable, Found, Placed
    <2>3. CASE d # c
      BY <1>3, <1>4, <2>1, <2>3 DEF Progress, Removable, Found, Placed
    <2> QED
      BY <2>2, <2>3
  <1>6. ASSUME NEW d \in Channel, NEW e \in Channel, d # e PROVE Recorded(d, e)'
    BY <1>4, <1>6 DEF RInv, Recorded
  <1> QED
    BY <1>5, <1>6 DEF RInv

LEMMA SomeChannel == ASSUME NEW c \in Channel PROVE c # NoChannel
  BY ChannelAssumption DEF Channel, NoChannel

(* What a closing channel removes is its own entry, or that of a vip in overlap. *)
LEMMA RouteCloseSpace ==
  ASSUME RInv, TInv', NEW c \in Channel, CloseSpace(c)
  PROVE  RInv'
  <1>1. TypeOK /\ Progress(c) /\ TInv /\ Removable(c)
    BY DEF RInv, TInv
  <1>2. "space" \in Listener /\ "regist" \in Listener \ {"space"}
    BY DEF Listener
  <1>3. /\ \A d \in Channel \ {c} : listeners'[d] = listeners[d]
        /\ HasListener(listeners[c], "regist") => HasListener(listeners'[c], "regist")
    BY <1>1, <1>2, PoppedListener DEF CloseSpace
  <1>4. at[c] = "closing" /\ UNCHANGED <<at, regist, vip, overlap>>
    BY DEF CloseSpace, Closing
  <1>5. TenantOf[c] \in Tenant
    BY TenantAssumption
  <1>6. ASSUME NEW t \in Tenant, NEW v \in Vip
        PROVE  space'[t][v] = IF t = TenantOf[c] /\ v = vip[c] THEN NoChannel ELSE space[t][v]
    BY <1>1, <1>5 DEF CloseSpace, TypeOK
  <1>7. Progress(c)' /\ Removable(c)' /\ Found(c)'
    <2>1. Progress(c)'
      BY <1>1, <1>3, <1>4 DEF Progress
    <2>2. ASSUME NEW t \in Tenant, NEW v \in Vip PROVE space'[t][v] # c
      BY <1>1, <1>6, SomeChannel DEF Removable
    <2>3. Found(c)'
      BY <1>4 DEF Found, Placed
    <2> QED
      BY <2>1, <2>2, <2>3 DEF Removable
  <1>8. ASSUME NEW d \in Channel, d # c PROVE Progress(d)' /\ Removable(d)' /\ Found(d)'
    <2>1. Progress(d) /\ Removable(d) /\ Found(d) /\ Recorded(c, d) /\ VipKnown(d)
      BY <1>8 DEF RInv, TInv
    <2>2. at'[d] = at[d] /\ listeners'[d] = listeners[d]
      BY <1>3, <1>4, <1>8
    <2>3. Progress(d)'
      BY <1>4, <2>1, <2>2 DEF Progress
    <2>4. Removable(d)'
      BY <1>4, <1>6, <2>1, <2>2, SomeChannel DEF Removable
    <2>5. Found(d)'
      <3>1. SUFFICES ASSUME Placed(d), <<TenantOf[d], vip[d]>> \notin overlap
                     PROVE  space'[TenantOf[d]][vip[d]] = d
        BY <1>4, <2>2 DEF Found, Placed
      <3>2. vip[d] \in Vip /\ vip[d] # NoVip /\ TenantOf[d] \in Tenant
        BY <2>1, <3>1, TenantAssumption, VipAssumption DEF VipKnown, Placed, Pushing
      <3>3. at[d] # "closed"
        BY <2>1, <3>1 DEF Placed, Progress, HasListener
      <3>4. TenantOf[c] # TenantOf[d] \/ vip[c] # vip[d]
        BY <1>4, <2>1, <3>1, <3>2, <3>3 DEF Recorded
      <3> QED
        BY <1>6, <2>1, <3>1, <3>2, <3>4 DEF Found
    <2> QED
      BY <2>3, <2>4, <2>5
  <1>9. ASSUME NEW d \in Channel, NEW e \in Channel, d # e PROVE Recorded(d, e)'
    BY <1>4, <1>9 DEF RInv, Recorded
  <1> QED
    BY <1>7, <1>8, <1>9 DEF RInv

LEMMA RInvInit == Init => RInv
  <1> SUFFICES ASSUME Init PROVE RInv
    OBVIOUS
  <1>1. ASSUME NEW c \in Channel PROVE Progress(c) /\ Removable(c) /\ Found(c)
    <2>1. Progress(c) /\ Found(c)
      BY DEF Init, Progress, Found, Placed
    <2>2. Removable(c)
      BY SomeChannel DEF Init, Removable
    <2> QED
      BY <2>1, <2>2
  <1>2. ASSUME NEW c \in Channel, NEW d \in Channel PROVE Recorded(c, d)
    BY DEF Init, Recorded
  <1> QED
    BY <1>1, <1>2, TInvInit DEF RInv

LEMMA RInvStep == RInv /\ [Next]_vars => RInv'
  <1> SUFFICES ASSUME RInv, [Next]_vars PROVE RInv'
    OBVIOUS
  <1>1. TInv'
    BY TInvStep DEF RInv
  <1>2. ASSUME NEW c \in Channel, ClientStep(c) PROVE RInv'
    <2>1. CASE RegistNoTenant(c) \/ Disconnect(c) \/ Heart(c)
      BY <1>1, <2>1, RouteStutter DEF RegistNoTenant, Disconnect, Heart, directoryVars, loopVars
    <2> QED
      BY <1>1, <1>2, <2>1, RouteConnect, RouteRegistReject, RouteRegistAssign, RouteHandler DEF ClientStep
  <1>3. ASSUME NEW c \in Channel, LoopStep(c) PROVE RInv'
    <2>1. CASE RunTask(c)
      BY <1>1, <2>1, RouteStutter DEF RunTask, directoryVars, loopVars
    <2> QED
      BY <1>1, <1>3, <2>1, RouteRegistAddChannel, RouteRegistInsert, RouteRegistSort, RouteRegistOnline,
         RouteCloseChannelMap, RouteCloseRegist, RouteCloseBind, RouteCloseSpace, RouteCloseOffline,
         RouteHandler DEF LoopStep
  <1>4. ASSUME NEW c \in Channel, HeartTimeout(c) \/ Sweep(c) PROVE RInv'
    BY <1>1, <1>4, RouteStutter DEF HeartTimeout, Sweep, directoryVars, loopVars
  <1>5. ASSUME NEW t \in Tenant, NEW v \in Vip, OfflineChannel(t, v) PROVE RInv'
    BY <1>1, <1>5, RouteStutter DEF OfflineChannel, directoryVars, loopVars
  <1>6. CASE UNCHANGED vars
    BY <1>1, <1>6, RouteStutter DEF vars, directoryVars, loopVars
  <1> QED
    BY <1>2, <1>3, <1>4, <1>5, <1>6 DEF Next

(* A registered node is found under its vip (ChannelSpace), whatever registers and *)
(* closes at the same time, unless the vip was given to it while another channel     *)
(* still held it: for any number of connections, and with both data services.        *)
THEOREM RouteFound == Spec => []Routable
  <1>1. RInv => Routable
    BY RInvImplies
  <1> QED
    BY <1>1, RInvInit, RInvStep, PTL DEF Spec

(* ChannelSpace never leads to a connection whose close has completed, to another *)
(* tenant's or to one with another vip.                                             *)
THEOREM NoRouteLeft == Spec => []NoStaleRoute
  <1>1. RInv => NoStaleRoute
    BY RInvImplies
  <1> QED
    BY <1>1, RInvInit, RInvStep, PTL DEF Spec
-----------------------------------------------------------------------------
(* What the nodes know.  The last thing a client was told of a vip is the last    *)
(* push queued for it, or, when none is queued, what it has in its directory.  It  *)
(* is right unless somebody still has something to say: the holder of the vip is    *)
(* going to push its addresses, or its end, or the client is about to read the      *)
(* holder's entry for the list of its own reply.                                    *)
Ending(c) == at[c] \in {"closing", "offline", "closed"}

(* The connections Converged is about. *)
Client(c) == c \in regist /\ ~ Ending(c) /\ c \notin failed

Speechless(q, v) == \A i \in 1 .. Len(q) : q[i].vip # v

LastSaid(q, v, w) ==
    \E i \in 1 .. Len(q) : /\ q[i].vip = v /\ q[i].info = w
                           /\ \A j \in 1 .. Len(q) : j > i => q[j].vip # v

Heard(c, v, w) ==
    LastSaid(tasks[c], v, w) \/ (Speechless(tasks[c], v) /\ view[c][v] = w)

(* The list of c's reply has still to come to d. *)
WillRead(c, d) == at[c] = "attrs" \/ (at[c] = "list" /\ cursor[c] <= d)

(* The handler of d has still to push d's addresses to c. *)
WillSay(d, c) ==
    \/ at[d] \in {"attrs", "list", "sort", "clash"}
    \/ at[d] \in {"online", "update"} /\ cursor[d] <= c

(* The listeners of d have still to push d's end to c. *)
WillRetract(d, c) ==
    \/ HasListener(listeners[d], "offline")
    \/ at[d] = "offline" /\ cursor[d] <= c

Told(c, d) ==
    d \in regist /\ ~ WillSay(d, c)
        => \/ Heard(c, vip[d], addr[d])
           \/ Speechless(tasks[c], vip[d]) /\ WillRead(c, d)

Untold(c, v) ==
    (\A d \in Channel : vip[d] = v => d \notin regist /\ ~ WillRetract(d, c))
        => Heard(c, v, Absent)

Knows(c, v) ==
    /\ \A d \in Channel : vip[d] = v => Told(c, d)
    /\ Untold(c, v)
    /\ vip[c] = v => Speechless(tasks[c], v)

(* An iteration starts at the first bin. *)
Iteration(c) == at[c] \notin {"list", "online", "update", "offline"} => cursor[c] = 1

(* A channel is out of registChannelMap when it tells its end. *)
RegistAhead(q) ==
    \A i \in 1 .. Len(q) : q[i] = "offline" => \E j \in 1 .. i - 1 : q[j] = "regist"

Retracting(c) ==
    /\ c \in regist => RegistAhead(listeners[c])
    /\ c \notin regist /\ HasListener(listeners[c], "offline") => Ending(c)

(* Who was announced will tell its end. *)
Announced(c) ==
    c \in regist /\ at[c] \in {"new", "idle", "update", "closing"} /\ c \notin failed
        => HasListener(listeners[c], "offline")

(* Who is not in registChannelMap is told nothing. *)
Unheard(c) ==
    /\ at[c] \in {"space", "insert", "offline", "closed"} => c \notin regist
    /\ c \notin regist /\ ~ Ending(c) => tasks[c] = << >> /\ \A v \in Vip : view[c][v] = Absent

Local(c) == Iteration(c) /\ Retracting(c) /\ Announced(c) /\ Unheard(c)

NInv ==
    /\ RInv
    /\ \A c \in Channel : Local(c)
    /\ \A c \in Channel, v \in Undisputed : Client(c) => Knows(c, v)

LEMMA NInvImplies == NInv => Converged
  <1> SUFFICES ASSUME NInv PROVE Converged
    OBVIOUS
  <1> SUFFICES ASSUME Quiet,
                      NEW c \in Channel, c \in regist, at[c] # "closed", c \notin failed,
                      NEW v \in Undisputed
               PROVE  LET live == {e \in regist : at[e] # "closed"}
                      IN  IF \E d \in live : vip[d] = v
                          THEN \E d \in live : vip[d] = v /\ view[c][v] = addr[d]
                          ELSE view[c][v] = Absent
    <2>1. regist \subseteq Channel
      BY DEF NInv, RInv, TInv, TypeOK
    <2> QED
      BY <2>1 DEF Converged
  <1>1. TypeOK /\ v \in Vip /\ NoVip \notin Vip
    BY VipAssumption DEF NInv, RInv, TInv, Undisputed
  <1>2. Client(c) /\ Knows(c, v) /\ tasks[c] = << >> /\ at[c] \in {"new", "idle"}
    BY DEF NInv, Quiet, Client, Ending
  <1>3. ASSUME NEW w, Heard(c, v, w) PROVE view[c][v] = w
    BY <1>2, <1>3 DEF Heard, LastSaid
  <1>4. CASE \E d \in {e \in regist : at[e] # "closed"} : vip[d] = v
    <2>1. PICK d \in regist : at[d] # "closed" /\ vip[d] = v
      BY <1>4
    <2>2. d \in Channel
      BY <1>1, <2>1 DEF TypeOK
    <2>3. at[d] \in {"new", "idle"}
      BY <2>1, <2>2 DEF Quiet
    <2>4. ~ WillSay(d, c) /\ ~ WillRead(c, d)
      BY <1>2, <2>3 DEF WillSay, WillRead
    <2>5. Heard(c, v, addr[d])
      BY <1>2, <2>1, <2>2, <2>4 DEF Knows, Told
    <2> QED
      BY <1>3, <2>1, <2>5
  <1>5. CASE ~ \E d \in {e \in regist : at[e] # "closed"} : vip[d] = v
    <2>1. ASSUME NEW d \in Channel, vip[d] = v PROVE d \notin regist /\ ~ WillRetract(d, c)
      <3>1. Progress(d) /\ at[d] \in {"new", "idle", "closed"}
        BY DEF NInv, RInv, Quiet
      <3>2. ~ HasListener(<< >>, "regist") /\ ~ HasListener(<< >>, "offline")
        BY DEF HasListener
      <3>3. at[d] = "closed"
        BY <1>1, <1>5, <2>1, <3>1 DEF Progress
      <3>4. listeners[d] = << >> /\ d \notin regist
        BY <3>1, <3>2, <3>3 DEF Progress
      <3> QED
        BY <3>2, <3>3, <3>4 DEF WillRetract
    <2>2. Heard(c, v, Absent)
      BY <1>2, <2>1 DEF Knows, Untold
    <2> QED
      BY <1>3, <1>5, <2>2
  <1> QED
    BY <1>4, <1>5

(* The queue of a client: what an append and the run of its head leave of what *)
(* it says.                                                                      *)
LEMMA SaidAppend ==
  ASSUME NEW q \in Seq(NodeInfo), NEW m \in NodeInfo, NEW v
  PROVE  /\ m.vip = v => LastSaid(Append(q, m), v, m.info)
         /\ m.vip # v /\ Speechless(q, v) => Speechless(Append(q, m), v)
         /\ \A w : m.vip # v /\ LastSaid(q, v, w) => LastSaid(Append(q, m), v, w)
  <1>1. /\ Len(Append(q, m)) = Len(q) + 1 /\ Len(q) \in Nat /\ Append(q, m)[Len(q) + 1] = m
        /\ \A i \in 1 .. Len(q) : Append(q, m)[i] = q[i]
    OBVIOUS
  <1> DEFINE r == Append(q, m)
  <1> HIDE DEF r
  <1>2. /\ Len(r) = Len(q) + 1 /\ Len(q) \in Nat /\ r[Len(q) + 1] = m
        /\ \A i \in 1 .. Len(q) : r[i] = q[i]
    BY <1>1 DEF r
  <1>3. ASSUME NEW i \in 1 .. Len(r) PROVE i \in 1 .. Len(q) \/ i = Len(q) + 1
    BY <1>2
  <1>4. m.vip = v => LastSaid(r, v, m.info)
    BY <1>2, <1>3 DEF LastSaid
  <1>5. m.vip # v /\ Speechless(q, v) => Speechless(r, v)
    BY <1>2, <1>3 DEF Speechless
  <1>6. ASSUME NEW w, m.vip # v, LastSaid(q, v, w) PROVE LastSaid(r, v, w)
    <2>1. PICK i \in 1 .. Len(q) : /\ q[i].vip = v /\ q[i].info = w
                                   /\ \A j \in 1 .. Len(q) : j > i => q[j].vip # v
      BY <1>6 DEF LastSaid
    <2>2. i \in 1 .. Len(r) /\ r[i] = q[i]
      BY <1>2
    <2>3. ASSUME NEW j \in 1 .. Len(r), j > i PROVE r[j].vip # v
      BY <1>2, <1>3, <1>6, <2>1, <2>3
    <2> QED
      BY <2>1, <2>2, <2>3 DEF LastSaid
  <1> QED
    BY <1>4, <1>5, <1>6 DEF r

LEMMA SaidTail ==
  ASSUME NEW q \in Seq(NodeInfo), q # << >>, NEW v
  PROVE  /\ Speechless(q, v) => Head(q).vip # v /\ Speechless(Tail(q), v)
         /\ \A w : LastSaid(q, v, w) => \/ LastSaid(Tail(q), v, w)
                                        \/ /\ Speechless(Tail(q), v)
                                           /\ Head(q).vip = v /\ Head(q).info = w
  <1>1. /\ Len(Tail(q)) = Len(q) - 1 /\ Len(q) \in Nat \ {0} /\ Head(q) = q[1]
        /\ \A i \in 1 .. Len(q) - 1 : Tail(q)[i] = q[i + 1]
    BY HeadTailProperties, EmptySeq
  <1>2. Speechless(q, v) => Head(q).vip # v /\ Speechless(Tail(q), v)
    BY <1>1 DEF Speechless
  <1>3. ASSUME NEW w, LastSaid(q, v, w)
        PROVE  \/ LastSaid(Tail(q), v, w)
               \/ Speechless(Tail(q), v) /\ Head(q).vip = v /\ Head(q).info = w
    <2>1. PICK i \in 1 .. Len(q) : /\ q[i].vip = v /\ q[i].info = w
                                   /\ \A j \in 1 .. Len(q) : j > i => q[j].vip # v
      BY <1>3 DEF LastSaid
    <2>2. ASSUME NEW j \in 1 .. Len(Tail(q)), j + 1 > i PROVE Tail(q)[j].vip # v
      <3>1. j + 1 \in 1 .. Len(q) /\ Tail(q)[j] = q[j + 1]
        BY <1>1
      <3> QED
        BY <2>1, <2>2, <3>1
    <2>3. CASE i = 1
      <3>1. \A j \in 1 .. Len(Tail(q)) : j + 1 > i
        BY <1>1, <2>3
      <3> QED
        BY <1>1, <2>1, <2>2, <2>3, <3>1 DEF Speechless
    <2>4. CASE i # 1
      <3>1. i - 1 \in 1 .. Len(Tail(q)) /\ Tail(q)[i - 1] = q[i]
        BY <1>1, <2>1, <2>4
      <3>2. \A j \in 1 .. Len(Tail(q)) : j > i - 1 => j + 1 > i
        BY <1>1, <2>1
      <3> QED
        BY <2>1, <2>2, <3>1, <3>2 DEF LastSaid
    <2> QED
      BY <2>3, <2>4
  <1> QED
    BY <1>2, <1>3

(* The listeners: what is added at the end and what is left of a queue. *)
LEMMA AheadConcat ==
  ASSUME NEW q \in Seq(Listener), NEW a \in Seq(Listener), RegistAhead(q),
         HasListener(a, "offline") => HasListener(q, "regist")
  PROVE  RegistAhead(q \o a)
  <1>1. /\ Len(q \o a) = Len(q) + Len(a) /\ Len(q) \in Nat /\ Len(a) \in Nat
        /\ \A i \in 1 .. Len(q) + Len(a) :
              (q \o a)[i] = IF i <= Len(q) THEN q[i] ELSE a[i - Len(q)]
    BY ConcatProperties
  <1>2. SUFFICES ASSUME NEW i \in 1 .. Len(q) + Len(a), (q \o a)[i] = "offline"
                 PROVE  \E j \in 1 .. i - 1 : (q \o a)[j] = "regist"
    BY <1>1 DEF RegistAhead
  <1>3. CASE i <= Len(q)
    <2>1. i \in 1 .. Len(q) /\ q[i] = "offline"
      BY <1>1, <1>2, <1>3
    <2>2. PICK j \in 1 .. i - 1 : q[j] = "regist"
      BY <2>1 DEF RegistAhead
    <2>3. (q \o a)[j] = q[j]
      BY <1>1, <2>1
    <2> QED
      BY <2>2, <2>3
  <1>4. CASE ~ (i <= Len(q))
    <2>1. i - Len(q) \in 1 .. Len(a) /\ a[i - Len(q)] = "offline"
      BY <1>1, <1>2, <1>4
    <2>2. HasListener(a, "offline")
      BY <2>1 DEF HasListener
    <2>3. PICK j \in 1 .. Len(q) : q[j] = "regist"
      BY <2>2 DEF HasListener
    <2>4. (q \o a)[j] = q[j] /\ j \in 1 .. i - 1
      BY <1>1, <1>4
    <2> QED
      BY <2>3, <2>4
  <1> QED
    BY <1>3, <1>4

LEMMA AheadTail ==
  ASSUME NEW q \in Seq(Listener), q # << >>, RegistAhead(q)
  PROVE  Head(q) # "offline" /\ (Head(q) # "regist" => RegistAhead(Tail(q)))
  <1>1. /\ Len(Tail(q)) = Len(q) - 1 /\ Len(q) \in Nat \ {0} /\ Head(q) = q[1]
        /\ \A i \in 1 .. Len(q) - 1 : Tail(q)[i] = q[i + 1]
    BY HeadTailProperties, EmptySeq
  <1>2. Head(q) # "offline"
    <2>1. 1 \in 1 .. Len(q) /\ ~ \E j \in 1 .. 1 - 1 : q[j] = "regist"
      BY <1>1
    <2> QED
      BY <1>1, <2>1 DEF RegistAhead
  <1>3. ASSUME Head(q) # "regist", NEW i \in 1 .. Len(q) - 1, Tail(q)[i] = "offline"
        PROVE  \E j \in 1 .. i - 1 : Tail(q)[j] = "regist"
    <2>1. i + 1 \in 1 .. Len(q) /\ q[i + 1] = "offline"
      BY <1>1, <1>3
    <2>2. PICK j \in 1 .. (i + 1) - 1 : q[j] = "regist"
      BY <2>1 DEF RegistAhead
    <2>3. j # 1
      BY <1>1, <1>3, <2>2
    <2>4. j - 1 \in 1 .. i - 1 /\ j - 1 \in 1 .. Len(q) - 1 /\ (j - 1) + 1 = j
      BY <1>1, <2>2, <2>3
    <2> QED
      BY <1>1, <2>2, <2>4
  <1> QED
    BY <1>1, <1>2, <1>3 DEF RegistAhead

(* A vip that is undisputed has been so all along. *)
LEMMA StillUndisputed ==
  ASSUME TypeOK, overlap \subseteq overlap', failed \subseteq failed',
         \A c \in Channel : vip'[c] = vip[c] \/ vip[c] = NoVip
  PROVE  Undisputed' \subseteq Undisputed
  <1> SUFFICES ASSUME NEW v \in Undisputed' PROVE v \in Undisputed
    OBVIOUS
  <1>1. v \in Vip /\ NoVip \notin Vip /\ failed \subseteq Channel
    BY VipAssumption DEF Undisputed, TypeOK
  <1>2. \A t \in Tenant : <<t, v>> \notin overlap
    BY DEF Undisputed
  <1>3. \A c \in Channel : vip[c] = v => vip'[c] = v
    BY <1>1
  <1>4. \A c \in failed : vip[c] # v
    BY <1>1, <1>3 DEF Undisputed
  <1>5. \A c, d \in Channel : vip[c] = v /\ vip[d] = v => TenantOf[c] = TenantOf[d]
    BY <1>3 DEF Undisputed
  <1> QED
    BY <1>1, <1>2, <1>4, <1>5 DEF Undisputed

(* An undisputed vip has one holder at a time. *)
LEMMA OneHolder ==
  ASSUME RInv, NEW v \in Undisputed, NEW c \in Channel, NEW d \in Channel,
         vip[c] = v, vip[d] = v, at[c] # "closed", at[d] # "closed"
  PROVE  c = d
  <1>1. TenantOf[c] = TenantOf[d] /\ TenantOf[c] \in Tenant /\ v # NoVip
        /\ <<TenantOf[c], v>> \notin overlap
    BY VipAssumption, TenantAssumption DEF Undisputed
  <1> QED
    BY <1>1 DEF RInv, Recorded

(* What a step must leave alone, or replace, for a client to know of a vip what *)
(* it is to know.                                                                  *)
LEMMA KnowsFrame ==
  ASSUME NEW x \in Channel, NEW v, Knows(x, v),
         \A w : Heard(x, v, w) => Heard(x, v, w)',
         Speechless(tasks[x], v) => Speechless(tasks[x], v)',
         vip'[x] = vip[x],
         \A d \in Channel : vip'[d] = v /\ d \in regist' /\ ~ WillSay(d, x)'
             => /\ vip[d] = v /\ d \in regist /\ ~ WillSay(d, x) /\ addr'[d] = addr[d]
                /\ WillRead(x, d) => WillRead(x, d)',
         \A d \in Channel : vip[d] = v /\ (d \in regist \/ WillRetract(d, x))
             => vip'[d] = v /\ (d \in regist' \/ WillRetract(d, x)')
  PROVE  Knows(x, v)'
  <1>1. ASSUME NEW d \in Channel, vip'[d] = v PROVE Told(x, d)'
    <2>1. SUFFICES ASSUME d \in regist', ~ WillSay(d, x)'
                   PROVE  \/ Heard(x, v, addr[d])'
                          \/ Speechless(tasks[x], v)' /\ WillRead(x, d)'
      BY <1>1 DEF Told
    <2>2. /\ vip[d] = v /\ d \in regist /\ ~ WillSay(d, x) /\ addr'[d] = addr[d]
          /\ WillRead(x, d) => WillRead(x, d)'
      BY <1>1, <2>1
    <2>3. Heard(x, v, addr[d]) \/ (Speechless(tasks[x], v) /\ WillRead(x, d))
      BY <2>2 DEF Knows, Told
    <2>4. CASE Heard(x, v, addr[d])
      <3>1. PICK w : w = addr[d]
        OBVIOUS
      <3>2. Heard(x, v, w)'
        BY <2>4, <3>1
      <3> QED
        BY <2>2, <3>1, <3>2 DEF Heard
    <2>5. CASE Speechless(tasks[x], v) /\ WillRead(x, d)
      BY <2>2, <2>5
    <2> QED
      BY <2>3, <2>4, <2>5
  <1>2. Untold(x, v)'
    <2>1. SUFFICES ASSUME \A d \in Channel : vip'[d] = v => d \notin regist' /\ ~ WillRetract(d, x)'
                   PROVE  Heard(x, v, Absent)'
      BY DEF Untold
    <2>2. \A d \in Channel : vip[d] = v => d \notin regist /\ ~ WillRetract(d, x)
      BY <2>1
    <2>3. Heard(x, v, Absent)
      BY <2>2 DEF Knows, Untold
    <2> QED
      BY <2>3
  <1>3. vip'[x] = v => Speechless(tasks[x], v)'
    BY DEF Knows
  <1> QED
    BY <1>1, <1>2, <1>3 DEF Knows

(* A step of the loop of c: nothing of another channel moves, but its queue and *)
(* its client's directory.                                                       *)
OnlyLoop(c) ==
    \A d \in Channel \ {c} :
        /\ at'[d] = at[d] /\ cursor'[d] = cursor[d] /\ listeners'[d] = listeners[d]
        /\ addr'[d] = addr[d] /\ vip'[d] = vip[d]
        /\ d \in regist' <=> d \in regist
        /\ d \in failed' <=> d \in failed

LEMMA LocalFrame ==
  ASSUME NEW c \in Channel, NEW d \in Channel \ {c}, Local(d), OnlyLoop(c),
         d \notin regist => tasks'[d] = tasks[d] /\ view'[d] = view[d]
  PROVE  Local(d)'
  <1>1. /\ at'[d] = at[d] /\ cursor'[d] = cursor[d] /\ listeners'[d] = listeners[d]
        /\ d \in regist' <=> d \in regist
        /\ d \in failed' <=> d \in failed
    BY DEF OnlyLoop
  <1>2. Iteration(d)' /\ Announced(d)'
    BY <1>1 DEF Local, Iteration, Announced
  <1>3. Retracting(d)'
    BY <1>1 DEF Local, Retracting, Ending
  <1>4. Unheard(d)'
    BY <1>1 DEF Local, Unheard, Ending
  <1> QED
    BY <1>2, <1>3, <1>4 DEF Local

LEMMA ClientFrame ==
  ASSUME NEW c \in Channel, NEW x \in Channel \ {c}, OnlyLoop(c), Client(x)'
  PROVE  Client(x) /\ vip'[x] = vip[x] /\ \A d \in Channel : WillRead(x, d) => WillRead(x, d)'
  BY DEF OnlyLoop, Client, Ending, WillRead

(* What a client knows of the channels whose loops did nothing. *)
LEMMA OthersFrame ==
  ASSUME NEW c \in Channel, NEW x \in Channel, NEW v, Knows(x, v), OnlyLoop(c),
         \A w : Heard(x, v, w) => Heard(x, v, w)',
         Speechless(tasks[x], v) => Speechless(tasks[x], v)',
         vip'[x] = vip[x],
         \A d \in Channel : WillRead(x, d) => WillRead(x, d)',
         vip'[c] = v /\ c \in regist' /\ ~ WillSay(c, x)'
             => vip[c] = v /\ c \in regist /\ ~ WillSay(c, x) /\ addr'[c] = addr[c],
         vip[c] = v /\ (c \in regist \/ WillRetract(c, x))
             => vip'[c] = v /\ (c \in regist' \/ WillRetract(c, x)')
  PROVE  Knows(x, v)'
  <1>1. ASSUME NEW d \in Channel, d # c
        PROVE  /\ vip'[d] = vip[d] /\ (d \in regist' <=> d \in regist) /\ addr'[d] = addr[d]
               /\ WillSay(d, x)' <=> WillSay(d, x)
               /\ WillRetract(d, x)' <=> WillRetract(d, x)
    BY <1>1 DEF OnlyLoop, WillSay, WillRetract
  <1>2. ASSUME NEW d \in Channel, vip'[d] = v, d \in regist', ~ WillSay(d, x)'
        PROVE  vip[d] = v /\ d \in regist /\ ~ WillSay(d, x) /\ addr'[d] = addr[d]
    <2>1. CASE d = c
      BY <1>2, <2>1
    <2>2. CASE d # c
      BY <1>1, <1>2, <2>2
    <2> QED
      BY <2>1, <2>2
  <1>3. ASSUME NEW d \in Channel, vip[d] = v, d \in regist \/ WillRetract(d, x)
        PROVE  vip'[d] = v /\ (d \in regist' \/ WillRetract(d, x)')
    <2>1. CASE d = c
      BY <1>3, <2>1
    <2>2. CASE d # c
      BY <1>1, <1>3, <2>2
    <2> QED
      BY <2>1, <2>2
  <1> QED
    BY <1>2, <1>3, KnowsFrame

(* Steps of the loop of c that tell no client anything. *)
LEMMA NodesFrame ==
  ASSUME NInv, RInv', Undisputed' \subseteq Undisputed, NEW c \in Channel, OnlyLoop(c),
         Local(c)',
         \A x \in Channel : x # c \/ Client(c)' => tasks'[x] = tasks[x] /\ view'[x] = view[x],
         Client(c)' => /\ Client(c) /\ vip'[c] = vip[c]
                       /\ \A d \in Channel : WillRead(c, d) => WillRead(c, d)',
         \A x \in Channel : vip'[c] \in Undisputed' /\ c \in regist' /\ ~ WillSay(c, x)'
             => vip[c] = vip'[c] /\ c \in regist /\ ~ WillSay(c, x) /\ addr'[c] = addr[c],
         \A x \in Channel : vip[c] \in Undisputed' /\ (c \in regist \/ WillRetract(c, x))
             => vip'[c] = vip[c] /\ (c \in regist' \/ WillRetract(c, x)')
  PROVE  NInv'
  <1>1. ASSUME NEW d \in Channel PROVE Local(d)'
    BY LocalFrame DEF NInv
  <1>2. ASSUME NEW x \in Channel, NEW v \in Undisputed', Client(x)' PROVE Knows(x, v)'
    <2>1. /\ Client(x) /\ vip'[x] = vip[x] /\ \A d \in Channel : WillRead(x, d) => WillRead(x, d)'
          /\ tasks'[x] = tasks[x] /\ view'[x] = view[x]
      BY <1>2, ClientFrame
    <2>2. Knows(x, v)
      BY <2>1 DEF NInv
    <2>3. /\ \A w : Heard(x, v, w) => Heard(x, v, w)'
          /\ Speechless(tasks[x], v) => Speechless(tasks[x], v)'
      BY <2>1 DEF Heard, Speechless, LastSaid
    <2> QED
      BY <2>1, <2>2, <2>3, OthersFrame
  <1> QED
    BY <1>1, <1>2 DEF NInv

LEMMA NodesStutter ==
  ASSUME NInv, RInv',
         UNCHANGED <<at, cursor, listeners, regist, vip, overlap, failed, addr, tasks, view>>
  PROVE  NInv'
  <1>1. Undisputed' = Undisputed
    BY DEF Undisputed
  <1>2. ASSUME NEW c \in Channel PROVE Local(c)'
    BY DEF NInv, Local, Iteration, Retracting, Announced, Unheard, Ending
  <1>3. ASSUME NEW c \in Channel, NEW v \in Undisputed', Client(c)' PROVE Knows(c, v)'
    <2>1. Knows(c, v)
      BY <1>1, <1>3 DEF NInv, Client, Ending
    <2> QED
      BY <2>1 DEF Knows, Told, Untold, Heard, Speechless, LastSaid, WillSay, WillRead, WillRetract
  <1> QED
    BY <1>2, <1>3 DEF NInv

LEMMA SameUndisputed ==
  ASSUME UNCHANGED <<vip, overlap, failed>>
  PROVE  Undisputed' = Undisputed
  BY DEF Undisputed

(* The listeners of c after some were added, or after one has run. *)
LEMMA RetractAdded ==
  ASSUME RInv, NEW c \in Channel, Retracting(c), NEW added \in Seq(Listener),
         AddListeners(c, added), UNCHANGED regist, ~ Ending(c),
         HasListener(added, "offline") => c \in regist
  PROVE  /\ Retracting(c)'
         /\ HasListener(listeners[c], "offline") => HasListener(listeners'[c], "offline")
         /\ HasListener(added, "offline") => HasListener(listeners'[c], "offline")
         /\ HasListener(listeners'[c], "offline") => c \in regist
         /\ \A d \in Channel \ {c} : listeners'[d] = listeners[d]
  <1>1. TInv /\ TypeOK /\ Progress(c) /\ "offline" \in Listener
    BY DEF RInv, TInv, Listener
  <1>2. /\ \A d \in Channel \ {c} : listeners'[d] = listeners[d]
        /\ HasListener(listeners'[c], "offline")
              <=> HasListener(listeners[c], "offline") \/ HasListener(added, "offline")
    BY <1>1, AddedListeners
  <1>3. listeners'[c] = listeners[c] \o added /\ listeners[c] \in Seq(Listener)
    BY <1>1 DEF AddListeners, TypeOK
  <1>4. HasListener(listeners'[c], "offline") => c \in regist
    BY <1>2 DEF Retracting
  <1>5. c \in regist => RegistAhead(listeners'[c])
    BY <1>1, <1>3, AheadConcat DEF Retracting, Progress
  <1> QED
    BY <1>2, <1>4, <1>5 DEF Retracting

LEMMA RetractPopped ==
  ASSUME RInv, NEW c \in Channel, Retracting(c), NEW k \in Listener, Closing(c, k), PopListener(c),
         Ending(c)', regist' = regist \/ (k = "regist" /\ regist' = regist \ {c})
  PROVE  /\ Retracting(c)' \/ (k = "regist" /\ c \in regist')
         /\ k # "offline" => (HasListener(listeners[c], "offline") => HasListener(listeners'[c], "offline"))
         /\ k = "offline" => c \notin regist
         /\ \A d \in Channel \ {c} : listeners'[d] = listeners[d]
  <1>1. TInv /\ TypeOK /\ "offline" \in Listener
    BY DEF RInv, TInv, Listener
  <1>2. /\ \A d \in Channel \ {c} : listeners'[d] = listeners[d]
        /\ k # "offline" => (HasListener(listeners[c], "offline") => HasListener(listeners'[c], "offline"))
    BY <1>1, PoppedListener
  <1>3. /\ listeners'[c] = Tail(listeners[c]) /\ listeners[c] \in Seq(Listener)
        /\ listeners[c] # << >> /\ Head(listeners[c]) = k
    BY <1>1 DEF Closing, PopListener, TypeOK
  <1>4. c \in regist => k # "offline" /\ (k # "regist" => RegistAhead(listeners'[c]))
    BY <1>3, AheadTail DEF Retracting
  <1>5. Retracting(c)' \/ (k = "regist" /\ c \in regist')
    BY <1>4 DEF Retracting
  <1> QED
    BY <1>2, <1>4, <1>5

LEMMA NodesConnect ==
  ASSUME NInv, RInv', NEW c \in Channel, Connect(c)
  PROVE  NInv'
  <1>1. RInv /\ TypeOK /\ Progress(c) /\ Local(c)
    BY DEF NInv, RInv, TInv
  <1>2. /\ at[c] = "new" /\ at'[c] = "idle"
        /\ \A d \in Channel \ {c} : at'[d] = at[d]
        /\ UNCHANGED <<regist, vip, overlap, failed, addr, tasks, view, cursor>>
    BY <1>1 DEF Connect, GoTo, TypeOK, directoryVars, wireVars
  <1>3. <<"channel">> \in Seq(Listener) /\ ~ HasListener(<<"channel">>, "offline")
    BY DEF Listener, HasListener
  <1>4. /\ Retracting(c)' /\ \A d \in Channel \ {c} : listeners'[d] = listeners[d]
        /\ HasListener(listeners[c], "offline") => HasListener(listeners'[c], "offline")
    BY <1>1, <1>2, <1>3, RetractAdded DEF Connect, Local, Ending
  <1>5. OnlyLoop(c)
    BY <1>2, <1>4 DEF OnlyLoop
  <1>6. Local(c)'
    BY <1>1, <1>2, <1>4 DEF Local, Iteration, Announced, Unheard, Ending
  <1>7. Client(c)' => Client(c) /\ \A d \in Channel : WillRead(c, d) => WillRead(c, d)'
    BY <1>2 DEF Client, Ending, WillRead
  <1>8. \A x \in Channel : ~ WillSay(c, x) /\ (WillRetract(c, x) => WillRetract(c, x)')
    BY <1>2, <1>4 DEF WillSay, WillRetract
  <1> QED
    BY <1>2, <1>5, <1>6, <1>7, <1>8, SameUndisputed, NodesFrame

LEMMA NodesRegistReject ==
  ASSUME NInv, RInv', NEW c \in Channel, RegistReject(c)
  PROVE  NInv'
  <1>1. RInv /\ TypeOK /\ Progress(c) /\ Local(c)
    BY DEF NInv, RInv, TInv
  <1>2. /\ at[c] = "idle" /\ c \notin regist
        /\ UNCHANGED <<at, regist, vip, overlap, failed, addr, tasks, view, cursor>>
    BY <1>1 DEF RegistReject, Request, directoryVars, wireVars
  <1>3. <<"regist">> \in Seq(Listener) /\ ~ HasListener(<<"regist">>, "offline")
    BY DEF Listener, HasListener
  <1>4. /\ Retracting(c)' /\ \A d \in Channel \ {c} : listeners'[d] = listeners[d]
        /\ HasListener(listeners[c], "offline") => HasListener(listeners'[c], "offline")
    BY <1>1, <1>2, <1>3, RetractAdded DEF RegistReject, Local, Ending
  <1>5. OnlyLoop(c)
    BY <1>2, <1>4 DEF OnlyLoop
  <1>6. Local(c)'
    BY <1>1, <1>2, <1>4 DEF Local, Iteration, Announced, Unheard, Ending
  <1>7. ~ Client(c)'
    BY <1>2 DEF Client
  <1>8. \A x \in Channel : WillRetract(c, x) => WillRetract(c, x)'
    BY <1>2, <1>4 DEF WillRetract
  <1> QED
    BY <1>2, <1>5, <1>6, <1>7, <1>8, SameUndisputed, NodesFrame

LEMMA NodesRegistAssign ==
  ASSUME NInv, RInv', NEW c \in Channel, RegistAssign(c)
  PROVE  NInv'
  <1>1. RInv /\ TypeOK /\ Progress(c) /\ Local(c)
    BY DEF NInv, RInv, TInv
  <1>2. /\ at[c] = "idle" /\ at'[c] = "space" /\ c \notin regist
        /\ \A d \in Channel \ {c} : at'[d] = at[d]
        /\ UNCHANGED <<regist, failed, addr, tasks, view, cursor>>
    BY <1>1 DEF RegistAssign, Request, GoTo, TypeOK, wireVars
  <1>3. /\ AssignListeners \in Seq(Listener) /\ ~ HasListener(AssignListeners, "offline")
    <2>1. <<"regist", "bind">> \in Seq(Listener) /\ <<"regist">> \in Seq(Listener)
      BY DEF Listener
    <2>2. ~ HasListener(<<"regist", "bind">>, "offline") /\ ~ HasListener(<<"regist">>, "offline")
      BY DEF HasListener
    <2> QED
      BY <2>1, <2>2, Zenon DEF AssignListeners
  <1>4. /\ Retracting(c)' /\ \A d \in Channel \ {c} : listeners'[d] = listeners[d]
        /\ ~ HasListener(listeners[c], "offline")
    <2>1. ~ HasListener(listeners[c], "offline")
      BY <1>1, <1>2 DEF Local, Retracting, Ending
    <2> QED
      BY <1>1, <1>2, <1>3, <2>1, RetractAdded DEF RegistAssign, Local, Ending
  <1>5. vip[c] = NoVip /\ (\A d \in Channel \ {c} : vip'[d] = vip[d]) /\ overlap \subseteq overlap'
    <2>1. vip[c] = NoVip
      BY <1>1, <1>2 DEF Progress
    <2>2. PICK v \in Assignable(c) :
            /\ vip' = [vip EXCEPT ![c] = v]
            /\ overlap' = IF StillHeld(c, v) THEN overlap \cup {<<TenantOf[c], v>>} ELSE overlap
      BY DEF RegistAssign
    <2> QED
      BY <1>1, <2>1, <2>2 DEF TypeOK
  <1>6. Undisputed' \subseteq Undisputed
    BY <1>1, <1>2, <1>5, StillUndisputed
  <1>7. OnlyLoop(c)
    BY <1>2, <1>4, <1>5 DEF OnlyLoop
  <1>8. Local(c)'
    BY <1>1, <1>2, <1>4 DEF Local, Iteration, Announced, Unheard, Ending
  <1>9. ~ Client(c)' /\ vip[c] \notin Undisputed'
    BY <1>2, <1>5, VipAssumption DEF Client, Undisputed
  <1> QED
    BY <1>2, <1>6, <1>7, <1>8, <1>9, NodesFrame

LEMMA NodesRegistAddChannel ==
  ASSUME NInv, RInv', NEW c \in Channel, RegistAddChannel(c)
  PROVE  NInv'
  <1>1. RInv /\ TypeOK /\ Progress(c) /\ Local(c)
    BY DEF NInv, RInv, TInv
  <1>2. /\ at[c] = "space" /\ at'[c] = "insert" /\ c \notin regist
        /\ \A d \in Channel \ {c} : at'[d] = at[d]
        /\ UNCHANGED <<regist, vip, overlap, failed, addr, tasks, view, cursor>>
    BY <1>1 DEF RegistAddChannel, GoTo, TypeOK, wireVars, Local, Unheard
  <1>3. <<"space">> \in Seq(Listener) /\ ~ HasListener(<<"space">>, "offline")
    BY DEF Listener, HasListener
  <1>4. /\ Retracting(c)' /\ \A d \in Channel \ {c} : listeners'[d] = listeners[d]
        /\ HasListener(listeners[c], "offline") => HasListener(listeners'[c], "offline")
    BY <1>1, <1>2, <1>3, RetractAdded DEF RegistAddChannel, Local, Ending
  <1>5. OnlyLoop(c)
    BY <1>2, <1>4 DEF OnlyLoop
  <1>6. Local(c)'
    BY <1>1, <1>2, <1>4 DEF Local, Iteration, Announced, Unheard, Ending
  <1>7. ~ Client(c)'
    BY <1>2 DEF Client
  <1>8. \A x \in Channel : WillRetract(c, x) => WillRetract(c, x)'
    BY <1>2, <1>4 DEF WillRetract
  <1> QED
    BY <1>2, <1>5, <1>6, <1>7, <1>8, SameUndisputed, NodesFrame

(* The handlers that say nothing themselves: what they change they will say. *)
LEMMA NodesRegistAgain ==
  ASSUME NInv, RInv', NEW c \in Channel, RegistAgain(c)
  PROVE  NInv'
  <1>1. RInv /\ TypeOK /\ Local(c)
    BY DEF NInv, RInv, TInv
  <1>2. /\ at[c] = "idle" /\ at'[c] = "attrs" /\ c \in regist
        /\ \A d \in Channel \ {c} : at'[d] = at[d]
        /\ UNCHANGED <<listeners, regist, vip, overlap, failed, addr, tasks, view, cursor>>
    BY <1>1 DEF RegistAgain, Request, GoTo, TypeOK, directoryVars, wireVars
  <1>3. OnlyLoop(c)
    BY <1>2 DEF OnlyLoop
  <1>4. Local(c)'
    BY <1>1, <1>2 DEF Local, Iteration, Retracting, Announced, Unheard, Ending
  <1>5. Client(c)' => Client(c) /\ \A d \in Channel : WillRead(c, d) => WillRead(c, d)'
    BY <1>2 DEF Client, Ending, WillRead
  <1>6. \A x \in Channel : WillSay(c, x)'
    BY <1>2 DEF WillSay
  <1> QED
    BY <1>2, <1>3, <1>4, <1>5, <1>6, SameUndisputed, NodesFrame

LEMMA NodesRegistAttrs ==
  ASSUME NInv, RInv', NEW c \in Channel, RegistAttrs(c)
  PROVE  NInv'
  <1>1. RInv /\ TypeOK /\ Progress(c) /\ Local(c)
    BY DEF NInv, RInv, TInv
  <1>2. /\ at[c] = "attrs" /\ at'[c] = "list" /\ c \in regist /\ cursor[c] = 1
        /\ \A d \in Channel \ {c} : at'[d] = at[d] /\ addr'[d] = addr[d]
        /\ UNCHANGED <<listeners, regist, vip, overlap, failed, tasks, view, cursor>>
    BY <1>1 DEF RegistAttrs, GoTo, TypeOK, directoryVars, Local, Iteration, Progress
  <1>3. OnlyLoop(c)
    BY <1>2 DEF OnlyLoop
  <1>4. Local(c)'
    BY <1>1, <1>2 DEF Local, Iteration, Retracting, Announced, Unheard, Ending
  <1>5. Client(c)' => Client(c) /\ \A d \in Channel : WillRead(c, d) => WillRead(c, d)'
    BY <1>2 DEF Client, Ending, WillRead
  <1>6. \A x \in Channel : WillSay(c, x)'
    BY <1>2 DEF WillSay
  <1> QED
    BY <1>2, <1>3, <1>4, <1>5, <1>6, SameUndisputed, NodesFrame

LEMMA NodesUpdateNodeInfo ==
  ASSUME NInv, RInv', NEW c \in Channel, UpdateNodeInfo(c)
  PROVE  NInv'
  <1>1. RInv /\ TypeOK /\ TInv /\ VipKnown(c) /\ Local(c)
    BY DEF NInv, RInv, TInv
  <1>2. /\ at[c] = "idle" /\ cursor[c] = 1
        /\ IF vip[c] = NoVip THEN at'[c] = "idle" ELSE at'[c] = "update"
        /\ \A d \in Channel \ {c} : at'[d] = at[d] /\ addr'[d] = addr[d]
        /\ UNCHANGED <<listeners, regist, vip, overlap, failed, tasks, view, cursor>>
    BY <1>1 DEF UpdateNodeInfo, Request, GoTo, TypeOK, directoryVars, Local, Iteration
  <1>3. OnlyLoop(c)
    BY <1>2 DEF OnlyLoop
  <1>4. Local(c)'
    BY <1>1, <1>2 DEF Local, Iteration, Retracting, Announced, Unheard, Ending
  <1>5. Client(c)' => Client(c) /\ \A d \in Channel : WillRead(c, d) => WillRead(c, d)'
    BY <1>2 DEF Client, Ending, WillRead
  <1>6. \A x \in Channel : /\ vip'[c] = NoVip \/ WillSay(c, x)'
                           /\ WillRetract(c, x) => WillRetract(c, x)'
    BY <1>2 DEF WillSay, WillRetract
  <1>7. NoVip \notin Undisputed'
    BY VipAssumption DEF Undisputed
  <1> QED
    BY <1>2, <1>3, <1>4, <1>5, <1>6, <1>7, SameUndisputed, NodesFrame

LEMMA NodesRegistFail ==
  ASSUME NInv, RInv', NEW c \in Channel, RegistFail(c)
  PROVE  NInv'
  <1>1. RInv /\ TypeOK /\ Progress(c) /\ Local(c)
    BY DEF NInv, RInv, TInv
  <1>2. /\ at[c] \in {"clash", "sort"} /\ at'[c] = "idle" /\ c \in regist
        /\ failed' = failed \cup {c}
        /\ \A d \in Channel \ {c} : at'[d] = at[d] /\ view'[d] = view[d]
        /\ UNCHANGED <<listeners, regist, vip, overlap, addr, tasks, cursor>>
    BY <1>1 DEF RegistFail, GoTo, TypeOK, Progress
  <1>3. OnlyLoop(c)
    BY <1>2 DEF OnlyLoop
  <1>4. Local(c)'
    BY <1>1, <1>2 DEF Local, Iteration, Retracting, Announced, Unheard, Ending
  <1>5. Undisputed' \subseteq Undisputed
    BY <1>1, <1>2, StillUndisputed
  <1>6. ~ Client(c)' /\ vip[c] \notin Undisputed'
    BY <1>2 DEF Client, Undisputed
  <1> QED
    BY <1>2, <1>3, <1>4, <1>5, <1>6, NodesFrame

LEMMA NodesClose ==
  ASSUME NInv, RInv', NEW c \in Channel, Close(c)
  PROVE  NInv'
  <1>1. RInv /\ TypeOK /\ Local(c)
    BY DEF NInv, RInv, TInv
  <1>2. /\ at[c] = "idle" /\ at'[c] = "closing"
        /\ \A d \in Channel \ {c} : at'[d] = at[d] /\ tasks'[d] = tasks[d]
        /\ UNCHANGED <<listeners, regist, vip, overlap, failed, addr, view, cursor>>
    BY <1>1 DEF Close, GoTo, TypeOK, directoryVars
  <1>3. OnlyLoop(c)
    BY <1>2 DEF OnlyLoop
  <1>4. Local(c)'
    BY <1>1, <1>2 DEF Local, Iteration, Retracting, Announced, Unheard, Ending
  <1>5. ~ Client(c)'
    BY <1>2 DEF Client, Ending
  <1>6. \A x \in Channel : ~ WillSay(c, x) /\ (WillRetract(c, x) => WillRetract(c, x)')
    BY <1>2 DEF WillSay, WillRetract
  <1> QED
    BY <1>2, <1>3, <1>4, <1>5, <1>6, SameUndisputed, NodesFrame

(* The close listeners that are nothing to the other nodes. *)
LEMMA NodesCloseMaps ==
  ASSUME NInv, RInv', NEW c \in Channel,
         CloseChannelMap(c) \/ CloseBind(c) \/ CloseSpace(c)
  PROVE  NInv'
  <1>1. RInv /\ TypeOK /\ Local(c)
    BY DEF NInv, RInv, TInv
  <1>2. /\ PopListener(c) /\ at[c] = "closing"
        /\ UNCHANGED <<at, regist, vip, overlap, failed, addr, tasks, view, cursor>>
    BY DEF CloseChannelMap, CloseBind, CloseSpace, Closing, directoryVars, wireVars
  <1>3. PICK k \in {"channel", "bind", "space"} : Closing(c, k)
    BY DEF CloseChannelMap, CloseBind, CloseSpace
  <1>4. k \in Listener /\ k # "offline" /\ k # "regist" /\ Ending(c)'
    BY <1>2 DEF Listener, Ending
  <1>5. /\ Retracting(c)' /\ \A d \in Channel \ {c} : listeners'[d] = listeners[d]
        /\ HasListener(listeners[c], "offline") => HasListener(listeners'[c], "offline")
    BY <1>1, <1>2, <1>3, <1>4, RetractPopped DEF Local
  <1>6. OnlyLoop(c)
    BY <1>2, <1>5 DEF OnlyLoop
  <1>7. Local(c)'
    BY <1>1, <1>2, <1>5 DEF Local, Iteration, Announced, Unheard, Ending
  <1>8. ~ Client(c)'
    BY <1>2 DEF Client, Ending
  <1>9. \A x \in Channel : ~ WillSay(c, x) /\ (WillRetract(c, x) => WillRetract(c, x)')
    BY <1>2, <1>5 DEF WillSay, WillRetract
  <1> QED
    BY <1>2, <1>6, <1>7, <1>8, <1>9, SameUndisputed, NodesFrame

(* Who leaves registChannelMap was announced and will tell its end. *)
LEMMA NodesCloseRegist ==
  ASSUME NInv, RInv', NEW c \in Channel, CloseRegist(c)
  PROVE  NInv'
  <1>1. RInv /\ TypeOK /\ Local(c)
    BY DEF NInv, RInv, TInv
  <1>2. /\ PopListener(c) /\ at[c] = "closing" /\ Closing(c, "regist") /\ regist' = regist \ {c}
        /\ UNCHANGED <<at, vip, overlap, failed, addr, tasks, view, cursor>>
    BY DEF CloseRegist, Closing, wireVars
  <1>3. "regist" \in Listener /\ Ending(c)' /\ c \notin regist'
    BY <1>2 DEF Listener, Ending
  <1>4. /\ Retracting(c)' /\ \A d \in Channel \ {c} : listeners'[d] = listeners[d]
        /\ HasListener(listeners[c], "offline") => HasListener(listeners'[c], "offline")
    BY <1>1, <1>2, <1>3, RetractPopped DEF Local
  <1>5. OnlyLoop(c)
    BY <1>2, <1>4 DEF OnlyLoop
  <1>6. Local(c)'
    BY <1>1, <1>2, <1>4 DEF Local, Iteration, Announced, Unheard, Ending
  <1>7. ~ Client(c)'
    BY <1>2 DEF Client
  <1>8. \A x \in Channel : vip[c] \in Undisputed' /\ (c \in regist \/ WillRetract(c, x))
                             => WillRetract(c, x)'
    <2>1. SUFFICES ASSUME NEW x \in Channel, vip[c] \in Undisputed', c \in regist \/ WillRetract(c, x)
                   PROVE  WillRetract(c, x)'
      OBVIOUS
    <2>2. c \notin failed
      BY <1>2, <2>1 DEF Undisputed
    <2>3. HasListener(listeners[c], "offline")
      BY <1>1, <1>2, <2>1, <2>2 DEF Local, Announced, WillRetract
    <2> QED
      BY <1>4, <2>3 DEF WillRetract
  <1> QED
    BY <1>2, <1>3, <1>5, <1>6, <1>7, <1>8, SameUndisputed, NodesFrame

LEMMA NodesCloseOffline ==
  ASSUME NInv, RInv', NEW c \in Channel, CloseOffline(c)
  PROVE  NInv'
  <1>1. RInv /\ TypeOK /\ Local(c)
    BY DEF NInv, RInv, TInv
  <1>2. /\ PopListener(c) /\ at[c] = "closing" /\ at'[c] = "offline" /\ Closing(c, "offline")
        /\ cursor[c] = 1 /\ \A d \in Channel \ {c} : at'[d] = at[d]
        /\ UNCHANGED <<regist, vip, overlap, failed, addr, tasks, view, cursor>>
    BY <1>1 DEF CloseOffline, Closing, GoTo, TypeOK, directoryVars, wireVars, Local, Iteration
  <1>3. "offline" \in Listener /\ Ending(c)'
    BY <1>2 DEF Listener, Ending
  <1>4. /\ Retracting(c)' /\ \A d \in Channel \ {c} : listeners'[d] = listeners[d]
        /\ c \notin regist
    BY <1>1, <1>2, <1>3, RetractPopped DEF Local
  <1>5. OnlyLoop(c)
    BY <1>2, <1>4 DEF OnlyLoop
  <1>6. Local(c)'
    BY <1>1, <1>2, <1>4 DEF Local, Iteration, Announced, Unheard, Ending
  <1>7. ~ Client(c)'
    BY <1>2 DEF Client, Ending
  <1>8. \A x \in Channel : WillRetract(c, x)'
    BY <1>2 DEF WillRetract
  <1> QED
    BY <1>2, <1>4, <1>5, <1>6, <1>7, <1>8, SameUndisputed, NodesFrame

LEMMA NodesClosed ==
  ASSUME NInv, RInv', NEW c \in Channel, Closed(c)
  PROVE  NInv'
  <1>1. RInv /\ TypeOK /\ Progress(c) /\ Local(c)
    BY DEF NInv, RInv, TInv
  <1>2. /\ at[c] = "closing" /\ at'[c] = "closed" /\ listeners[c] = << >>
        /\ \A d \in Channel \ {c} : at'[d] = at[d]
        /\ UNCHANGED <<listeners, regist, vip, overlap, failed, addr, tasks, view, cursor>>
    BY <1>1 DEF Closed, GoTo, TypeOK, directoryVars, wireVars
  <1>3. ~ HasListener(listeners[c], "offline") /\ c \notin regist
    BY <1>1, <1>2 DEF HasListener, Progress
  <1>4. OnlyLoop(c)
    BY <1>2 DEF OnlyLoop
  <1>5. Local(c)'
    BY <1>1, <1>2, <1>3 DEF Local, Iteration, Retracting, Announced, Unheard, Ending
  <1>6. ~ Client(c)' /\ \A x \in Channel : ~ WillRetract(c, x)
    BY <1>2, <1>3 DEF Client, WillRetract
  <1> QED
    BY <1>2, <1>3, <1>4, <1>5, <1>6, SameUndisputed, NodesFrame

(* A new entry of registChannelMap: its client has heard nothing, and its reply *)
(* will list all who are in the map already.                                       *)
LEMMA NodesRegistInsert ==
  ASSUME NInv, RInv', NEW c \in Channel, RegistInsert(c)
  PROVE  NInv'
  <1>1. RInv /\ TypeOK /\ Progress(c) /\ Local(c)
    BY DEF NInv, RInv, TInv
  <1>2. /\ at[c] = "insert" /\ at'[c] = "attrs" /\ c \notin regist /\ regist' = regist \cup {c}
        /\ \A d \in Channel \ {c} : at'[d] = at[d]
        /\ UNCHANGED <<listeners, vip, overlap, failed, addr, tasks, view, cursor>>
    BY <1>1 DEF RegistInsert, GoTo, TypeOK, wireVars, Local, Unheard
  <1>3. OnlyLoop(c)
    BY <1>2 DEF OnlyLoop
  <1>4. ~ HasListener(listeners[c], "offline") /\ tasks[c] = << >> /\ \A v \in Vip : view[c][v] = Absent
    BY <1>1, <1>2 DEF Local, Retracting, Unheard, Ending
  <1>5. Local(c)'
    <2>1. RegistAhead(listeners[c])
      BY <1>4 DEF RegistAhead, HasListener
    <2> QED
      BY <1>1, <1>2, <2>1 DEF Local, Iteration, Retracting, Announced, Unheard
  <1>6. ASSUME NEW d \in Channel PROVE Local(d)'
    BY <1>2, <1>3, <1>5, LocalFrame DEF NInv
  <1>7. Undisputed' = Undisputed
    BY <1>2, SameUndisputed
  <1>8. ASSUME NEW x \in Channel, NEW v \in Undisputed', Client(x)' PROVE Knows(x, v)'
    <2>1. CASE x = c
      <3>1. v \in Vip /\ Speechless(tasks[c], v)' /\ Heard(c, v, Absent)'
        BY <1>2, <1>4 DEF Undisputed, Speechless, Heard
      <3>2. \A d \in Channel : WillRead(c, d)'
        BY <1>2 DEF WillRead
      <3>3. ASSUME NEW d \in Channel, vip'[d] = v PROVE Told(c, d)'
        BY <3>1, <3>2, <3>3 DEF Told
      <3> QED
        BY <2>1, <3>1, <3>3 DEF Knows, Untold
    <2>2. CASE x # c
      <3>1. Client(x) /\ vip'[x] = vip[x] /\ \A d \in Channel : WillRead(x, d) => WillRead(x, d)'
        BY <1>3, <1>8, <2>2, ClientFrame
      <3>2. Knows(x, v)
        BY <1>7, <3>1 DEF NInv
      <3>3. /\ \A w : Heard(x, v, w) => Heard(x, v, w)'
            /\ Speechless(tasks[x], v) => Speechless(tasks[x], v)'
        BY <1>2 DEF Heard, Speechless, LastSaid
      <3>4. WillSay(c, x)' /\ (WillRetract(c, x) => WillRetract(c, x)') /\ c \in regist'
        BY <1>2 DEF WillSay, WillRetract
      <3> QED
        BY <1>2, <1>3, <3>1, <3>2, <3>3, <3>4, OthersFrame
    <2> QED
      BY <2>1, <2>2
  <1> QED
    BY <1>6, <1>8 DEF NInv

(* A sort sends its own handler to the pushes, and those it disturbs to an error. *)
LEMMA NodesRegistSort ==
  ASSUME NInv, RInv', NEW c \in Channel, RegistSort(c)
  PROVE  NInv'
  <1>1. /\ at[c] = "sort"
        /\ UNCHANGED <<listeners, regist, vip, overlap, failed, addr, tasks, view, cursor>>
    BY DEF RegistSort, directoryVars, wireVars
  <1>2. ASSUME NEW d \in Channel
        PROVE at'[d] = at[d] \/ (at[d] = "sort" /\ at'[d] \in {"online", "clash"})
    BY DEF RegistSort
  <1>3. ASSUME NEW d \in Channel PROVE Local(d)'
    <2>1. Local(d)
      BY DEF NInv
    <2>2. Iteration(d)' /\ Announced(d)'
      BY <1>1, <1>2, <2>1 DEF Local, Iteration, Announced
    <2>3. Retracting(d)'
      BY <1>1, <1>2, <2>1 DEF Local, Retracting, Ending
    <2>4. Unheard(d)'
      BY <1>1, <1>2, <2>1 DEF Local, Unheard, Ending
    <2> QED
      BY <2>2, <2>3, <2>4 DEF Local
  <1>4. ASSUME NEW x \in Channel, NEW v \in Undisputed', Client(x)' PROVE Knows(x, v)'
    <2>1. Undisputed' = Undisputed
      BY <1>1, SameUndisputed
    <2>2. Client(x)
      BY <1>1, <1>2, <1>4 DEF Client, Ending
    <2>3. Knows(x, v)
      BY <2>1, <2>2 DEF NInv
    <2>4. /\ \A w : Heard(x, v, w) => Heard(x, v, w)'
          /\ Speechless(tasks[x], v) => Speechless(tasks[x], v)'
      BY <1>1 DEF Heard, Speechless, LastSaid
    <2>5. ASSUME NEW d \in Channel
          PROVE  /\ WillSay(d, x) => WillSay(d, x)'
                 /\ WillRetract(d, x) => WillRetract(d, x)'
                 /\ WillRead(x, d) => WillRead(x, d)'
      <3>1. CASE at'[d] = at[d]
        BY <1>1, <1>2, <3>1 DEF WillSay, WillRetract, WillRead
      <3>2. CASE at[d] = "sort" /\ at'[d] = "clash"
        BY <1>1, <1>2, <3>2 DEF WillSay, WillRetract, WillRead
      <3>3. CASE at[d] = "sort" /\ at'[d] = "online"
        <4>1. cursor[d] = 1 /\ cursor'[d] <= x
          BY <1>1, <3>3 DEF NInv, Local, Iteration
        <4> QED
          BY <1>1, <1>2, <3>3, <4>1 DEF WillSay, WillRetract, WillRead
      <3> QED
        BY <1>2, <3>1, <3>2, <3>3
    <2> QED
      BY <1>1, <2>3, <2>4, <2>5, KnowsFrame
  <1> QED
    BY <1>3, <1>4 DEF NInv

(* One bin of the reply's list: the client knows what the entry says of its vip. *)
LEMMA NodesRegistList ==
  ASSUME NInv, RInv', NEW c \in Channel, RegistList(c)
  PROVE  NInv'
  <1> DEFINE y == cursor[c]
  <1>1. RInv /\ TInv /\ TypeOK /\ Progress(c) /\ Local(c)
    BY DEF NInv, RInv, TInv
  <1>2. /\ at[c] = "list" /\ c \in regist /\ y \in Channel
        /\ \A d \in Channel \ {c} : at'[d] = at[d] /\ cursor'[d] = cursor[d] /\ view'[d] = view[d]
        /\ UNCHANGED <<listeners, regist, vip, overlap, failed, addr, tasks>>
    BY <1>1 DEF RegistList, Advance, GoTo, TypeOK, directoryVars, Progress
  <1>3. /\ y < NChannel => at'[c] = "list" /\ cursor'[c] = y + 1
        /\ ~ (y < NChannel) => at'[c] = "sort" /\ cursor'[c] = 1
    BY <1>1 DEF RegistList, Advance, GoTo, TypeOK
  <1>4. ASSUME NEW v \in Vip
        PROVE  view'[c][v] = IF y \in regist /\ vip[y] = v THEN addr[y] ELSE view[c][v]
    <2>1. CASE y \in regist
      <3>1. vip[y] \in Vip
        BY <1>1, <1>2, <2>1 DEF TInv, VipKnown
      <3> QED
        BY <1>1, <2>1, <3>1 DEF RegistList, TypeOK
    <2>2. CASE y \notin regist
      BY <2>2 DEF RegistList
    <2> QED
      BY <2>1, <2>2
  <1> HIDE DEF y
  <1>5. OnlyLoop(c)
    BY <1>2 DEF OnlyLoop
  <1>6. Local(c)'
    BY <1>1, <1>2, <1>3 DEF Local, Iteration, Retracting, Announced, Unheard, Ending
  <1>7. ASSUME NEW d \in Channel PROVE Local(d)'
    BY <1>2, <1>5, <1>6, LocalFrame DEF NInv
  <1>8. Undisputed' = Undisputed
    BY <1>2, SameUndisputed
  <1>9. ASSUME NEW x \in Channel, x # c, NEW v \in Undisputed', Client(x)' PROVE Knows(x, v)'
    <2>1. Client(x) /\ vip'[x] = vip[x] /\ \A d \in Channel : WillRead(x, d) => WillRead(x, d)'
      BY <1>5, <1>9, ClientFrame
    <2>2. Knows(x, v)
      BY <1>8, <2>1 DEF NInv
    <2>3. /\ \A w : Heard(x, v, w) => Heard(x, v, w)'
          /\ Speechless(tasks[x], v) => Speechless(tasks[x], v)'
      BY <1>2, <1>9 DEF Heard, Speechless, LastSaid
    <2>4. WillSay(c, x)' /\ c \in regist'
      BY <1>2, <1>3 DEF WillSay
    <2> QED
      BY <1>2, <1>5, <2>1, <2>2, <2>3, <2>4, OthersFrame
  <1>10. ASSUME NEW v \in Undisputed', Client(c)' PROVE Knows(c, v)'
    <2>1. Client(c) /\ v \in Undisputed /\ v \in Vip
      BY <1>2, <1>8, <1>10 DEF Client, Ending, Undisputed
    <2>2. Knows(c, v)
      BY <2>1 DEF NInv
    <2>3. ASSUME NEW w, \/ LastSaid(tasks[c], v, w)
                        \/ Speechless(tasks[c], v) /\ view'[c][v] = w
          PROVE  Heard(c, v, w)'
      BY <1>2, <2>3 DEF Heard
    <2>4. ASSUME NEW d \in Channel, vip[d] = v PROVE Told(c, d)'
      <3>1. SUFFICES ASSUME d \in regist, ~ WillSay(d, c)'
                     PROVE  Heard(c, v, addr[d])' \/ (Speechless(tasks[c], v)' /\ WillRead(c, d)')
        BY <1>2, <2>4 DEF Told
      <3>2. d # c
        BY <1>3, <3>1 DEF WillSay
      <3>3. ~ WillSay(d, c)
        BY <1>2, <3>1, <3>2 DEF WillSay
      <3>4. \/ LastSaid(tasks[c], v, addr[d])
            \/ Speechless(tasks[c], v) /\ view[c][v] = addr[d]
            \/ Speechless(tasks[c], v) /\ WillRead(c, d)
        BY <2>2, <2>4, <3>1, <3>3 DEF Knows, Told, Heard
      <3>5. ASSUME y \in regist, vip[y] = v PROVE y = d
        <4>1. at[y] # "closed" /\ at[d] # "closed"
          BY <1>2, <3>1, <3>5 DEF NInv, Local, Unheard
        <4> QED
          BY <1>1, <1>2, <2>1, <2>4, <3>5, <4>1, OneHolder
      <3>6. view'[c][v] = addr[d] \/ view'[c][v] = view[c][v]
        BY <1>4, <2>1, <3>5
      <3>7. y = d => view'[c][v] = addr[d]
        BY <1>4, <2>1, <2>4, <3>1
      <3>8. WillRead(c, d) => y = d \/ WillRead(c, d)'
        <4>1. WillRead(c, d) => y <= d
          BY <1>2 DEF WillRead, y
        <4>2. NChannel \in Nat /\ y \in 1 .. NChannel
          BY <1>2, ChannelAssumption
        <4>3. y <= d /\ y # d => at'[c] = "list" /\ cursor'[c] <= d
          BY <1>3, <4>2
        <4> QED
          BY <4>1, <4>3 DEF WillRead
      <3>9. PICK w : w = addr[d] /\ w = addr'[d]
        BY <1>2
      <3>10. Heard(c, v, w)' \/ (Speechless(tasks[c], v)' /\ WillRead(c, d)')
        BY <1>2, <2>3, <3>4, <3>6, <3>7, <3>8, <3>9
      <3> QED
        BY <3>9, <3>10 DEF Heard
    <2>5. Untold(c, v)'
      <3>1. SUFFICES ASSUME \A d \in Channel : vip[d] = v => d \notin regist /\ ~ WillRetract(d, c)'
                     PROVE  Heard(c, v, Absent)'
        BY <1>2 DEF Untold
      <3>2. ASSUME NEW d \in Channel, vip[d] = v PROVE d \notin regist /\ ~ WillRetract(d, c)
        BY <1>2, <3>1, <3>2 DEF WillRetract
      <3>3. Heard(c, v, Absent) /\ view'[c][v] = view[c][v]
        BY <1>2, <1>4, <2>1, <2>2, <3>2 DEF Knows, Untold
      <3> QED
        BY <2>3, <3>3 DEF Heard
    <2>6. vip'[c] = v => Speechless(tasks[c], v)'
      BY <1>2, <2>2 DEF Knows
    <2> QED
      BY <1>2, <2>4, <2>5, <2>6 DEF Knows
  <1> QED
    BY <1>7, <1>9, <1>10 DEF NInv

(* What a push of c leaves in the queue, or in the directory, of its client x. *)
LEMMA PushHeard ==
  ASSUME TypeOK, NEW c \in Channel, NEW x \in Channel, NEW info \in Addr \cup {Absent},
         NEW u \in Vip, vip[c] = u, Push(c, x, info)
  PROVE  /\ \A y \in Channel \ {x} : tasks'[y] = tasks[y] /\ view'[y] = view[y]
         /\ x \notin regist \/ x = c => tasks' = tasks
         /\ x \notin regist => view' = view
         /\ \A v \in Vip : v # u => /\ Speechless(tasks[x], v) => Speechless(tasks[x], v)'
                                 /\ \A w : Heard(x, v, w) => Heard(x, v, w)'
         /\ Client(x) /\ (x = c => Speechless(tasks[x], u)) => Heard(x, u, info)'
  <1> DEFINE m == [vip |-> u, info |-> info]
  <1>1. m \in NodeInfo /\ m.vip = u /\ m.info = info /\ tasks[x] \in Seq(NodeInfo)
    BY DEF NodeInfo, TypeOK
  <1>2. CASE x \notin regist \/ Ending(x)
    <2>1. UNCHANGED <<tasks, view>> /\ ~ Client(x)
      BY <1>2 DEF Push, Ending, Client
    <2> QED
      BY <2>1 DEF Heard, LastSaid, Speechless
  <1>3. CASE x \in regist /\ ~ Ending(x) /\ x = c
    <2>1. view' = [view EXCEPT ![x][u] = info] /\ tasks' = tasks
      BY <1>3 DEF Push, Ending
    <2>2. \A y \in Channel \ {x} : view'[y] = view[y]
      BY <2>1 DEF TypeOK
    <2>3. view'[x][u] = info /\ \A v \in Vip : v # u => view'[x][v] = view[x][v]
      BY <2>1 DEF TypeOK
    <2> QED
      BY <1>3, <2>1, <2>2, <2>3 DEF Heard, LastSaid, Speechless
  <1>4. CASE x \in regist /\ ~ Ending(x) /\ x # c
    <2>1. tasks' = [tasks EXCEPT ![x] = Append(@, m)] /\ view' = view
      BY <1>4 DEF Push, Ending
    <2>2. tasks'[x] = Append(tasks[x], m) /\ \A y \in Channel \ {x} : tasks'[y] = tasks[y]
      BY <2>1 DEF TypeOK
    <2> HIDE DEF m
    <2>3. ASSUME NEW v \in Vip, v # u
          PROVE  /\ Speechless(tasks[x], v) => Speechless(tasks[x], v)'
                 /\ \A w : Heard(x, v, w) => Heard(x, v, w)'
      BY <1>1, <2>1, <2>2, <2>3, SaidAppend DEF Heard
    <2>4. LastSaid(tasks'[x], u, info)
      BY <1>1, <2>2, SaidAppend
    <2>5. Heard(x, u, info)'
      BY <2>4 DEF Heard
    <2> QED
      BY <1>4, <2>1, <2>2, <2>3, <2>5
  <1> QED
    BY <1>2, <1>3, <1>4

(* One bin of a push: c tells the channel of the bin its addresses, or its end. *)
LEMMA NodesPush ==
  ASSUME NInv, RInv', NEW c \in Channel, NEW info \in Addr \cup {Absent}, NEW next \in {"idle", "closing"},
         \/ at[c] \in {"online", "update"} /\ info = addr[c] /\ next = "idle"
         \/ at[c] = "offline" /\ info = Absent /\ next = "closing",
         Push(c, cursor[c], info), Advance(c, next),
         UNCHANGED <<regist, vip, overlap, failed, addr>>,
         \A d \in Channel \ {c} : listeners'[d] = listeners[d],
         HasListener(listeners[c], "offline") => HasListener(listeners'[c], "offline"),
         Retracting(c)', Announced(c)'
  PROVE  NInv'
  <1>1. /\ RInv /\ TInv /\ TypeOK /\ Progress(c) /\ Local(c) /\ NChannel \in Nat
        /\ vip[c] \in Vip /\ cursor[c] \in 1 .. NChannel
    BY ChannelAssumption DEF NInv, RInv, TInv, TypeOK, VipKnown, Pushing
  <1>2. /\ \A d \in Channel \ {c} : at'[d] = at[d] /\ cursor'[d] = cursor[d]
        /\ cursor[c] < NChannel => at'[c] = at[c] /\ cursor'[c] = cursor[c] + 1
        /\ ~ (cursor[c] < NChannel) => at'[c] = next /\ cursor'[c] = 1
    BY <1>1 DEF Advance, GoTo, TypeOK
  <1>3. OnlyLoop(c)
    BY <1>2 DEF OnlyLoop
  <1>4. PICK y \in Channel : y = cursor[c]
    BY <1>1
  <1>5. PICK u \in Vip : u = vip[c]
    BY <1>1
  <1>6. /\ \A z \in Channel \ {y} : tasks'[z] = tasks[z] /\ view'[z] = view[z]
        /\ y \notin regist \/ y = c => tasks' = tasks
        /\ y \notin regist => view' = view
        /\ \A v \in Vip : v # u => /\ Speechless(tasks[y], v) => Speechless(tasks[y], v)'
                                   /\ \A w : Heard(y, v, w) => Heard(y, v, w)'
        /\ Client(y) /\ (y = c => Speechless(tasks[y], u)) => Heard(y, u, info)'
    BY <1>1, <1>4, <1>5, PushHeard
  <1>7. Local(c)'
    <2>1. Iteration(c)'
      BY <1>1, <1>2 DEF Iteration
    <2>2. Unheard(c)'
      <3>1. at[c] = "offline" => c \notin regist
        BY <1>1 DEF Local, Unheard
      <3>2. at[c] # "offline" => c \in regist
        BY <1>1 DEF Progress
      <3> QED
        BY <1>2, <3>1, <3>2 DEF Unheard, Ending
    <2> QED
      BY <2>1, <2>2 DEF Local
  <1>8. ASSUME NEW d \in Channel PROVE Local(d)'
    <2>1. ASSUME d \notin regist, d # c PROVE tasks'[d] = tasks[d] /\ view'[d] = view[d]
      BY <1>6, <2>1
    <2> QED
      BY <1>3, <1>7, <2>1, LocalFrame DEF NInv
  <1>9. Undisputed' = Undisputed
    BY SameUndisputed
  <1>10. ASSUME NEW x \in Channel, NEW v \in Undisputed', Client(x)' PROVE Knows(x, v)'
    <2>1. Client(x) /\ vip'[x] = vip[x] /\ v \in Undisputed /\ v \in Vip
      BY <1>2, <1>3, <1>9, <1>10, ClientFrame DEF Client, Ending, Undisputed
    <2>2. Knows(x, v)
      BY <2>1 DEF NInv
    <2>3. \A d \in Channel : WillRead(x, d) => WillRead(x, d)'
      BY <1>2, <1>3, <1>10, ClientFrame DEF WillRead
    <2>4. CASE x # y \/ v # u
      <3>1. /\ \A w : Heard(x, v, w) => Heard(x, v, w)'
            /\ Speechless(tasks[x], v) => Speechless(tasks[x], v)'
        <4>1. CASE x # y
          <5>1. tasks'[x] = tasks[x] /\ view'[x] = view[x]
            BY <1>6, <4>1
          <5> QED
            BY ONLY <5>1 DEF Heard, Speechless, LastSaid
        <4>2. CASE x = y
          BY <1>6, <2>1, <2>4, <4>2
        <4> QED
          BY <4>1, <4>2
      <3>2. vip[c] = v => x # y
        BY <1>5, <2>4
      <3>3. vip[c] = v /\ c \in regist /\ ~ WillSay(c, x)' => ~ WillSay(c, x)
        <4>1. SUFFICES ASSUME x # y, ~ WillSay(c, x)' PROVE c \in regist => ~ WillSay(c, x)
          BY <3>2
        <4>2. CASE at[c] \in {"online", "update"}
          <5>1. CASE cursor[c] < NChannel
            BY <1>1, <1>2, <1>4, <4>1, <4>2, <5>1 DEF WillSay
          <5>2. CASE ~ (cursor[c] < NChannel)
            BY <1>1, <1>2, <1>4, <4>1, <4>2, <5>2 DEF WillSay
          <5> QED
            BY <5>1, <5>2
        <4>3. CASE at[c] = "offline"
          BY <4>3 DEF WillSay
        <4> QED
          BY <4>2, <4>3
      <3>4. vip[c] = v /\ WillRetract(c, x) => c \in regist \/ WillRetract(c, x)'
        <4>1. SUFFICES ASSUME x # y, WillRetract(c, x), c \notin regist PROVE WillRetract(c, x)'
          BY <3>2
        <4>2. at[c] = "offline"
          BY <1>1, <4>1 DEF Progress
        <4>3. CASE HasListener(listeners[c], "offline")
          BY <4>3 DEF WillRetract
        <4>4. CASE ~ HasListener(listeners[c], "offline")
          BY <1>1, <1>2, <1>4, <4>1, <4>2, <4>4 DEF WillRetract
        <4> QED
          BY <4>3, <4>4
      <3> QED
        BY <1>3, <2>1, <2>2, <2>3, <3>1, <3>3, <3>4, OthersFrame
    <2>5. CASE x = y /\ v = u
      <3>1. at[c] # "closed" /\ at[x] # "closed" /\ vip[c] = v
        BY <1>5, <2>1, <2>5 DEF Client, Ending
      <3>2. ASSUME NEW d \in Channel, vip[d] = v, at[d] # "closed" PROVE d = c
        BY <1>1, <2>1, <3>1, <3>2, OneHolder
      <3>3. x = c => Speechless(tasks[x], v) /\ Speechless(tasks[x], v)'
        BY <1>6, <2>2, <2>5, <3>1 DEF Knows
      <3>4. Heard(x, v, info)'
        BY <1>6, <2>1, <2>5, <3>3
      <3>5. ASSUME NEW d \in Channel, vip'[d] = v PROVE Told(x, d)'
        <4>1. SUFFICES ASSUME d \in regist PROVE Heard(x, v, addr[d])'
          BY <3>5 DEF Told
        <4>2. at[d] # "closed"
          BY <4>1 DEF NInv, Local, Unheard
        <4>3. d = c
          BY <3>2, <3>5, <4>2
        <4>4. info = addr[d] /\ info = addr'[d]
          BY <1>1, <4>1, <4>3 DEF Local, Unheard
        <4> QED
          BY <3>4, <4>4 DEF Heard
      <3>6. Untold(x, v)'
        <4>1. SUFFICES ASSUME c \notin regist PROVE Heard(x, v, Absent)'
          BY <3>1 DEF Untold
        <4>2. info = Absent
          BY <1>1, <4>1 DEF Progress
        <4> QED
          BY <3>4, <4>2
      <3>7. vip'[x] = v => Speechless(tasks[x], v)'
        BY <3>1, <3>2, <3>3
      <3> QED
        BY <3>5, <3>6, <3>7 DEF Knows
    <2> QED
      BY <2>4, <2>5
  <1> QED
    BY <1>8, <1>10 DEF NInv

LEMMA NodesRegistOnline ==
  ASSUME NInv, RInv', NEW c \in Channel, RegistOnline(c)
  PROVE  NInv'
  <1>1. RInv /\ TypeOK /\ Progress(c) /\ Local(c) /\ addr[c] \in Addr /\ cursor[c] \in 1 .. NChannel
    BY DEF NInv, RInv, TInv, TypeOK
  <1>2. /\ at[c] = "online" /\ c \in regist /\ ~ Ending(c)
        /\ Push(c, cursor[c], addr[c]) /\ Advance(c, "idle")
        /\ UNCHANGED <<regist, vip, overlap, failed, addr>>
    BY <1>1 DEF RegistOnline, directoryVars, Progress, Ending
  <1>3. at'[c] = "online" \/ (at'[c] = "idle" /\ cursor[c] = NChannel)
    <2>1. cursor[c] < NChannel \/ cursor[c] = NChannel
      BY <1>1, ChannelAssumption
    <2> QED
      BY <1>1, <1>2, <2>1 DEF Advance, GoTo, TypeOK
  <1>4. CASE cursor[c] = NChannel
    <2>1. <<"offline">> \in Seq(Listener) /\ HasListener(<<"offline">>, "offline")
      BY DEF Listener, HasListener
    <2>2. /\ Retracting(c)' /\ \A d \in Channel \ {c} : listeners'[d] = listeners[d]
          /\ HasListener(listeners'[c], "offline")
      BY <1>1, <1>2, <1>4, <2>1, RetractAdded DEF RegistOnline, Local
    <2>3. Announced(c)'
      BY <2>2 DEF Announced
    <2> QED
      BY <1>1, <1>2, <2>2, <2>3, NodesPush
  <1>5. CASE cursor[c] # NChannel
    <2>1. listeners' = listeners
      BY <1>5 DEF RegistOnline
    <2>2. Retracting(c)' /\ Announced(c)'
      BY <1>1, <1>2, <1>3, <1>5, <2>1 DEF Local, Retracting, Announced, Ending
    <2> QED
      BY <1>1, <1>2, <2>1, <2>2, NodesPush
  <1> QED
    BY <1>4, <1>5

LEMMA NodesUpdatePush ==
  ASSUME NInv, RInv', NEW c \in Channel, UpdatePush(c)
  PROVE  NInv'
  <1>1. RInv /\ TypeOK /\ Progress(c) /\ Local(c) /\ addr[c] \in Addr
    BY DEF NInv, RInv, TInv, TypeOK
  <1>2. /\ at[c] = "update" /\ c \in regist /\ ~ Ending(c)
        /\ Push(c, cursor[c], addr[c]) /\ Advance(c, "idle")
        /\ UNCHANGED <<regist, vip, overlap, failed, addr, listeners>>
    BY <1>1 DEF UpdatePush, directoryVars, Progress, Ending
  <1>3. Retracting(c)' /\ Announced(c)'
    BY <1>1, <1>2 DEF Local, Retracting, Announced, Ending
  <1> QED
    BY <1>1, <1>2, <1>3, NodesPush

LEMMA NodesOfflinePush ==
  ASSUME NInv, RInv', NEW c \in Channel, OfflinePush(c)
  PROVE  NInv'
  <1>1. RInv /\ TypeOK /\ Local(c)
    BY DEF NInv, RInv, TInv
  <1>2. /\ at[c] = "offline" /\ c \notin regist
        /\ Push(c, cursor[c], Absent) /\ Advance(c, "closing")
        /\ UNCHANGED <<regist, vip, overlap, failed, addr, listeners>>
    BY <1>1 DEF OfflinePush, directoryVars, Local, Unheard
  <1>3. at'[c] \in {"offline", "closing"}
    BY <1>1, <1>2 DEF Advance, GoTo, TypeOK
  <1>4. Retracting(c)' /\ Announced(c)'
    BY <1>2, <1>3 DEF Retracting, Announced, Ending
  <1> QED
    BY <1>2, <1>4, NodesPush

(* A push that is written to a client changes nothing of what it was told. *)
LEMMA NodesRunTask ==
  ASSUME NInv, RInv', NEW c \in Channel, RunTask(c)
  PROVE  NInv'
  <1>1. RInv /\ TypeOK /\ Local(c)
    BY DEF NInv, RInv, TInv
  <1>2. /\ at[c] = "idle" /\ tasks[c] # << >>
        /\ \A d \in Channel \ {c} : tasks'[d] = tasks[d] /\ view'[d] = view[d]
        /\ UNCHANGED <<at, listeners, regist, vip, overlap, failed, addr, cursor>>
    BY <1>1 DEF RunTask, TypeOK, directoryVars, loopVars
  <1>3. PICK q \in Seq(NodeInfo) : q = tasks[c]
    BY <1>1 DEF TypeOK
  <1>4. Head(q) \in NodeInfo /\ q # << >> /\ tasks'[c] = Tail(q)
    BY <1>1, <1>2, <1>3 DEF RunTask, TypeOK
  <1>5. \A v \in Vip : view'[c][v] = IF Head(q).vip = v THEN Head(q).info ELSE view[c][v]
    BY <1>1, <1>3, <1>4 DEF RunTask, TypeOK, NodeInfo
  <1>6. OnlyLoop(c)
    BY <1>2 DEF OnlyLoop
  <1>7. Local(c)'
    BY <1>1, <1>2 DEF Local, Iteration, Retracting, Announced, Unheard, Ending
  <1>8. ASSUME NEW d \in Channel PROVE Local(d)'
    BY <1>2, <1>6, <1>7, LocalFrame DEF NInv
  <1>9. Undisputed' = Undisputed
    BY <1>2, SameUndisputed
  <1>10. ASSUME NEW x \in Channel, NEW v \in Undisputed', Client(x)' PROVE Knows(x, v)'
    <2>1. Client(x) /\ v \in Undisputed /\ v \in Vip
      BY <1>2, <1>9, <1>10 DEF Client, Ending, Undisputed
    <2>2. Knows(x, v)
      BY <2>1 DEF NInv
    <2>3. /\ \A w : Heard(x, v, w) => Heard(x, v, w)'
          /\ Speechless(tasks[x], v) => Speechless(tasks[x], v)'
      <3>1. CASE x # c
        <4>1. tasks'[x] = tasks[x] /\ view'[x] = view[x]
          BY <1>2, <3>1
        <4> QED
          BY ONLY <4>1 DEF Heard, Speechless, LastSaid
      <3>2. CASE x = c
        <4>1. Speechless(q, v) => Speechless(Tail(q), v) /\ view'[c][v] = view[c][v]
          BY <1>4, <1>5, <2>1, SaidTail
        <4>2. ASSUME NEW w, LastSaid(q, v, w)
              PROVE  LastSaid(Tail(q), v, w) \/ (Speechless(Tail(q), v) /\ view'[c][v] = w)
          BY <1>4, <1>5, <2>1, <4>2, SaidTail
        <4> QED
          BY <1>3, <1>4, <3>2, <4>1, <4>2 DEF Heard
      <3> QED
        BY <3>1, <3>2
    <2>4. /\ \A d \in Channel : WillRead(x, d) => WillRead(x, d)'
          /\ WillSay(c, x)' <=> WillSay(c, x)
          /\ WillRetract(c, x)' <=> WillRetract(c, x)
      BY <1>2 DEF WillRead, WillSay, WillRetract
    <2> QED
      BY <1>2, <1>6, <2>2, <2>3, <2>4, OthersFrame
  <1> QED
    BY <1>8, <1>10 DEF NInv

LEMMA NInvInit == Init => NInv
  <1> SUFFICES ASSUME Init PROVE NInv
    OBVIOUS
  <1>1. ASSUME NEW c \in Channel PROVE Local(c)
    BY DEF Init, Local, Iteration, Retracting, Announced, Unheard, HasListener
  <1>2. ASSUME NEW c \in Channel PROVE ~ Client(c)
    BY DEF Init, Client
  <1> QED
    BY <1>1, <1>2, RInvInit DEF NInv

LEMMA NInvStep == NInv /\ [Next]_vars => NInv'
  <1> SUFFICES ASSUME NInv, [Next]_vars PROVE NInv'
    OBVIOUS
  <1>1. RInv'
    BY RInvStep DEF NInv
  <1>2. ASSUME NEW c \in Channel, ClientStep(c) PROVE NInv'
    <2>1. CASE RegistNoTenant(c) \/ Disconnect(c) \/ Heart(c)
      BY <1>1, <2>1, NodesStutter
         DEF RegistNoTenant, Disconnect, Heart, directoryVars, loopVars, wireVars
    <2> QED
      BY <1>1, <1>2, <2>1, NodesConnect, NodesRegistReject, NodesRegistAssign, NodesRegistAgain,
         NodesUpdateNodeInfo DEF ClientStep
  <1>3. ASSUME NEW c \in Channel, LoopStep(c) PROVE NInv'
    BY <1>1, <1>3, NodesRegistAddChannel, NodesRegistInsert, NodesRegistAttrs, NodesRegistList,
       NodesRegistSort, NodesRegistFail, NodesRegistOnline, NodesUpdatePush, NodesRunTask,
       NodesClose, NodesCloseMaps, NodesCloseRegist, NodesCloseOffline, NodesOfflinePush,
       NodesClosed DEF LoopStep
  <1>4. ASSUME NEW c \in Channel, HeartTimeout(c) \/ Sweep(c) PROVE NInv'
    BY <1>1, <1>4, NodesStutter DEF HeartTimeout, Sweep, directoryVars, loopVars, wireVars
  <1>5. ASSUME NEW t \in Tenant, NEW v \in Vip, OfflineChannel(t, v) PROVE NInv'
    BY <1>1, <1>5, NodesStutter DEF OfflineChannel, directoryVars, loopVars, wireVars
  <1>6. CASE UNCHANGED vars
    BY <1>1, <1>6, NodesStutter DEF vars, directoryVars, loopVars, wireVars
  <1> QED
    BY <1>2, <1>3, <1>4, <1>5, <1>6 DEF Next

(* When all handlers have ended and all queued writes are out, a client has exactly *)
(* the registered nodes in its directory, each with its latest addresses, however     *)
(* registrations, updates and closes interleaved (processRegist, UpdateNodeInfo, the   *)
(* close listeners): for any number of connections, and with both data services.       *)
THEOREM DirectoriesConverge == Spec => []Converged
  <1>1. NInv => Converged
    BY NInvImplies
  <1> QED
    BY <1>1, NInvInit, NInvStep, PTL DEF Spec
-----------------------------------------------------------------------------
(* What a connection has to give back.  For everything it has it has the listener *)
(* that gives it back; that of registChannelMap and ChannelSpace is in Progress      *)
(* and Removable.                                                                     *)
Accounted(c) ==
    /\ c \in active => HasListener(listeners[c], "channel")
    /\ \A t \in Tenant, v \in Vip :
          bind[t][v] = c => /\ t = TenantOf[c] /\ v = vip[c]
                            /\ HasListener(listeners[c], "bind")

AInv == RInv /\ \A c \in Channel : Accounted(c)

LEMMA AInvImplies == AInv => NothingLeft
  <1> SUFFICES ASSUME AInv, NEW c \in Channel, at[c] = "closed"
               PROVE  c \notin active /\ c \notin regist /\ \A t \in Tenant, v \in Vip : bind[t][v] # c
    BY DEF NothingLeft
  <1>1. Progress(c) /\ Accounted(c)
    BY DEF AInv, RInv
  <1>2. listeners[c] = << >>
    BY <1>1 DEF Progress
  <1>3. \A k \in Listener : ~ HasListener(listeners[c], k)
    BY <1>2 DEF HasListener
  <1>4. {"channel", "regist", "bind"} \subseteq Listener
    BY DEF Listener
  <1> QED
    BY <1>1, <1>3, <1>4 DEF Progress, Accounted

(* Nothing is taken, and what gives back the rest is still there. *)
LEMMA AccountedFrame ==
  ASSUME NEW c \in Channel, Accounted(c), UNCHANGED bind, vip'[c] = vip[c],
         c \in active' => c \in active,
         \A k \in {"channel", "bind"} : HasListener(listeners[c], k) => HasListener(listeners'[c], k)
  PROVE  Accounted(c)'
  BY DEF Accounted

LEMMA AccountedStutter ==
  ASSUME AInv, RInv', UNCHANGED <<bind, vip, listeners>>, active' \subseteq active
  PROVE  AInv'
  BY AccountedFrame DEF AInv

LEMMA AccountedAdd ==
  ASSUME AInv, RInv', NEW c \in Channel, NEW added \in Seq(Listener), AddListeners(c, added),
         UNCHANGED <<bind, vip>>,
         \/ active' = active
         \/ active' = active \cup {c} /\ HasListener(added, "channel")
  PROVE  AInv'
  <1>1. TInv /\ {"channel", "bind"} \subseteq Listener
    BY DEF AInv, RInv, Listener
  <1>2. /\ \A d \in Channel \ {c} : listeners'[d] = listeners[d]
        /\ \A k \in {"channel", "bind"} : HasListener(listeners'[c], k) <=>
              HasListener(listeners[c], k) \/ HasListener(added, k)
    BY <1>1, AddedListeners
  <1>3. ASSUME NEW d \in Channel, d # c PROVE Accounted(d)'
    BY <1>2, <1>3, AccountedFrame DEF AInv
  <1>4. Accounted(c)'
    BY <1>2 DEF AInv, Accounted
  <1> QED
    BY <1>3, <1>4 DEF AInv

LEMMA AccountedPop ==
  ASSUME AInv, RInv', NEW c \in Channel, NEW k \in Listener, Closing(c, k), PopListener(c),
         UNCHANGED vip,
         IF k = "channel" THEN active' = active \ {c} ELSE active' = active,
         IF k = "bind" THEN bind' = [bind EXCEPT ![TenantOf[c]][vip[c]] = NoChannel] ELSE bind' = bind
  PROVE  AInv'
  <1>1. TInv /\ TypeOK /\ {"channel", "bind"} \subseteq Listener /\ TenantOf[c] \in Tenant
    BY TenantAssumption DEF AInv, RInv, TInv, Listener
  <1>2. /\ \A d \in Channel \ {c} : listeners'[d] = listeners[d]
        /\ \A other \in {"channel", "bind"} \ {k} :
              HasListener(listeners[c], other) => HasListener(listeners'[c], other)
    BY <1>1, PoppedListener
  <1>3. ASSUME NEW t \in Tenant, NEW v \in Vip
        PROVE  bind'[t][v] = IF k = "bind" /\ t = TenantOf[c] /\ v = vip[c]
                             THEN NoChannel ELSE bind[t][v]
    BY <1>1 DEF TypeOK
  <1>4. ASSUME NEW d \in Channel PROVE Accounted(d)'
    <2>1. Accounted(d) /\ d # NoChannel
      BY SomeChannel DEF AInv
    <2>2. CASE d # c
      BY <1>2, <1>3, <2>1, <2>2 DEF Accounted
    <2>3. CASE d = c
      BY <1>2, <1>3, <2>1, <2>3 DEF Accounted
    <2> QED
      BY <2>2, <2>3
  <1> QED
    BY <1>4 DEF AInv

LEMMA AccountedAssign ==
  ASSUME AInv, RInv', NEW c \in Channel, RegistAssign(c)
  PROVE  AInv'
  <1>1. RInv /\ TInv /\ TypeOK /\ Progress(c) /\ {"channel", "bind"} \subseteq Listener
        /\ TenantOf[c] \in Tenant
    BY TenantAssumption DEF AInv, RInv, TInv, Listener
  <1>2. PICK v \in Assignable(c) :
          /\ vip' = [vip EXCEPT ![c] = v]
          /\ IF Exclusive
             THEN bind' = [bind EXCEPT ![TenantOf[c]][v] = c]
             ELSE UNCHANGED bind
    BY DEF RegistAssign
  <1>3. v \in Vip
    BY <1>1, MacAssumption DEF Assignable, TypeOK
  <1>4. vip[c] = NoVip /\ vip[c] \notin Vip /\ UNCHANGED active
    BY <1>1, VipAssumption DEF RegistAssign, Request, Progress, heartVars
  <1>5. /\ AssignListeners \in Seq(Listener)
        /\ Exclusive => HasListener(AssignListeners, "bind")
    <2>1. <<"regist", "bind">> \in Seq(Listener) /\ <<"regist">> \in Seq(Listener)
      BY DEF Listener
    <2>2. HasListener(<<"regist", "bind">>, "bind")
      BY DEF HasListener
    <2> QED
      BY <2>1, <2>2, Zenon DEF AssignListeners
  <1>6. /\ \A d \in Channel \ {c} : listeners'[d] = listeners[d]
        /\ \A k \in {"channel", "bind"} : HasListener(listeners'[c], k) <=>
              HasListener(listeners[c], k) \/ HasListener(AssignListeners, k)
    BY <1>1, <1>5, AddedListeners DEF RegistAssign
  <1>7. ASSUME NEW t \in Tenant, NEW w \in Vip
        PROVE  bind'[t][w] = IF Exclusive /\ t = TenantOf[c] /\ w = v THEN c ELSE bind[t][w]
    BY <1>1, <1>2, <1>3 DEF TypeOK
  <1>8. vip'[c] = v /\ \A d \in Channel \ {c} : vip'[d] = vip[d]
    BY <1>1, <1>2 DEF TypeOK
  <1>9. ASSUME NEW d \in Channel PROVE Accounted(d)'
    <2>1. Accounted(d)
      BY DEF AInv
    <2>2. CASE d # c
      BY <1>4, <1>6, <1>7, <1>8, <2>1, <2>2 DEF Accounted
    <2>3. CASE d = c
      BY <1>4, <1>5, <1>6, <1>7, <1>8, <2>1, <2>3 DEF Accounted
    <2> QED
      BY <2>2, <2>3
  <1> QED
    BY <1>9 DEF AInv

LEMMA AInvInit == Init => AInv
  <1> SUFFICES ASSUME Init, NEW c \in Channel PROVE Accounted(c)
    BY RInvInit DEF AInv
  <1> QED
    BY SomeChannel DEF Init, Accounted

LEMMA AInvStep == AInv /\ [Next]_vars => AInv'
  <1> SUFFICES ASSUME AInv, [Next]_vars PROVE AInv'
    OBVIOUS
  <1>1. RInv'
    BY RInvStep DEF AInv
  <1>2. ASSUME NEW c \in Channel, ClientStep(c) PROVE AInv'
    <2>1. CASE Connect(c)
      <3>1. <<"channel">> \in Seq(Listener) /\ HasListener(<<"channel">>, "channel")
        BY DEF Listener, HasListener
      <3> QED
        BY <1>1, <2>1, <3>1, AccountedAdd DEF Connect, directoryVars
    <2>2. CASE RegistReject(c)
      <3>1. <<"regist">> \in Seq(Listener)
        BY DEF Listener
      <3> QED
        BY <1>1, <2>2, <3>1, AccountedAdd DEF RegistReject, directoryVars, heartVars
    <2>3. CASE RegistNoTenant(c) \/ RegistAgain(c) \/ UpdateNodeInfo(c) \/ Disconnect(c) \/ Heart(c)
      BY <1>1, <2>3, AccountedStutter
         DEF RegistNoTenant, RegistAgain, UpdateNodeInfo, Disconnect, Heart, directoryVars, loopVars, heartVars
    <2> QED
      BY <1>1, <1>2, <2>1, <2>2, <2>3, AccountedAssign DEF ClientStep
  <1>3. ASSUME NEW c \in Channel, LoopStep(c) PROVE AInv'
    <2>1. Listener = {"channel", "regist", "bind", "space", "offline"}
      BY DEF Listener
    <2>2. CASE RegistAddChannel(c)
      <3>1. <<"space">> \in Seq(Listener)
        BY DEF Listener
      <3> QED
        BY <1>1, <2>2, <3>1, AccountedAdd DEF RegistAddChannel, heartVars
    <2>3. CASE RegistOnline(c)
      <3>1. <<"offline">> \in Seq(Listener) /\ UNCHANGED <<bind, vip, active>>
        BY <2>3 DEF Listener, RegistOnline, directoryVars, heartVars
      <3>2. CASE AddListeners(c, <<"offline">>)
        BY <1>1, <3>1, <3>2, AccountedAdd
      <3>3. CASE UNCHANGED listeners
        BY <1>1, <3>1, <3>3, AccountedStutter
      <3> QED
        BY <2>3, <3>2, <3>3 DEF RegistOnline
    <2>4. CASE CloseChannelMap(c)
      BY <1>1, <2>1, <2>4, AccountedPop DEF CloseChannelMap, directoryVars
    <2>5. CASE CloseRegist(c)
      BY <1>1, <2>1, <2>5, AccountedPop DEF CloseRegist, heartVars
    <2>6. CASE CloseBind(c)
      BY <1>1, <2>1, <2>6, AccountedPop DEF CloseBind, heartVars
    <2>7. CASE CloseSpace(c)
      BY <1>1, <2>1, <2>7, AccountedPop DEF CloseSpace, heartVars
    <2>8. CASE CloseOffline(c)
      BY <1>1, <2>1, <2>8, AccountedPop DEF CloseOffline, directoryVars, heartVars
    <2>9. CASE RegistInsert(c) \/ RegistAttrs(c) \/ RegistList(c) \/ RegistSort(c) \/ RegistFail(c)
               \/ UpdatePush(c) \/ RunTask(c) \/ Close(c) \/ OfflinePush(c) \/ Closed(c)
      BY <1>1, <2>9, AccountedStutter
         DEF RegistInsert, RegistAttrs, RegistList, RegistSort, RegistFail, UpdatePush, RunTask,
             Close, OfflinePush, Closed, directoryVars, loopVars, heartVars
    <2> QED
      BY <1>3, <2>2, <2>3, <2>4, <2>5, <2>6, <2>7, <2>8, <2>9 DEF LoopStep
  <1>4. ASSUME NEW c \in Channel, HeartTimeout(c) \/ Sweep(c) PROVE AInv'
    BY <1>1, <1>4, AccountedStutter DEF HeartTimeout, Sweep, directoryVars, loopVars
  <1>5. ASSUME NEW t \in Tenant, NEW v \in Vip, OfflineChannel(t, v) PROVE AInv'
    BY <1>1, <1>5, AccountedStutter DEF OfflineChannel, directoryVars, loopVars
  <1>6. CASE UNCHANGED vars
    BY <1>1, <1>6, AccountedStutter DEF vars, directoryVars, loopVars, heartVars
  <1> QED
    BY <1>2, <1>3, <1>4, <1>5, <1>6 DEF Next

(* A connection whose close has completed has given everything back: no map of the *)
(* controller has it and no vip is bound to it, so that the pool of a tenant never    *)
(* shrinks, however registrations that were refused, repeated or failed half-way       *)
(* left its queue of listeners: for any number of connections.                          *)
THEOREM ClosedLeavesNothing == Spec => []NothingLeft
  <1>1. AInv => NothingLeft
    BY AInvImplies
  <1> QED
    BY <1>1, AInvInit, AInvStep, PTL DEF Spec
=============================================================================
