-------------------------- MODULE VipLeaseProofs --------------------------
(* With the local data service the controller implements VipLease, and two   *)
(* registered connections of a tenant never have the same vip.                *)
EXTENDS ControllerServerProofs

-----------------------------------------------------------------------------
(* The queue of close listeners: "regist" is ahead of "bind", and "bind" is in *)
(* it at most once.                                                            *)

RegistFirst(q) ==
    \E i \in 1 .. Len(q) : q[i] = "regist" /\ \A j \in 1 .. i - 1 : q[j] # "bind"

OneBind(q) ==
    \A i, j \in 1 .. Len(q) : q[i] = "bind" /\ q[j] = "bind" => i = j

LEMMA ConcatRegistFirst ==
  ASSUME NEW q \in Seq(Listener), NEW a \in Seq(Listener), RegistFirst(q)
  PROVE  RegistFirst(q \o a)
  <1>1. /\ Len(q \o a) = Len(q) + Len(a) /\ Len(q) \in Nat /\ Len(a) \in Nat
        /\ \A i \in 1 .. Len(q) + Len(a) :
              (q \o a)[i] = IF i <= Len(q) THEN q[i] ELSE a[i - Len(q)]
    BY ConcatProperties
  <1>2. PICK i \in 1 .. Len(q) : q[i] = "regist" /\ \A j \in 1 .. i - 1 : q[j] # "bind"
    BY DEF RegistFirst
  <1>3. i \in 1 .. Len(q \o a) /\ (q \o a)[i] = "regist"
    BY <1>1, <1>2
  <1>4. ASSUME NEW j \in 1 .. i - 1 PROVE (q \o a)[j] # "bind"
    BY <1>1, <1>2
  <1> QED
    BY <1>3, <1>4 DEF RegistFirst

(* A queue without "bind" stays sound when the two listeners of an assignment *)
(* are added.                                                                  *)
LEMMA AssignedQueue ==
  ASSUME NEW q \in Seq(Listener), ~ HasListener(q, "bind")
  PROVE  /\ RegistFirst(q \o <<"regist", "bind">>)
         /\ OneBind(q \o <<"regist", "bind">>)
  <1> DEFINE r == q \o <<"regist", "bind">>
  <1>1. <<"regist", "bind">> \in Seq(Listener)
    BY DEF Listener
  <1>2. /\ Len(r) = Len(q) + 2 /\ Len(q) \in Nat
        /\ \A i \in 1 .. Len(q) + 2 :
              r[i] = IF i <= Len(q) THEN q[i] ELSE <<"regist", "bind">>[i - Len(q)]
    BY <1>1, ConcatProperties
  <1>3. /\ \A i \in 1 .. Len(q) : r[i] # "bind"
        /\ r[Len(q) + 1] = "regist" /\ r[Len(q) + 2] = "bind"
    BY <1>2 DEF HasListener
  <1> HIDE DEF r
  <1>4. RegistFirst(r)
    <2>1. Len(q) + 1 \in 1 .. Len(r) /\ \A j \in 1 .. (Len(q) + 1) - 1 : r[j] # "bind"
      BY <1>2, <1>3
    <2> QED
      BY <1>3, <2>1 DEF RegistFirst
  <1>5. OneBind(r)
    <2>1. ASSUME NEW i \in 1 .. Len(r), r[i] = "bind" PROVE i = Len(q) + 2
      BY <1>2, <1>3, <2>1
    <2> QED
      BY <2>1 DEF OneBind
  <1> QED
    BY <1>4, <1>5 DEF r

(* Listeners other than "bind" may be added freely. *)
LEMMA ConcatOneBind ==
  ASSUME NEW q \in Seq(Listener), NEW a \in Seq(Listener), ~ HasListener(a, "bind"), OneBind(q)
  PROVE  OneBind(q \o a)
  <1>1. /\ Len(q \o a) = Len(q) + Len(a) /\ Len(q) \in Nat /\ Len(a) \in Nat
        /\ \A i \in 1 .. Len(q) + Len(a) :
              (q \o a)[i] = IF i <= Len(q) THEN q[i] ELSE a[i - Len(q)]
    BY ConcatProperties
  <1>2. ASSUME NEW i \in 1 .. Len(q) + Len(a), (q \o a)[i] = "bind"
        PROVE  i \in 1 .. Len(q) /\ q[i] = "bind"
    <2>1. CASE i <= Len(q)
      BY <1>1, <1>2, <2>1
    <2>2. CASE ~ (i <= Len(q))
      <3>1. i - Len(q) \in 1 .. Len(a) /\ a[i - Len(q)] = "bind"
        BY <1>1, <1>2, <2>2
      <3> QED
        BY <3>1 DEF HasListener
    <2> QED
      BY <2>1, <2>2
  <1> QED
    BY <1>1, <1>2 DEF OneBind

(* What is left when the head of the queue has run. *)
LEMMA TailQueue ==
  ASSUME NEW q \in Seq(Listener), q # << >>
  PROVE  /\ RegistFirst(q) /\ Head(q) # "regist" => RegistFirst(Tail(q))
         /\ OneBind(q) => OneBind(Tail(q))
         /\ OneBind(q) /\ Head(q) = "bind" => ~ HasListener(Tail(q), "bind")
         /\ RegistFirst(q) => Head(q) # "bind"
  <1>1. /\ Len(Tail(q)) = Len(q) - 1 /\ Len(q) \in Nat \ {0} /\ Head(q) = q[1]
        /\ \A i \in 1 .. Len(q) - 1 : Tail(q)[i] = q[i + 1]
    BY HeadTailProperties, EmptySeq
  <1>2. ASSUME RegistFirst(q), Head(q) # "regist" PROVE RegistFirst(Tail(q))
    <2>1. PICK i \in 1 .. Len(q) : q[i] = "regist" /\ \A j \in 1 .. i - 1 : q[j] # "bind"
      BY <1>2 DEF RegistFirst
    <2>2. i # 1
      BY <1>1, <1>2, <2>1
    <2>3. i - 1 \in 1 .. Len(Tail(q)) /\ Tail(q)[i - 1] = "regist"
      BY <1>1, <2>1, <2>2
    <2>4. ASSUME NEW j \in 1 .. (i - 1) - 1 PROVE Tail(q)[j] # "bind"
      <3>1. j \in 1 .. Len(q) - 1 /\ j + 1 \in 1 .. i - 1
        BY <1>1, <2>1, <2>4
      <3> QED
        BY <1>1, <2>1, <3>1
    <2> QED
      BY <2>3, <2>4 DEF RegistFirst
  <1>3. ASSUME OneBind(q) PROVE OneBind(Tail(q))
    <2>1. ASSUME NEW i \in 1 .. Len(Tail(q)), NEW j \in 1 .. Len(Tail(q)),
                 Tail(q)[i] = "bind", Tail(q)[j] = "bind"
          PROVE  i = j
      <3>1. i + 1 \in 1 .. Len(q) /\ j + 1 \in 1 .. Len(q)
            /\ q[i + 1] = "bind" /\ q[j + 1] = "bind"
        BY <1>1, <2>1
      <3>2. i + 1 = j + 1
        BY <1>3, <3>1 DEF OneBind
      <3> QED
        BY <1>1, <3>2
    <2> QED
      BY <2>1 DEF OneBind
  <1>4. ASSUME OneBind(q), Head(q) = "bind", HasListener(Tail(q), "bind") PROVE FALSE
    <2>1. PICK i \in 1 .. Len(q) - 1 : Tail(q)[i] = "bind"
      BY <1>1, <1>4 DEF HasListener
    <2>2. i + 1 \in 1 .. Len(q) /\ q[i + 1] = "bind" /\ q[1] = "bind" /\ 1 \in 1 .. Len(q)
      BY <1>1, <1>4, <2>1
    <2>3. i + 1 = 1
      BY <1>4, <2>2 DEF OneBind
    <2> QED
      BY <2>1, <2>3
  <1>5. ASSUME RegistFirst(q) PROVE Head(q) # "bind"
    <2>1. PICK i \in 1 .. Len(q) : q[i] = "regist" /\ \A j \in 1 .. i - 1 : q[j] # "bind"
      BY <1>5 DEF RegistFirst
    <2>2. CASE i = 1
      BY <1>1, <2>1, <2>2
    <2>3. CASE i # 1
      <3>1. 1 \in 1 .. i - 1
        BY <2>1, <2>3
      <3> QED
        BY <1>1, <2>1, <3>1
    <2> QED
      BY <2>2, <2>3
  <1> QED
    BY <1>2, <1>3, <1>4, <1>5

-----------------------------------------------------------------------------
(* The inductive invariant.  VipExclusive alone is not inductive: that a vip is  *)
(* free when the data service says so rests on every registered channel owning   *)
(* its binding, which rests on the listener that takes a channel out of the      *)
(* directory running before the one that drops its binding.                      *)

Owns(c) == vip[c] \in Vip /\ bind[TenantOf[c]][vip[c]] = c

Binding(c) ==
    /\ \A t \in Tenant, v \in Vip : bind[t][v] = c => t = TenantOf[c] /\ vip[c] = v
    /\ c \in regist \/ at[c] \in {"space", "insert"} =>
          Owns(c) /\ RegistFirst(listeners[c])
    /\ at[c] \in {"new", "idle"} /\ c \notin regist =>
          vip[c] = NoVip /\ ~ HasListener(listeners[c], "bind")
    /\ at[c] \in {"attrs", "list", "sort", "clash", "online", "update"} => c \in regist
    /\ OneBind(listeners[c])
    /\ HasListener(listeners[c], "bind") => Owns(c)

IInv == TInv /\ \A c \in Channel : Binding(c)

LEMMA IInvImplies == IInv => VipExclusive
  <1> SUFFICES ASSUME IInv, NEW c \in regist, NEW d \in regist,
                      TenantOf[c] = TenantOf[d], vip[c] = vip[d]
               PROVE  c = d
    BY DEF VipExclusive
  <1>1. c \in Channel /\ d \in Channel
    BY DEF IInv, TInv, TypeOK
  <1>2. Owns(c) /\ Owns(d)
    BY <1>1 DEF IInv, Binding
  <1> QED
    BY <1>2 DEF Owns

(* What a step leaves alone for a channel. *)
LEMMA BindingFrame ==
  ASSUME NEW d, Binding(d), UNCHANGED bind, at'[d] = at[d], vip'[d] = vip[d],
         listeners'[d] = listeners[d], (d \in regist') <=> (d \in regist)
  PROVE  Binding(d)'
  BY DEF Binding, Owns, RegistFirst, OneBind, HasListener

(* Listeners that are not "bind" join the queue. *)
LEMMA BindingAdd ==
  ASSUME TypeOK, NEW c \in Channel, Binding(c), NEW k \in Listener, k # "bind",
         AddListeners(c, <<k>>)
  PROVE  /\ RegistFirst(listeners[c]) => RegistFirst(listeners'[c])
         /\ OneBind(listeners'[c])
         /\ HasListener(listeners'[c], "bind") <=> HasListener(listeners[c], "bind")
  <1>1. listeners[c] \in Seq(Listener) /\ <<k>> \in Seq(Listener)
    BY DEF TypeOK
  <1>2. ~ HasListener(<<k>>, "bind")
    BY DEF HasListener
  <1>3. listeners'[c] = listeners[c] \o <<k>>
    BY DEF AddListeners, TypeOK
  <1>4. RegistFirst(listeners[c]) => RegistFirst(listeners[c] \o <<k>>)
    BY <1>1, ConcatRegistFirst
  <1>5. OneBind(listeners[c] \o <<k>>)
    BY <1>1, <1>2, ConcatOneBind DEF Binding
  <1>6. HasListener(listeners[c] \o <<k>>, "bind") <=> HasListener(listeners[c], "bind")
    BY <1>1, <1>2, ConcatHas
  <1> QED
    BY ONLY <1>3, <1>4, <1>5, <1>6

(* The head of the queue, of the given kind, has run. *)
LEMMA BindingPop ==
  ASSUME TypeOK, NEW c \in Channel, NEW k, Binding(c), Closing(c, k), PopListener(c)
  PROVE  /\ RegistFirst(listeners[c]) /\ k # "regist" => RegistFirst(listeners'[c])
         /\ OneBind(listeners'[c])
         /\ HasListener(listeners'[c], "bind") => HasListener(listeners[c], "bind") /\ k # "bind"
         /\ RegistFirst(listeners[c]) => k # "bind"
         /\ k = "bind" => HasListener(listeners[c], "bind")
  <1>1. listeners[c] \in Seq(Listener) /\ listeners[c] # << >> /\ Head(listeners[c]) = k
    BY DEF Closing, TypeOK
  <1>2. listeners'[c] = Tail(listeners[c])
    BY DEF PopListener, TypeOK
  <1>3. 1 \in 1 .. Len(listeners[c]) /\ listeners[c][1] = k
    BY <1>1
  <1>4. k = "bind" => HasListener(listeners[c], "bind")
    BY <1>3 DEF HasListener
  <1> QED
    BY <1>1, <1>2, <1>4, TailQueue, TailHas DEF Binding

LEMMA BindingRegistNoTenant ==
  ASSUME IInv, NEW c \in Channel, RegistNoTenant(c)
  PROVE  UNCHANGED bind /\ \A d \in Channel : Binding(d)'
  <1>1. UNCHANGED <<bind, at, vip, listeners, regist>>
    BY DEF RegistNoTenant, directoryVars, loopVars, wireVars, heartVars
  <1> QED
    BY <1>1, BindingFrame DEF IInv

LEMMA BindingDisconnect ==
  ASSUME IInv, NEW c \in Channel, Disconnect(c)
  PROVE  UNCHANGED bind /\ \A d \in Channel : Binding(d)'
  <1>1. UNCHANGED <<bind, at, vip, listeners, regist>>
    BY DEF Disconnect, directoryVars, loopVars, wireVars, heartVars
  <1> QED
    BY <1>1, BindingFrame DEF IInv

LEMMA BindingHeartTimeout ==
  ASSUME IInv, NEW c \in Channel, HeartTimeout(c)
  PROVE  UNCHANGED bind /\ \A d \in Channel : Binding(d)'
  <1>1. UNCHANGED <<bind, at, vip, listeners, regist>>
    BY DEF HeartTimeout, directoryVars, loopVars, wireVars, heartVars
  <1> QED
    BY <1>1, BindingFrame DEF IInv

LEMMA BindingHeart ==
  ASSUME IInv, NEW c \in Channel, Heart(c)
  PROVE  UNCHANGED bind /\ \A d \in Channel : Binding(d)'
  <1>1. UNCHANGED <<bind, at, vip, listeners, regist>>
    BY DEF Heart, directoryVars, loopVars, wireVars, heartVars
  <1> QED
    BY <1>1, BindingFrame DEF IInv

LEMMA BindingSweep ==
  ASSUME IInv, NEW c \in Channel, Sweep(c)
  PROVE  UNCHANGED bind /\ \A d \in Channel : Binding(d)'
  <1>1. UNCHANGED <<bind, at, vip, listeners, regist>>
    BY DEF Sweep, directoryVars, loopVars, wireVars, heartVars
  <1> QED
    BY <1>1, BindingFrame DEF IInv

LEMMA BindingRunTask ==
  ASSUME IInv, NEW c \in Channel, RunTask(c)
  PROVE  UNCHANGED bind /\ \A d \in Channel : Binding(d)'
  <1>1. UNCHANGED <<bind, at, vip, listeners, regist>>
    BY DEF RunTask, directoryVars, loopVars, wireVars, heartVars
  <1> QED
    BY <1>1, BindingFrame DEF IInv

LEMMA BindingRegistInsert ==
  ASSUME IInv, NEW c \in Channel, RegistInsert(c)
  PROVE  UNCHANGED bind /\ \A d \in Channel : Binding(d)'
  <1>1. ASSUME NEW d \in Channel, d # c PROVE Binding(d)'
    <2>1. /\ UNCHANGED bind /\ at'[d] = at[d] /\ vip'[d] = vip[d]
          /\ listeners'[d] = listeners[d] /\ ((d \in regist') <=> (d \in regist))
      BY <1>1 DEF RegistInsert, GoTo, Advance, AddListeners, PopListener, IInv, TInv,
         TypeOK, directoryVars, loopVars, wireVars, heartVars
    <2> QED
      BY <2>1, BindingFrame DEF IInv
  <1>2. Binding(c)'
    <2>1. UNCHANGED <<bind, vip, listeners>>
      BY DEF RegistInsert, directoryVars, loopVars, wireVars, heartVars
    <2>2. at' \in [Channel -> Stage] /\ at \in [Channel -> Stage]
      BY TypeRegistInsert DEF IInv, TInv, TypeOK
    <2>3. Binding(c)
      BY DEF IInv
    <2> QED
      BY <2>1, <2>2, <2>3 DEF RegistInsert, Binding, Owns, GoTo, Advance, Request,
         RegistFirst, OneBind, HasListener, directoryVars, loopVars, wireVars, heartVars
  <1> QED
    BY <1>1, <1>2 DEF RegistInsert, directoryVars

LEMMA BindingRegistAgain ==
  ASSUME IInv, NEW c \in Channel, RegistAgain(c)
  PROVE  UNCHANGED bind /\ \A d \in Channel : Binding(d)'
  <1>1. ASSUME NEW d \in Channel, d # c PROVE Binding(d)'
    <2>1. /\ UNCHANGED bind /\ at'[d] = at[d] /\ vip'[d] = vip[d]
          /\ listeners'[d] = listeners[d] /\ ((d \in regist') <=> (d \in regist))
      BY <1>1 DEF RegistAgain, GoTo, Advance, AddListeners, PopListener, IInv, TInv,
         TypeOK, directoryVars, loopVars, wireVars, heartVars
    <2> QED
      BY <2>1, BindingFrame DEF IInv
  <1>2. Binding(c)'
    <2>1. UNCHANGED <<bind, vip, listeners>>
      BY DEF RegistAgain, directoryVars, loopVars, wireVars, heartVars
    <2>2. at' \in [Channel -> Stage] /\ at \in [Channel -> Stage]
      BY TypeRegistAgain DEF IInv, TInv, TypeOK
    <2>3. Binding(c)
      BY DEF IInv
    <2> QED
      BY <2>1, <2>2, <2>3 DEF RegistAgain, Binding, Owns, GoTo, Advance, Request,
         RegistFirst, OneBind, HasListener, directoryVars, loopVars, wireVars, heartVars
  <1> QED
    BY <1>1, <1>2 DEF RegistAgain, directoryVars

LEMMA BindingRegistAttrs ==
  ASSUME IInv, NEW c \in Channel, RegistAttrs(c)
  PROVE  UNCHANGED bind /\ \A d \in Channel : Binding(d)'
  <1>1. ASSUME NEW d \in Channel, d # c PROVE Binding(d)'
    <2>1. /\ UNCHANGED bind /\ at'[d] = at[d] /\ vip'[d] = vip[d]
          /\ listeners'[d] = listeners[d] /\ ((d \in regist') <=> (d \in regist))
      BY <1>1 DEF RegistAttrs, GoTo, Advance, AddListeners, PopListener, IInv, TInv,
         TypeOK, directoryVars, loopVars, wireVars, heartVars
    <2> QED
      BY <2>1, BindingFrame DEF IInv
  <1>2. Binding(c)'
    <2>1. UNCHANGED <<bind, vip, listeners>>
      BY DEF RegistAttrs, directoryVars, loopVars, wireVars, heartVars
    <2>2. at' \in [Channel -> Stage] /\ at \in [Channel -> Stage]
      BY TypeRegistAttrs DEF IInv, TInv, TypeOK
    <2>3. Binding(c)
      BY DEF IInv
    <2> QED
      BY <2>1, <2>2, <2>3 DEF RegistAttrs, Binding, Owns, GoTo, Advance, Request,
         RegistFirst, OneBind, HasListener, directoryVars, loopVars, wireVars, heartVars
  <1> QED
    BY <1>1, <1>2 DEF RegistAttrs, directoryVars

LEMMA BindingRegistList ==
  ASSUME IInv, NEW c \in Channel, RegistList(c)
  PROVE  UNCHANGED bind /\ \A d \in Channel : Binding(d)'
  <1>1. ASSUME NEW d \in Channel, d # c PROVE Binding(d)'
    <2>1. /\ UNCHANGED bind /\ at'[d] = at[d] /\ vip'[d] = vip[d]
          /\ listeners'[d] = listeners[d] /\ ((d \in regist') <=> (d \in regist))
      BY <1>1 DEF RegistList, GoTo, Advance, AddListeners, PopListener, IInv, TInv,
         TypeOK, directoryVars, loopVars, wireVars, heartVars
    <2> QED
      BY <2>1, BindingFrame DEF IInv
  <1>2. Binding(c)'
    <2>1. UNCHANGED <<bind, vip, listeners>>
      BY DEF RegistList, directoryVars, loopVars, wireVars, heartVars
    <2>2. at' \in [Channel -> Stage] /\ at \in [Channel -> Stage]
      BY TypeRegistList DEF IInv, TInv, TypeOK
    <2>3. Binding(c)
      BY DEF IInv
    <2> QED
      BY <2>1, <2>2, <2>3 DEF RegistList, Binding, Owns, GoTo, Advance, Request,
         RegistFirst, OneBind, HasListener, directoryVars, loopVars, wireVars, heartVars
  <1> QED
    BY <1>1, <1>2 DEF RegistList, directoryVars

LEMMA BindingRegistSort ==
  ASSUME IInv, NEW c \in Channel, RegistSort(c)
  PROVE  UNCHANGED bind /\ \A d \in Channel : Binding(d)'
  <1>1. UNCHANGED <<bind, vip, listeners, regist>>
    BY DEF RegistSort, directoryVars
  <1>2. ASSUME NEW d \in Channel PROVE Binding(d)'
    <2>1. Binding(d)
      BY DEF IInv
    <2>2. CASE at'[d] = at[d]
      BY <1>1, <2>1, <2>2, BindingFrame
    <2>3. CASE at'[d] # at[d]
      <3>1. at[d] = "sort" /\ at'[d] \in {"online", "clash"}
        BY <2>3 DEF RegistSort, IInv, TInv, TypeOK
      <3> QED
        BY <1>1, <2>1, <3>1 DEF Binding, Owns, RegistFirst, OneBind, HasListener
    <2> QED
      BY <2>2, <2>3
  <1> QED
    BY <1>1, <1>2

LEMMA BindingRegistFail ==
  ASSUME IInv, NEW c \in Channel, RegistFail(c)
  PROVE  UNCHANGED bind /\ \A d \in Channel : Binding(d)'
  <1>1. ASSUME NEW d \in Channel, d # c PROVE Binding(d)'
    <2>1. /\ UNCHANGED bind /\ at'[d] = at[d] /\ vip'[d] = vip[d]
          /\ listeners'[d] = listeners[d] /\ ((d \in regist') <=> (d \in regist))
      BY <1>1 DEF RegistFail, GoTo, Advance, AddListeners, PopListener, IInv, TInv,
         TypeOK, directoryVars, loopVars, wireVars, heartVars
    <2> QED
      BY <2>1, BindingFrame DEF IInv
  <1>2. Binding(c)'
    <2>1. UNCHANGED <<bind, vip, listeners>>
      BY DEF RegistFail, directoryVars, loopVars, wireVars, heartVars
    <2>2. at' \in [Channel -> Stage] /\ at \in [Channel -> Stage]
      BY TypeRegistFail DEF IInv, TInv, TypeOK
    <2>3. Binding(c)
      BY DEF IInv
    <2> QED
      BY <2>1, <2>2, <2>3 DEF RegistFail, Binding, Owns, GoTo, Advance, Request,
         RegistFirst, OneBind, HasListener, directoryVars, loopVars, wireVars, heartVars
  <1> QED
    BY <1>1, <1>2 DEF RegistFail, directoryVars

LEMMA BindingUpdateNodeInfo ==
  ASSUME IInv, NEW c \in Channel, UpdateNodeInfo(c)
  PROVE  UNCHANGED bind /\ \A d \in Channel : Binding(d)'
  <1>1. ASSUME NEW d \in Channel, d # c PROVE Binding(d)'
    <2>1. /\ UNCHANGED bind /\ at'[d] = at[d] /\ vip'[d] = vip[d]
          /\ listeners'[d] = listeners[d] /\ ((d \in regist') <=> (d \in regist))
      BY <1>1 DEF UpdateNodeInfo, GoTo, Advance, AddListeners, PopListener, IInv, TInv,
         TypeOK, directoryVars, loopVars, wireVars, heartVars
    <2> QED
      BY <2>1, BindingFrame DEF IInv
  <1>2. Binding(c)'
    <2>1. UNCHANGED <<bind, vip, listeners>>
      BY DEF UpdateNodeInfo, directoryVars, loopVars, wireVars, heartVars
    <2>2. at' \in [Channel -> Stage] /\ at \in [Channel -> Stage]
      BY TypeUpdateNodeInfo DEF IInv, TInv, TypeOK
    <2>3. Binding(c)
      BY DEF IInv
    <2> QED
      BY <2>1, <2>2, <2>3 DEF UpdateNodeInfo, Binding, Owns, GoTo, Advance, Request,
         RegistFirst, OneBind, HasListener, directoryVars, loopVars, wireVars, heartVars
  <1> QED
    BY <1>1, <1>2 DEF UpdateNodeInfo, directoryVars

LEMMA BindingUpdatePush ==
  ASSUME IInv, NEW c \in Channel, UpdatePush(c)
  PROVE  UNCHANGED bind /\ \A d \in Channel : Binding(d)'
  <1>1. ASSUME NEW d \in Channel, d # c PROVE Binding(d)'
    <2>1. /\ UNCHANGED bind /\ at'[d] = at[d] /\ vip'[d] = vip[d]
          /\ listeners'[d] = listeners[d] /\ ((d \in regist') <=> (d \in regist))
      BY <1>1 DEF UpdatePush, GoTo, Advance, AddListeners, PopListener, IInv, TInv,
         TypeOK, directoryVars, loopVars, wireVars, heartVars
    <2> QED
      BY <2>1, BindingFrame DEF IInv
  <1>2. Binding(c)'
    <2>1. UNCHANGED <<bind, vip, listeners>>
      BY DEF UpdatePush, directoryVars, loopVars, wireVars, heartVars
    <2>2. at' \in [Channel -> Stage] /\ at \in [Channel -> Stage]
      BY TypeUpdatePush DEF IInv, TInv, TypeOK
    <2>3. Binding(c)
      BY DEF IInv
    <2> QED
      BY <2>1, <2>2, <2>3 DEF UpdatePush, Binding, Owns, GoTo, Advance, Request,
         RegistFirst, OneBind, HasListener, directoryVars, loopVars, wireVars, heartVars
  <1> QED
    BY <1>1, <1>2 DEF UpdatePush, directoryVars

LEMMA BindingClose ==
  ASSUME IInv, NEW c \in Channel, Close(c)
  PROVE  UNCHANGED bind /\ \A d \in Channel : Binding(d)'
  <1>1. ASSUME NEW d \in Channel, d # c PROVE Binding(d)'
    <2>1. /\ UNCHANGED bind /\ at'[d] = at[d] /\ vip'[d] = vip[d]
          /\ listeners'[d] = listeners[d] /\ ((d \in regist') <=> (d \in regist))
      BY <1>1 DEF Close, GoTo, Advance, AddListeners, PopListener, IInv, TInv, TypeOK,
         directoryVars, loopVars, wireVars, heartVars
    <2> QED
      BY <2>1, BindingFrame DEF IInv
  <1>2. Binding(c)'
    <2>1. UNCHANGED <<bind, vip, listeners>>
      BY DEF Close, directoryVars, loopVars, wireVars, heartVars
    <2>2. at' \in [Channel -> Stage] /\ at \in [Channel -> Stage]
      BY TypeClose DEF IInv, TInv, TypeOK
    <2>3. Binding(c)
      BY DEF IInv
    <2> QED
      BY <2>1, <2>2, <2>3 DEF Close, Binding, Owns, GoTo, Advance, Request, RegistFirst,
         OneBind, HasListener, directoryVars, loopVars, wireVars, heartVars
  <1> QED
    BY <1>1, <1>2 DEF Close, directoryVars

LEMMA BindingOfflinePush ==
  ASSUME IInv, NEW c \in Channel, OfflinePush(c)
  PROVE  UNCHANGED bind /\ \A d \in Channel : Binding(d)'
  <1>1. ASSUME NEW d \in Channel, d # c PROVE Binding(d)'
    <2>1. /\ UNCHANGED bind /\ at'[d] = at[d] /\ vip'[d] = vip[d]
          /\ listeners'[d] = listeners[d] /\ ((d \in regist') <=> (d \in regist))
      BY <1>1 DEF OfflinePush, GoTo, Advance, AddListeners, PopListener, IInv, TInv,
         TypeOK, directoryVars, loopVars, wireVars, heartVars
    <2> QED
      BY <2>1, BindingFrame DEF IInv
  <1>2. Binding(c)'
    <2>1. UNCHANGED <<bind, vip, listeners>>
      BY DEF OfflinePush, directoryVars, loopVars, wireVars, heartVars
    <2>2. at' \in [Channel -> Stage] /\ at \in [Channel -> Stage]
      BY TypeOfflinePush DEF IInv, TInv, TypeOK
    <2>3. Binding(c)
      BY DEF IInv
    <2> QED
      BY <2>1, <2>2, <2>3 DEF OfflinePush, Binding, Owns, GoTo, Advance, Request,
         RegistFirst, OneBind, HasListener, directoryVars, loopVars, wireVars, heartVars
  <1> QED
    BY <1>1, <1>2 DEF OfflinePush, directoryVars

LEMMA BindingClosed ==
  ASSUME IInv, NEW c \in Channel, Closed(c)
  PROVE  UNCHANGED bind /\ \A d \in Channel : Binding(d)'
  <1>1. ASSUME NEW d \in Channel, d # c PROVE Binding(d)'
    <2>1. /\ UNCHANGED bind /\ at'[d] = at[d] /\ vip'[d] = vip[d]
          /\ listeners'[d] = listeners[d] /\ ((d \in regist') <=> (d \in regist))
      BY <1>1 DEF Closed, GoTo, Advance, AddListeners, PopListener, IInv, TInv, TypeOK,
         directoryVars, loopVars, wireVars, heartVars
    <2> QED
      BY <2>1, BindingFrame DEF IInv
  <1>2. Binding(c)'
    <2>1. UNCHANGED <<bind, vip, listeners>>
      BY DEF Closed, directoryVars, loopVars, wireVars, heartVars
    <2>2. at' \in [Channel -> Stage] /\ at \in [Channel -> Stage]
      BY TypeClosed DEF IInv, TInv, TypeOK
    <2>3. Binding(c)
      BY DEF IInv
    <2> QED
      BY <2>1, <2>2, <2>3 DEF Closed, Binding, Owns, GoTo, Advance, Request,
         RegistFirst, OneBind, HasListener, directoryVars, loopVars, wireVars, heartVars
  <1> QED
    BY <1>1, <1>2 DEF Closed, directoryVars

LEMMA BindingConnect ==
  ASSUME IInv, NEW c \in Channel, Connect(c)
  PROVE  UNCHANGED bind /\ \A d \in Channel : Binding(d)'
  <1>1. ASSUME NEW d \in Channel, d # c PROVE Binding(d)'
    <2>1. /\ UNCHANGED bind /\ at'[d] = at[d] /\ vip'[d] = vip[d]
          /\ listeners'[d] = listeners[d] /\ ((d \in regist') <=> (d \in regist))
      BY <1>1 DEF Connect, GoTo, Advance, AddListeners, PopListener, IInv, TInv, TypeOK,
         directoryVars, loopVars, wireVars, heartVars
    <2> QED
      BY <2>1, BindingFrame DEF IInv
  <1>2. Binding(c)'
    <2>1. UNCHANGED <<bind, vip, regist>>
      BY DEF Connect, directoryVars, loopVars, wireVars, heartVars
    <2>2. at' \in [Channel -> Stage] /\ at \in [Channel -> Stage]
      BY TypeConnect DEF IInv, TInv, TypeOK
    <2>3. Binding(c)
      BY DEF IInv
    <2>4. /\ RegistFirst(listeners[c]) => RegistFirst(listeners'[c])
          /\ OneBind(listeners'[c])
          /\ HasListener(listeners'[c], "bind") <=> HasListener(listeners[c], "bind")
      BY <2>3, BindingAdd DEF Connect, IInv, TInv, Listener
    <2> QED
      BY <2>1, <2>2, <2>3, <2>4 DEF Connect, Binding, Owns, GoTo, Request
  <1> QED
    BY <1>1, <1>2 DEF Connect, directoryVars

LEMMA BindingRegistReject ==
  ASSUME IInv, NEW c \in Channel, RegistReject(c)
  PROVE  UNCHANGED bind /\ \A d \in Channel : Binding(d)'
  <1>1. ASSUME NEW d \in Channel, d # c PROVE Binding(d)'
    <2>1. /\ UNCHANGED bind /\ at'[d] = at[d] /\ vip'[d] = vip[d]
          /\ listeners'[d] = listeners[d] /\ ((d \in regist') <=> (d \in regist))
      BY <1>1 DEF RegistReject, GoTo, Advance, AddListeners, PopListener, IInv, TInv,
         TypeOK, directoryVars, loopVars, wireVars, heartVars
    <2> QED
      BY <2>1, BindingFrame DEF IInv
  <1>2. Binding(c)'
    <2>1. UNCHANGED <<bind, vip, regist>>
      BY DEF RegistReject, directoryVars, loopVars, wireVars, heartVars
    <2>2. at' \in [Channel -> Stage] /\ at \in [Channel -> Stage]
      BY TypeRegistReject DEF IInv, TInv, TypeOK
    <2>3. Binding(c)
      BY DEF IInv
    <2>4. /\ RegistFirst(listeners[c]) => RegistFirst(listeners'[c])
          /\ OneBind(listeners'[c])
          /\ HasListener(listeners'[c], "bind") <=> HasListener(listeners[c], "bind")
      BY <2>3, BindingAdd DEF RegistReject, IInv, TInv, Listener
    <2> QED
      BY <2>1, <2>2, <2>3, <2>4 DEF RegistReject, Binding, Owns, GoTo, Request
  <1> QED
    BY <1>1, <1>2 DEF RegistReject, directoryVars

LEMMA BindingRegistAddChannel ==
  ASSUME IInv, NEW c \in Channel, RegistAddChannel(c)
  PROVE  UNCHANGED bind /\ \A d \in Channel : Binding(d)'
  <1>1. ASSUME NEW d \in Channel, d # c PROVE Binding(d)'
    <2>1. /\ UNCHANGED bind /\ at'[d] = at[d] /\ vip'[d] = vip[d]
          /\ listeners'[d] = listeners[d] /\ ((d \in regist') <=> (d \in regist))
      BY <1>1 DEF RegistAddChannel, GoTo, Advance, AddListeners, PopListener, IInv,
         TInv, TypeOK, directoryVars, loopVars, wireVars, heartVars
    <2> QED
      BY <2>1, BindingFrame DEF IInv
  <1>2. Binding(c)'
    <2>1. UNCHANGED <<bind, vip, regist>>
      BY DEF RegistAddChannel, directoryVars, loopVars, wireVars, heartVars
    <2>2. at' \in [Channel -> Stage] /\ at \in [Channel -> Stage]
      BY TypeRegistAddChannel DEF IInv, TInv, TypeOK
    <2>3. Binding(c)
      BY DEF IInv
    <2>4. /\ RegistFirst(listeners[c]) => RegistFirst(listeners'[c])
          /\ OneBind(listeners'[c])
          /\ HasListener(listeners'[c], "bind") <=> HasListener(listeners[c], "bind")
      BY <2>3, BindingAdd DEF RegistAddChannel, IInv, TInv, Listener
    <2> QED
      BY <2>1, <2>2, <2>3, <2>4 DEF RegistAddChannel, Binding, Owns, GoTo, Request
  <1> QED
    BY <1>1, <1>2 DEF RegistAddChannel, directoryVars

LEMMA BindingRegistOnline ==
  ASSUME IInv, NEW c \in Channel, RegistOnline(c)
  PROVE  UNCHANGED bind /\ \A d \in Channel : Binding(d)'
  <1>1. ASSUME NEW d \in Channel, d # c PROVE Binding(d)'
    <2>1. /\ UNCHANGED bind /\ at'[d] = at[d] /\ vip'[d] = vip[d]
          /\ listeners'[d] = listeners[d] /\ ((d \in regist') <=> (d \in regist))
      BY <1>1 DEF RegistOnline, GoTo, Advance, AddListeners, PopListener, IInv, TInv,
         TypeOK, directoryVars, loopVars, wireVars, heartVars
    <2> QED
      BY <2>1, BindingFrame DEF IInv
  <1>2. Binding(c)'
    <2>1. UNCHANGED <<bind, vip, regist>>
      BY DEF RegistOnline, directoryVars, loopVars, wireVars, heartVars
    <2>2. at' \in [Channel -> Stage] /\ at \in [Channel -> Stage]
      BY TypeRegistOnline DEF IInv, TInv, TypeOK
    <2>3. Binding(c)
      BY DEF IInv
    <2>4. /\ RegistFirst(listeners[c]) => RegistFirst(listeners'[c])
          /\ OneBind(listeners'[c])
          /\ HasListener(listeners'[c], "bind") <=> HasListener(listeners[c], "bind")
      <3>1. CASE UNCHANGED listeners
        BY <2>3, <3>1 DEF Binding
      <3>2. CASE AddListeners(c, <<"offline">>)
        BY <2>3, <3>2, BindingAdd DEF IInv, TInv, Listener
      <3> QED
        BY <3>1, <3>2 DEF RegistOnline
    <2>5. at'[c] \in {"online", "idle"} /\ c \in regist
      BY <2>2, <2>3 DEF RegistOnline, Binding, Advance, GoTo
    <2> QED
      BY <2>1, <2>3, <2>4, <2>5 DEF Binding, Owns
  <1> QED
    BY <1>1, <1>2 DEF RegistOnline, directoryVars

LEMMA BindingCloseChannelMap ==
  ASSUME IInv, NEW c \in Channel, CloseChannelMap(c)
  PROVE  UNCHANGED bind /\ \A d \in Channel : Binding(d)'
  <1>1. ASSUME NEW d \in Channel, d # c PROVE Binding(d)'
    <2>1. /\ UNCHANGED bind /\ at'[d] = at[d] /\ vip'[d] = vip[d]
          /\ listeners'[d] = listeners[d] /\ ((d \in regist') <=> (d \in regist))
      BY <1>1 DEF CloseChannelMap, GoTo, Advance, AddListeners, PopListener, IInv, TInv,
         TypeOK, directoryVars, loopVars, wireVars, heartVars
    <2> QED
      BY <2>1, BindingFrame DEF IInv
  <1>2. Binding(c)'
    <2>1. UNCHANGED <<bind, vip>>
      BY DEF CloseChannelMap, directoryVars, loopVars, wireVars, heartVars
    <2>2. at'[c] \in {"closing", "offline"}
      BY DEF CloseChannelMap, Closing, GoTo, IInv, TInv, TypeOK
    <2>3. Binding(c)
      BY DEF IInv
    <2>4. /\ RegistFirst(listeners[c]) /\ "channel" # "regist" => RegistFirst(listeners'[c])
          /\ OneBind(listeners'[c])
          /\ HasListener(listeners'[c], "bind") => HasListener(listeners[c], "bind")
      BY <2>3, BindingPop DEF CloseChannelMap, IInv, TInv
    <2>5. c \in regist' => c \in regist /\ "channel" # "regist"
      BY DEF CloseChannelMap, directoryVars, loopVars, wireVars, heartVars
    <2> QED
      BY <2>1, <2>2, <2>3, <2>4, <2>5 DEF Binding, Owns
  <1> QED
    BY <1>1, <1>2 DEF CloseChannelMap, directoryVars

LEMMA BindingCloseRegist ==
  ASSUME IInv, NEW c \in Channel, CloseRegist(c)
  PROVE  UNCHANGED bind /\ \A d \in Channel : Binding(d)'
  <1>1. ASSUME NEW d \in Channel, d # c PROVE Binding(d)'
    <2>1. /\ UNCHANGED bind /\ at'[d] = at[d] /\ vip'[d] = vip[d]
          /\ listeners'[d] = listeners[d] /\ ((d \in regist') <=> (d \in regist))
      BY <1>1 DEF CloseRegist, GoTo, Advance, AddListeners, PopListener, IInv, TInv,
         TypeOK, directoryVars, loopVars, wireVars, heartVars
    <2> QED
      BY <2>1, BindingFrame DEF IInv
  <1>2. Binding(c)'
    <2>1. UNCHANGED <<bind, vip>>
      BY DEF CloseRegist, directoryVars, loopVars, wireVars, heartVars
    <2>2. at'[c] \in {"closing", "offline"}
      BY DEF CloseRegist, Closing, GoTo, IInv, TInv, TypeOK
    <2>3. Binding(c)
      BY DEF IInv
    <2>4. /\ RegistFirst(listeners[c]) /\ "regist" # "regist" => RegistFirst(listeners'[c])
          /\ OneBind(listeners'[c])
          /\ HasListener(listeners'[c], "bind") => HasListener(listeners[c], "bind")
      BY <2>3, BindingPop DEF CloseRegist, IInv, TInv
    <2>5. c \in regist' => c \in regist /\ "regist" # "regist"
      BY DEF CloseRegist, directoryVars, loopVars, wireVars, heartVars
    <2> QED
      BY <2>1, <2>2, <2>3, <2>4, <2>5 DEF Binding, Owns
  <1> QED
    BY <1>1, <1>2 DEF CloseRegist, directoryVars

LEMMA BindingCloseSpace ==
  ASSUME IInv, NEW c \in Channel, CloseSpace(c)
  PROVE  UNCHANGED bind /\ \A d \in Channel : Binding(d)'
  <1>1. ASSUME NEW d \in Channel, d # c PROVE Binding(d)'
    <2>1. /\ UNCHANGED bind /\ at'[d] = at[d] /\ vip'[d] = vip[d]
          /\ listeners'[d] = listeners[d] /\ ((d \in regist') <=> (d \in regist))
      BY <1>1 DEF CloseSpace, GoTo, Advance, AddListeners, PopListener, IInv, TInv,
         TypeOK, directoryVars, loopVars, wireVars, heartVars
    <2> QED
      BY <2>1, BindingFrame DEF IInv
  <1>2. Binding(c)'
    <2>1. UNCHANGED <<bind, vip>>
      BY DEF CloseSpace, directoryVars, loopVars, wireVars, heartVars
    <2>2. at'[c] \in {"closing", "offline"}
      BY DEF CloseSpace, Closing, GoTo, IInv, TInv, TypeOK
    <2>3. Binding(c)
      BY DEF IInv
    <2>4. /\ RegistFirst(listeners[c]) /\ "space" # "regist" => RegistFirst(listeners'[c])
          /\ OneBind(listeners'[c])
          /\ HasListener(listeners'[c], "bind") => HasListener(listeners[c], "bind")
      BY <2>3, BindingPop DEF CloseSpace, IInv, TInv
    <2>5. c \in regist' => c \in regist /\ "space" # "regist"
      BY DEF CloseSpace, directoryVars, loopVars, wireVars, heartVars
    <2> QED
      BY <2>1, <2>2, <2>3, <2>4, <2>5 DEF Binding, Owns
  <1> QED
    BY <1>1, <1>2 DEF CloseSpace, directoryVars

LEMMA BindingCloseOffline ==
  ASSUME IInv, NEW c \in Channel, CloseOffline(c)
  PROVE  UNCHANGED bind /\ \A d \in Channel : Binding(d)'
  <1>1. ASSUME NEW d \in Channel, d # c PROVE Binding(d)'
    <2>1. /\ UNCHANGED bind /\ at'[d] = at[d] /\ vip'[d] = vip[d]
          /\ listeners'[d] = listeners[d] /\ ((d \in regist') <=> (d \in regist))
      BY <1>1 DEF CloseOffline, GoTo, Advance, AddListeners, PopListener, IInv, TInv,
         TypeOK, directoryVars, loopVars, wireVars, heartVars
    <2> QED
      BY <2>1, BindingFrame DEF IInv
  <1>2. Binding(c)'
    <2>1. UNCHANGED <<bind, vip>>
      BY DEF CloseOffline, directoryVars, loopVars, wireVars, heartVars
    <2>2. at'[c] \in {"closing", "offline"}
      BY DEF CloseOffline, Closing, GoTo, IInv, TInv, TypeOK
    <2>3. Binding(c)
      BY DEF IInv
    <2>4. /\ RegistFirst(listeners[c]) /\ "offline" # "regist" => RegistFirst(listeners'[c])
          /\ OneBind(listeners'[c])
          /\ HasListener(listeners'[c], "bind") => HasListener(listeners[c], "bind")
      BY <2>3, BindingPop DEF CloseOffline, IInv, TInv
    <2>5. c \in regist' => c \in regist /\ "offline" # "regist"
      BY DEF CloseOffline, directoryVars, loopVars, wireVars, heartVars
    <2> QED
      BY <2>1, <2>2, <2>3, <2>4, <2>5 DEF Binding, Owns
  <1> QED
    BY <1>1, <1>2 DEF CloseOffline, directoryVars
LEMMA BindingOfflineChannel ==
  ASSUME IInv, NEW t \in Tenant, NEW v \in Vip, OfflineChannel(t, v)
  PROVE  UNCHANGED bind /\ \A d \in Channel : Binding(d)'
  <1>1. UNCHANGED <<bind, at, vip, listeners, regist>>
    BY DEF OfflineChannel, directoryVars, loopVars
  <1> QED
    BY <1>1, BindingFrame DEF IInv

LEMMA AssignableFree ==
  ASSUME Exclusive, NEW c \in Channel, NEW v \in Assignable(c)
  PROVE  v \in Vip /\ bind[TenantOf[c]][v] = NoChannel
  <1> DEFINE free == {w \in Vip : bind[TenantOf[c]][w] = NoChannel}
  <1>1. Assignable(c) = IF FixedVip[MacOf[c]] # NoVip THEN free \cap {FixedVip[MacOf[c]]} ELSE free
    BY Zenon DEF Assignable
  <1>2. v \in free
    BY <1>1
  <1> QED
    BY <1>2

(* An assignment is a Grant: the vip was free and the channel held none. *)
LEMMA BindingRegistAssign ==
  ASSUME IInv, Exclusive, NEW c \in Channel, RegistAssign(c)
  PROVE  /\ \E v \in Vip : Lease!Grant(c, TenantOf[c], v)
         /\ \A d \in Channel : Binding(d)'
  <1> DEFINE t == TenantOf[c]
  <1>1. PICK v \in Assignable(c) :
          vip' = [vip EXCEPT ![c] = v] /\ bind' = [bind EXCEPT ![t][v] = c]
    BY DEF RegistAssign
  <1>2. v \in Vip /\ bind[t][v] = NoChannel /\ t \in Tenant
    BY AssignableFree, TenantAssumption
  <1>3. at[c] = "idle" /\ c \notin regist /\ UNCHANGED regist
        /\ AddListeners(c, <<"regist", "bind">>) /\ GoTo(c, "space")
    BY DEF RegistAssign, Request, AssignListeners
  <1>4. /\ at \in [Channel -> Stage] /\ vip \in [Channel -> Vip \cup {NoVip}]
        /\ listeners \in [Channel -> Seq(Listener)] /\ c # NoChannel
        /\ bind \in [Tenant -> [Vip -> Channel \cup {NoChannel}]]
    BY SomeChannel DEF IInv, TInv, TypeOK
  <1>5. vip[c] = NoVip /\ ~ HasListener(listeners[c], "bind")
    BY <1>3 DEF IInv, Binding
  <1>6. \A s \in Tenant, w \in Vip : bind[s][w] # c
    BY <1>5, VipAssumption DEF IInv, Binding
  <1>7. \A s \in Tenant, w \in Vip : bind'[s][w] = IF s = t /\ w = v THEN c ELSE bind[s][w]
    BY <1>1, <1>2, <1>4
  <1>8. Lease!Grant(c, t, v)
    <2>1. ~ Lease!Holds(c)
      BY <1>6 DEF Lease!Holds
    <2> QED
      BY <1>1, <1>2, <1>3, <2>1 DEF Lease!Grant
  <1>9. Binding(c)'
    <2>1. vip'[c] = v /\ at'[c] = "space" /\ listeners'[c] = listeners[c] \o <<"regist", "bind">>
      BY <1>1, <1>3, <1>4 DEF GoTo, AddListeners
    <2>2. RegistFirst(listeners'[c]) /\ OneBind(listeners'[c])
      BY <1>4, <1>5, <2>1, AssignedQueue
    <2>3. Owns(c)'
      BY <1>2, <1>7, <2>1 DEF Owns
    <2>4. \A s \in Tenant, w \in Vip : bind'[s][w] = c => s = t /\ w = v
      BY <1>6, <1>7
    <2> QED
      BY <1>3, <2>1, <2>2, <2>3, <2>4 DEF Binding
  <1>10. ASSUME NEW d \in Channel, d # c PROVE Binding(d)'
    <2>1. /\ at'[d] = at[d] /\ vip'[d] = vip[d] /\ listeners'[d] = listeners[d]
      BY <1>1, <1>3, <1>4, <1>10 DEF GoTo, AddListeners
    <2>2. Binding(d) /\ TenantOf[d] \in Tenant /\ d # NoChannel
      BY SomeChannel, TenantAssumption DEF IInv
    <2>3. \A s \in Tenant, w \in Vip : bind'[s][w] = d => bind[s][w] = d
      BY <1>7, <1>10, <2>2
    <2>4. ASSUME Owns(d) PROVE Owns(d)'
      <3>1. vip[d] \in Vip /\ bind[TenantOf[d]][vip[d]] = d
        BY <2>4 DEF Owns
      <3>2. bind'[TenantOf[d]][vip[d]] = d
        BY ONLY <1>2, <1>7, <2>2, <3>1
      <3> QED
        BY <2>1, <3>1, <3>2 DEF Owns
    <2> QED
      BY <1>3, <2>1, <2>2, <2>3, <2>4 DEF Binding, RegistFirst, OneBind, HasListener
  <1> QED
    BY <1>2, <1>8, <1>9, <1>10

(* Dropping the binding is a Release: the channel owned it and had left the *)
(* directory before.                                                        *)
LEMMA BindingCloseBind ==
  ASSUME IInv, NEW c \in Channel, CloseBind(c)
  PROVE  /\ Lease!Release(c, TenantOf[c], vip[c]) /\ TenantOf[c] \in Tenant /\ vip[c] \in Vip
         /\ \A d \in Channel : Binding(d)'
  <1> DEFINE t == TenantOf[c]
             v == vip[c]
  <1>1. /\ at \in [Channel -> Stage] /\ listeners \in [Channel -> Seq(Listener)]
        /\ bind \in [Tenant -> [Vip -> Channel \cup {NoChannel}]] /\ c # NoChannel
        /\ t \in Tenant /\ TenantOf \in [Channel -> Tenant]
    BY SomeChannel, TenantAssumption DEF IInv, TInv, TypeOK
  <1>2. /\ bind' = [bind EXCEPT ![t][v] = NoChannel] /\ Closing(c, "bind") /\ PopListener(c)
        /\ UNCHANGED <<at, vip, regist>>
    BY DEF CloseBind
  <1>3. /\ HasListener(listeners[c], "bind") /\ ~ RegistFirst(listeners[c])
        /\ OneBind(listeners'[c]) /\ ~ HasListener(listeners'[c], "bind")
    BY <1>2, BindingPop DEF IInv, TInv
  <1>4. Owns(c) /\ c \notin regist /\ at[c] = "closing"
    BY <1>2, <1>3 DEF IInv, Binding, Closing
  <1>5. \A s \in Tenant, w \in Vip :
           bind'[s][w] = IF s = t /\ w = v THEN NoChannel ELSE bind[s][w]
    BY <1>1, <1>2, <1>4 DEF Owns
  <1>6. Lease!Release(c, t, v)
    BY <1>2, <1>4 DEF Lease!Release, Owns
  <1>7. Binding(c)'
    <2>1. \A s \in Tenant, w \in Vip : bind[s][w] = c => s = t /\ w = v
      BY DEF IInv, Binding
    <2>2. \A s \in Tenant, w \in Vip : bind'[s][w] # c
      BY ONLY <1>1, <1>5, <2>1
    <2> QED
      BY <1>2, <1>3, <1>4, <2>2 DEF Binding
  <1>8. ASSUME NEW d \in Channel, d # c PROVE Binding(d)'
    <2>1. listeners'[d] = listeners[d]
      BY <1>1, <1>2, <1>8 DEF PopListener
    <2>2. Binding(d) /\ TenantOf[d] \in Tenant /\ d # NoChannel
      BY <1>1, SomeChannel DEF IInv
    <2>3. \A s \in Tenant, w \in Vip : bind'[s][w] = d => bind[s][w] = d
      BY <1>5, <2>2
    <2>4. Owns(d) => Owns(d)'
      BY <1>2, <1>4, <1>5, <1>8, <2>2 DEF Owns
    <2> QED
      BY <1>2, <2>1, <2>2, <2>3, <2>4 DEF Binding, RegistFirst, OneBind, HasListener
  <1> QED
    BY <1>1, <1>4, <1>6, <1>7, <1>8 DEF Owns

-----------------------------------------------------------------------------
LEMMA IInvInit == Init => IInv
  <1> SUFFICES ASSUME Init PROVE IInv
    OBVIOUS
  <1>1. ASSUME NEW c \in Channel PROVE Binding(c)
    <2>1. listeners[c] = << >> /\ at[c] = "new" /\ vip[c] = NoVip /\ c \notin regist
      BY DEF Init
    <2>2. ASSUME NEW t \in Tenant, NEW v \in Vip PROVE bind[t][v] # c
      BY SomeChannel DEF Init
    <2>3. ~ HasListener(<< >>, "bind") /\ OneBind(<< >>)
      BY DEF HasListener, OneBind
    <2> QED
      BY <2>1, <2>2, <2>3 DEF Binding
  <1> QED
    BY <1>1, TInvInit DEF IInv

(* Every step keeps the invariant and is a step of the lease, or leaves it alone. *)
LEMMA IInvStep ==
  ASSUME Exclusive
  PROVE  IInv /\ [Next]_vars => IInv' /\ [Lease!Next]_(Lease!vars)
  <1> SUFFICES ASSUME IInv, [Next]_vars
               PROVE  (\A d \in Channel : Binding(d)') /\ [Lease!Next]_(Lease!vars)
    BY TInvStep DEF IInv
  <1>1. ASSUME NEW c \in Channel, RegistAssign(c)
        PROVE  (\A d \in Channel : Binding(d)') /\ Lease!Next
    <2>1. TenantOf[c] \in Tenant
      BY TenantAssumption
    <2> QED
      BY <1>1, <2>1, BindingRegistAssign DEF Lease!Next
  <1>2. ASSUME NEW c \in Channel, CloseBind(c)
        PROVE  (\A d \in Channel : Binding(d)') /\ Lease!Next
    BY <1>2, BindingCloseBind DEF Lease!Next
  <1>3. ASSUME NEW c \in Channel, RegistInsert(c)
        PROVE  (\A d \in Channel : Binding(d)') /\ Lease!Next
    <2>1. Lease!Holds(c)
      BY <1>3, TenantAssumption DEF RegistInsert, IInv, Binding, Owns, Lease!Holds
    <2>2. Lease!GoOnline(c)
      BY <1>3, <2>1, BindingRegistInsert DEF RegistInsert, Lease!GoOnline
    <2> QED
      BY <1>3, <2>2, BindingRegistInsert DEF Lease!Next
  <1>4. ASSUME NEW c \in Channel, CloseRegist(c)
        PROVE  (\A d \in Channel : Binding(d)') /\ Lease!Next
    <2>1. Lease!GoOffline(c)
      BY <1>4, BindingCloseRegist DEF CloseRegist, Lease!GoOffline
    <2> QED
      BY <1>4, <2>1, BindingCloseRegist DEF Lease!Next
  <1>5. ASSUME NEW c \in Channel, ClientStep(c) \/ LoopStep(c) \/ HeartTimeout(c) \/ Sweep(c),
               ~ RegistAssign(c), ~ CloseBind(c), ~ RegistInsert(c), ~ CloseRegist(c)
        PROVE  (\A d \in Channel : Binding(d)') /\ UNCHANGED Lease!vars
    <2>1. (\A d \in Channel : Binding(d)') /\ UNCHANGED bind
      BY <1>5, BindingConnect, BindingRegistNoTenant, BindingRegistReject, BindingRegistAgain,
         BindingUpdateNodeInfo, BindingDisconnect, BindingHeart, BindingRegistAddChannel,
         BindingRegistAttrs, BindingRegistList, BindingRegistSort, BindingRegistFail, BindingRegistOnline, BindingUpdatePush,
         BindingRunTask, BindingClose, BindingCloseChannelMap, BindingCloseSpace,
         BindingCloseOffline, BindingOfflinePush, BindingClosed, BindingHeartTimeout,
         BindingSweep
         DEF ClientStep, LoopStep
    <2>2. UNCHANGED regist
      BY <1>5 DEF ClientStep, LoopStep, Connect, RegistNoTenant, RegistReject, RegistAgain,
         UpdateNodeInfo, Disconnect, Heart, RegistAddChannel, RegistAttrs, RegistList,
         RegistSort, RegistFail, RegistOnline, UpdatePush, RunTask, Close, CloseChannelMap, CloseSpace, CloseOffline,
         OfflinePush, Closed, HeartTimeout, Sweep, directoryVars
    <2> QED
      BY <2>1, <2>2 DEF Lease!vars
  <1>6. ASSUME NEW t \in Tenant, NEW v \in Vip, OfflineChannel(t, v)
        PROVE  (\A d \in Channel : Binding(d)') /\ UNCHANGED Lease!vars
    BY <1>6, BindingOfflineChannel DEF OfflineChannel, directoryVars, Lease!vars
  <1>7. CASE UNCHANGED vars
    BY <1>7, BindingFrame DEF IInv, vars, directoryVars, loopVars, Lease!vars
  <1> QED
    BY <1>1, <1>2, <1>3, <1>4, <1>5, <1>6, <1>7 DEF Next

(* With the local data service two registered connections of a tenant never have *)
(* the same vip, for any number of connections and vips (registChannelMap,        *)
(* assignVip, bindCloseFuture).                                                    *)
THEOREM LocalVipExclusive == ASSUME Exclusive PROVE Spec => []VipExclusive
  <1>1. IInv /\ [Next]_vars => IInv'
    BY IInvStep
  <1> QED
    BY <1>1, IInvInit, IInvImplies, PTL DEF Spec

(* With the local data service the controller implements the lease: a vip is      *)
(* given only when nobody has it, and given back only by a connection that has     *)
(* left the directory.                                                              *)
THEOREM LeaseImplemented == ASSUME Exclusive PROVE Spec => LeaseSpec
  <1>1. Init => Lease!Init
    BY DEF Init, Lease!Init
  <1>2. IInv /\ [Next]_vars => IInv' /\ [Lease!Next]_(Lease!vars)
    BY IInvStep
  <1> QED
    BY <1>1, <1>2, IInvInit, PTL DEF Spec, LeaseSpec, Lease!Spec
=============================================================================
