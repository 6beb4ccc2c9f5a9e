------------------------ MODULE VirtualRouterProofs ------------------------
(***************************************************************************)
(* Proofs about VirtualRouter, for any network and conversations, and any lists    *)
(* that meet HostAssumption and RouteAssumption: its types; that a packet crosses     *)
(* once between two nodes; that a virtual nat opens no way round the rules; and that   *)
(* an application is answered by the address it asked.                                  *)
(***************************************************************************)
EXTENDS VirtualRouter, WellFoundedInduction, TLAPS

(* The key of a conversation's entry. *)
ConvKey(f) == [at |-> f.node, id |-> f.id, src |-> Target(f), dst |-> f.src]

(* Node n is a next hop of a. *)
Hop(n, a) ==
    /\ a \in VipCidr => n = a
    /\ a \notin VipCidr => \E m \in Vip : \E i \in DOMAIN RouteList[m] :
                              a \in RouteList[m][i].cidr /\ n \in NextHops(m, i)

(* Address a of a packet of node n to the source of a conversation, before its       *)
(* translation: the source itself, or what a conversation of n translates to it.       *)
Reply(n, f, src, a) ==
    \/ a = f.src
    \/ \E g \in open : /\ g.node = n /\ g.id = f.id /\ g.src = src /\ g.dst = a
                       /\ Target(g) = f.src

(* A packet at a TUN device: a request as it was asked, an answer of the host. *)
Ready(n, p) ==
    /\ p.ttl = TTL /\ p.flow \in open
    /\ p.kind = "request" => n = p.flow.node /\ p.src = p.flow.src /\ p.dst = p.flow.dst
    /\ p.kind = "answer" => /\ p.src = Target(p.flow) /\ p.dst \notin Broadcast
                            /\ Reply(n, p.flow, p.src, p.dst)
TunOK == \A t \in tun : Ready(t.at, t.packet)

(* A packet on its way: to a next hop, with the addresses of the two hosts. *)
OnWay(n, p) ==
    /\ p.ttl = TTL /\ p.flow \in open
    /\ p.dst \notin Broadcast => Hop(n, p.dst)
    /\ p.kind = "request" =>
          /\ p.src = p.flow.src
          /\ p.dst \notin Broadcast =>
                p.dst = Target(p.flow) /\ Admits(Config[p.flow.node].ruleOut, p.dst)
    /\ p.kind = "answer" => p.src = Target(p.flow) /\ p.dst = p.flow.src
WireOK == \A w \in wire : OnWay(w.to, w.packet)

(* Each entry is the one of a conversation that needs it. *)
Entry(m, f) ==
    /\ m.key = ConvKey(f) /\ m.original = f.dst
    /\ f.dst \notin Broadcast /\ Translations(f.node, f.dst) # {}
MapOK == \A m \in mapping : \E f \in open : m.key.at = f.node /\ Entry(m, f)

(* The conversation has its entry, if it needs one and none has lapsed. *)
Kept(f) ==
    Translations(f.node, f.dst) # {} =>
        ConvKey(f) \in lapsed \/ \E m \in mapping : m.key = ConvKey(f)
Claims == {t.packet.flow : t \in {u \in tun : u.packet.kind = "answer"}}
          \cup {w.packet.flow : w \in {x \in wire : x.packet.dst \notin Broadcast}}
KeptOK == \A f \in Claims : Kept(f)

IInv == TypeOK /\ TunOK /\ WireOK /\ MapOK /\ KeptOK /\ NoBypass /\ AnswerMatches
-----------------------------------------------------------------------------
(* The lists. *)

LEMMA Least ==
    ASSUME NEW T, T \subseteq Nat, T # {}
    PROVE  \E x \in T : \A y \in T : x <= y
<1>1. \E R : IsWellFoundedOn(R, Nat) /\ \A x, y \in Nat : x < y => <<x, y>> \in R
  <2>1. \A x, y \in Nat : x < y => <<x, y>> \in OpToRel(<, Nat)
    BY DEF OpToRel
  <2> QED
    BY <2>1, NatLessThanWellFounded
<1>2. PICK R : IsWellFoundedOn(R, Nat) /\ \A x, y \in Nat : x < y => <<x, y>> \in R
  BY <1>1
<1>3. \E x \in T : \A y \in T : ~ (<<y, x>> \in R)
  <2>1. IsWellFoundedOn(R, Nat)
    BY <1>2
  <2> QED
    BY <2>1, WFMin
<1>4. \A x, y \in Nat : ~ (<<y, x>> \in R) => x <= y
  <2>1. \A x, y \in Nat : y < x => <<y, x>> \in R
    BY <1>2
  <2> QED
    BY <2>1
<1> QED
  BY <1>3, <1>4

LEMMA Elements ==
    ASSUME NEW S, NEW s \in Seq(S)
    PROVE  Len(s) \in Nat /\ DOMAIN s = 1 .. Len(s) /\ \A i \in DOMAIN s : s[i] \in S
OBVIOUS

LEMMA FirstHit ==
    ASSUME NEW T, T \subseteq Nat, T # {}
    PROVE  First(T) \in T
BY Least DEF First

(* What a node translates an address to is an address. *)
LEMMA TranslateType ==
    ASSUME NEW n \in Vip, NEW a \in Addr
    PROVE  Translate[n][a] \in Addr /\ (Translations(n, a) = {} => Translate[n][a] = a)
<1>1. CASE Translations(n, a) = {}
  BY <1>1 DEF Translate
<1>2. CASE Translations(n, a) # {}
  <2> DEFINE V == Config[n].vnat
             i == Found(n, a)
  <2>1. Translate[n][a] = V[i].nat[a]
    BY <1>2 DEF Translate
  <2>2. i \in DOMAIN V
    BY <1>2 DEF Found, Translations, Hits
  <2>3. V \in Seq([cidr : SUBSET Addr, nat : [Addr -> Addr], alike : BOOLEAN, vips : Seq(Addr)])
    BY ConfigAssumption
  <2> HIDE DEF V, i
  <2>4. V[i] \in [cidr : SUBSET Addr, nat : [Addr -> Addr], alike : BOOLEAN, vips : Seq(Addr)]
    BY ONLY <2>2, <2>3, Elements
  <2>5. V[i].nat[a] \in Addr
    BY <2>4
  <2> QED
    BY <2>1, <2>5, <1>2
<1> QED
  BY <1>1, <1>2

LEMMA RouteListType ==
    ASSUME NEW n \in Vip
    PROVE  RouteList[n] \in Seq([cidr : SUBSET Addr, nexthop : Seq(Addr)])
<1> DEFINE Row == [cidr : SUBSET Addr, nexthop : Seq(Addr)]
           V == Config[n].vnat
           W == [i \in DOMAIN V |-> [cidr |-> V[i].cidr, nexthop |-> V[i].vips]]
<1>1. V \in Seq([cidr : SUBSET Addr, nat : [Addr -> Addr], alike : BOOLEAN, vips : Seq(Addr)])
  BY ConfigAssumption
<1>2. Config[n].route \in Seq(Row)
  BY ConfigAssumption
<1>3. RouteList[n] = Config[n].route \o W
  BY DEF RouteList
<1> HIDE DEF V
<1>4. Len(V) \in Nat /\ DOMAIN V = 1 .. Len(V)
  BY ONLY <1>1, Elements
<1>5. \A i \in DOMAIN V : [cidr |-> V[i].cidr, nexthop |-> V[i].vips] \in Row
  <2>1. \A i \in DOMAIN V : V[i] \in [cidr : SUBSET Addr, nat : [Addr -> Addr], alike : BOOLEAN, vips : Seq(Addr)]
    BY ONLY <1>1, Elements
  <2> QED
    BY <2>1
<1>6. W \in [1 .. Len(V) -> Row]
  BY <1>4, <1>5
<1> HIDE DEF W, Row
<1>7. W \in Seq(Row)
  BY <1>4, <1>6
<1> QED
  BY <1>2, <1>3, <1>7 DEF Row

(* A next hop that is online is the address itself, or one of a route's. *)
LEMMA RouteOutHop ==
    ASSUME NEW n \in Vip, NEW src \in Addr, NEW dst \in Addr, RouteOut(n, src, dst) \in Vip
    PROVE  Admits(Config[n].ruleOut, dst) /\ Hop(RouteOut(n, src, dst), dst)
<1>1. NoHop \notin Vip
  BY AddressAssumption
<1>2. Admits(Config[n].ruleOut, dst)
  BY <1>1 DEF RouteOut
<1>3. CASE dst \in VipCidr
  BY <1>2, <1>3 DEF RouteOut, Hop
<1>4. CASE dst \notin VipCidr
  <2> DEFINE L == RouteList[n]
             H == Hits(L, dst)
             i == First(H)
             q == L[i].nexthop
  <2>1. RouteOut(n, src, dst) = FindRoute(n, src, dst)
    BY <1>2, <1>4 DEF RouteOut
  <2>2. H # {} /\ q # << >> /\ FindRoute(n, src, dst) = q[(Hash[src] % Len(q)) + 1]
    BY <1>1, <2>1 DEF FindRoute
  <2>3. L \in Seq([cidr : SUBSET Addr, nexthop : Seq(Addr)])
    BY RouteListType
  <2>4. H \subseteq DOMAIN L /\ \A j \in H : dst \in L[j].cidr
    BY DEF Hits
  <2> HIDE DEF L, H
  <2>5. H \subseteq Nat
    BY <2>3, <2>4
  <2>6. i \in H
    BY <2>2, <2>5, FirstHit
  <2>7. i \in DOMAIN L /\ dst \in L[i].cidr
    BY <2>4, <2>6
  <2> HIDE DEF i
  <2>8. L[i] \in [cidr : SUBSET Addr, nexthop : Seq(Addr)]
    BY ONLY <2>3, <2>7, Elements
  <2>9. q \in Seq(Addr)
    BY <2>8
  <2> HIDE DEF q
  <2>10. Hash[src] \in Nat
    BY AddressAssumption
  <2>11. Len(q) \in Nat \ {0}
    BY <2>2, <2>9, Elements
  <2>12. (Hash[src] % Len(q)) + 1 \in DOMAIN q
    BY <2>9, <2>10, <2>11
  <2>13. RouteOut(n, src, dst) \in NextHops(n, i)
    BY <2>1, <2>2, <2>12 DEF NextHops, q, L
  <2> QED
    BY <1>2, <1>4, <2>7, <2>13 DEF Hop, L
<1> QED
  BY <1>3, <1>4

(* A next hop does not route the address into its TUN device again. *)
LEMMA ForeignStays ==
    ASSUME NEW n \in Vip, NEW a \in Addr, Hop(n, a), a \notin Lan[n] \cup {n} \cup Broadcast
    PROVE  ~ IntoTun(n, a)
<1>1. a \notin VipCidr
  BY DEF Hop
<1>0. PICK m \in Vip : \E i \in DOMAIN RouteList[m] : a \in RouteList[m][i].cidr /\ n \in NextHops(m, i)
  BY <1>1 DEF Hop
<1>2. PICK i \in DOMAIN RouteList[m] : a \in RouteList[m][i].cidr /\ n \in NextHops(m, i)
  BY <1>0
<1>3. ASSUME NEW j \in OSRoutes[n], a \in RouteList[n][j].cidr PROVE FALSE
  <2>1. j \in DOMAIN RouteList[n] /\ n \notin NextHops(n, j)
    BY DEF OSRoutes
  <2>2. NextHops(n, j) = NextHops(m, i)
    BY <1>2, <1>3, <2>1, RouteAssumption
  <2> QED
    BY <1>2, <2>1, <2>2
<1> QED
  BY <1>1, <1>3 DEF IntoTun
-----------------------------------------------------------------------------
(* Types. *)

LEMMA SourceType ==
    ASSUME TypeOK, NEW n \in Vip, NEW p \in Packet
    PROVE  SourceIn(n, p) \in Addr
<1>1. \A a \in Originals(n, p) : a \in Addr
  BY DEF Originals, TypeOK
<1>2. p.src \in Addr
  BY DEF Packet
<1> QED
  BY <1>1, <1>2 DEF SourceIn

LEMMA SentType ==
    ASSUME NEW n \in Vip, NEW p \in Packet
    PROVE  /\ SentKey(n, p) \in Key /\ Identifier(n, p) \in Key
           /\ [p EXCEPT !.dst = Translate[n][p.dst]] \in Packet
<1>1. p.dst \in Addr /\ p.src \in Addr /\ p.flow \in Flow
  BY DEF Packet
<1>2. Translate[n][p.dst] \in Addr
  BY <1>1, TranslateType
<1>3. SentKey(n, p) \in Key /\ Identifier(n, p) \in Key
  BY <1>1, <1>2 DEF SentKey, Identifier, Key
<1>4. [p EXCEPT !.dst = Translate[n][p.dst]] \in Packet
  BY <1>2 DEF Packet
<1> QED
  BY <1>3, <1>4

LEMMA TypeStep == TypeOK /\ [Next]_vars => TypeOK'
<1> SUFFICES ASSUME TypeOK, [Next]_vars PROVE TypeOK'
  OBVIOUS
<1>1. \A t \in tun : t.at \in Vip /\ t.packet \in Packet
  BY DEF TypeOK
<1>2. \A w \in wire : w.to \in Vip /\ w.packet \in Packet
  BY DEF TypeOK
<1>3. ASSUME NEW f \in Flow, Ask(f) PROVE TypeOK'
  <2>1. f.src \in Addr /\ f.dst \in Addr /\ f.node \in Vip /\ TTL \in Nat
    BY AddressAssumption, FlowAssumption
  <2>2. [flow |-> f, kind |-> "request", src |-> f.src, dst |-> f.dst, ttl |-> TTL] \in Packet
    BY <2>1 DEF Packet
  <2> QED
    BY <1>3, <2>1, <2>2 DEF Ask, TypeOK
<1>4. ASSUME NEW n \in Vip, NEW p \in Packet, Send(n, p) PROVE TypeOK'
  <2> DEFINE q == [p EXCEPT !.dst = Translate[n][p.dst]]
             hop == RouteOut(n, q.src, q.dst)
  <2>1. q \in Packet /\ SentKey(n, p) \in Key /\ p.dst \in Addr
    BY SentType DEF Packet
  <2>2. tun' \subseteq tun /\ wire' \subseteq wire \cup {[to |-> v, packet |-> q] : v \in Vip}
    BY <1>4 DEF Send
  <2>3. mapping' \subseteq mapping \cup {[key |-> SentKey(n, p), original |-> p.dst]} /\ lapsed' \subseteq lapsed
    BY <1>4 DEF Send, Remember
  <2>4. open' = open /\ reached' = reached /\ received' = received
    BY <1>4 DEF Send
  <2> HIDE DEF q
  <2>5. wire' \subseteq [to : Vip, packet : Packet]
    BY <2>1, <2>2 DEF TypeOK
  <2>6. mapping' \subseteq [key : Key, original : Addr]
    BY <2>1, <2>3 DEF TypeOK
  <2> QED
    BY <2>2, <2>3, <2>4, <2>5, <2>6 DEF TypeOK
<1>5. ASSUME NEW n \in Vip, NEW p \in Packet, SendBroadcast(n, p) \/ SendFail(n, p) PROVE TypeOK'
  BY <1>5 DEF SendBroadcast, SendFail, TypeOK
<1>6. ASSUME NEW n \in Vip, NEW p \in Packet, RecvRequest(n, p) PROVE TypeOK'
  <2> DEFINE a == [flow |-> p.flow, kind |-> "answer", src |-> p.dst, dst |-> SourceIn(n, p), ttl |-> TTL]
  <2>1. SourceIn(n, p) \in Addr /\ p.flow \in Flow /\ p.dst \in Addr /\ TTL \in Nat
    BY SourceType, AddressAssumption DEF Packet
  <2>2. a \in Packet
    BY <2>1 DEF Packet
  <2>3. tun' \subseteq tun \cup {[at |-> n, packet |-> a]} /\ wire' \subseteq wire
    BY <1>6 DEF RecvRequest, Accepted
  <2>4. reached' = reached \cup {[flow |-> p.flow, at |-> n, dst |-> p.dst]}
    BY <1>6 DEF RecvRequest
  <2>5. UNCHANGED <<open, mapping, lapsed, received>>
    BY <1>6 DEF RecvRequest
  <2> HIDE DEF a
  <2>6. tun' \subseteq [at : Vip, packet : Packet]
    BY <2>2, <2>3 DEF TypeOK
  <2> QED
    BY <2>1, <2>3, <2>4, <2>5, <2>6 DEF TypeOK
<1>7. ASSUME NEW n \in Vip, NEW p \in Packet, RecvAnswer(n, p) PROVE TypeOK'
  <2>1. SourceIn(n, p) \in Addr /\ p.flow \in Flow
    BY SourceType DEF Packet
  <2>2. wire' \subseteq wire
    BY <1>7 DEF RecvAnswer, Accepted
  <2>3. received' = received \cup
          {[flow |-> p.flow, at |-> n, src |-> SourceIn(n, p), lapsed |-> Identifier(n, p) \in lapsed]}
    BY <1>7 DEF RecvAnswer
  <2>4. UNCHANGED <<open, tun, mapping, lapsed, reached>>
    BY <1>7 DEF RecvAnswer
  <2> DEFINE late == Identifier(n, p) \in lapsed
  <2>5. late \in BOOLEAN
    OBVIOUS
  <2>6. [flow |-> p.flow, at |-> n, src |-> SourceIn(n, p), lapsed |-> late]
            \in [flow : Flow, at : Vip, src : Addr, lapsed : BOOLEAN]
    <3> HIDE DEF late
    <3> QED
      BY <2>1, <2>5
  <2> QED
    BY <2>2, <2>3, <2>4, <2>6 DEF TypeOK
<1>8. ASSUME NEW n \in Vip, NEW p \in Packet, RecvForeign(n, p) PROVE TypeOK'
  <2> DEFINE a == [p EXCEPT !.src = SourceIn(n, p), !.ttl = @ - 1]
  <2>1. CASE p.ttl > 1
    <3>1. a \in Packet
      <4> DEFINE src == SourceIn(n, p)
                 ttl == p.ttl - 1
      <4>1. src \in Addr
        BY SourceType
      <4>2. p.ttl \in Nat
        BY DEF Packet
      <4>3. ttl \in Nat
        BY <2>1, <4>2
      <4>4. a = [p EXCEPT !.src = src, !.ttl = ttl]
        OBVIOUS
      <4> HIDE DEF a, src, ttl
      <4> QED
        BY <4>1, <4>3, <4>4 DEF Packet
    <3>2. tun' \subseteq tun \cup {[at |-> n, packet |-> a]} /\ wire' \subseteq wire
      BY <1>8 DEF RecvForeign, Accepted
    <3> HIDE DEF a
    <3> QED
      BY <1>8, <3>1, <3>2 DEF RecvForeign, TypeOK
  <2>2. CASE ~ (p.ttl > 1)
    BY <1>8, <2>2 DEF RecvForeign, Accepted, TypeOK
  <2> QED
    BY <2>1, <2>2
<1>9. ASSUME NEW n \in Vip, NEW p \in Packet, RecvReject(n, p) \/ RecvBroadcast(n, p) \/ Lose(n, p) PROVE TypeOK'
  BY <1>9 DEF RecvReject, RecvBroadcast, Accepted, Lose, TypeOK
<1>10. ASSUME NEW m \in mapping, Expire(m) PROVE TypeOK'
  BY <1>10 DEF Expire, TypeOK
<1>11. ASSUME NEW n \in Vip, Reinstall(n) PROVE TypeOK'
  BY <1>11 DEF Reinstall, TypeOK
<1>12. CASE UNCHANGED vars
  BY <1>12 DEF vars, TypeOK
<1> QED
  BY <1>1, <1>2, <1>3, <1>4, <1>5, <1>6, <1>7, <1>8, <1>9, <1>10, <1>11, <1>12 DEF Next, Router

(* Packets, entries and answers have the types above. *)
THEOREM TypeCorrect == Spec => []TypeOK
<1>1. Init => TypeOK
  BY FlowAssumption DEF Init, TypeOK
<1> QED
  BY <1>1, TypeStep, PTL DEF Spec
-----------------------------------------------------------------------------
(* What each action does to the rest of the invariant. *)

(* The source of a conversation is a host: no node translates it. *)
LEMMA SourceKept ==
    ASSUME NEW n \in Vip, NEW f \in Flow
    PROVE  /\ f.node \in Vip /\ f.src \in Addr /\ f.dst \in Addr /\ f.src \notin Broadcast
           /\ Translations(n, f.src) = {} /\ Translate[n][f.src] = f.src
<1>1. f.node \in Vip /\ f.src \in Lan[f.node] \cup {f.node} /\ f.dst \in Addr
  BY FlowAssumption
<1>2. f.src \in Addr
  BY <1>1, AddressAssumption
<1>3. f.src \notin Broadcast /\ Translations(n, f.src) = {}
  BY <1>1, HostAssumption
<1> QED
  BY <1>1, <1>2, <1>3, TranslateType

(* The open conversations stay: what is said of packets, entries and answers is said of *)
(* the new ones.                                                                            *)
LEMMA OpenStays ==
    ASSUME open' = open
    PROVE  /\ (\A t \in tun' : Ready(t.at, t.packet)) => TunOK'
           /\ (\A w \in wire' : OnWay(w.to, w.packet)) => WireOK'
           /\ (\A m \in mapping' : \E f \in open : m.key.at = f.node /\ Entry(m, f)) => MapOK'
           /\ (\A a \in received' : a.at = a.flow.node /\ ~ a.lapsed =>
                    a.src \in {g.dst : g \in Twins(a.flow)}) => AnswerMatches'
<1>1. (\A t \in tun' : Ready(t.at, t.packet)) => TunOK'
  BY DEF TunOK, Ready, Reply
<1>2. (\A w \in wire' : OnWay(w.to, w.packet)) => WireOK'
  BY DEF WireOK, OnWay
<1>3. (\A m \in mapping' : \E f \in open : m.key.at = f.node /\ Entry(m, f)) => MapOK'
  BY DEF MapOK, Entry
<1>4. (\A a \in received' : a.at = a.flow.node /\ ~ a.lapsed =>
           a.src \in {g.dst : g \in Twins(a.flow)}) => AnswerMatches'
  BY DEF AnswerMatches, Twins
<1> QED
  BY <1>1, <1>2, <1>3, <1>4

(* An answer is looked up by the key of its conversation's entry; that key is shared with *)
(* its twins only.                                                                           *)
LEMMA EntryFound ==
    ASSUME MapOK, NEW f \in open, NEW m \in mapping, m.key = ConvKey(f)
    PROVE  m.original \in {g.dst : g \in Twins(f)}
<1>1. PICK g \in open : m.key.at = g.node /\ Entry(m, g)
  BY DEF MapOK
<1>2. ConvKey(f) = ConvKey(g) /\ m.original = g.dst
  BY <1>1 DEF Entry
<1>3. f.node = g.node /\ f.id = g.id /\ f.src = g.src /\ Target(f) = Target(g)
  BY <1>2 DEF ConvKey
<1> QED
  BY <1>2, <1>3 DEF Twins

LEMMA AskStep ==
    ASSUME IInv, NEW f \in Flow, Ask(f)
    PROVE  TunOK' /\ WireOK' /\ MapOK' /\ KeptOK' /\ NoBypass' /\ AnswerMatches'
<1> DEFINE p == [flow |-> f, kind |-> "request", src |-> f.src, dst |-> f.dst, ttl |-> TTL]
<1>1. tun' = tun \cup {[at |-> f.node, packet |-> p]}
  BY DEF Ask
<1>2. UNCHANGED <<open, wire, mapping, lapsed, reached, received>> /\ f \in open
  BY DEF Ask
<1>3. p.flow = f /\ p.kind = "request" /\ p.src = f.src /\ p.dst = f.dst /\ p.ttl = TTL
  OBVIOUS
<1> HIDE DEF p
<1>4. TunOK'
  <2>1. Ready(f.node, p)
    BY <1>2, <1>3 DEF Ready
  <2> QED
    BY <1>1, <1>2, <2>1, OpenStays DEF IInv, TunOK
<1>5. Claims' \subseteq Claims
  BY <1>1, <1>2, <1>3 DEF Claims
<1>6. KeptOK'
  BY <1>2, <1>5 DEF IInv, KeptOK, Kept
<1> QED
  BY <1>2, <1>4, <1>6, OpenStays DEF IInv, WireOK, MapOK, NoBypass, AnswerMatches

LEMMA SendStep ==
    ASSUME IInv, NEW n \in Vip, NEW p \in Packet, Send(n, p)
    PROVE  TunOK' /\ WireOK' /\ MapOK' /\ KeptOK' /\ NoBypass' /\ AnswerMatches'
<1> DEFINE f == p.flow
           q == [p EXCEPT !.dst = Translate[n][p.dst]]
           hop == RouteOut(n, q.src, q.dst)
           key == SentKey(n, p)
           new == [key |-> key, original |-> p.dst]
<1>1. [at |-> n, packet |-> p] \in tun /\ p.dst \notin Broadcast
  BY DEF Send
<1>2. f \in Flow /\ p.dst \in Addr /\ p.src \in Addr /\ p.kind \in {"request", "answer"}
  BY DEF Packet
<1>3. /\ q.flow = f /\ q.kind = p.kind /\ q.src = p.src /\ q.dst = Translate[n][p.dst]
      /\ q.ttl = p.ttl /\ q.dst \in Addr
  BY <1>2, TranslateType DEF Packet
<1>4. tun' \subseteq tun /\ UNCHANGED <<open, reached, received>>
  BY DEF Send
<1>5. wire' \subseteq wire \cup {[to |-> hop, packet |-> q]} /\ (hop \notin Vip => wire' = wire)
  BY DEF Send
<1>6. Ready(n, p) /\ f \in open
  BY <1>1 DEF IInv, TunOK, Ready
<1>7. p.kind = "request" => n = f.node /\ p.src = f.src /\ p.dst = f.dst /\ key = ConvKey(f)
  BY <1>6 DEF Ready, SentKey, ConvKey, Target
<1>8. Translations(n, p.dst) = {} => UNCHANGED <<mapping, lapsed>>
  BY DEF Send, Remember
<1>9. Translations(n, p.dst) # {} => /\ mapping' = {m \in mapping : m.key # key} \cup {new}
                                     /\ lapsed' = lapsed \ {key}
  BY DEF Send, Remember
<1>10. Translations(n, p.dst) # {} => \E g \in open : g.node = n /\ Entry(new, g)
  <2> SUFFICES ASSUME Translations(n, p.dst) # {} PROVE \E g \in open : g.node = n /\ Entry(new, g)
    OBVIOUS
  <2>1. CASE p.kind = "request"
    BY <1>1, <1>2, <1>6, <1>7, <2>1 DEF Entry
  <2>2. CASE p.kind = "answer"
    <3>1. p.dst # f.src
      BY <1>2, SourceKept
    <3>2. PICK g \in open : g.node = n /\ g.id = f.id /\ g.src = p.src /\ g.dst = p.dst /\ Target(g) = f.src
      BY <1>6, <2>2, <3>1 DEF Ready, Reply
    <3>3. key = ConvKey(g)
      BY <3>2 DEF SentKey, ConvKey, Target
    <3> QED
      BY <1>1, <3>2, <3>3 DEF Entry
  <2> QED
    BY <1>2, <2>1, <2>2
<1>11. \A g \in Flow : Kept(g) => Kept(g)'
  <2> SUFFICES ASSUME NEW g \in Flow, Kept(g), Translations(g.node, g.dst) # {}
               PROVE  ConvKey(g) \in lapsed' \/ \E m \in mapping' : m.key = ConvKey(g)
    BY DEF Kept
  <2>1. ConvKey(g) \in lapsed \/ \E m \in mapping : m.key = ConvKey(g)
    BY DEF Kept
  <2>2. new.key = key
    OBVIOUS
  <2> HIDE DEF new, key
  <2> QED
    BY <1>8, <1>9, <2>1, <2>2
<1>12. p.kind = "request" => Kept(f)'
  <2> SUFFICES ASSUME p.kind = "request", Translations(f.node, f.dst) # {}
               PROVE  \E m \in mapping' : m.key = ConvKey(f)
    BY DEF Kept
  <2> QED
    BY <1>7, <1>9
<1>13. p.kind = "answer" => Kept(f)'
  <2> SUFFICES ASSUME p.kind = "answer" PROVE Kept(f)'
    OBVIOUS
  <2>1. f \in Claims
    BY <1>1 DEF Claims
  <2> QED
    BY <1>2, <1>11, <2>1 DEF IInv, KeptOK
<1>14. hop \in Vip => OnWay(hop, q)
  <2> SUFFICES ASSUME hop \in Vip PROVE OnWay(hop, q)
    OBVIOUS
  <2> HIDE DEF q
  <2>1. Admits(Config[n].ruleOut, q.dst) /\ Hop(hop, q.dst)
    BY <1>2, <1>3, RouteOutHop
  <2>2. p.kind = "request" => q.src = f.src /\ q.dst = Target(f) /\ n = f.node
    BY <1>3, <1>7 DEF Target
  <2>3. p.kind = "answer" => q.src = Target(f) /\ q.dst = f.src
    <3> SUFFICES ASSUME p.kind = "answer" PROVE q.src = Target(f) /\ q.dst = f.src
      OBVIOUS
    <3>1. p.src = Target(f) /\ Reply(n, f, p.src, p.dst)
      BY <1>6 DEF Ready
    <3>2. p.dst = f.src => Translate[n][p.dst] = f.src
      BY <1>2, SourceKept
    <3> QED
      BY <1>3, <3>1, <3>2 DEF Reply, Target
  <2>4. p.ttl = TTL
    BY <1>6 DEF Ready
  <2> QED
    BY <1>3, <1>6, <2>1, <2>2, <2>3, <2>4 DEF OnWay
<1> HIDE DEF q, hop, key, new
<1>15. TunOK'
  BY <1>4, OpenStays DEF IInv, TunOK
<1>16. WireOK'
  BY <1>4, <1>5, <1>14, OpenStays DEF IInv, WireOK
<1>17. MapOK'
  <2>1. new.key.at = n
    BY DEF new, key, SentKey
  <2> QED
    BY <1>4, <1>8, <1>9, <1>10, <2>1, OpenStays DEF IInv, MapOK
<1>18. KeptOK'
  <2>1. Claims' \subseteq Claims \cup {f}
    BY <1>3, <1>4, <1>5 DEF Claims
  <2>2. Claims \subseteq Flow
    BY DEF Claims, IInv, TypeOK, Packet
  <2>3. Kept(f)'
    BY <1>2, <1>12, <1>13
  <2> HIDE DEF f
  <2> QED
    BY <1>11, <2>1, <2>2, <2>3 DEF IInv, KeptOK
<1> QED
  BY <1>4, <1>15, <1>16, <1>17, <1>18, OpenStays DEF IInv, NoBypass, AnswerMatches

LEMMA BroadcastStep ==
    ASSUME IInv, NEW n \in Vip, NEW p \in Packet, SendBroadcast(n, p)
    PROVE  TunOK' /\ WireOK' /\ MapOK' /\ KeptOK' /\ NoBypass' /\ AnswerMatches'
<1>1. [at |-> n, packet |-> p] \in tun /\ p.dst \in Broadcast
  BY DEF SendBroadcast
<1>2. tun' \subseteq tun /\ UNCHANGED <<open, mapping, lapsed, reached, received>>
  BY DEF SendBroadcast
<1>3. \A w \in wire' : w \in wire \/ w.packet = p
  BY DEF SendBroadcast
<1>4. Ready(n, p)
  BY <1>1 DEF IInv, TunOK
<1>5. p.kind # "answer"
  BY <1>1, <1>4 DEF Ready
<1>6. \A v : OnWay(v, p)
  BY <1>1, <1>4, <1>5 DEF Ready, OnWay
<1>7. TunOK' /\ WireOK'
  BY <1>2, <1>3, <1>6, OpenStays DEF IInv, TunOK, WireOK
<1>8. Claims' \subseteq Claims
  BY <1>1, <1>2, <1>3 DEF Claims
<1> QED
  BY <1>2, <1>7, <1>8, OpenStays DEF IInv, MapOK, KeptOK, Kept, NoBypass, AnswerMatches

LEMMA RequestStep ==
    ASSUME IInv, NEW n \in Vip, NEW p \in Packet, RecvRequest(n, p)
    PROVE  TunOK' /\ WireOK' /\ MapOK' /\ KeptOK' /\ NoBypass' /\ AnswerMatches'
<1> DEFINE f == p.flow
           a == [flow |-> f, kind |-> "answer", src |-> p.dst, dst |-> SourceIn(n, p), ttl |-> TTL]
<1>1. [to |-> n, packet |-> p] \in wire /\ wire' \subseteq wire /\ Admits(Config[n].ruleIn, p.dst)
  BY DEF RecvRequest, Accepted
<1>2. p.kind = "request" /\ p.dst \in Lan[n] \cup {n}
  BY DEF RecvRequest
<1>3. tun' \subseteq tun \cup {[at |-> n, packet |-> a]} /\ UNCHANGED <<open, mapping, lapsed, received>>
  BY DEF RecvRequest
<1>4. reached' = reached \cup {[flow |-> f, at |-> n, dst |-> p.dst]}
  BY DEF RecvRequest
<1>5. f \in Flow /\ p.dst \notin Broadcast
  BY <1>2, HostAssumption DEF Packet
<1>6. f \in open /\ p.src = f.src /\ p.dst = Target(f) /\ Admits(Config[f.node].ruleOut, p.dst)
  BY <1>1, <1>2, <1>5 DEF IInv, WireOK, OnWay
<1>7. SourceIn(n, p) \notin Broadcast /\ Reply(n, f, p.dst, SourceIn(n, p))
  <2>1. CASE Originals(n, p) = {}
    BY <1>5, <1>6, <2>1, SourceKept DEF SourceIn, Reply
  <2>2. CASE Originals(n, p) # {}
    <3>1. SourceIn(n, p) \in Originals(n, p)
      BY <2>2 DEF SourceIn
    <3>2. PICK m \in mapping : m.key = Identifier(n, p) /\ m.original = SourceIn(n, p)
      BY <3>1 DEF Originals
    <3>3. PICK g \in open : m.key.at = g.node /\ Entry(m, g)
      BY DEF IInv, MapOK
    <3>4. Identifier(n, p) = ConvKey(g)
      BY <3>2, <3>3 DEF Entry
    <3>5. g.node = n /\ g.id = f.id /\ g.src = p.dst /\ Target(g) = p.src
      BY <3>4 DEF Identifier, ConvKey
    <3> QED
      BY <1>6, <3>2, <3>3, <3>5 DEF Entry, Reply
  <2> QED
    BY <2>1, <2>2
<1>8. a.flow = f /\ a.kind = "answer" /\ a.src = p.dst /\ a.dst = SourceIn(n, p) /\ a.ttl = TTL
  OBVIOUS
<1> HIDE DEF a
<1>9. Ready(n, a)
  BY <1>6, <1>7, <1>8 DEF Ready
<1>10. TunOK'
  BY <1>3, <1>9, OpenStays DEF IInv, TunOK
<1>11. KeptOK'
  <2>1. f \in Claims
    BY <1>1, <1>5 DEF Claims
  <2>2. Claims' \subseteq Claims
    BY <1>1, <1>3, <1>8, <2>1 DEF Claims
  <2> QED
    BY <1>3, <2>2 DEF IInv, KeptOK, Kept
<1>12. NoBypass'
  BY <1>1, <1>4, <1>6 DEF IInv, NoBypass
<1> QED
  BY <1>1, <1>3, <1>10, <1>11, <1>12, OpenStays DEF IInv, WireOK, MapOK, AnswerMatches

LEMMA AnswerStep ==
    ASSUME IInv, NEW n \in Vip, NEW p \in Packet, RecvAnswer(n, p)
    PROVE  TunOK' /\ WireOK' /\ MapOK' /\ KeptOK' /\ NoBypass' /\ AnswerMatches'
<1> DEFINE f == p.flow
           late == Identifier(n, p) \in lapsed
           r == [flow |-> f, at |-> n, src |-> SourceIn(n, p), lapsed |-> late]
<1>1. [to |-> n, packet |-> p] \in wire /\ wire' \subseteq wire
  BY DEF RecvAnswer, Accepted
<1>2. p.kind = "answer" /\ p.dst \in Lan[n] \cup {n}
  BY DEF RecvAnswer
<1>3. received' = received \cup {r} /\ UNCHANGED <<open, tun, mapping, lapsed, reached>>
  BY DEF RecvAnswer
<1>4. f \in Flow /\ p.dst \notin Broadcast
  BY <1>2, HostAssumption DEF Packet
<1>5. f \in open /\ p.src = Target(f) /\ p.dst = f.src
  BY <1>1, <1>2 DEF IInv, WireOK, OnWay
<1>6. Kept(f)
  BY <1>1, <1>4 DEF IInv, KeptOK, Claims
<1>7. ASSUME n = f.node, ~ late PROVE SourceIn(n, p) \in {g.dst : g \in Twins(f)}
  <2>1. Identifier(n, p) = ConvKey(f)
    BY <1>5, <1>7 DEF Identifier, ConvKey
  <2>2. CASE Originals(n, p) = {}
    <3>1. Translations(f.node, f.dst) = {}
      BY <1>6, <1>7, <2>1, <2>2 DEF Kept, Originals
    <3>2. SourceIn(n, p) = f.dst
      BY <1>4, <1>5, <2>2, <3>1, SourceKept, TranslateType DEF Target, SourceIn
    <3> QED
      BY <1>5, <3>2 DEF Twins
  <2>3. CASE Originals(n, p) # {}
    <3>1. SourceIn(n, p) \in Originals(n, p)
      BY <2>3 DEF SourceIn
    <3>2. PICK m \in mapping : m.key = ConvKey(f) /\ m.original = SourceIn(n, p)
      BY <2>1, <3>1 DEF Originals
    <3> QED
      BY <1>5, <3>2, EntryFound DEF IInv
  <2> QED
    BY <2>2, <2>3
<1>8. r.flow = f /\ r.at = n /\ r.src = SourceIn(n, p) /\ r.lapsed = late
  OBVIOUS
<1> HIDE DEF r, late
<1>9. AnswerMatches'
  BY <1>3, <1>7, <1>8, OpenStays DEF IInv, AnswerMatches
<1>10. Claims' \subseteq Claims
  BY <1>1, <1>3 DEF Claims
<1> QED
  BY <1>1, <1>3, <1>9, <1>10, OpenStays DEF IInv, TunOK, WireOK, MapOK, KeptOK, Kept, NoBypass

(* A packet for somebody else is not given to the TUN device again. *)
LEMMA ForeignStep ==
    ASSUME IInv, NEW n \in Vip, NEW p \in Packet, RecvForeign(n, p)
    PROVE  wire' \subseteq wire /\ UNCHANGED <<open, tun, mapping, lapsed, reached, received>>
<1>1. [to |-> n, packet |-> p] \in wire /\ p.dst \notin Lan[n] \cup {n} \cup Broadcast
  BY DEF RecvForeign, Accepted
<1>2. Hop(n, p.dst)
  BY <1>1 DEF IInv, WireOK, OnWay
<1>3. ~ IntoTun(n, p.dst)
  BY <1>1, <1>2, ForeignStays DEF Packet
<1> QED
  BY <1>3 DEF RecvForeign, Accepted

(* Packets that go no further. *)
LEMMA DropStep ==
    ASSUME IInv, tun' \subseteq tun, wire' \subseteq wire,
           UNCHANGED <<open, mapping, lapsed, reached, received>>
    PROVE  TunOK' /\ WireOK' /\ MapOK' /\ KeptOK' /\ NoBypass' /\ AnswerMatches'
<1>1. Claims' \subseteq Claims
  BY DEF Claims
<1> QED
  BY <1>1, OpenStays DEF IInv, TunOK, WireOK, MapOK, KeptOK, Kept, NoBypass, AnswerMatches

(* Entries that are forgotten. *)
LEMMA ForgetStep ==
    ASSUME IInv, UNCHANGED <<open, tun, wire, reached, received>>, mapping' \subseteq mapping,
           lapsed \subseteq lapsed', \A m \in mapping \ mapping' : m.key \in lapsed'
    PROVE  TunOK' /\ WireOK' /\ MapOK' /\ KeptOK' /\ NoBypass' /\ AnswerMatches'
<1>1. Claims' = Claims
  BY DEF Claims
<1>2. \A f : Kept(f) => Kept(f)'
  BY DEF Kept
<1> QED
  BY <1>1, <1>2, OpenStays DEF IInv, TunOK, WireOK, MapOK, KeptOK, NoBypass, AnswerMatches

LEMMA InvariantStep == IInv /\ [Next]_vars => IInv'
<1> SUFFICES ASSUME IInv, [Next]_vars PROVE IInv'
  OBVIOUS
<1> DEFINE Rest == TunOK /\ WireOK /\ MapOK /\ KeptOK /\ NoBypass /\ AnswerMatches
<1>1. \A t \in tun : t.at \in Vip /\ t.packet \in Packet
  BY DEF IInv, TypeOK
<1>2. \A w \in wire : w.to \in Vip /\ w.packet \in Packet
  BY DEF IInv, TypeOK
<1>3. ASSUME NEW f \in Flow, Ask(f) PROVE Rest'
  BY <1>3, AskStep
<1>4. ASSUME NEW n \in Vip, NEW p \in Packet, Send(n, p) \/ SendBroadcast(n, p) PROVE Rest'
  BY <1>4, SendStep, BroadcastStep
<1>5. ASSUME NEW n \in Vip, NEW p \in Packet, RecvRequest(n, p) \/ RecvAnswer(n, p) PROVE Rest'
  BY <1>5, RequestStep, AnswerStep
<1>6. ASSUME NEW n \in Vip, NEW p \in Packet, RecvForeign(n, p) PROVE Rest'
  BY <1>6, ForeignStep, DropStep
<1>7. ASSUME NEW n \in Vip, NEW p \in Packet, RecvReject(n, p) \/ RecvBroadcast(n, p) \/ Lose(n, p) PROVE Rest'
  <2>1. wire' \subseteq wire /\ UNCHANGED <<open, tun, mapping, lapsed, reached, received>>
    BY <1>7 DEF RecvReject, RecvBroadcast, Accepted, Lose
  <2> QED
    BY <2>1, DropStep
<1>8. ASSUME NEW m \in mapping, Expire(m) PROVE Rest'
  <2>1. UNCHANGED <<open, tun, wire, reached, received>> /\ mapping' \subseteq mapping
    BY <1>8 DEF Expire
  <2>2. lapsed \subseteq lapsed' /\ \A x \in mapping \ mapping' : x.key \in lapsed'
    BY <1>8 DEF Expire
  <2> QED
    BY <2>1, <2>2, ForgetStep
<1>9. ASSUME NEW n \in Vip, Reinstall(n) PROVE Rest'
  <2>1. UNCHANGED <<open, tun, wire, reached, received>> /\ mapping' \subseteq mapping
    BY <1>9 DEF Reinstall
  <2>2. lapsed \subseteq lapsed' /\ \A x \in mapping \ mapping' : x.key \in lapsed'
    BY <1>9 DEF Reinstall
  <2> QED
    BY <2>1, <2>2, ForgetStep
<1>10. ASSUME UNCHANGED vars PROVE Rest'
  <2>1. wire' \subseteq wire /\ UNCHANGED <<open, tun, mapping, lapsed, reached, received>>
    BY <1>10 DEF vars
  <2> QED
    BY <2>1, DropStep
<1>0. ASSUME NEW n \in Vip, NEW p \in Packet, SendFail(n, p) PROVE Rest'
  <2>1. tun' \subseteq tun /\ UNCHANGED <<open, wire, mapping, lapsed, reached, received>>
    BY <1>0 DEF SendFail
  <2> QED
    BY <2>1, DropStep
<1> HIDE DEF Rest
<1>11. Rest'
  BY <1>0, <1>1, <1>2, <1>3, <1>4, <1>5, <1>6, <1>7, <1>8, <1>9, <1>10 DEF Next, Router
<1> QED
  BY <1>11, TypeStep DEF IInv, Rest

LEMMA Invariant == Spec => []IInv
<1>1. Init => IInv
  BY FlowAssumption DEF Init, IInv, TypeOK, TunOK, WireOK, MapOK, KeptOK, Claims, NoBypass, AnswerMatches
<1> QED
  BY <1>1, InvariantStep, PTL DEF Spec

(* A packet crosses once between two nodes: no gateway sends it back or on. *)
THEOREM CrossesOnce == Spec => []OneHop
<1>1. IInv => OneHop
  BY DEF IInv, WireOK, OnWay, OneHop
<1> QED
  BY <1>1, Invariant, PTL

(* A request reaches a host only if the rules of both nodes admit the address the  *)
(* host has, whatever address was asked.                                             *)
THEOREM RulesHold == Spec => []NoBypass
<1>1. IInv => NoBypass
  BY DEF IInv
<1> QED
  BY <1>1, Invariant, PTL

(* An application is answered by the address it asked, or by another by which the     *)
(* same source has asked the same host with the same identifier, as long as its         *)
(* translation is not forgotten: any conversations, and any lists that meet                *)
(* HostAssumption and RouteAssumption.                                                        *)
THEOREM AnswersMatch == Spec => []AnswerMatches
<1>1. IInv => AnswerMatches
  BY DEF IInv
<1> QED
  BY <1>1, Invariant, PTL
=============================================================================
