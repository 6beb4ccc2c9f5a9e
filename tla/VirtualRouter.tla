--------------------------- MODULE VirtualRouter ---------------------------
(***************************************************************************)
(* The way of a packet through the nodes (sdwan-node VirtualRouter.java with  *)
(* TunSdWanNode, OSRouteTableManager and the rule processor of sdwan-core): a   *)
(* node reads it from its TUN device, translates its destination, asks the       *)
(* rules, looks up the next hop and sends it to that node, which asks its own     *)
(* rules, puts the source back that was asked for and writes the packet to its     *)
(* TUN device.  Every node decides alone, with the configuration it got when it     *)
(* registered; the memory of a translation is kept by the node that made it.         *)
(*                                                                         *)
(* Packets between nodes are datagrams: lost, delayed and duplicated.          *)
(***************************************************************************)
EXTENDS Integers, Sequences

CONSTANTS
    Vip,        \* nodes that are online, by their vip
    Addr,       \* ip addresses
    VipCidr,    \* vipCidr
    Broadcast,  \* multicast addresses and the broadcast address of the vipCidr
    Lan,        \* hosts a node reaches by its own network
    Config,     \* per node: the lists of its registration
    Hash,       \* Math.abs(srcIP.hashCode())
    NoHop,
    Flow,       \* conversations: node, source, identifier and destination
    Opening,    \* sets of conversations that are open together
    Persistent, \* conversations whose application repeats an unanswered request
    TTL         \* time to live of a packet, set by the operating system

ASSUME AddressAssumption ==
    /\ Vip \subseteq VipCidr /\ VipCidr \subseteq Addr /\ Broadcast \subseteq Addr
    /\ NoHop \notin Addr
    /\ Lan \in [Vip -> SUBSET Addr]
    /\ Hash \in [Addr -> Nat]
    /\ TTL \in Nat

ASSUME ConfigAssumption ==
    \A n \in Vip :
        /\ Config[n].route \in Seq([cidr : SUBSET Addr, nexthop : Seq(Addr)])
        /\ Config[n].vnat \in Seq([cidr : SUBSET Addr, nat : [Addr -> Addr], alike : BOOLEAN, vips : Seq(Addr)])
        /\ Config[n].ruleIn \in Seq([cidr : SUBSET Addr, allow : BOOLEAN])
        /\ Config[n].ruleOut \in Seq([cidr : SUBSET Addr, allow : BOOLEAN])

ASSUME FlowAssumption ==
    /\ \A f \in Flow : f.node \in Vip /\ f.src \in Lan[f.node] \cup {f.node} /\ f.dst \in Addr
    /\ \A opening \in Opening : opening \subseteq Flow
    /\ Persistent \subseteq Flow

VARIABLES
    open,       \* conversations applications have now
    tun,        \* packets a node is to read from its TUN device
    wire,       \* packets between two nodes
    mapping,    \* vnatMappingCache of each node
    lapsed,     \* translations forgotten since the packet that made them
    reached,    \* requests that have been given to their host
    received    \* answers applications have been given

vars == <<open, tun, wire, mapping, lapsed, reached, received>>

Key == [at : Vip, id : {f.id : f \in Flow}, src : Addr, dst : Addr]
Packet == [flow : Flow, kind : {"request", "answer"}, src : Addr, dst : Addr, ttl : Nat]

TypeOK ==
    /\ open \subseteq Flow
    /\ tun \subseteq [at : Vip, packet : Packet]
    /\ wire \subseteq [to : Vip, packet : Packet]
    /\ mapping \subseteq [key : Key, original : Addr]
    /\ lapsed \subseteq Key
    /\ reached \subseteq [flow : Flow, at : Vip, dst : Addr]
    /\ received \subseteq [flow : Flow, at : Vip, src : Addr, lapsed : BOOLEAN]

Init ==
    /\ open \in Opening
    /\ tun = {} /\ wire = {} /\ mapping = {} /\ lapsed = {}
    /\ reached = {} /\ received = {}
-----------------------------------------------------------------------------
(* What a node decides from its configuration. *)

(* Cidr.contains for the entries of a list; the first in the list counts. *)
Hits(list, a) == {i \in DOMAIN list : a \in list[i].cidr}
First(hits) == CHOOSE i \in hits : \A j \in hits : i <= j

(* RouteRulePredicateProcessor.test, the rules in the order of their levels. *)
Admits(rules, a) ==
    LET hits == Hits(rules, a)
    IN  hits # {} /\ rules[First(hits)].allow

(* findVNAT: the map has no order, so any entry that contains the address. *)
Translations(n, a) == Hits(Config[n].vnat, a)

Found(n, a) == CHOOSE i \in Translations(n, a) : TRUE

(* natIp *)
Translate ==
    [n \in Vip |->
        [a \in Addr |->
            IF Translations(n, a) = {} THEN a ELSE Config[n].vnat[Found(n, a)].nat[a]]]

(* Cidr.transform throws if the two masks are not alike. *)
Fails(n, a) == Translations(n, a) # {} /\ ~ Config[n].vnat[Found(n, a)].alike

(* buildMergeRouteList: what a virtual nat translates is routed as well. *)
RouteList ==
    [n \in Vip |->
        Config[n].route \o
        [i \in DOMAIN Config[n].vnat |->
            [cidr |-> Config[n].vnat[i].cidr, nexthop |-> Config[n].vnat[i].vips]]]

FindRoute(n, src, dst) ==
    LET list == RouteList[n]
        hits == Hits(list, dst)
        hops == list[First(hits)].nexthop
    IN  IF hits = {} \/ hops = <<>> THEN NoHop
        ELSE hops[(Hash[src] % Len(hops)) + 1]

(* routeOut after the translation. *)
RouteOut(n, src, dst) ==
    IF ~ Admits(Config[n].ruleOut, dst) THEN NoHop
    ELSE IF dst \in VipCidr THEN dst
    ELSE FindRoute(n, src, dst)

(* What no code checks of the lists.  No host has an address that a virtual nat   *)
(* translates; routes that share an address share the next hops, at every node.        *)
ASSUME HostAssumption ==
    \A n, m \in Vip : \A a \in Lan[m] \cup {m} : a \notin Broadcast /\ Translations(n, a) = {}

NextHops(n, i) == {RouteList[n][i].nexthop[k] : k \in DOMAIN RouteList[n][i].nexthop}

ASSUME RouteAssumption ==
    \A n, m \in Vip : \A i \in DOMAIN RouteList[n], j \in DOMAIN RouteList[m] :
        RouteList[n][i].cidr \cap RouteList[m][j].cidr # {} => NextHops(n, i) = NextHops(m, j)

(* Mutant: every route is given to the operating system. *)
OSRoutesAll == [n \in Vip |-> DOMAIN RouteList[n]]

(* filterRouteList: a gateway does not route its own destinations to its TUN device. *)
OSRoutes ==
    [n \in Vip |->
        {i \in DOMAIN RouteList[n] : n \notin NextHops(n, i)}]

(* Does the operating system of a node give the packet to the TUN device? *)
IntoTun(n, a) ==
    \/ a \in (VipCidr \cup Broadcast) \ {n}
    \/ a \notin Lan[n] \cup {n} /\ \E i \in OSRoutes[n] : a \in RouteList[n][i].cidr
-----------------------------------------------------------------------------
(* Mutant: answers are looked up by the key of the request. *)
IdentifierSent(n, p) == [at |-> n, id |-> p.flow.id, src |-> p.dst, dst |-> p.src]

(* Mutant: the key is read before the packet has its new destination. *)
SentKeyBefore(n, p) == [at |-> n, id |-> p.flow.id, src |-> p.dst, dst |-> p.src]

(* getIdentifier(true) of the packet after setDstIP: the key its answer will have. *)
SentKey(n, p) == [at |-> n, id |-> p.flow.id, src |-> Translate[n][p.dst], dst |-> p.src]

(* getIdentifier() *)
Identifier(n, p) == [at |-> n, id |-> p.flow.id, src |-> p.src, dst |-> p.dst]

(* An application, of the node or of a host behind it, sends or repeats its request. *)
Ask(f) ==
    /\ f \in open
    /\ IntoTun(f.node, f.dst)
    /\ tun' = tun \cup
          {[at |-> f.node,
            packet |-> [flow |-> f, kind |-> "request", src |-> f.src, dst |-> f.dst, ttl |-> TTL]]}
    /\ UNCHANGED <<open, wire, mapping, lapsed, reached, received>>

(* send: to every other node. *)
SendBroadcast(n, p) ==
    /\ [at |-> n, packet |-> p] \in tun
    /\ p.dst \in Broadcast
    /\ tun' = tun \ {[at |-> n, packet |-> p]}
    /\ wire' = wire \cup {[to |-> v, packet |-> p] : v \in Vip \ {n}}
    /\ UNCHANGED <<open, mapping, lapsed, reached, received>>

(* processVnatOut *)
Remember(n, p) ==
    LET key == SentKey(n, p)
    IN  IF Translations(n, p.dst) = {}
        THEN UNCHANGED <<mapping, lapsed>>
        ELSE /\ mapping' = {m \in mapping : m.key # key} \cup {[key |-> key, original |-> p.dst]}
             /\ lapsed' = lapsed \ {key}

(* Mutant: the rules are asked about the address before its translation. *)
SendRuleFirst(n, p) ==
    LET q == [p EXCEPT !.dst = Translate[n][p.dst]]
        hop == IF ~ Admits(Config[n].ruleOut, p.dst) THEN NoHop
               ELSE IF q.dst \in VipCidr THEN q.dst ELSE FindRoute(n, q.src, q.dst)
    IN  /\ [at |-> n, packet |-> p] \in tun
        /\ p.dst \notin Broadcast /\ ~ Fails(n, p.dst)
        /\ tun' = tun \ {[at |-> n, packet |-> p]}
        /\ Remember(n, p)
        /\ wire' = IF hop \in Vip THEN wire \cup {[to |-> hop, packet |-> q]} ELSE wire
        /\ UNCHANGED <<open, reached, received>>

(* Mutant: a packet is sent although its next hop is not online. *)
SendUnchecked(n, p) ==
    LET q == [p EXCEPT !.dst = Translate[n][p.dst]]
    IN  /\ [at |-> n, packet |-> p] \in tun
        /\ p.dst \notin Broadcast /\ ~ Fails(n, p.dst)
        /\ tun' = tun \ {[at |-> n, packet |-> p]}
        /\ Remember(n, p)
        /\ wire' = wire \cup {[to |-> RouteOut(n, q.src, q.dst), packet |-> q]}
        /\ UNCHANGED <<open, reached, received>>

(* send, routeOut: without a next hop that is online the packet is dropped, but its *)
(* translation is remembered.                                                         *)
Send(n, p) ==
    LET q == [p EXCEPT !.dst = Translate[n][p.dst]]
        hop == RouteOut(n, q.src, q.dst)
    IN  /\ [at |-> n, packet |-> p] \in tun
        /\ p.dst \notin Broadcast /\ ~ Fails(n, p.dst)
        /\ tun' = tun \ {[at |-> n, packet |-> p]}
        /\ Remember(n, p)
        /\ wire' = IF hop \in Vip THEN wire \cup {[to |-> hop, packet |-> q]} ELSE wire
        /\ UNCHANGED <<open, reached, received>>

(* natIp throws: the packet is dropped. *)
SendFail(n, p) ==
    /\ [at |-> n, packet |-> p] \in tun
    /\ p.dst \notin Broadcast /\ Fails(n, p.dst)
    /\ tun' = tun \ {[at |-> n, packet |-> p]}
    /\ UNCHANGED <<open, wire, mapping, lapsed, reached, received>>

(* processVnatIn *)
Originals(n, p) == {m.original : m \in {x \in mapping : x.key = Identifier(n, p)}}
SourceIn(n, p) == IF Originals(n, p) = {} THEN p.src ELSE CHOOSE a \in Originals(n, p) : TRUE

(* recv and routeIn: a packet the rules reject goes no further.  A datagram may *)
(* come again.                                                                   *)
Accepted(n, p) ==
    /\ [to |-> n, packet |-> p] \in wire
    /\ wire' \in {wire, wire \ {[to |-> n, packet |-> p]}}
    /\ Admits(Config[n].ruleIn, p.dst)

RecvReject(n, p) ==
    /\ [to |-> n, packet |-> p] \in wire
    /\ wire' = wire \ {[to |-> n, packet |-> p]}
    /\ ~ Admits(Config[n].ruleIn, p.dst)
    /\ UNCHANGED <<open, tun, mapping, lapsed, reached, received>>

(* The request reaches the node or a host behind it, which answers what it was sent. *)
RecvRequest(n, p) ==
    /\ Accepted(n, p)
    /\ p.kind = "request" /\ p.dst \in Lan[n] \cup {n}
    /\ reached' = reached \cup {[flow |-> p.flow, at |-> n, dst |-> p.dst]}
    /\ tun' = IF IntoTun(n, SourceIn(n, p))
              THEN tun \cup
                   {[at |-> n,
                     packet |-> [flow |-> p.flow, kind |-> "answer",
                                 src |-> p.dst, dst |-> SourceIn(n, p), ttl |-> TTL]]}
              ELSE tun
    /\ UNCHANGED <<open, mapping, lapsed, received>>

RecvAnswer(n, p) ==
    /\ Accepted(n, p)
    /\ p.kind = "answer" /\ p.dst \in Lan[n] \cup {n}
    /\ received' = received \cup
          {[flow |-> p.flow, at |-> n, src |-> SourceIn(n, p),
            lapsed |-> Identifier(n, p) \in lapsed]}
    /\ UNCHANGED <<open, tun, mapping, lapsed, reached>>

RecvBroadcast(n, p) ==
    /\ Accepted(n, p)
    /\ p.dst \in Broadcast
    /\ UNCHANGED <<open, tun, mapping, lapsed, reached, received>>

(* A packet for somebody else: the operating system forwards it, here to the TUN *)
(* device again, or drops it.                                                      *)
RecvForeign(n, p) ==
    /\ Accepted(n, p)
    /\ p.dst \notin Lan[n] \cup {n} \cup Broadcast
    /\ tun' = IF p.ttl > 1 /\ IntoTun(n, p.dst)
              THEN tun \cup
                   {[at |-> n, packet |-> [p EXCEPT !.src = SourceIn(n, p), !.ttl = @ - 1]]}
              ELSE tun
    /\ UNCHANGED <<open, mapping, lapsed, reached, received>>

Lose(n, p) ==
    /\ [to |-> n, packet |-> p] \in wire
    /\ wire' = wire \ {[to |-> n, packet |-> p]}
    /\ UNCHANGED <<open, tun, mapping, lapsed, reached, received>>

(* expireAfterWrite *)
Expire(m) ==
    /\ m \in mapping
    /\ mapping' = mapping \ {m}
    /\ lapsed' = lapsed \cup {m.key}
    /\ UNCHANGED <<open, tun, wire, reached, received>>

(* BaseSdWanNode.install: a node that reconnects has a new VirtualRouter. *)
Reinstall(n) ==
    /\ mapping' = {m \in mapping : m.key.at # n}
    /\ lapsed' = lapsed \cup {m.key : m \in {x \in mapping : x.key.at = n}}
    /\ UNCHANGED <<open, tun, wire, reached, received>>
-----------------------------------------------------------------------------
Router(n) ==
    \/ \E t \in tun : t.at = n /\ (Send(n, t.packet) \/ SendFail(n, t.packet) \/ SendBroadcast(n, t.packet))
    \/ \E w \in wire :
          /\ w.to = n
          /\ \/ RecvReject(n, w.packet) \/ RecvRequest(n, w.packet) \/ RecvAnswer(n, w.packet)
             \/ RecvBroadcast(n, w.packet) \/ RecvForeign(n, w.packet)
    \/ Reinstall(n)

Next ==
    \/ \E f \in Flow : Ask(f)
    \/ \E n \in Vip : Router(n)
    \/ \E w \in wire : Lose(w.to, w.packet)
    \/ \E m \in mapping : Expire(m)

Spec == Init /\ [][Next]_vars

(* An application repeats its request; a node reads its TUN device; a datagram that *)
(* is sent again and again arrives at last.                                           *)
FairSpec ==
    /\ Spec
    /\ \A f \in Persistent :
          /\ WF_vars(Ask(f))
          /\ WF_vars(\E t \in tun : t.packet.flow = f /\ t.packet.kind = "request" /\ Send(t.at, t.packet))
          /\ WF_vars(\E t \in tun : t.packet.flow = f /\ t.packet.kind = "answer" /\ Send(t.at, t.packet))
          /\ SF_vars(\E w \in wire : w.packet.flow = f /\ RecvRequest(w.to, w.packet))
          /\ SF_vars(\E w \in wire : w.packet.flow = f /\ RecvAnswer(w.to, w.packet))
-----------------------------------------------------------------------------
(* The host a conversation is with, and the conversations that are open with it and   *)
(* whose answers nothing tells apart: of one source with one identifier.                *)
Target(f) == Translate[f.node][f.dst]
Twins(f) == {g \in open : g.node = f.node /\ g.id = f.id /\ g.src = f.src /\ Target(g) = Target(f)}

(* An application is answered by the address it asked, although the host that     *)
(* answered has another; if it asked that host by several addresses with one          *)
(* identifier, by one of them.  The translation of a conversation is undone by its own  *)
(* entry, whatever others are open and however often packets come; but for an entry    *)
(* that expired or was lost with a reconnection, and for an answer that comes back by   *)
(* another gateway, which made no translation.                                            *)
AnswerMatches ==
    \A r \in received :
        r.at = r.flow.node /\ ~ r.lapsed => r.src \in {g.dst : g \in Twins(r.flow)}

(* The router and the routes given to the operating system agree: a packet crosses *)
(* once between two nodes, and no gateway sends it back or on.                        *)
OneHop == \A w \in wire : w.packet.ttl = TTL

(* A virtual nat opens no way round the rules: a request reaches a host only if the *)
(* rules of the node that sent it and of the node that received it admit the address  *)
(* the host has, whatever address was asked.                                            *)
NoBypass ==
    \A r \in reached :
        /\ Admits(Config[r.flow.node].ruleOut, r.dst)
        /\ Admits(Config[r.at].ruleIn, r.dst)

(* The way there and back as the lists of the two nodes have it. *)
Served(f) ==
    LET dst == Translate[f.node][f.dst]
        hop == RouteOut(f.node, f.src, dst)
    IN  /\ f.dst \notin Broadcast /\ IntoTun(f.node, f.dst) /\ ~ Fails(f.node, f.dst)
        /\ hop \in Vip /\ Admits(Config[hop].ruleIn, dst) /\ dst \in Lan[hop] \cup {hop}
        /\ IntoTun(hop, f.src) /\ RouteOut(hop, dst, f.src) = f.node
        /\ Admits(Config[f.node].ruleIn, f.src) /\ f.src \in Lan[f.node] \cup {f.node}

(* When the lists of both nodes lead there and back and translations last from now on, *)
(* an application that repeats its request is answered by the address it asked, if it       *)
(* has asked the host by no other with the same identifier.                                  *)
TranslationsLast == <>[][lapsed' \subseteq lapsed]_lapsed
RoundTrip ==
    TranslationsLast =>
        \A f \in Persistent : Served(f) /\ Twins(f) \subseteq {f} =>
            (f \in open ~> \E r \in received : r.flow = f /\ r.src = f.dst)
=============================================================================
