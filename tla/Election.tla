------------------------------ MODULE Election ------------------------------
(***************************************************************************)
(* How two nodes come to have a transport for each other: the offers and     *)
(* answers they exchange through the controller, the pings that find a path,   *)
(* the transport table of each node, and the check that drops transports that    *)
(* no longer answer (IceClient, ICEElectionProtocol, P2pTransportManager).        *)
(*                                                                         *)
(* A node has a new key pair and new sockets in every incarnation.  What the *)
(* controller forwards or pushes from one node to another arrives in order      *)
(* (ControllerServer.tla is about the cases in which a node's connections         *)
(* overlap).  A pong may come at any time while somebody waits for it, or never.   *)
(***************************************************************************)
EXTENDS Naturals, Sequences

CONSTANTS
    Node,       \* nodes, named by their vips
    Sender,     \* nodes that have packets for the others
    Path,       \* kinds of address: direct, relay
    NoPath,
    Req,        \* request ids (reqId) of a node's offers
    FixedPort,  \* TRUE: p2pPort is configured, a node comes back under its addresses
    MaxGen      \* bound: incarnations of a node

ASSUME SenderAssumption == Sender \subseteq Node
ASSUME PathAssumption == NoPath \notin Path
ASSUME PortAssumption == FixedPort \in BOOLEAN
ASSUME GenAssumption == MaxGen \in Nat \ {0}

Gen == 1 .. MaxGen
Transport == [key : Gen, addr : Gen, path : Path]
None == [state |-> "none"]
Electing == [state |-> "electing"]
NoOffer == [state |-> "no offer"]
Offer == [peer : Node, addr : Gen, pong : Path \cup {NoPath}]
Message ==
    [type : {"offer", "answer"}, req : Req, gen : Gen]
        \cup [type : {"online"}, gen : Gen] \cup [type : {"offline"}]

VARIABLES
    gen,      \* incarnation of a node
    dir,      \* NodeManager: incarnation of a peer whose addresses are known, 0 if none
    table,    \* transportMap: what a node has for a peer
    offers,   \* createOffer futures waiting for an answer
    answers,  \* createAnswer futures waiting for a pong
    checks,   \* heartMap: addresses whose ping is waiting for a pong
    chan      \* messages on their way from a node to a node

vars == <<gen, dir, table, offers, answers, checks, chan>>

TypeOK ==
    /\ gen \in [Node -> Gen]
    /\ dir \in [Node -> [Node -> Gen \cup {0}]]
    /\ table \in [Node -> [Node -> Transport \cup {None, Electing}]]
    /\ offers \in [Node -> [Req -> Offer \cup {NoOffer}]]
    /\ answers \in [Node -> SUBSET [peer : Node, req : Req, gen : Gen]]
    /\ checks \in [Node -> SUBSET [peer : Node, addr : Gen, path : Path]]
    /\ chan \in [Node -> [Node -> Seq(Message)]]

Init ==
    /\ gen = [n \in Node |-> 1]
    /\ dir = [n \in Node |-> [p \in Node |-> 1]]
    /\ table = [n \in Node |-> [p \in Node |-> None]]
    /\ offers = [n \in Node |-> [r \in Req |-> NoOffer]]
    /\ answers = [n \in Node |-> {}]
    /\ checks = [n \in Node |-> {}]
    /\ chan = [n \in Node |-> [p \in Node |-> << >>]]
-----------------------------------------------------------------------------
(* Helpers. *)

IsTransport(entry) == entry \notin {None, Electing}

(* A ping of that address gets to the peer, and its pong back. *)
Reaches(p, addr) == FixedPort \/ addr = gen[p]

SendTo(n, p, msg) == chan' = [chan EXCEPT ![n][p] = Append(@, msg)]

(* The first message from p to n, which n handles. *)
Arrives(p, n, type) == chan[p][n] # << >> /\ Head(chan[p][n]).type = type
Handle(p, n) == chan' = [chan EXCEPT ![p][n] = Tail(@)]

Asks(msg, type, r) == msg.type = type /\ msg.req = r

(* The peer is still to get the offer, to answer it, or its answer is on its way. *)
Underway(n, r, p) ==
    \/ \E i \in DOMAIN chan[n][p] : Asks(chan[n][p][i], "offer", r)
    \/ \E a \in answers[p] : a.peer = n /\ a.req = r
    \/ \E i \in DOMAIN chan[p][n] : Asks(chan[p][n][i], "answer", r)

Put(n, p, entry) == table' = [table EXCEPT ![n][p] = entry]
EndOffer(n, r) == offers' = [offers EXCEPT ![n][r] = NoOffer]
-----------------------------------------------------------------------------
(* The offering side: IceClient.sendNode, createOffer. *)

(* A packet for a peer without a transport starts an election; while there is one *)
(* packets are dropped, and with a transport nothing of the state changes.          *)
SendNode(n, p) ==
    /\ n \in Sender /\ p # n
    /\ dir[n][p] # 0
    /\ table[n][p] = None
    /\ Put(n, p, Electing)
    /\ \E r \in Req :
          /\ offers[n][r] = NoOffer
          /\ \A q \in Node : ~ Underway(n, r, q)
          /\ offers' = [offers EXCEPT ![n][r] = [peer |-> p, addr |-> dir[n][p], pong |-> NoPath]]
          /\ SendTo(n, p, [type |-> "offer", req |-> r, gen |-> gen[n]])
    /\ UNCHANGED <<gen, dir, answers, checks>>

(* The first pong settles the path. *)
OfferPong(n, r, path) ==
    /\ offers[n][r] # NoOffer
    /\ offers[n][r].pong = NoPath
    /\ Reaches(offers[n][r].peer, offers[n][r].addr)
    /\ offers' = [offers EXCEPT ![n][r].pong = path]
    /\ UNCHANGED <<gen, dir, table, answers, checks, chan>>

(* electionSuccess: the transport has the address that was pinged and the key that *)
(* was answered.                                                                     *)
Answered(n, p) ==
    LET msg == Head(chan[p][n])
        o == offers[n][msg.req]
    IN  /\ Arrives(p, n, "answer")
        /\ o # NoOffer /\ o.pong # NoPath
        /\ Put(n, p, [key |-> msg.gen, addr |-> o.addr, path |-> o.pong])
        /\ EndOffer(n, msg.req)
        /\ Handle(p, n)
        /\ UNCHANGED <<gen, dir, answers, checks>>

(* Mutant: a failed election leaves the table alone. *)
ElectionErrorKept(n, r) == EndOffer(n, r) /\ UNCHANGED table

(* electionError: deleteTransport, whatever the table has by now. *)
ElectionError(n, r) ==
    /\ EndOffer(n, r)
    /\ Put(n, offers[n][r].peer, None)

(* Mutant: the missing pong goes unnoticed. *)
AnsweredNoPongAccepted(n, p) ==
    LET msg == Head(chan[p][n])
        o == offers[n][msg.req]
    IN  /\ Arrives(p, n, "answer")
        /\ o # NoOffer /\ o.pong = NoPath
        /\ Put(n, p, [key |-> msg.gen, addr |-> o.addr, path |-> o.pong])
        /\ EndOffer(n, msg.req)
        /\ Handle(p, n)
        /\ UNCHANGED <<gen, dir, answers, checks>>

(* "not found transport" *)
AnsweredNoPong(n, p) ==
    LET msg == Head(chan[p][n])
        o == offers[n][msg.req]
    IN  /\ Arrives(p, n, "answer")
        /\ o # NoOffer /\ o.pong = NoPath
        /\ ElectionError(n, msg.req)
        /\ Handle(p, n)
        /\ UNCHANGED <<gen, dir, answers, checks>>

(* An answer to an offer that has timed out is not waited for. *)
AnsweredLate(n, p) ==
    /\ Arrives(p, n, "answer")
    /\ offers[n][Head(chan[p][n]).req] = NoOffer
    /\ Handle(p, n)
    /\ UNCHANGED <<gen, dir, table, offers, answers, checks>>

OfferTimeout(n, r) ==
    /\ offers[n][r] # NoOffer
    /\ ElectionError(n, r)
    /\ UNCHANGED <<gen, dir, answers, checks, chan>>
-----------------------------------------------------------------------------
(* The answering side: processAnswer, createAnswer. *)

ReceiveOffer(n, p) ==
    /\ Arrives(p, n, "offer")
    /\ LET msg == Head(chan[p][n])
       IN  answers' = [answers EXCEPT ![n] = @ \cup {[peer |-> p, req |-> msg.req, gen |-> msg.gen]}]
    /\ Handle(p, n)
    /\ UNCHANGED <<gen, dir, table, offers, checks>>

(* Mutant: the addresses of the directory are pinged instead of the offered ones. *)
AnswerPongDirectory(n, a, path) ==
    /\ a \in answers[n]
    /\ dir[n][a.peer] # 0 /\ Reaches(a.peer, dir[n][a.peer])
    /\ answers' = [answers EXCEPT ![n] = @ \ {a}]
    /\ SendTo(n, a.peer, [type |-> "answer", req |-> a.req, gen |-> gen[n]])
    /\ Put(n, a.peer, [key |-> a.gen, addr |-> dir[n][a.peer], path |-> path])
    /\ UNCHANGED <<gen, dir, offers, checks>>

(* The first pong: the answer is sent and the transport replaces what is there. *)
AnswerPong(n, a, path) ==
    /\ a \in answers[n]
    /\ Reaches(a.peer, a.gen)
    /\ answers' = [answers EXCEPT ![n] = @ \ {a}]
    /\ SendTo(n, a.peer, [type |-> "answer", req |-> a.req, gen |-> gen[n]])
    /\ Put(n, a.peer, [key |-> a.gen, addr |-> a.gen, path |-> path])
    /\ UNCHANGED <<gen, dir, offers, checks>>

(* Nothing is answered. *)
AnswerTimeout(n, a) ==
    /\ a \in answers[n]
    /\ answers' = [answers EXCEPT ![n] = @ \ {a}]
    /\ UNCHANGED <<gen, dir, table, offers, checks, chan>>
-----------------------------------------------------------------------------
(* P2pTransportManager.run and its pings. *)

CheckStart(n, p) ==
    /\ IsTransport(table[n][p])
    /\ LET h == [peer |-> p, addr |-> table[n][p].addr, path |-> table[n][p].path]
       IN  /\ h \notin checks[n]
           /\ checks' = [checks EXCEPT ![n] = @ \cup {h}]
    /\ UNCHANGED <<gen, dir, table, offers, answers, chan>>

CheckPong(n, h) ==
    /\ h \in checks[n]
    /\ Reaches(h.peer, h.addr)
    /\ checks' = [checks EXCEPT ![n] = @ \ {h}]
    /\ UNCHANGED <<gen, dir, table, offers, answers, chan>>

(* Mutant: the entry is left when its ping times out. *)
CheckTimeoutKept(n, h) ==
    /\ h \in checks[n]
    /\ checks' = [checks EXCEPT ![n] = @ \ {h}]
    /\ UNCHANGED <<gen, dir, table, offers, answers, chan>>

(* The entry of the vip goes, even if it is not the one that was pinged. *)
CheckTimeout(n, h) ==
    /\ h \in checks[n]
    /\ checks' = [checks EXCEPT ![n] = @ \ {h}]
    /\ Put(n, h.peer, None)
    /\ UNCHANGED <<gen, dir, offers, answers, chan>>
-----------------------------------------------------------------------------
(* The directory's pushes, and a node that stops and starts again. *)

NodeOnline(n, p) ==
    /\ Arrives(p, n, "online")
    /\ dir' = [dir EXCEPT ![n][p] = Head(chan[p][n]).gen]
    /\ Handle(p, n)
    /\ UNCHANGED <<gen, table, offers, answers, checks>>

NodeOffline(n, p) ==
    /\ Arrives(p, n, "offline")
    /\ dir' = [dir EXCEPT ![n][p] = 0]
    /\ Put(n, p, None)
    /\ Handle(p, n)
    /\ UNCHANGED <<gen, offers, answers, checks>>

(* What may still come of a queue when the receiver has a new connection: a push is    *)
(* written to the connections there are when it is made, and so is lost with everything  *)
(* that was forwarded before it; an offer or an answer goes to the connection that has     *)
(* the vip when the controller gets to it.                                                  *)
Forwarded(msg) == msg.type \in {"offer", "answer"}
Rests(q) ==
    { SubSeq(q, k, Len(q)) :
        k \in {k \in 1 .. Len(q) + 1 : \A i \in k .. Len(q) : Forwarded(q[i])} }

(* Nothing of the old incarnation is left but what it has sent, and what the controller *)
(* has not yet forwarded to it and now forwards to the new one.                            *)
Restart(n) ==
    /\ gen[n] < MaxGen
    /\ gen' = [gen EXCEPT ![n] = @ + 1]
    /\ dir' = [dir EXCEPT ![n] = gen]
    /\ table' = [table EXCEPT ![n] = [p \in Node |-> None]]
    /\ offers' = [offers EXCEPT ![n] = [r \in Req |-> NoOffer]]
    /\ answers' = [answers EXCEPT ![n] = {}]
    /\ checks' = [checks EXCEPT ![n] = {}]
    /\ \E rest \in [Node -> UNION {Rests(chan[q][n]) : q \in Node}] :
          /\ \A q \in Node : rest[q] \in Rests(chan[q][n])
          /\ chan' = [p \in Node |-> [q \in Node |->
                        IF q = n THEN rest[p]
                        ELSE IF p = n THEN chan[n][q] \o <<[type |-> "offline"],
                                                           [type |-> "online", gen |-> gen[n] + 1]>>
                        ELSE chan[p][q]]]
-----------------------------------------------------------------------------
Receive(n) ==
    \E p \in Node :
        \/ Answered(n, p) \/ AnsweredNoPong(n, p) \/ AnsweredLate(n, p)
        \/ ReceiveOffer(n, p) \/ NodeOnline(n, p) \/ NodeOffline(n, p)

Step(n) ==
    \/ Receive(n)
    \/ \E p \in Node : SendNode(n, p) \/ CheckStart(n, p)
    \/ \E r \in Req : OfferTimeout(n, r) \/ \E path \in Path : OfferPong(n, r, path)
    \/ \E a \in answers[n] : AnswerTimeout(n, a) \/ \E path \in Path : AnswerPong(n, a, path)
    \/ \E h \in checks[n] : CheckPong(n, h) \/ CheckTimeout(n, h)
    \/ Restart(n)

Next == \E n \in Node : Step(n)

Spec == Init /\ [][Next]_vars

(* What a node does, if not at once: read its connection, send its packets, wait for *)
(* pongs no longer than the timers allow, check its transports.                        *)
FairSpec ==
    /\ Spec
    /\ \A n \in Node :
          /\ WF_vars(Receive(n))
          /\ \A p \in Node : WF_vars(SendNode(n, p)) /\ WF_vars(CheckStart(n, p))
          /\ \A r \in Req :
                /\ WF_vars(\E path \in Path : OfferPong(n, r, path))
                /\ WF_vars(OfferTimeout(n, r) /\ ~ Underway(n, r, offers[n][r].peer))
          /\ WF_vars(\E a \in answers[n], path \in Path : AnswerPong(n, a, path))
          /\ WF_vars(\E a \in answers[n] : AnswerTimeout(n, a) /\ ~ Reaches(a.peer, a.gen))
          /\ \A h \in [peer : Node, addr : Gen, path : Path] :
                WF_vars(CheckPong(n, h) \/ (CheckTimeout(n, h) /\ ~ Reaches(h.peer, h.addr)))
-----------------------------------------------------------------------------
(* Properties. *)

(* While packets are dropped because of an election there is one: an offer of the *)
(* node to that peer still waits and will clear the entry, whatever the peer's own  *)
(* offers, pushes and checks have done to the table meanwhile.                        *)
NoStuckElection ==
    \A n, p \in Node : table[n][p] = Electing =>
        \E r \in Req : offers[n][r] # NoOffer /\ offers[n][r].peer = p

(* A pong vouches for the key: a transport whose address is answered has the key of the *)
(* peer's present incarnation, although pings know nothing of keys, address and key come   *)
(* by different ways, and what was offered to one incarnation may be answered by the next.   *)
(* So every transport with a dead key has a dead address (unless ports are configured and     *)
(* the incarnations share their addresses).                                                     *)
PongVouchesForKey ==
    \A n, p \in Node :
        ~ FixedPort /\ IsTransport(table[n][p]) /\ Reaches(p, table[n][p].addr) =>
            table[n][p].key = gen[p]

(* A transport with the key or the address of an incarnation that is gone is found out *)
(* (unless ports are configured: then its pings are answered).                              *)
StaleEnds ==
    \A n, p \in Node :
        LET stale == /\ IsTransport(table[n][p])
                     /\ table[n][p].key # gen[p] \/ ~ Reaches(p, table[n][p].addr)
        IN  stale ~> ~ stale

(* A step that takes something away that works: a restart, a lost ping or pong, an *)
(* answer that comes too late or before the pong.                                    *)
Lossy(n) ==
    \/ Restart(n)
    \/ \E p \in Node : AnsweredNoPong(n, p)
                       /\ Reaches(p, offers[n][Head(chan[p][n]).req].addr)
    \/ \E r \in Req : OfferTimeout(n, r) /\ Underway(n, r, offers[n][r].peer)
    \/ \E a \in answers[n] : AnswerTimeout(n, a) /\ Reaches(a.peer, a.gen)
    \/ \E h \in checks[n] : CheckTimeout(n, h) /\ Reaches(h.peer, h.addr)

LossesEnd == <>[][\A n \in Node : ~ Lossy(n)]_vars

(* What n sends reaches p and p can decode it. *)
Flows(n, p) ==
    /\ IsTransport(table[n][p]) /\ Reaches(p, table[n][p].addr) /\ table[n][p].key = gen[p]
    /\ IsTransport(table[p][n]) /\ table[p][n].key = gen[n]

(* Once losses end, what a node sends gets through. *)
Connects == LossesEnd => \A n \in Sender : \A p \in Node \ {n} : <>[]Flows(n, p)
=============================================================================
