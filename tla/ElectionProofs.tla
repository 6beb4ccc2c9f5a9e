--------------------------- MODULE ElectionProofs ---------------------------
(***************************************************************************)
(* Proofs about Election for any number of nodes, request ids, paths and      *)
(* incarnations: its types, that no entry of a transport table waits for an       *)
(* election that nobody holds, and that a pong vouches for the key.                 *)
(***************************************************************************)
EXTENDS Election, SequenceTheorems, TLAPS

USE GenAssumption DEF Gen

(* The entries of the tables and of the offers can be told apart. *)
LEMMA Different ==
    /\ \A k, g, path : [key |-> k, addr |-> g, path |-> path] # Electing
    /\ \A k, g, path : [key |-> k, addr |-> g, path |-> path] # None
    /\ None # Electing
    /\ \A p, g, path : [peer |-> p, addr |-> g, pong |-> path] # NoOffer
<1>1. ASSUME NEW k, NEW g, NEW path
      PROVE  LET t == [key |-> k, addr |-> g, path |-> path] IN t # Electing /\ t # None
  <2>1. DOMAIN [key |-> k, addr |-> g, path |-> path] = {"key", "addr", "path"}
    OBVIOUS
  <2>2. DOMAIN Electing = {"state"} /\ DOMAIN None = {"state"}
    BY DEF Electing, None
  <2> QED
    BY <2>1, <2>2
<1>2. ASSUME NEW p, NEW g, NEW path PROVE [peer |-> p, addr |-> g, pong |-> path] # NoOffer
  <2>1. DOMAIN [peer |-> p, addr |-> g, pong |-> path] = {"peer", "addr", "pong"}
    OBVIOUS
  <2>2. DOMAIN NoOffer = {"state"}
    BY DEF NoOffer
  <2> QED
    BY <2>1, <2>2
<1>3. None # Electing
  BY DEF None, Electing
<1> QED
  BY <1>1, <1>2, <1>3

(* What a queue consists of. *)
LEMMA QueueType ==
    ASSUME NEW S, NEW q \in Seq(S), q # << >>
    PROVE  Head(q) \in S /\ Tail(q) \in Seq(S)
OBVIOUS

LEMMA HandleType ==
    ASSUME TypeOK, NEW n \in Node, NEW p \in Node, chan[p][n] # << >>
    PROVE  /\ Head(chan[p][n]) \in Message
           /\ Handle(p, n) => chan' \in [Node -> [Node -> Seq(Message)]]
<1>1. chan[p][n] \in Seq(Message)
  BY DEF TypeOK
<1>2. Head(chan[p][n]) \in Message /\ Tail(chan[p][n]) \in Seq(Message)
  BY <1>1, QueueType
<1>3. ASSUME Handle(p, n) PROVE chan' \in [Node -> [Node -> Seq(Message)]]
  <2>1. chan \in [Node -> [Node -> Seq(Message)]]
    BY DEF TypeOK
  <2>2. chan' = [chan EXCEPT ![p][n] = Tail(chan[p][n])]
    BY <1>3 DEF Handle
  <2> QED
    BY <1>2, <2>1, <2>2
<1> QED
  BY <1>2, <1>3

LEMMA SendType ==
    ASSUME TypeOK, NEW n \in Node, NEW p \in Node, NEW msg \in Message, SendTo(n, p, msg)
    PROVE  chan' \in [Node -> [Node -> Seq(Message)]]
<1>1. chan[n][p] \in Seq(Message)
  BY DEF TypeOK
<1>2. Append(chan[n][p], msg) \in Seq(Message)
  BY <1>1, AppendProperties
<1> QED
  BY <1>2 DEF SendTo, TypeOK

LEMMA PutType ==
    ASSUME TypeOK, NEW n \in Node, NEW p \in Node,
           NEW entry \in Transport \cup {None, Electing}, Put(n, p, entry)
    PROVE  table' \in [Node -> [Node -> Transport \cup {None, Electing}]]
BY DEF Put, TypeOK

LEMMA EndOfferType ==
    ASSUME TypeOK, NEW n \in Node, NEW r \in Req, EndOffer(n, r)
    PROVE  offers' \in [Node -> [Req -> Offer \cup {NoOffer}]]
BY DEF EndOffer, TypeOK

(* What an answer that is waited for carries, and the offer it belongs to. *)
LEMMA AnswerIs ==
    ASSUME TypeOK, NEW n \in Node, NEW p \in Node, Arrives(p, n, "answer")
    PROVE  Head(chan[p][n]).req \in Req /\ Head(chan[p][n]).gen \in Gen
<1>1. Head(chan[p][n]) \in Message /\ Head(chan[p][n]).type = "answer"
  BY HandleType DEF Arrives
<1> QED
  BY <1>1 DEF Message

(* What is left of a queue was in it. *)
LEMMA RestIs ==
    ASSUME NEW S, NEW q \in Seq(S), NEW s \in Rests(q)
    PROVE  s \in Seq(S) /\ \A i \in DOMAIN s : \E j \in DOMAIN q : s[i] = q[j]
<1>1. PICK k \in 1 .. Len(q) + 1 : s = SubSeq(q, k, Len(q))
  BY DEF Rests
<1>2. Len(q) \in Nat /\ k \in Nat /\ k >= 1
  BY LenProperties
<1>3. \A i \in k .. Len(q) : q[i] \in S
  BY <1>2, ElementOfSeq
<1>4. /\ s \in Seq(S)
      /\ Len(s) = IF k <= Len(q) THEN Len(q) - k + 1 ELSE 0
      /\ \A i \in 1 .. Len(q) - k + 1 : s[i] = q[k + i - 1]
  BY <1>1, <1>2, <1>3, SubSeqProperties
<1>5. ASSUME NEW i \in DOMAIN s PROVE \E j \in DOMAIN q : s[i] = q[j]
  <2>1. DOMAIN s = 1 .. Len(s) /\ DOMAIN q = 1 .. Len(q)
    BY <1>4, LenProperties
  <2>2. i \in 1 .. Len(q) - k + 1 /\ k + i - 1 \in 1 .. Len(q)
    BY <1>2, <1>4, <2>1
  <2> QED
    BY <1>4, <2>1, <2>2
<1> QED
  BY <1>4, <1>5

(* The queues after a restart. *)
Announced(n) == <<[type |-> "offline"], [type |-> "online", gen |-> gen[n] + 1]>>

LEMMA RestartChan ==
    ASSUME NEW n \in Node, Restart(n)
    PROVE  /\ chan' = [p \in Node |-> chan'[p]]
           /\ \A p \in Node : chan'[p] = [q \in Node |-> chan'[p][q]]
           /\ \A p, q \in Node :
                 /\ q = n => chan'[p][q] \in Rests(chan[p][n])
                 /\ q # n /\ p = n => chan'[p][q] = chan[n][q] \o Announced(n)
                 /\ q # n /\ p # n => chan'[p][q] = chan[p][q]
<1>1. PICK rest \in [Node -> UNION {Rests(chan[q][n]) : q \in Node}] :
        /\ \A q \in Node : rest[q] \in Rests(chan[q][n])
        /\ chan' = [p \in Node |-> [q \in Node |->
                      IF q = n THEN rest[p]
                      ELSE IF p = n THEN chan[n][q] \o Announced(n)
                      ELSE chan[p][q]]]
  BY DEF Restart, Announced
<1> QED
  BY <1>1

(* What else a restart does. *)
LEMMA RestartIs ==
    ASSUME NEW n \in Node, Restart(n)
    PROVE  /\ gen[n] < MaxGen /\ gen' = [gen EXCEPT ![n] = gen[n] + 1]
           /\ dir' = [dir EXCEPT ![n] = gen]
           /\ table' = [table EXCEPT ![n] = [p \in Node |-> None]]
           /\ offers' = [offers EXCEPT ![n] = [r \in Req |-> NoOffer]]
           /\ answers' = [answers EXCEPT ![n] = {}]
           /\ checks' = [checks EXCEPT ![n] = {}]
BY DEF Restart

(* The elements of a queue that was added to. *)
LEMMA AnnouncedElement ==
    ASSUME NEW S, NEW q \in Seq(S), NEW n, NEW i \in DOMAIN (q \o Announced(n))
    PROVE  \/ i \in DOMAIN q /\ (q \o Announced(n))[i] = q[i]
           \/ (q \o Announced(n))[i] = [type |-> "offline"]
           \/ (q \o Announced(n))[i] = [type |-> "online", gen |-> gen[n] + 1]
<1> DEFINE two == <<[type |-> "offline"], [type |-> "online", gen |-> gen[n] + 1]>>
<1>1. Announced(n) = two
  BY DEF Announced
<1>2. \/ i \in DOMAIN q /\ (q \o two)[i] = q[i]
      \/ (q \o two)[i] = two[1]
      \/ (q \o two)[i] = two[2]
  BY <1>1
<1> QED
  BY <1>1, <1>2

LEMMA OfferIs ==
    ASSUME TypeOK, NEW n \in Node, NEW r \in Req, offers[n][r] # NoOffer
    PROVE  offers[n][r] \in Offer
BY DEF TypeOK
-----------------------------------------------------------------------------
(* Types. *)

LEMMA TypeInit == Init => TypeOK
<1>1. 1 \in Gen /\ << >> \in Seq(Message)
  OBVIOUS
<1> QED
  BY <1>1 DEF Init, TypeOK

LEMMA TypeSend == ASSUME TypeOK, NEW n \in Node, NEW p \in Node, SendNode(n, p) PROVE TypeOK'
<1>1. PICK r \in Req :
          /\ offers' = [offers EXCEPT ![n][r] = [peer |-> p, addr |-> dir[n][p], pong |-> NoPath]]
          /\ SendTo(n, p, [type |-> "offer", req |-> r, gen |-> gen[n]])
  BY DEF SendNode
<1>2. gen[n] \in Gen /\ dir[n][p] \in Gen
  BY DEF TypeOK, SendNode
<1>3. chan' \in [Node -> [Node -> Seq(Message)]]
  <2>1. [type |-> "offer", req |-> r, gen |-> gen[n]] \in Message
    BY <1>2 DEF Message
  <2> QED
    BY <1>1, <2>1, SendType
<1>4. table' \in [Node -> [Node -> Transport \cup {None, Electing}]]
  BY PutType DEF SendNode
<1>5. offers' \in [Node -> [Req -> Offer \cup {NoOffer}]]
  <2>1. [peer |-> p, addr |-> dir[n][p], pong |-> NoPath] \in Offer
    BY <1>2 DEF Offer
  <2> QED
    BY <1>1, <2>1 DEF TypeOK
<1> QED
  BY <1>3, <1>4, <1>5 DEF SendNode, TypeOK

LEMMA TypeAnswered == ASSUME TypeOK, NEW n \in Node, NEW p \in Node, Answered(n, p) PROVE TypeOK'
<1> DEFINE msg == Head(chan[p][n])
           o == offers[n][msg.req]
<1>1. msg.req \in Req /\ msg.gen \in Gen
  BY AnswerIs DEF Answered
<1>2. o \in Offer
  BY <1>1, OfferIs DEF Answered
<1>3. chan' \in [Node -> [Node -> Seq(Message)]]
  BY HandleType DEF Answered, Arrives
<1>4. [key |-> msg.gen, addr |-> o.addr, path |-> o.pong] \in Transport
  BY <1>1, <1>2 DEF Answered, Offer, Transport
<1>5. table' \in [Node -> [Node -> Transport \cup {None, Electing}]]
  BY <1>4, PutType DEF Answered
<1>6. offers' \in [Node -> [Req -> Offer \cup {NoOffer}]]
  BY <1>1, EndOfferType DEF Answered
<1> QED
  BY <1>3, <1>5, <1>6 DEF Answered, TypeOK

(* A failed election. *)
LEMMA ErrorType ==
    ASSUME TypeOK, NEW n \in Node, NEW r \in Req, offers[n][r] # NoOffer, ElectionError(n, r)
    PROVE  /\ offers' \in [Node -> [Req -> Offer \cup {NoOffer}]]
           /\ table' \in [Node -> [Node -> Transport \cup {None, Electing}]]
<1>1. offers[n][r].peer \in Node
  BY OfferIs DEF Offer
<1> QED
  BY <1>1, EndOfferType, PutType DEF ElectionError

LEMMA TypeReceive == ASSUME TypeOK, NEW n \in Node, Receive(n) PROVE TypeOK'
<1> SUFFICES ASSUME NEW p \in Node,
                    \/ Answered(n, p) \/ AnsweredNoPong(n, p) \/ AnsweredLate(n, p)
                    \/ ReceiveOffer(n, p) \/ NodeOnline(n, p) \/ NodeOffline(n, p)
             PROVE  TypeOK'
  BY DEF Receive
<1>0. ASSUME NEW type, Arrives(p, n, type), Handle(p, n)
      PROVE  Head(chan[p][n]) \in Message /\ chan' \in [Node -> [Node -> Seq(Message)]]
  BY <1>0, HandleType DEF Arrives
<1>1. CASE Answered(n, p)
  BY <1>1, TypeAnswered
<1>2. CASE AnsweredNoPong(n, p)
  <2>1. Head(chan[p][n]).req \in Req
    BY <1>2, AnswerIs DEF AnsweredNoPong
  <2> QED
    BY <1>0, <1>2, <2>1, ErrorType DEF AnsweredNoPong, TypeOK
<1>3. CASE AnsweredLate(n, p)
  BY <1>0, <1>3 DEF AnsweredLate, TypeOK
<1>4. CASE ReceiveOffer(n, p)
  <2>1. Head(chan[p][n]) \in Message /\ Head(chan[p][n]).type = "offer"
    BY <1>0, <1>4 DEF ReceiveOffer, Arrives
  <2>2. Head(chan[p][n]).req \in Req /\ Head(chan[p][n]).gen \in Gen
    BY <2>1 DEF Message
  <2>3. answers' \in [Node -> SUBSET [peer : Node, req : Req, gen : Gen]]
    BY <1>4, <2>2 DEF ReceiveOffer, TypeOK
  <2> QED
    BY <1>0, <1>4, <2>3 DEF ReceiveOffer, TypeOK
<1>5. CASE NodeOnline(n, p)
  <2>1. Head(chan[p][n]) \in Message /\ Head(chan[p][n]).type = "online"
    BY <1>0, <1>5 DEF NodeOnline, Arrives
  <2>2. Head(chan[p][n]).gen \in Gen
    BY <2>1 DEF Message
  <2> QED
    BY <1>0, <1>5, <2>2 DEF NodeOnline, TypeOK
<1>6. CASE NodeOffline(n, p)
  <2>1. table' \in [Node -> [Node -> Transport \cup {None, Electing}]]
    BY <1>6, PutType DEF NodeOffline
  <2>2. dir' \in [Node -> [Node -> Gen \cup {0}]]
    BY <1>6 DEF NodeOffline, TypeOK
  <2> QED
    BY <1>0, <1>6, <2>1, <2>2 DEF NodeOffline, TypeOK
<1> QED
  BY <1>1, <1>2, <1>3, <1>4, <1>5, <1>6

LEMMA TypeStep == ASSUME TypeOK, NEW n \in Node, Step(n) PROVE TypeOK'
<1>1. CASE Receive(n)
  BY <1>1, TypeReceive
<1>2. ASSUME NEW p \in Node, SendNode(n, p) PROVE TypeOK'
  BY <1>2, TypeSend
<1>3. ASSUME NEW p \in Node, CheckStart(n, p) PROVE TypeOK'
  <2>1. table[n][p] \in Transport
    BY <1>3 DEF CheckStart, IsTransport, TypeOK
  <2>2. [peer |-> p, addr |-> table[n][p].addr, path |-> table[n][p].path]
           \in [peer : Node, addr : Gen, path : Path]
    BY <2>1 DEF Transport
  <2>3. checks' \in [Node -> SUBSET [peer : Node, addr : Gen, path : Path]]
    BY <1>3, <2>2 DEF CheckStart, TypeOK
  <2> QED
    BY <1>3, <2>3 DEF CheckStart, TypeOK
<1>4. ASSUME NEW r \in Req, OfferTimeout(n, r) PROVE TypeOK'
  BY <1>4, ErrorType DEF OfferTimeout, TypeOK
<1>5. ASSUME NEW r \in Req, NEW path \in Path, OfferPong(n, r, path) PROVE TypeOK'
  <2>1. offers[n][r] \in Offer
    BY <1>5, OfferIs DEF OfferPong
  <2>2. [offers[n][r] EXCEPT !.pong = path] \in Offer
    BY <2>1 DEF Offer
  <2>3. offers' = [offers EXCEPT ![n][r] = [offers[n][r] EXCEPT !.pong = path]]
    BY <1>5 DEF OfferPong
  <2>4. offers' \in [Node -> [Req -> Offer \cup {NoOffer}]]
    BY <2>2, <2>3 DEF TypeOK
  <2> QED
    BY <1>5, <2>4 DEF OfferPong, TypeOK
<1>6. ASSUME NEW a \in answers[n], AnswerTimeout(n, a) PROVE TypeOK'
  BY <1>6 DEF AnswerTimeout, TypeOK
<1>7. ASSUME NEW a \in answers[n], NEW path \in Path, AnswerPong(n, a, path) PROVE TypeOK'
  <2>1. a.peer \in Node /\ a.req \in Req /\ a.gen \in Gen /\ gen[n] \in Gen
    BY DEF TypeOK
  <2>2. [type |-> "answer", req |-> a.req, gen |-> gen[n]] \in Message
    BY <2>1 DEF Message
  <2>3. chan' \in [Node -> [Node -> Seq(Message)]]
    BY <1>7, <2>1, <2>2, SendType DEF AnswerPong
  <2>4. [key |-> a.gen, addr |-> a.gen, path |-> path] \in Transport
    BY <2>1 DEF Transport
  <2>5. table' \in [Node -> [Node -> Transport \cup {None, Electing}]]
    BY <1>7, <2>1, <2>4, PutType DEF AnswerPong
  <2> QED
    BY <1>7, <2>3, <2>5 DEF AnswerPong, TypeOK
<1>8. ASSUME NEW h \in checks[n], CheckPong(n, h) PROVE TypeOK'
  BY <1>8 DEF CheckPong, TypeOK
<1>9. ASSUME NEW h \in checks[n], CheckTimeout(n, h) PROVE TypeOK'
  <2>1. h.peer \in Node
    BY DEF TypeOK
  <2>2. table' \in [Node -> [Node -> Transport \cup {None, Electing}]]
    BY <1>9, <2>1, PutType DEF CheckTimeout
  <2> QED
    BY <1>9, <2>2 DEF CheckTimeout, TypeOK
<1>10. CASE Restart(n)
  <2>0. /\ gen[n] < MaxGen /\ gen' = [gen EXCEPT ![n] = gen[n] + 1]
        /\ dir' = [dir EXCEPT ![n] = gen]
        /\ table' = [table EXCEPT ![n] = [p \in Node |-> None]]
        /\ offers' = [offers EXCEPT ![n] = [r \in Req |-> NoOffer]]
        /\ answers' = [answers EXCEPT ![n] = {}]
        /\ checks' = [checks EXCEPT ![n] = {}]
    BY <1>10, RestartIs
  <2>1. gen[n] + 1 \in Gen /\ gen \in [Node -> Gen]
    BY <2>0 DEF TypeOK
  <2>2. gen' \in [Node -> Gen] /\ dir' \in [Node -> [Node -> Gen \cup {0}]]
    BY <2>0, <2>1 DEF TypeOK
  <2>3. Announced(n) \in Seq(Message)
    BY <2>1 DEF Message, Announced
  <2>4. \A p, q \in Node : chan[p][q] \in Seq(Message)
    BY DEF TypeOK
  <2>5. \A q \in Node : chan[n][q] \o Announced(n) \in Seq(Message)
    BY <2>3, <2>4, ConcatProperties
  <2>6. \A p \in Node : \A s \in Rests(chan[p][n]) : s \in Seq(Message)
    BY <2>4, RestIs
  <2>7. chan' \in [Node -> [Node -> Seq(Message)]]
    <3>1. \A p, q \in Node : chan'[p][q] \in Seq(Message)
      <4> TAKE p, q \in Node
      <4>1. CASE q = n
        BY <1>10, <2>6, <4>1, RestartChan
      <4>2. CASE q # n /\ p = n
        <5>1. chan'[p][q] = chan[n][q] \o Announced(n)
          BY <1>10, <4>2, RestartChan
        <5> QED
          BY <2>5, <5>1
      <4>3. CASE q # n /\ p # n
        BY <1>10, <2>4, <4>3, RestartChan
      <4> QED
        BY <4>1, <4>2, <4>3
    <3>2. \A p \in Node : chan'[p] \in [Node -> Seq(Message)]
      BY <1>10, <3>1, RestartChan
    <3> QED
      BY <1>10, <3>2, RestartChan
  <2>8. table' \in [Node -> [Node -> Transport \cup {None, Electing}]]
    BY <2>0 DEF TypeOK
  <2>9. offers' \in [Node -> [Req -> Offer \cup {NoOffer}]]
    BY <2>0 DEF TypeOK
  <2>10. answers' \in [Node -> SUBSET [peer : Node, req : Req, gen : Gen]]
    BY <2>0 DEF TypeOK
  <2>11. checks' \in [Node -> SUBSET [peer : Node, addr : Gen, path : Path]]
    BY <2>0 DEF TypeOK
  <2> QED
    BY <2>2, <2>7, <2>8, <2>9, <2>10, <2>11 DEF TypeOK
<1> QED
  BY <1>1, <1>2, <1>3, <1>4, <1>5, <1>6, <1>7, <1>8, <1>9, <1>10 DEF Step

(* Election keeps its types, for every set of nodes, request ids and paths. *)
THEOREM TypeCorrect == Spec => []TypeOK
<1>1. TypeOK /\ [Next]_vars => TypeOK'
  <2>1. ASSUME TypeOK, NEW n \in Node, Step(n) PROVE TypeOK'
    BY <2>1, TypeStep
  <2>2. ASSUME TypeOK, UNCHANGED vars PROVE TypeOK'
    BY <2>2 DEF TypeOK, vars
  <2> QED
    BY <2>1, <2>2 DEF Next
<1> QED
  BY <1>1, TypeInit, PTL DEF Spec
-----------------------------------------------------------------------------
(* Elections and the entries they hold. *)

Carries(q, type, r) == \E i \in DOMAIN q : Asks(q[i], type, r)

LEMMA CarriesTail ==
    ASSUME NEW S, NEW q \in Seq(S), q # << >>, NEW type, NEW r, Carries(Tail(q), type, r)
    PROVE  Carries(q, type, r)
<1>1. PICK i \in DOMAIN Tail(q) : Asks(Tail(q)[i], type, r)
  BY DEF Carries
<1>2. i + 1 \in DOMAIN q /\ Tail(q)[i] = q[i + 1]
  OBVIOUS
<1> QED
  BY <1>1, <1>2 DEF Carries

LEMMA CarriesAppend ==
    ASSUME NEW S, NEW q \in Seq(S), NEW e, NEW type, NEW r, Carries(Append(q, e), type, r)
    PROVE  Carries(q, type, r) \/ Asks(e, type, r)
<1>1. PICK i \in DOMAIN Append(q, e) : Asks(Append(q, e)[i], type, r)
  BY DEF Carries
<1>2. \/ i \in DOMAIN q /\ Append(q, e)[i] = q[i]
      \/ Append(q, e)[i] = e
  OBVIOUS
<1> QED
  BY <1>1, <1>2 DEF Carries

(* What a queue carries after a restart it carried before. *)
LEMMA CarriesRestart ==
    ASSUME TypeOK, NEW n \in Node, Restart(n), NEW x \in Node, NEW y \in Node,
           NEW type \in {"offer", "answer"}, NEW r, Carries(chan'[x][y], type, r)
    PROVE  Carries(chan[x][y], type, r)
<1>1. chan[x][y] \in Seq(Message)
  BY DEF TypeOK
<1>2. PICK i \in DOMAIN chan'[x][y] : Asks(chan'[x][y][i], type, r)
  BY DEF Carries
<1>3. CASE y = n
  <2>1. chan'[x][y] \in Rests(chan[x][y])
    BY <1>3, RestartChan
  <2>2. PICK j \in DOMAIN chan[x][y] : chan'[x][y][i] = chan[x][y][j]
    BY <1>1, <1>2, <2>1, RestIs
  <2> QED
    BY <1>2, <2>2 DEF Carries
<1>4. CASE y # n /\ x = n
  <2>1. chan'[x][y] = chan[x][y] \o Announced(n)
    BY <1>4, RestartChan
  <2>2. \/ i \in DOMAIN chan[x][y] /\ chan'[x][y][i] = chan[x][y][i]
        \/ chan'[x][y][i] = [type |-> "offline"]
        \/ chan'[x][y][i] = [type |-> "online", gen |-> gen[n] + 1]
    BY <1>1, <1>2, <1>4, <2>1, AnnouncedElement
  <2>3. ~ Asks([type |-> "offline"], type, r) /\ ~ Asks([type |-> "online", gen |-> gen[n] + 1], type, r)
    BY DEF Asks
  <2> QED
    BY <1>2, <2>2, <2>3 DEF Carries
<1>5. CASE y # n /\ x # n
  BY <1>5, RestartChan
<1> QED
  BY <1>3, <1>4, <1>5

(* An answer that is waited for, or on its way to be, is the one of the peer that was *)
(* offered to.                                                                          *)
AnswersFit ==
    \A n, p \in Node, r \in Req :
        offers[n][r] # NoOffer /\ Underway(n, r, p) => offers[n][r].peer = p

LEMMA UnderwayIs ==
    ASSUME NEW n, NEW p, NEW r
    PROVE  Underway(n, r, p) <=> \/ Carries(chan[n][p], "offer", r)
                                 \/ \E a \in answers[p] : a.peer = n /\ a.req = r
                                 \/ Carries(chan[p][n], "answer", r)
BY DEF Underway, Carries

LEMMA UnderwayNext ==
    ASSUME NEW n, NEW p, NEW r
    PROVE  Underway(n, r, p)' <=> \/ Carries(chan'[n][p], "offer", r)
                                  \/ \E a \in answers'[p] : a.peer = n /\ a.req = r
                                  \/ Carries(chan'[p][n], "answer", r)
BY DEF Underway, Carries

(* What was handled is gone and nothing else moved. *)
LEMMA HandleCarries ==
    ASSUME TypeOK, NEW n \in Node, NEW p \in Node, chan[p][n] # << >>, Handle(p, n),
           NEW m \in Node, NEW q \in Node, NEW type, NEW r, Carries(chan'[m][q], type, r)
    PROVE  Carries(chan[m][q], type, r)
<1>1. chan[p][n] \in Seq(Message) /\ chan \in [Node -> [Node -> Seq(Message)]]
  BY DEF TypeOK
<1>2. CASE m = p /\ q = n
  <2>1. chan'[m][q] = Tail(chan[p][n])
    BY <1>1, <1>2 DEF Handle
  <2> QED
    BY <1>1, <1>2, <2>1, CarriesTail
<1>3. CASE ~ (m = p /\ q = n)
  <2>1. chan'[m][q] = chan[m][q]
    BY <1>1, <1>3 DEF Handle
  <2> QED
    BY <2>1
<1> QED
  BY <1>2, <1>3

LEMMA SendCarries ==
    ASSUME TypeOK, NEW n \in Node, NEW p \in Node, NEW msg, SendTo(n, p, msg),
           NEW m \in Node, NEW q \in Node, NEW type, NEW r, Carries(chan'[m][q], type, r)
    PROVE  Carries(chan[m][q], type, r) \/ (m = n /\ q = p /\ Asks(msg, type, r))
<1>1. chan[n][p] \in Seq(Message) /\ chan \in [Node -> [Node -> Seq(Message)]]
  BY DEF TypeOK
<1>2. CASE m = n /\ q = p
  <2>1. chan'[m][q] = Append(chan[n][p], msg)
    BY <1>1, <1>2 DEF SendTo
  <2> QED
    BY <1>1, <1>2, <2>1, CarriesAppend
<1>3. CASE ~ (m = n /\ q = p)
  <2>1. chan'[m][q] = chan[m][q]
    BY <1>1, <1>3 DEF SendTo
  <2> QED
    BY <2>1
<1> QED
  BY <1>2, <1>3

(* Steps other than an offer start nothing. *)
LEMMA UnderwayStays ==
    ASSUME TypeOK, NEW n \in Node, Step(n), \A p \in Node : ~ SendNode(n, p),
           NEW m \in Node, NEW q \in Node, NEW r \in Req,
           offers'[m][r] # NoOffer, Underway(m, r, q)'
    PROVE  Underway(m, r, q)
<1> USE UnderwayIs, UnderwayNext
<1>1. CASE UNCHANGED <<chan, answers>>
  BY <1>1
<1>2. ASSUME NEW p \in Node, chan[p][n] # << >>, Handle(p, n), UNCHANGED answers
      PROVE  Underway(m, r, q)
  BY <1>2, HandleCarries
<1>3. ASSUME NEW p \in Node, ReceiveOffer(n, p) PROVE Underway(m, r, q)
  <2>1. chan[p][n] # << >> /\ Handle(p, n) /\ Head(chan[p][n]).type = "offer"
    BY <1>3 DEF ReceiveOffer, Arrives
  <2>2. answers' = [answers EXCEPT ![n] =
              @ \cup {[peer |-> p, req |-> Head(chan[p][n]).req, gen |-> Head(chan[p][n]).gen]}]
    BY <1>3 DEF ReceiveOffer
  <2>3. CASE \E a \in answers'[q] : a.peer = m /\ a.req = r
    <3>1. PICK a \in answers'[q] : a.peer = m /\ a.req = r
      BY <2>3
    <3>2. CASE a \in answers[q]
      BY <3>1, <3>2
    <3>3. CASE a \notin answers[q]
      <4>1. q = n /\ m = p /\ Head(chan[p][n]).req = r
        BY <2>2, <3>1, <3>3 DEF TypeOK
      <4>2. 1 \in DOMAIN chan[p][n] /\ chan[p][n][1] = Head(chan[p][n])
        <5>1. chan[p][n] \in Seq(Message)
          BY DEF TypeOK
        <5> QED
          BY <2>1, <5>1
      <4>3. Asks(chan[p][n][1], "offer", r)
        BY <2>1, <4>1, <4>2 DEF Asks
      <4>4. Carries(chan[p][n], "offer", r)
        BY <4>2, <4>3 DEF Carries
      <4> QED
        BY <4>1, <4>4
    <3> QED
      BY <3>2, <3>3
  <2> QED
    BY <2>1, <2>3, HandleCarries
<1>4. ASSUME NEW a \in answers[n], AnswerTimeout(n, a) PROVE Underway(m, r, q)
  <2>1. answers'[q] \subseteq answers[q] /\ chan' = chan
    BY <1>4 DEF AnswerTimeout, TypeOK
  <2> QED
    BY <2>1
<1>5. ASSUME NEW a \in answers[n], NEW path \in Path, AnswerPong(n, a, path) PROVE Underway(m, r, q)
  <2>1. answers'[q] \subseteq answers[q] /\ a.peer \in Node
    BY <1>5 DEF AnswerPong, TypeOK
  <2>2. SendTo(n, a.peer, [type |-> "answer", req |-> a.req, gen |-> gen[n]])
    BY <1>5 DEF AnswerPong
  <2>3. CASE Carries(chan'[m][q], "offer", r)
    <3>1. ~ Asks([type |-> "answer", req |-> a.req, gen |-> gen[n]], "offer", r)
      BY DEF Asks
    <3> QED
      BY <2>1, <2>2, <2>3, <3>1, SendCarries
  <2>4. CASE Carries(chan'[q][m], "answer", r)
    <3>1. \/ Carries(chan[q][m], "answer", r)
          \/ /\ q = n /\ m = a.peer
             /\ Asks([type |-> "answer", req |-> a.req, gen |-> gen[n]], "answer", r)
      BY <2>1, <2>2, <2>4, SendCarries
    <3>2. Asks([type |-> "answer", req |-> a.req, gen |-> gen[n]], "answer", r) => a.req = r
      BY DEF Asks
    <3> QED
      BY <3>1, <3>2
  <2> QED
    BY <2>1, <2>3, <2>4
<1>6. CASE Restart(n)
  <2>1. answers'[q] \subseteq answers[q]
    BY <1>6 DEF Restart, TypeOK
  <2> QED
    BY <1>6, <2>1, CarriesRestart
<1>7. CASE Receive(n)
  <2>1. PICK p \in Node :
          \/ Answered(n, p) \/ AnsweredNoPong(n, p) \/ AnsweredLate(n, p)
          \/ ReceiveOffer(n, p) \/ NodeOnline(n, p) \/ NodeOffline(n, p)
    BY <1>7 DEF Receive
  <2>2. CASE ~ ReceiveOffer(n, p)
    <3>1. chan[p][n] # << >> /\ Handle(p, n) /\ UNCHANGED answers
      BY <2>1, <2>2 DEF Answered, AnsweredNoPong, AnsweredLate, NodeOnline, NodeOffline, Arrives
    <3> QED
      BY <1>2, <3>1
  <2> QED
    BY <1>3, <2>1, <2>2
<1>8. \/ UNCHANGED <<chan, answers>> \/ Receive(n) \/ Restart(n)
      \/ \E a \in answers[n] : AnswerTimeout(n, a) \/ \E path \in Path : AnswerPong(n, a, path)
  BY DEF Step, CheckStart, OfferTimeout, OfferPong, CheckPong, CheckTimeout
<1> QED
  BY <1>1, <1>4, <1>5, <1>6, <1>7, <1>8

(* Offers of steps other than an offer were there before, to the same peer. *)
LEMMA OffersStay ==
    ASSUME TypeOK, NEW n \in Node, Step(n), \A p \in Node : ~ SendNode(n, p),
           NEW m \in Node, NEW r \in Req, offers'[m][r] # NoOffer
    PROVE  offers[m][r] # NoOffer /\ offers'[m][r].peer = offers[m][r].peer
<1>1. CASE UNCHANGED offers
  BY <1>1
<1>2. ASSUME NEW s \in Req, EndOffer(n, s)
      PROVE  offers[m][r] # NoOffer /\ offers'[m][r].peer = offers[m][r].peer
  <2>1. offers'[m][r] = offers[m][r]
    BY <1>2 DEF EndOffer, TypeOK
  <2> QED
    BY <2>1
<1>3. ASSUME NEW s \in Req, NEW path \in Path, OfferPong(n, s, path)
      PROVE  offers[m][r] # NoOffer /\ offers'[m][r].peer = offers[m][r].peer
  <2>1. offers[n][s] \in Offer /\ offers[n][s] # NoOffer
    BY <1>3, OfferIs DEF OfferPong
  <2>2. [offers[n][s] EXCEPT !.pong = path].peer = offers[n][s].peer
    BY <2>1 DEF Offer
  <2>3. offers' = [offers EXCEPT ![n][s] = [offers[n][s] EXCEPT !.pong = path]]
    BY <1>3 DEF OfferPong
  <2>4. \/ m = n /\ r = s /\ offers'[m][r] = [offers[n][s] EXCEPT !.pong = path]
        \/ offers'[m][r] = offers[m][r]
    BY <2>3 DEF TypeOK
  <2> QED
    BY <2>1, <2>2, <2>4
<1>4. CASE Restart(n)
  <2>1. m # n /\ offers'[m][r] = offers[m][r]
    BY <1>4 DEF Restart, TypeOK
  <2> QED
    BY <2>1
<1>5. CASE Receive(n)
  <2>1. PICK p \in Node :
          \/ Answered(n, p) \/ AnsweredNoPong(n, p) \/ AnsweredLate(n, p)
          \/ ReceiveOffer(n, p) \/ NodeOnline(n, p) \/ NodeOffline(n, p)
    BY <1>5 DEF Receive
  <2>2. CASE Answered(n, p) \/ AnsweredNoPong(n, p)
    <3>1. Head(chan[p][n]).req \in Req /\ EndOffer(n, Head(chan[p][n]).req)
      BY <2>2, AnswerIs DEF Answered, AnsweredNoPong, ElectionError
    <3> QED
      BY <1>2, <3>1
  <2>3. CASE UNCHANGED offers
    BY <1>1, <2>3
  <2> QED
    BY <2>1, <2>2, <2>3 DEF AnsweredLate, ReceiveOffer, NodeOnline, NodeOffline
<1>6. ASSUME NEW s \in Req, OfferTimeout(n, s)
      PROVE  offers[m][r] # NoOffer /\ offers'[m][r].peer = offers[m][r].peer
  BY <1>2, <1>6 DEF OfferTimeout, ElectionError
<1>7. \/ UNCHANGED offers \/ Receive(n) \/ Restart(n)
      \/ \E s \in Req : OfferTimeout(n, s) \/ \E path \in Path : OfferPong(n, s, path)
  BY DEF Step, CheckStart, CheckPong, CheckTimeout, AnswerTimeout, AnswerPong
<1> QED
  BY <1>1, <1>3, <1>4, <1>5, <1>6, <1>7

LEMMA SendNodeIs ==
    ASSUME NEW n, NEW p, SendNode(n, p)
    PROVE  \E r \in Req :
               /\ offers[n][r] = NoOffer
               /\ \A q \in Node : ~ Underway(n, r, q)
               /\ offers' = [offers EXCEPT ![n][r] =
                               [peer |-> p, addr |-> dir[n][p], pong |-> NoPath]]
               /\ SendTo(n, p, [type |-> "offer", req |-> r, gen |-> gen[n]])
BY DEF SendNode

LEMMA AnswersFitStep ==
    ASSUME TypeOK, AnswersFit, NEW n \in Node, Step(n)
    PROVE  AnswersFit'
<1> SUFFICES ASSUME NEW m \in Node, NEW q \in Node, NEW r \in Req,
                    offers'[m][r] # NoOffer, Underway(m, r, q)'
             PROVE  offers'[m][r].peer = q
  BY DEF AnswersFit
<1>1. CASE \A p \in Node : ~ SendNode(n, p)
  BY <1>1, UnderwayStays, OffersStay DEF AnswersFit
<1>2. ASSUME NEW p \in Node, SendNode(n, p)
      PROVE  offers'[m][r].peer = q
  <2> DEFINE o == [peer |-> p, addr |-> dir[n][p], pong |-> NoPath]
  <2>1. PICK s \in Req :
           /\ offers[n][s] = NoOffer
           /\ \A x \in Node : ~ Underway(n, s, x)
           /\ offers' = [offers EXCEPT ![n][s] = o]
           /\ SendTo(n, p, [type |-> "offer", req |-> s, gen |-> gen[n]])
    BY <1>2, SendNodeIs
  <2>2. UNCHANGED answers
    BY <1>2 DEF SendNode
  <2> DEFINE msg == [type |-> "offer", req |-> s, gen |-> gen[n]]
  <2>3. \A type, z : Asks(msg, type, z) => type = "offer" /\ z = s
    BY DEF Asks
  <2>4. \/ Underway(m, r, q)
        \/ m = n /\ q = p /\ r = s
    <3>1. CASE Carries(chan'[m][q], "offer", r)
      BY <2>1, <2>3, <3>1, SendCarries, UnderwayIs
    <3>2. CASE Carries(chan'[q][m], "answer", r)
      BY <2>1, <2>3, <3>2, SendCarries, UnderwayIs
    <3> QED
      BY <2>2, <3>1, <3>2, UnderwayIs, UnderwayNext
  <2>5. CASE m = n /\ r = s
    <3>1. offers'[m][r] = o
      BY <2>1, <2>5 DEF TypeOK
    <3>2. q = p
      BY <2>1, <2>4, <2>5
    <3> QED
      BY <3>1, <3>2
  <2>6. CASE ~ (m = n /\ r = s)
    <3>1. offers'[m][r] = offers[m][r]
      BY <2>1, <2>6 DEF TypeOK
    <3> QED
      BY <2>4, <2>6, <3>1 DEF AnswersFit
  <2> QED
    BY <2>5, <2>6
<1> QED
  BY <1>1, <1>2

(* An entry that is overwritten waits for nobody. *)
LEMMA PutFrees ==
    ASSUME TypeOK, NoStuckElection, NEW n \in Node, NEW p \in Node, NEW entry, entry # Electing,
           Put(n, p, entry), UNCHANGED offers
    PROVE  NoStuckElection'
<1>1. ASSUME NEW m \in Node, NEW q \in Node, table'[m][q] = Electing
      PROVE  table[m][q] = Electing
  BY <1>1 DEF Put, TypeOK
<1> QED
  BY <1>1 DEF NoStuckElection

(* An offer that ends takes the entry it holds with it. *)
LEMMA EndFrees ==
    ASSUME TypeOK, NoStuckElection, NEW n \in Node, NEW r \in Req, NEW entry, entry # Electing,
           offers[n][r] # NoOffer, Put(n, offers[n][r].peer, entry), EndOffer(n, r)
    PROVE  NoStuckElection'
<1> SUFFICES ASSUME NEW m \in Node, NEW q \in Node, table'[m][q] = Electing
             PROVE  \E s \in Req : offers'[m][s] # NoOffer /\ offers'[m][s].peer = q
  BY DEF NoStuckElection
<1>1. offers[n][r].peer \in Node
  BY OfferIs DEF Offer
<1>2. table[m][q] = Electing /\ ~ (m = n /\ q = offers[n][r].peer)
  BY <1>1 DEF Put, TypeOK
<1>3. PICK s \in Req : offers[m][s] # NoOffer /\ offers[m][s].peer = q
  BY <1>2 DEF NoStuckElection
<1>4. offers'[m][s] = offers[m][s]
  BY <1>2, <1>3 DEF EndOffer, TypeOK
<1> QED
  BY <1>3, <1>4

(* The answer of a peer belongs to the offer that was made to it. *)
LEMMA AnswerFrom ==
    ASSUME TypeOK, AnswersFit, NEW n \in Node, NEW p \in Node, Arrives(p, n, "answer"),
           offers[n][Head(chan[p][n]).req] # NoOffer
    PROVE  offers[n][Head(chan[p][n]).req].peer = p
<1>1. Head(chan[p][n]).req \in Req
  BY AnswerIs
<1>2. 1 \in DOMAIN chan[p][n] /\ chan[p][n][1] = Head(chan[p][n])
  <2>1. chan[p][n] \in Seq(Message)
    BY DEF TypeOK
  <2> QED
    BY <2>1 DEF Arrives
<1>3. Asks(chan[p][n][1], "answer", Head(chan[p][n]).req)
  BY <1>2 DEF Asks, Arrives
<1>4. Underway(n, Head(chan[p][n]).req, p)
  BY <1>2, <1>3 DEF Underway
<1> QED
  BY <1>1, <1>4 DEF AnswersFit

LEMMA NoStuckReceive ==
    ASSUME TypeOK, AnswersFit, NoStuckElection, NEW n \in Node, Receive(n)
    PROVE  NoStuckElection'
<1>1. PICK p \in Node :
         \/ Answered(n, p) \/ AnsweredNoPong(n, p) \/ AnsweredLate(n, p)
         \/ ReceiveOffer(n, p) \/ NodeOnline(n, p) \/ NodeOffline(n, p)
  BY DEF Receive
<1>2. CASE Answered(n, p)
  <2> DEFINE msg == Head(chan[p][n])
             o == offers[n][msg.req]
             entry == [key |-> msg.gen, addr |-> o.addr, path |-> o.pong]
  <2>1. msg.req \in Req /\ o # NoOffer /\ o.peer = p
    BY <1>2, AnswerIs, AnswerFrom DEF Answered
  <2>2. Put(n, p, entry) /\ EndOffer(n, msg.req) /\ entry # Electing
    BY <1>2, Different DEF Answered
  <2> QED
    BY <2>1, <2>2, EndFrees
<1>3. CASE AnsweredNoPong(n, p)
  <2>1. Head(chan[p][n]).req \in Req
    BY <1>3, AnswerIs DEF AnsweredNoPong
  <2> QED
    BY <1>3, <2>1, Different, EndFrees DEF AnsweredNoPong, ElectionError
<1>4. CASE NodeOffline(n, p)
  BY <1>4, Different, PutFrees DEF NodeOffline
<1>5. CASE UNCHANGED <<table, offers>>
  BY <1>5 DEF NoStuckElection
<1> QED
  BY <1>1, <1>2, <1>3, <1>4, <1>5 DEF AnsweredLate, ReceiveOffer, NodeOnline

LEMMA NoStuckStep ==
    ASSUME TypeOK, AnswersFit, NoStuckElection, NEW n \in Node, Step(n)
    PROVE  NoStuckElection'
<1>1. CASE Receive(n)
  BY <1>1, NoStuckReceive
<1>2. ASSUME NEW p \in Node, SendNode(n, p) PROVE NoStuckElection'
  <2> DEFINE o == [peer |-> p, addr |-> dir[n][p], pong |-> NoPath]
  <2>1. PICK r \in Req : offers[n][r] = NoOffer /\ offers' = [offers EXCEPT ![n][r] = o]
    BY <1>2, SendNodeIs
  <2>2. offers'[n][r] = o
    BY <2>1 DEF TypeOK
  <2>3. o # NoOffer /\ o.peer = p
    BY Different
  <2> SUFFICES ASSUME NEW m \in Node, NEW q \in Node, table'[m][q] = Electing
               PROVE  \E s \in Req : offers'[m][s] # NoOffer /\ offers'[m][s].peer = q
    BY DEF NoStuckElection
  <2>4. CASE m = n /\ q = p
    BY <2>2, <2>3, <2>4
  <2>5. CASE ~ (m = n /\ q = p)
    <3>1. table[m][q] = Electing
      BY <1>2, <2>5 DEF SendNode, Put, TypeOK
    <3>2. PICK s \in Req : offers[m][s] # NoOffer /\ offers[m][s].peer = q
      BY <3>1 DEF NoStuckElection
    <3>3. offers'[m][s] = offers[m][s]
      BY <2>1, <3>2 DEF TypeOK
    <3> QED
      BY <3>2, <3>3
  <2> QED
    BY <2>4, <2>5
<1>3. ASSUME NEW r \in Req, OfferTimeout(n, r) PROVE NoStuckElection'
  BY <1>3, Different, EndFrees DEF OfferTimeout, ElectionError
<1>4. ASSUME NEW r \in Req, NEW path \in Path, OfferPong(n, r, path) PROVE NoStuckElection'
  <2>1. UNCHANGED table
    BY <1>4 DEF OfferPong
  <2>2. ASSUME NEW m \in Node, NEW s \in Req, offers[m][s] # NoOffer
        PROVE  offers'[m][s] # NoOffer /\ offers'[m][s].peer = offers[m][s].peer
    <3> DEFINE with == [offers[n][r] EXCEPT !.pong = path]
    <3>1. offers[n][r] \in Offer
      BY <1>4, OfferIs DEF OfferPong
    <3>2. with.peer = offers[n][r].peer /\ with # NoOffer
      <4>1. with = [peer |-> offers[n][r].peer, addr |-> offers[n][r].addr, pong |-> path]
        BY <3>1 DEF Offer
      <4> QED
        BY <4>1, Different
    <3>3. offers' = [offers EXCEPT ![n][r] = with]
      BY <1>4 DEF OfferPong
    <3>4. \/ m = n /\ s = r /\ offers'[m][s] = with
          \/ offers'[m][s] = offers[m][s]
      BY <3>3 DEF TypeOK
    <3> QED
      BY <2>2, <3>2, <3>4
  <2> QED
    BY <2>1, <2>2 DEF NoStuckElection
<1>5. ASSUME NEW a \in answers[n], NEW path \in Path, AnswerPong(n, a, path)
      PROVE  NoStuckElection'
  <2>1. a.peer \in Node
    BY DEF TypeOK
  <2> QED
    BY <1>5, <2>1, Different, PutFrees DEF AnswerPong
<1>6. ASSUME NEW h \in checks[n], CheckTimeout(n, h) PROVE NoStuckElection'
  <2>1. h.peer \in Node
    BY DEF TypeOK
  <2> QED
    BY <1>6, <2>1, Different, PutFrees DEF CheckTimeout
<1>7. CASE Restart(n)
  <2> SUFFICES ASSUME NEW m \in Node, NEW q \in Node, table'[m][q] = Electing
               PROVE  \E s \in Req : offers'[m][s] # NoOffer /\ offers'[m][s].peer = q
    BY DEF NoStuckElection
  <2>1. m # n /\ table[m][q] = Electing /\ offers'[m] = offers[m]
    BY <1>7, Different DEF Restart, TypeOK
  <2> QED
    BY <2>1 DEF NoStuckElection
<1>8. CASE UNCHANGED <<table, offers>>
  BY <1>8 DEF NoStuckElection
<1> QED
  BY <1>1, <1>2, <1>3, <1>4, <1>5, <1>6, <1>7, <1>8
     DEF Step, CheckStart, CheckPong, AnswerTimeout

(* No node drops packets for an election that has ended, for any number of nodes, ids *)
(* and restarts, whatever pushes, checks and the peer's own offers do in between.       *)
THEOREM ElectionNeverStuck == Spec => []NoStuckElection
<1> DEFINE IInv == TypeOK /\ AnswersFit /\ NoStuckElection
<1>1. Init => IInv
  <2>1. Init => NoStuckElection
    <3>1. ASSUME Init, NEW n \in Node, NEW p \in Node PROVE table[n][p] # Electing
      BY <3>1, Different DEF Init
    <3> QED
      BY <3>1 DEF NoStuckElection
  <2>2. Init => AnswersFit
    BY DEF Init, AnswersFit
  <2> QED
    BY <2>1, <2>2, TypeInit
<1>2. IInv /\ [Next]_vars => IInv'
  <2>1. ASSUME IInv, NEW n \in Node, Step(n) PROVE IInv'
    BY <2>1, TypeStep, AnswersFitStep, NoStuckStep
  <2>2. ASSUME IInv, UNCHANGED vars PROVE IInv'
    BY <2>2 DEF vars, TypeOK, AnswersFit, Underway, NoStuckElection
  <2> QED
    BY <2>1, <2>2 DEF Next
<1>3. IInv => NoStuckElection
  OBVIOUS
<1> QED
  BY <1>1, <1>2, <1>3, PTL DEF Spec
-----------------------------------------------------------------------------
(* Keys and addresses. *)

Holds(q, m) == \E i \in DOMAIN q : q[i] = m

(* Nothing that names an incarnation names one of the future: the directory, a message, *)
(* an offer that is being answered.                                                       *)
Known ==
    \A n, p \in Node :
        /\ dir[n][p] <= gen[p]
        /\ \A m \in Message : m.type # "offline" /\ Holds(chan[p][n], m) => m.gen <= gen[p]
        /\ \A a \in answers[n] : a.peer = p => a.gen <= gen[p]

(* The answers to an offer are of the incarnation that was offered to, or of later ones. *)
AnswerGens ==
    \A n, p \in Node, r \in Req :
        offers[n][r] # NoOffer /\ offers[n][r].peer = p =>
            /\ offers[n][r].addr <= gen[p]
            /\ \A m \in Message :
                  Holds(chan[p][n], m) /\ Asks(m, "answer", r) => offers[n][r].addr <= m.gen

(* The key of a transport is of the incarnation that has its address, or of a later one. *)
KeyNotOlder ==
    \A n, p \in Node : IsTransport(table[n][p]) =>
        table[n][p].addr <= table[n][p].key /\ table[n][p].key <= gen[p]

(* The elements of a queue after its head was taken, and after one was added. *)
LEMMA TailElement ==
    ASSUME NEW S, NEW q \in Seq(S), q # << >>, NEW i \in DOMAIN Tail(q)
    PROVE  i + 1 \in DOMAIN q /\ Tail(q)[i] = q[i + 1]
OBVIOUS

LEMMA AppendElement ==
    ASSUME NEW S, NEW q \in Seq(S), NEW e, NEW i \in DOMAIN Append(q, e)
    PROVE  (i \in DOMAIN q /\ Append(q, e)[i] = q[i]) \/ Append(q, e)[i] = e
OBVIOUS

LEMMA HandleHolds ==
    ASSUME TypeOK, NEW n \in Node, NEW p \in Node, chan[p][n] # << >>, Handle(p, n),
           NEW x \in Node, NEW y \in Node, NEW m, Holds(chan'[x][y], m)
    PROVE  Holds(chan[x][y], m)
<1>1. chan[p][n] \in Seq(Message) /\ chan \in [Node -> [Node -> Seq(Message)]]
  BY DEF TypeOK
<1>2. CASE x = p /\ y = n
  <2>1. chan'[x][y] = Tail(chan[p][n])
    BY <1>1, <1>2 DEF Handle
  <2>2. PICK i \in DOMAIN Tail(chan[p][n]) : Tail(chan[p][n])[i] = m
    BY <2>1 DEF Holds
  <2>3. i + 1 \in DOMAIN chan[p][n] /\ Tail(chan[p][n])[i] = chan[p][n][i + 1]
    BY <1>1, TailElement
  <2> QED
    BY <1>2, <2>2, <2>3 DEF Holds
<1>3. CASE ~ (x = p /\ y = n)
  <2>1. chan'[x][y] = chan[x][y]
    BY <1>1, <1>3 DEF Handle
  <2> QED
    BY <2>1
<1> QED
  BY <1>2, <1>3

LEMMA SendHolds ==
    ASSUME TypeOK, NEW n \in Node, NEW p \in Node, NEW msg, SendTo(n, p, msg),
           NEW x \in Node, NEW y \in Node, NEW m, Holds(chan'[x][y], m)
    PROVE  Holds(chan[x][y], m) \/ (x = n /\ y = p /\ m = msg)
<1>1. chan[n][p] \in Seq(Message) /\ chan \in [Node -> [Node -> Seq(Message)]]
  BY DEF TypeOK
<1>2. CASE x = n /\ y = p
  <2>1. chan'[x][y] = Append(chan[n][p], msg)
    BY <1>1, <1>2 DEF SendTo
  <2>2. PICK i \in DOMAIN Append(chan[n][p], msg) : Append(chan[n][p], msg)[i] = m
    BY <2>1 DEF Holds
  <2>3. \/ i \in DOMAIN chan[n][p] /\ Append(chan[n][p], msg)[i] = chan[n][p][i]
        \/ Append(chan[n][p], msg)[i] = msg
    BY <1>1, AppendElement
  <2> QED
    BY <1>2, <2>2, <2>3 DEF Holds
<1>3. CASE ~ (x = n /\ y = p)
  <2>1. chan'[x][y] = chan[x][y]
    BY <1>1, <1>3 DEF SendTo
  <2> QED
    BY <2>1
<1> QED
  BY <1>2, <1>3

(* A restart leaves some of what was on its way and announces the new incarnation. *)
LEMMA RestartHolds ==
    ASSUME TypeOK, NEW n \in Node, Restart(n),
           NEW x \in Node, NEW y \in Node, NEW m, Holds(chan'[x][y], m)
    PROVE  \/ Holds(chan[x][y], m)
           \/ x = n /\ m \in {[type |-> "offline"], [type |-> "online", gen |-> gen[n] + 1]}
<1>1. chan[x][y] \in Seq(Message)
  BY DEF TypeOK
<1>2. PICK i \in DOMAIN chan'[x][y] : chan'[x][y][i] = m
  BY DEF Holds
<1>3. CASE y = n
  <2>1. chan'[x][y] \in Rests(chan[x][y])
    BY <1>3, RestartChan
  <2>2. PICK j \in DOMAIN chan[x][y] : chan'[x][y][i] = chan[x][y][j]
    BY <1>1, <1>2, <2>1, RestIs
  <2> QED
    BY <1>2, <2>2 DEF Holds
<1>4. CASE y # n /\ x = n
  <2>1. chan'[x][y] = chan[x][y] \o Announced(n)
    BY <1>4, RestartChan
  <2>2. chan[n][y] \in Seq(Message) /\ i \in DOMAIN (chan[n][y] \o Announced(n))
    BY <1>1, <1>2, <1>4, <2>1
  <2>3. \/ i \in DOMAIN chan[x][y] /\ chan'[x][y][i] = chan[x][y][i]
        \/ chan'[x][y][i] = [type |-> "offline"]
        \/ chan'[x][y][i] = [type |-> "online", gen |-> gen[n] + 1]
    BY <1>4, <2>1, <2>2, AnnouncedElement
  <2> QED
    BY <1>2, <1>4, <2>3 DEF Holds
<1>5. CASE y # n /\ x # n
  BY <1>5, RestartChan
<1> QED
  BY <1>3, <1>4, <1>5

(* The first message is on its way. *)
LEMMA HeadHeld ==
    ASSUME TypeOK, NEW n \in Node, NEW p \in Node, chan[p][n] # << >>
    PROVE  Holds(chan[p][n], Head(chan[p][n])) /\ Head(chan[p][n]) \in Message
<1>1. chan[p][n] \in Seq(Message)
  BY DEF TypeOK
<1>2. 1 \in DOMAIN chan[p][n] /\ chan[p][n][1] = Head(chan[p][n])
  BY <1>1
<1> QED
  BY <1>1, <1>2, QueueType DEF Holds

(* The queues and answers after a step that restarts nobody: what was there, an offer, *)
(* or an answer, of the incarnation that sends it.                                        *)
LEMMA MessagesHeld ==
    ASSUME TypeOK, NEW x \in Node, Step(x), ~ Restart(x), NEW n \in Node, NEW p \in Node,
           NEW m \in Message, Holds(chan'[p][n], m)
    PROVE  Holds(chan[p][n], m) \/ (m.type # "offline" /\ m.gen = gen[p])
<1>1. CASE UNCHANGED chan
  BY <1>1
<1>2. CASE Receive(x)
  <2>1. PICK q \in Node : chan[q][x] # << >> /\ Handle(q, x)
    BY <1>2 DEF Receive, Answered, AnsweredNoPong, AnsweredLate, ReceiveOffer, NodeOnline, NodeOffline, Arrives
  <2> QED
    BY <2>1, HandleHolds
<1>3. ASSUME NEW q \in Node, NEW type \in {"offer", "answer"}, NEW r,
             SendTo(x, q, [type |-> type, req |-> r, gen |-> gen[x]])
      PROVE  Holds(chan[p][n], m) \/ (m.type # "offline" /\ m.gen = gen[p])
  <2> DEFINE msg == [type |-> type, req |-> r, gen |-> gen[x]]
  <2>1. SendTo(x, q, msg) /\ msg.type # "offline" /\ msg.gen = gen[x]
    BY <1>3
  <2> HIDE DEF msg
  <2>2. Holds(chan[p][n], m) \/ (p = x /\ n = q /\ m = msg)
    BY <2>1, SendHolds
  <2> QED
    BY <2>1, <2>2
<1>4. ASSUME NEW q \in Node, SendNode(x, q)
      PROVE  Holds(chan[p][n], m) \/ (m.type # "offline" /\ m.gen = gen[p])
  BY <1>3, <1>4, SendNodeIs
<1>5. ASSUME NEW a \in answers[x], NEW path \in Path, AnswerPong(x, a, path)
      PROVE  Holds(chan[p][n], m) \/ (m.type # "offline" /\ m.gen = gen[p])
  <2>0. a.peer \in Node
    BY DEF TypeOK
  <2>1. PICK q \in Node : q = a.peer
    BY <2>0
  <2>2. SendTo(x, q, [type |-> "answer", req |-> a.req, gen |-> gen[x]])
    BY <1>5, <2>1 DEF AnswerPong
  <2> QED
    BY <1>3, <2>2
<1> QED
  BY <1>1, <1>2, <1>4, <1>5
     DEF Step, CheckStart, OfferTimeout, OfferPong, AnswerTimeout, CheckPong, CheckTimeout

LEMMA KnownRestart ==
    ASSUME TypeOK, Known, NEW x \in Node, Restart(x) PROVE Known'
<1>0. /\ gen \in [Node -> Gen] /\ dir \in [Node -> [Node -> Gen \cup {0}]]
      /\ gen' = [gen EXCEPT ![x] = gen[x] + 1] /\ dir' = [dir EXCEPT ![x] = gen]
      /\ answers' = [answers EXCEPT ![x] = {}]
  BY DEF TypeOK, Restart
<1> SUFFICES ASSUME NEW n \in Node, NEW p \in Node
             PROVE  /\ dir'[n][p] <= gen'[p]
                    /\ \A m \in Message : m.type # "offline" /\ Holds(chan'[p][n], m) => m.gen <= gen'[p]
                    /\ \A a \in answers'[n] : a.peer = p => a.gen <= gen'[p]
  BY DEF Known
<1>1. gen[p] \in Nat /\ gen'[p] \in Nat /\ gen[p] <= gen'[p] /\ (p = x => gen'[p] = gen[x] + 1)
  BY <1>0
<1>2. dir'[n][p] <= gen'[p]
  BY <1>0, <1>1 DEF Known
<1>3. ASSUME NEW m \in Message, m.type # "offline", Holds(chan'[p][n], m) PROVE m.gen <= gen'[p]
  <2>1. \/ Holds(chan[p][n], m)
        \/ p = x /\ m \in {[type |-> "offline"], [type |-> "online", gen |-> gen[x] + 1]}
    BY <1>3, RestartHolds
  <2>2. CASE Holds(chan[p][n], m)
    <3>1. m.gen <= gen[p] /\ m.gen \in Nat
      BY <1>3, <2>2 DEF Known, Message
    <3> QED
      BY <1>1, <3>1
  <2>3. CASE p = x /\ m = [type |-> "online", gen |-> gen[x] + 1]
    BY <1>1, <2>3
  <2>4. CASE m = [type |-> "offline"]
    BY <1>3, <2>4
  <2> QED
    BY <2>1, <2>2, <2>3, <2>4
<1>4. ASSUME NEW a \in answers'[n], a.peer = p PROVE a.gen <= gen'[p]
  <2>1. a \in answers[n]
    BY <1>0, <1>4 DEF TypeOK
  <2>2. a \in [peer : Node, req : Req, gen : Gen]
    BY <2>1 DEF TypeOK
  <2>3. a.gen \in Nat /\ a.gen <= gen[p]
    BY <1>4, <2>1, <2>2 DEF Known
  <2> QED
    BY <1>1, <2>3
<1> QED
  BY <1>2, <1>3, <1>4

LEMMA GenStays ==
    ASSUME NEW x \in Node, Step(x), ~ Restart(x) PROVE gen' = gen
BY DEF Step, Receive, Answered, AnsweredNoPong, AnsweredLate, ReceiveOffer, NodeOnline, NodeOffline,
   SendNode, CheckStart, OfferTimeout, OfferPong, AnswerTimeout, AnswerPong, CheckPong, CheckTimeout

(* What a node learns of a peer it was told. *)
LEMMA DirHeld ==
    ASSUME TypeOK, NEW x \in Node, Step(x), ~ Restart(x), NEW n \in Node, NEW p \in Node
    PROVE  \/ dir'[n][p] = dir[n][p]
           \/ dir'[n][p] = 0
           \/ \E m \in Message : m.type = "online" /\ Holds(chan[p][n], m) /\ dir'[n][p] = m.gen
<1>0. dir \in [Node -> [Node -> Gen \cup {0}]]
  BY DEF TypeOK
<1>1. CASE UNCHANGED dir
  BY <1>1
<1>2. ASSUME NEW q \in Node, NodeOffline(x, q) PROVE dir'[n][p] = dir[n][p] \/ dir'[n][p] = 0
  BY <1>0, <1>2 DEF NodeOffline
<1>3. ASSUME NEW q \in Node, NodeOnline(x, q)
      PROVE  \/ dir'[n][p] = dir[n][p]
             \/ \E m \in Message : m.type = "online" /\ Holds(chan[p][n], m) /\ dir'[n][p] = m.gen
  <2>1. PICK m \in Message : m = Head(chan[q][x]) /\ Holds(chan[q][x], m)
    BY <1>3, HeadHeld DEF NodeOnline, Arrives
  <2>2. m.type = "online" /\ dir' = [dir EXCEPT ![x][q] = m.gen]
    BY <1>3, <2>1 DEF NodeOnline, Arrives
  <2>3. CASE n = x /\ p = q
    BY <1>0, <2>1, <2>2, <2>3
  <2>4. CASE ~ (n = x /\ p = q)
    BY <1>0, <2>2, <2>4
  <2> QED
    BY <2>3, <2>4
<1>4. UNCHANGED dir \/ \E q \in Node : NodeOffline(x, q) \/ NodeOnline(x, q)
  BY DEF Step, Receive, Answered, AnsweredNoPong, AnsweredLate, ReceiveOffer,
     SendNode, CheckStart, OfferTimeout, OfferPong, AnswerTimeout, AnswerPong, CheckPong, CheckTimeout
<1> QED
  BY <1>1, <1>2, <1>3, <1>4

(* An offer that is being answered has come. *)
LEMMA AnswersHeld ==
    ASSUME TypeOK, NEW x \in Node, Step(x), NEW n \in Node, NEW a \in answers'[n]
    PROVE  \/ a \in answers[n]
           \/ \E m \in Message : m.type = "offer" /\ Holds(chan[a.peer][n], m) /\ a.gen = m.gen
<1>1. CASE answers'[n] \subseteq answers[n]
  BY <1>1
<1>2. ASSUME NEW q \in Node, ReceiveOffer(x, q)
      PROVE  \/ a \in answers[n]
             \/ \E m \in Message : m.type = "offer" /\ Holds(chan[a.peer][n], m) /\ a.gen = m.gen
  <2>1. PICK m \in Message : m = Head(chan[q][x]) /\ Holds(chan[q][x], m)
    BY <1>2, HeadHeld DEF ReceiveOffer, Arrives
  <2>2. m.type = "offer" /\ answers' = [answers EXCEPT ![x] = @ \cup {[peer |-> q, req |-> m.req, gen |-> m.gen]}]
    BY <1>2, <2>1 DEF ReceiveOffer, Arrives
  <2>3. a \in answers[n] \/ (n = x /\ a = [peer |-> q, req |-> m.req, gen |-> m.gen])
    BY <2>2 DEF TypeOK
  <2> QED
    BY <2>1, <2>2, <2>3
<1>3. answers'[n] \subseteq answers[n] \/ \E q \in Node : ReceiveOffer(x, q)
  BY DEF Step, Receive, Answered, AnsweredNoPong, AnsweredLate, NodeOnline, NodeOffline, Restart, TypeOK,
     SendNode, CheckStart, OfferTimeout, OfferPong, AnswerTimeout, AnswerPong, CheckPong, CheckTimeout
<1> QED
  BY <1>1, <1>2, <1>3

LEMMA KnownStep ==
    ASSUME TypeOK, Known, NEW x \in Node, Step(x) PROVE Known'
<1>1. CASE Restart(x)
  BY <1>1, KnownRestart
<1>2. CASE ~ Restart(x)
  <2> SUFFICES ASSUME NEW n \in Node, NEW p \in Node
               PROVE  /\ dir'[n][p] <= gen'[p]
                      /\ \A m \in Message : m.type # "offline" /\ Holds(chan'[p][n], m) => m.gen <= gen'[p]
                      /\ \A a \in answers'[n] : a.peer = p => a.gen <= gen'[p]
    BY DEF Known
  <2>1. gen' = gen /\ gen[p] \in Nat
    BY <1>2, GenStays DEF TypeOK
  <2>2. dir'[n][p] <= gen'[p]
    BY <1>2, <2>1, DirHeld DEF Known
  <2>3. ASSUME NEW m \in Message, m.type # "offline", Holds(chan'[p][n], m) PROVE m.gen <= gen'[p]
    BY <1>2, <2>1, <2>3, MessagesHeld DEF Known
  <2>4. ASSUME NEW a \in answers'[n], a.peer = p PROVE a.gen <= gen'[p]
    BY <2>1, <2>4, AnswersHeld DEF Known
  <2> QED
    BY <2>2, <2>3, <2>4
<1> QED
  BY <1>1, <1>2

(* An offer that was there before pings the address it pinged. *)
LEMMA OfferAddress ==
    ASSUME TypeOK, NEW x \in Node, Step(x), \A q \in Node : ~ SendNode(x, q),
           NEW n \in Node, NEW r \in Req, offers'[n][r] # NoOffer
    PROVE  offers'[n][r].addr = offers[n][r].addr
<1>1. CASE UNCHANGED offers
  BY <1>1
<1>2. ASSUME NEW s \in Req, EndOffer(x, s) PROVE offers'[n][r] = offers[n][r]
  BY <1>2 DEF EndOffer, TypeOK
<1>3. ASSUME NEW s \in Req, NEW path \in Path, OfferPong(x, s, path)
      PROVE  offers'[n][r].addr = offers[n][r].addr
  <2>1. offers[x][s] \in Offer
    BY <1>3, OfferIs DEF OfferPong
  <2>2. [offers[x][s] EXCEPT !.pong = path].addr = offers[x][s].addr
    BY <2>1 DEF Offer
  <2>3. offers' = [offers EXCEPT ![x][s] = [offers[x][s] EXCEPT !.pong = path]]
    BY <1>3 DEF OfferPong
  <2>4. \/ n = x /\ r = s /\ offers'[n][r] = [offers[x][s] EXCEPT !.pong = path]
        \/ offers'[n][r] = offers[n][r]
    BY <2>3 DEF TypeOK
  <2> QED
    BY <2>2, <2>4
<1>4. CASE Restart(x)
  BY <1>4 DEF Restart, TypeOK
<1>5. ASSUME NEW p \in Node, Answered(x, p) \/ AnsweredNoPong(x, p) PROVE offers'[n][r] = offers[n][r]
  <2>1. Head(chan[p][x]).req \in Req /\ EndOffer(x, Head(chan[p][x]).req)
    BY <1>5, AnswerIs DEF Answered, AnsweredNoPong, ElectionError
  <2> QED
    BY <1>2, <2>1
<1>6. ASSUME NEW s \in Req, OfferTimeout(x, s) PROVE offers'[n][r] = offers[n][r]
  BY <1>2, <1>6 DEF OfferTimeout, ElectionError
<1>7. \/ UNCHANGED offers \/ Restart(x)
      \/ \E p \in Node : Answered(x, p) \/ AnsweredNoPong(x, p)
      \/ \E s \in Req : OfferTimeout(x, s) \/ \E path \in Path : OfferPong(x, s, path)
  BY DEF Step, Receive, AnsweredLate, ReceiveOffer, NodeOnline, NodeOffline,
     CheckStart, CheckPong, CheckTimeout, AnswerTimeout, AnswerPong
<1> QED
  BY <1>1, <1>3, <1>4, <1>5, <1>6, <1>7

(* An answer on its way was so before, or is given now. *)
LEMMA AnswerHeld ==
    ASSUME TypeOK, NEW x \in Node, Step(x), NEW n \in Node, NEW p \in Node, NEW r,
           NEW m \in Message, Holds(chan'[p][n], m), Asks(m, "answer", r)
    PROVE  Holds(chan[p][n], m) \/ m.gen = gen[p]
<1>1. CASE Restart(x)
  BY <1>1, RestartHolds DEF Asks
<1>2. CASE ~ Restart(x)
  BY <1>2, MessagesHeld
<1> QED
  BY <1>1, <1>2

LEMMA GenGrows ==
    ASSUME TypeOK, NEW x \in Node, Step(x), NEW p \in Node
    PROVE  gen[p] \in Nat /\ gen'[p] \in Nat /\ gen[p] <= gen'[p]
<1>1. CASE Restart(x)
  <2>1. gen \in [Node -> Gen] /\ gen' = [gen EXCEPT ![x] = gen[x] + 1]
    BY <1>1, RestartIs DEF TypeOK
  <2> QED
    BY <2>1
<1>2. CASE ~ Restart(x)
  BY <1>2, GenStays DEF TypeOK
<1> QED
  BY <1>1, <1>2

LEMMA AnswerGensStep ==
    ASSUME TypeOK, Known, AnswerGens, NEW x \in Node, Step(x) PROVE AnswerGens'
<1> SUFFICES ASSUME NEW n \in Node, NEW p \in Node, NEW r \in Req,
                    offers'[n][r] # NoOffer, offers'[n][r].peer = p
             PROVE  /\ offers'[n][r].addr <= gen'[p]
                    /\ \A m \in Message :
                          Holds(chan'[p][n], m) /\ Asks(m, "answer", r) => offers'[n][r].addr <= m.gen
  BY DEF AnswerGens
<1>0. gen[p] \in Nat /\ gen'[p] \in Nat /\ gen[p] <= gen'[p]
  BY GenGrows
<1>1. CASE \A q \in Node : ~ SendNode(x, q)
  <2>1. /\ offers[n][r] # NoOffer /\ offers[n][r].peer = p
        /\ offers'[n][r].addr = offers[n][r].addr /\ offers[n][r].addr \in Nat
    BY <1>1, OffersStay, OfferAddress, OfferIs DEF Offer
  <2>2. offers[n][r].addr <= gen[p]
    BY <2>1 DEF AnswerGens
  <2>3. ASSUME NEW m \in Message, Holds(chan'[p][n], m), Asks(m, "answer", r)
        PROVE  offers[n][r].addr <= m.gen
    BY <2>1, <2>2, <2>3, AnswerHeld DEF AnswerGens
  <2> QED
    BY <1>0, <2>1, <2>2, <2>3
<1>2. ASSUME NEW q \in Node, SendNode(x, q)
      PROVE  /\ offers'[n][r].addr <= gen'[p]
             /\ \A m \in Message :
                   Holds(chan'[p][n], m) /\ Asks(m, "answer", r) => offers'[n][r].addr <= m.gen
  <2>1. PICK s \in Req :
           /\ offers[x][s] = NoOffer
           /\ \A y \in Node : ~ Underway(x, s, y)
           /\ offers' = [offers EXCEPT ![x][s] = [peer |-> q, addr |-> dir[x][q], pong |-> NoPath]]
           /\ SendTo(x, q, [type |-> "offer", req |-> s, gen |-> gen[x]])
    BY <1>2, SendNodeIs
  <2>2. gen' = gen
    BY <1>2 DEF SendNode
  <2>3. \A m \in Message : Holds(chan'[p][n], m) /\ Asks(m, "answer", r) => Holds(chan[p][n], m)
    BY <2>1, SendHolds DEF Asks
  <2>4. CASE n = x /\ r = s
    <3>1. offers'[n][r] = [peer |-> q, addr |-> dir[x][q], pong |-> NoPath]
      BY <2>1, <2>4 DEF TypeOK
    <3>2. p = q /\ offers'[n][r].addr <= gen'[p]
      BY <2>2, <2>4, <3>1 DEF Known
    <3>3. \A m \in Message : ~ (Holds(chan[p][n], m) /\ Asks(m, "answer", r))
      BY <2>1, <2>4 DEF Underway, Holds
    <3> QED
      BY <2>3, <3>2, <3>3
  <2>5. CASE ~ (n = x /\ r = s)
    <3>1. offers'[n][r] = offers[n][r]
      BY <2>1, <2>5 DEF TypeOK
    <3> QED
      BY <2>2, <2>3, <3>1 DEF AnswerGens
  <2> QED
    BY <2>4, <2>5
<1> QED
  BY <1>1, <1>2

(* An entry is put whose key is not older than its address. *)
LEMMA KeyPut ==
    ASSUME TypeOK, KeyNotOlder, NEW n \in Node, NEW p \in Node, NEW entry, Put(n, p, entry), UNCHANGED gen,
           IsTransport(entry) => entry.addr <= entry.key /\ entry.key <= gen[p]
    PROVE  KeyNotOlder'
<1> SUFFICES ASSUME NEW m \in Node, NEW q \in Node, IsTransport(table'[m][q])
             PROVE  table'[m][q].addr <= table'[m][q].key /\ table'[m][q].key <= gen'[q]
  BY DEF KeyNotOlder, IsTransport
<1>1. (m = n /\ q = p /\ table'[m][q] = entry) \/ table'[m][q] = table[m][q]
  BY DEF Put, TypeOK
<1> QED
  BY <1>1 DEF KeyNotOlder

LEMMA KeyStep ==
    ASSUME TypeOK, AnswersFit, Known, AnswerGens, KeyNotOlder, NEW x \in Node, Step(x)
    PROVE  KeyNotOlder'
<1>0. ~ IsTransport(None) /\ ~ IsTransport(Electing)
  BY DEF IsTransport
<1>1. CASE UNCHANGED <<table, gen>>
  BY <1>1 DEF KeyNotOlder
<1>2. ASSUME NEW p \in Node, Answered(x, p) PROVE KeyNotOlder'
  <2> DEFINE msg == Head(chan[p][x])
             b == offers[x][msg.req]
             entry == [key |-> msg.gen, addr |-> b.addr, path |-> b.pong]
  <2>1. Arrives(p, x, "answer") /\ b # NoOffer /\ Put(x, p, entry) /\ UNCHANGED gen
    BY <1>2 DEF Answered
  <2>2. msg.req \in Req /\ b.peer = p
    BY <2>1, AnswerIs, AnswerFrom
  <2>3. msg \in Message /\ Holds(chan[p][x], msg) /\ Asks(msg, "answer", msg.req)
    BY <2>1, HeadHeld DEF Arrives, Asks
  <2>4. b.addr <= msg.gen /\ msg.gen <= gen[p]
    BY <2>1, <2>2, <2>3 DEF AnswerGens, Known, Asks
  <2> QED
    BY <2>1, <2>4, KeyPut
<1>3. ASSUME NEW a \in answers[x], NEW path \in Path, AnswerPong(x, a, path) PROVE KeyNotOlder'
  <2>1. /\ a.peer \in Node /\ Put(x, a.peer, [key |-> a.gen, addr |-> a.gen, path |-> path])
        /\ UNCHANGED gen /\ a.gen \in Nat /\ a.gen <= gen[a.peer]
    BY <1>3 DEF AnswerPong, TypeOK, Known
  <2> QED
    BY <2>1, KeyPut
<1>4. ASSUME NEW r \in Req, offers[x][r] # NoOffer, ElectionError(x, r), UNCHANGED gen PROVE KeyNotOlder'
  <2>1. offers[x][r].peer \in Node
    BY <1>4, OfferIs DEF Offer
  <2> QED
    BY <1>0, <1>4, <2>1, KeyPut DEF ElectionError
<1>5. ASSUME NEW p \in Node, Put(x, p, None) \/ Put(x, p, Electing), UNCHANGED gen PROVE KeyNotOlder'
  BY <1>0, <1>5, KeyPut
<1>6. CASE Restart(x)
  <2> SUFFICES ASSUME NEW m \in Node, NEW q \in Node, IsTransport(table'[m][q])
               PROVE  table'[m][q].addr <= table'[m][q].key /\ table'[m][q].key <= gen'[q]
    BY DEF KeyNotOlder, IsTransport
  <2>1. m # x /\ table'[m][q] = table[m][q]
    BY <1>0, <1>6 DEF Restart, TypeOK
  <2>2. table[m][q].addr <= table[m][q].key /\ table[m][q].key <= gen[q] /\ table[m][q].key \in Nat
    BY <2>1 DEF KeyNotOlder, TypeOK, Transport, IsTransport
  <2> QED
    BY <2>1, <2>2, GenGrows
<1>7. CASE Receive(x)
  <2>1. PICK p \in Node :
          \/ Answered(x, p) \/ AnsweredNoPong(x, p) \/ AnsweredLate(x, p)
          \/ ReceiveOffer(x, p) \/ NodeOnline(x, p) \/ NodeOffline(x, p)
    BY <1>7 DEF Receive
  <2>2. CASE AnsweredNoPong(x, p)
    <3>1. Head(chan[p][x]).req \in Req
      BY <2>2, AnswerIs DEF AnsweredNoPong
    <3> QED
      BY <1>4, <2>2, <3>1 DEF AnsweredNoPong
  <2>3. CASE NodeOffline(x, p)
    BY <1>5, <2>3 DEF NodeOffline
  <2>4. CASE AnsweredLate(x, p) \/ ReceiveOffer(x, p) \/ NodeOnline(x, p)
    BY <1>1, <2>4 DEF AnsweredLate, ReceiveOffer, NodeOnline
  <2> QED
    BY <1>2, <2>1, <2>2, <2>3, <2>4
<1>8. ASSUME NEW p \in Node, SendNode(x, p) PROVE KeyNotOlder'
  BY <1>5, <1>8 DEF SendNode
<1>9. ASSUME NEW r \in Req, OfferTimeout(x, r) PROVE KeyNotOlder'
  BY <1>4, <1>9 DEF OfferTimeout
<1>10. ASSUME NEW h \in checks[x], CheckTimeout(x, h) PROVE KeyNotOlder'
  BY <1>5, <1>10 DEF CheckTimeout, TypeOK
<1>11. \/ UNCHANGED <<table, gen>> \/ Receive(x) \/ Restart(x)
       \/ \E p \in Node : SendNode(x, p)
       \/ \E r \in Req : OfferTimeout(x, r)
       \/ \E a \in answers[x] : \E path \in Path : AnswerPong(x, a, path)
       \/ \E h \in checks[x] : CheckTimeout(x, h)
  BY DEF Step, CheckStart, OfferPong, AnswerTimeout, CheckPong
<1> QED
  BY <1>1, <1>3, <1>6, <1>7, <1>8, <1>9, <1>10, <1>11

(* A transport whose address is answered has the key of the peer's present incarnation, *)
(* for any number of nodes, ids, paths and restarts: the answer to an offer is never of an *)
(* incarnation older than the one whose address was pinged.                                 *)
THEOREM PongVouches == Spec => []PongVouchesForKey
<1> DEFINE IInv == TypeOK /\ AnswersFit /\ Known /\ AnswerGens /\ KeyNotOlder
<1>1. Init => IInv
  <2> SUFFICES ASSUME Init PROVE IInv
    OBVIOUS
  <2>1. AnswersFit /\ AnswerGens
    BY DEF Init, AnswersFit, AnswerGens
  <2>2. Known
    BY DEF Init, Known, Holds
  <2>3. KeyNotOlder
    BY DEF Init, KeyNotOlder, IsTransport
  <2> QED
    BY <2>1, <2>2, <2>3, TypeInit
<1>2. IInv /\ [Next]_vars => IInv'
  <2>1. ASSUME IInv, NEW n \in Node, Step(n) PROVE IInv'
    BY <2>1, TypeStep, AnswersFitStep, KnownStep, AnswerGensStep, KeyStep
  <2>2. ASSUME IInv, UNCHANGED vars PROVE IInv'
    BY <2>2 DEF vars, TypeOK, AnswersFit, Underway, Known, AnswerGens, KeyNotOlder
  <2> QED
    BY <2>1, <2>2 DEF Next
<1>3. IInv => PongVouchesForKey
  <2> SUFFICES ASSUME IInv, NEW n \in Node, NEW p \in Node,
                      IsTransport(table[n][p]), table[n][p].addr = gen[p]
               PROVE  table[n][p].key = gen[p]
    BY DEF PongVouchesForKey, Reaches
  <2>1. table[n][p].key \in Nat /\ gen[p] \in Nat
    BY DEF TypeOK, Transport, IsTransport
  <2>2. gen[p] <= table[n][p].key /\ table[n][p].key <= gen[p]
    BY DEF KeyNotOlder
  <2> QED
    BY <2>1, <2>2
<1> QED
  BY <1>1, <1>2, <1>3, PTL DEF Spec
=============================================================================
