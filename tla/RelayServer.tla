---------------------------- MODULE RelayServer ----------------------------
(***************************************************************************)
(* The relay (sdwan-core RelayServer.java) and its clients as far as the     *)
(* token goes (IceClient.checkRelay, updateNodeInfo): a client binds its      *)
(* address at regular intervals and is answered with a token; peers learn     *)
(* the token through the controller and name it in the packets the relay is    *)
(* to forward; a sweep forgets clients that have fallen silent.                *)
(*                                                                         *)
(* All packets are handled by the one event loop of the datagram channel; the *)
(* sweep is scheduled on another loop of the group.  Datagrams may be lost,    *)
(* delayed and duplicated.                                                     *)
(***************************************************************************)
EXTENDS Naturals

CONSTANTS
    Addr,      \* socket addresses of the clients
    NoAddr,
    Token,     \* tokens ShortUUID may generate
    NoToken

ASSUME AddrAssumption == NoAddr \notin Addr
ASSUME TokenAssumption == NoToken \notin Token

VARIABLES
    clientToken,  \* clientTokenMap: address -> token of its Heart
    transfer,     \* transferMap: token -> address
    old,          \* tokens whose Heart was refreshed more than heartTimeout ago
    recent,       \* addresses whose Heart was refreshed since they last asked
    serving,      \* address the loop is binding
    heart,        \* token of the Heart the loop holds
    refreshed,    \* the loop has refreshed that Heart
    sweepAt,      \* what the sweep is doing
    todo,         \* addresses the sweep has still to visit
    suspects,     \* tokens that were old when the sweep read the clock
    victim,       \* entry the sweep is removing
    phase,        \* a client's bind
    reply,        \* token on its way to the client
    known,        \* token the client last received
    directory     \* token the peers of a client know

relayVars == <<clientToken, transfer, old, recent>>
loopVars == <<serving, heart, refreshed>>
sweepVars == <<sweepAt, todo, suspects, victim>>
clientVars == <<phase, reply, known, directory>>
vars == <<relayVars, loopVars, sweepVars, clientVars>>

NoVictim == [addr |-> NoAddr, token |-> NoToken]

TypeOK ==
    /\ clientToken \in [Addr -> Token \cup {NoToken}]
    /\ transfer \in [Token -> Addr \cup {NoAddr}]
    /\ old \subseteq Token
    /\ recent \subseteq Addr
    /\ serving \in Addr \cup {NoAddr}
    /\ heart \in Token \cup {NoToken}
    /\ refreshed \in BOOLEAN
    /\ sweepAt \in {"off", "scan", "client", "transfer"}
    /\ todo \subseteq Addr
    /\ suspects \subseteq Token
    /\ victim \in [addr : Addr \cup {NoAddr}, token : Token \cup {NoToken}]
    /\ phase \in [Addr -> {"new", "idle", "asked", "served", "answered", "lost"}]
    /\ reply \in [Addr -> Token \cup {NoToken}]
    /\ known \in [Addr -> Token \cup {NoToken}]
    /\ directory \in [Addr -> Token \cup {NoToken}]

Init ==
    /\ clientToken = [a \in Addr |-> NoToken]
    /\ transfer = [k \in Token |-> NoAddr]
    /\ old = {} /\ recent = {} /\ todo = {} /\ suspects = {}
    /\ serving = NoAddr /\ heart = NoToken /\ refreshed = FALSE
    /\ sweepAt = "off" /\ victim = NoVictim
    /\ phase = [a \in Addr |-> "new"]
    /\ reply = [a \in Addr |-> NoToken]
    /\ known = [a \in Addr |-> NoToken]
    /\ directory = [a \in Addr |-> NoToken]

(* Mutant: a token is made again as soon as the tables have forgotten it. *)
FreshReused(k) == transfer[k] = NoAddr

(* ShortUUID.gen: random, so a token that nobody has or remembers. *)
Fresh(k) ==
    /\ transfer[k] = NoAddr /\ k # heart /\ k # victim.token
    /\ \A a \in Addr : k \notin {clientToken[a], reply[a], known[a], directory[a]}
-----------------------------------------------------------------------------
(* processBindRelayRequest *)

(* Mutant: the token is made without being entered in transferMap. *)
LookupNoTransfer(a) ==
    /\ serving' = a
    /\ refreshed' = FALSE
    /\ IF clientToken[a] # NoToken
       THEN /\ heart' = clientToken[a]
            /\ UNCHANGED relayVars
       ELSE \E k \in Token :
               /\ Fresh(k)
               /\ heart' = k
               /\ clientToken' = [clientToken EXCEPT ![a] = k]
               /\ recent' = recent \cup {a}
               /\ UNCHANGED <<transfer, old>>

(* computeIfAbsent: the Heart of the address, or a new one with its token.  No  *)
(* other thread looks at transferMap between its two writes.                     *)
Lookup(a) ==
    /\ serving' = a
    /\ refreshed' = FALSE
    /\ IF clientToken[a] # NoToken
       THEN /\ heart' = clientToken[a]
            /\ UNCHANGED relayVars
       ELSE \E k \in Token :
               /\ Fresh(k)
               /\ heart' = k
               /\ transfer' = [transfer EXCEPT ![k] = a]
               /\ clientToken' = [clientToken EXCEPT ![a] = k]
               /\ recent' = recent \cup {a}
               /\ UNCHANGED old

(* A client's current bind request arrives, or an earlier or duplicated one whose *)
(* answer the client will ignore.                                                   *)
Bind(a) ==
    /\ serving = NoAddr
    /\ phase[a] = "asked"
    /\ Lookup(a)
    /\ phase' = [phase EXCEPT ![a] = "served"]
    /\ UNCHANGED <<sweepVars, reply, known, directory>>

BindLate(a) ==
    /\ serving = NoAddr
    /\ phase[a] # "new"
    /\ Lookup(a)
    /\ UNCHANGED <<sweepVars, clientVars>>

(* Mutant: the time of the last heartbeat is set only when the Heart is made. *)
RefreshNever ==
    /\ serving # NoAddr /\ ~ refreshed
    /\ refreshed' = TRUE
    /\ UNCHANGED <<relayVars, serving, heart, sweepVars, clientVars>>

(* setLastHeartTime *)
Refresh ==
    /\ serving # NoAddr /\ ~ refreshed
    /\ old' = old \ {heart}
    /\ recent' = recent \cup {serving}
    /\ suspects' = suspects \ {heart}
    /\ refreshed' = TRUE
    /\ UNCHANGED <<clientToken, transfer, serving, heart, sweepAt, todo, victim, clientVars>>

(* Mutant: the answer carries the address of the client. *)
BindReplyAddress ==
    /\ serving # NoAddr /\ refreshed
    /\ IF phase[serving] = "served"
       THEN /\ phase' = [phase EXCEPT ![serving] = "answered"]
            /\ reply' = [reply EXCEPT ![serving] = serving]
       ELSE UNCHANGED <<phase, reply>>
    /\ serving' = NoAddr /\ heart' = NoToken /\ refreshed' = FALSE
    /\ UNCHANGED <<relayVars, sweepVars, known, directory>>

(* The answer carries the token of the Heart the loop holds, even if the sweep has *)
(* removed it since.                                                                 *)
BindReply ==
    /\ serving # NoAddr /\ refreshed
    /\ IF phase[serving] = "served"
       THEN /\ phase' = [phase EXCEPT ![serving] = "answered"]
            /\ reply' = [reply EXCEPT ![serving] = heart]
       ELSE UNCHANGED <<phase, reply>>
    /\ serving' = NoAddr /\ heart' = NoToken /\ refreshed' = FALSE
    /\ UNCHANGED <<relayVars, sweepVars, known, directory>>

(* processTransfer, processPingRequest: where a packet that names the token goes. *)
Forwarded(k) == IF k = NoToken THEN NoAddr ELSE transfer[k]
-----------------------------------------------------------------------------
(* run(): the sweep. *)

SweepStart ==
    /\ sweepAt = "off"
    /\ suspects' = old
    /\ todo' = {a \in Addr : clientToken[a] # NoToken}
    /\ sweepAt' = "scan"
    /\ UNCHANGED <<relayVars, loopVars, victim, clientVars>>

SweepCheck(a) ==
    /\ sweepAt = "scan"
    /\ a \in todo
    /\ todo' = todo \ {a}
    /\ IF clientToken[a] \in suspects
       THEN /\ victim' = [addr |-> a, token |-> clientToken[a]]
            /\ sweepAt' = "client"
       ELSE UNCHANGED <<victim, sweepAt>>
    /\ UNCHANGED <<relayVars, loopVars, suspects, clientVars>>

SweepClient ==
    /\ sweepAt = "client"
    /\ clientToken' = [clientToken EXCEPT ![victim.addr] = NoToken]
    /\ sweepAt' = "transfer"
    /\ UNCHANGED <<transfer, old, recent, loopVars, todo, suspects, victim, clientVars>>

(* Mutant: what the address has now is dropped, not the token of the entry. *)
SweepTransferCurrent ==
    /\ sweepAt = "transfer"
    /\ transfer' = [k \in Token |-> IF k = clientToken[victim.addr] THEN NoAddr ELSE transfer[k]]
    /\ old' = old \ {victim.token}
    /\ suspects' = suspects \ {victim.token}
    /\ victim' = NoVictim
    /\ sweepAt' = "scan"
    /\ UNCHANGED <<clientToken, recent, loopVars, todo, clientVars>>

(* Mutant: the token stays in transferMap. *)
SweepTransferKept ==
    /\ sweepAt = "transfer"
    /\ victim' = NoVictim
    /\ sweepAt' = "scan"
    /\ UNCHANGED <<relayVars, loopVars, todo, suspects, clientVars>>

SweepTransfer ==
    /\ sweepAt = "transfer"
    /\ transfer' = [transfer EXCEPT ![victim.token] = NoAddr]
    /\ old' = old \ {victim.token}
    /\ suspects' = suspects \ {victim.token}
    /\ victim' = NoVictim
    /\ sweepAt' = "scan"
    /\ UNCHANGED <<clientToken, recent, loopVars, todo, clientVars>>

SweepEnd ==
    /\ sweepAt = "scan"
    /\ todo = {}
    /\ sweepAt' = "off"
    /\ suspects' = {}
    /\ UNCHANGED <<relayVars, loopVars, todo, victim, clientVars>>

(* heartTimeout, which is longer than a round of the client, goes by: a Heart   *)
(* becomes old only after a round in which it was not refreshed.                  *)
HeartOld(a) ==
    /\ clientToken[a] # NoToken
    /\ clientToken[a] \notin old
    /\ phase[a] \in {"idle", "lost"} /\ a \notin recent
    /\ old' = old \cup {clientToken[a]}
    /\ UNCHANGED <<clientToken, transfer, recent, loopVars, sweepVars, clientVars>>
-----------------------------------------------------------------------------
(* The client: checkRelay and updateNodeInfo of IceClient. *)

Ask(a) ==
    /\ phase[a] \in {"new", "idle"}
    /\ phase' = [phase EXCEPT ![a] = "asked"]
    /\ recent' = recent \ {a}
    /\ UNCHANGED <<clientToken, transfer, old, loopVars, sweepVars, reply, known, directory>>

(* The request or its answer is lost, or comes too late; a request is not lost to *)
(* the packet the loop happens to be working on.                                     *)
Lose(a) ==
    /\ phase[a] = "answered" \/ (phase[a] = "asked" /\ serving = NoAddr)
    /\ phase' = [phase EXCEPT ![a] = "lost"]
    /\ reply' = [reply EXCEPT ![a] = NoToken]
    /\ UNCHANGED <<relayVars, loopVars, sweepVars, known, directory>>

Receive(a) ==
    /\ phase[a] = "answered"
    /\ known' = [known EXCEPT ![a] = reply[a]]
    /\ reply' = [reply EXCEPT ![a] = NoToken]
    /\ phase' = [phase EXCEPT ![a] = "idle"]
    /\ UNCHANGED <<relayVars, loopVars, sweepVars, directory>>

(* Without an answer the relay is left out of the address list. *)
Timeout(a) ==
    /\ phase[a] = "lost"
    /\ known' = [known EXCEPT ![a] = NoToken]
    /\ phase' = [phase EXCEPT ![a] = "idle"]
    /\ UNCHANGED <<relayVars, loopVars, sweepVars, reply, directory>>

Publish(a) ==
    /\ directory[a] # known[a]
    /\ directory' = [directory EXCEPT ![a] = known[a]]
    /\ UNCHANGED <<relayVars, loopVars, sweepVars, phase, reply, known>>
-----------------------------------------------------------------------------
Loop == Refresh \/ BindReply
SweepStep ==
    \/ SweepStart \/ SweepClient \/ SweepTransfer \/ SweepEnd
    \/ \E a \in Addr : SweepCheck(a)

Next ==
    \/ Loop \/ SweepStep
    \/ \E a \in Addr :
          \/ Bind(a) \/ BindLate(a) \/ HeartOld(a)
          \/ Ask(a) \/ Lose(a) \/ Receive(a) \/ Timeout(a) \/ Publish(a)

Spec == Init /\ [][Next]_vars

(* The loop runs, the sweep and the check of the servers are scheduled at a fixed *)
(* rate; the loop reads datagrams in the order of their arrival, so a request that   *)
(* is not lost is served although others keep coming.                                 *)
FairSpec ==
    /\ Spec
    /\ WF_vars(Loop) /\ WF_vars(SweepStep)
    /\ \A a \in Addr :
          WF_vars(Ask(a)) /\ WF_vars(Timeout(a)) /\ SF_vars(Bind(a)) /\ WF_vars(Receive(a))
-----------------------------------------------------------------------------
(* The two tables agree: every address that has a token is found under it, and a *)
(* token that is still found is the one of its address, or is just being swept;    *)
(* neither table leaks, whichever way a bind and the sweep interleave.             *)
TablesAgree ==
    /\ \A a \in Addr : clientToken[a] # NoToken => transfer[clientToken[a]] = a
    /\ \A k \in Token : transfer[k] # NoAddr =>
          \/ clientToken[transfer[k]] = k
          \/ sweepAt = "transfer" /\ victim = [addr |-> transfer[k], token |-> k]

(* A packet for a client that names the token its peers know is forwarded to that *)
(* client or dropped, never forwarded to another, even when the token is outdated. *)
RoutedHome == \A a \in Addr : Forwarded(directory[a]) \in {a, NoAddr}

(* Once datagrams stop being lost, every client ends up with a token under which  *)
(* the relay finds it and keeps finding it, whatever the sweep removed before and    *)
(* however late requests were answered.                                               *)
LossesEnd == <>[][\A a \in Addr : ~ Lose(a)]_vars
Reachable == LossesEnd => \A a \in Addr : <>[](Forwarded(known[a]) = a)

(* A client that is silent is forgotten: neither its token nor its Heart stays. *)
SilentForgotten == \A k \in Token : k \in old ~> k \notin old
=============================================================================
