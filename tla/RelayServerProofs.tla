------------------------- MODULE RelayServerProofs -------------------------
(***************************************************************************)
(* Proofs about RelayServer, for every set of addresses and of tokens: its   *)
(* types, the agreement of its two tables, and that what is forwarded goes     *)
(* home.  The tables agree because the sweep holds on to the entry it is          *)
(* removing (Sweeping); forwarding is right because every copy of a token that  *)
(* is on its way to a client, or that its peers have, is the client's (Owned).    *)
(***************************************************************************)
EXTENDS RelayServer, TLAPS

(* The entry being removed is in both tables, then in transferMap only. *)
Sweeping ==
    /\ sweepAt \in {"client", "transfer"} =>
          /\ victim.addr \in Addr /\ victim.token \in Token
          /\ transfer[victim.token] = victim.addr
    /\ sweepAt = "client" => clientToken[victim.addr] = victim.token
    /\ sweepAt = "transfer" => \A a \in Addr : clientToken[a] # victim.token

(* The token k, if it is one, is found under a or not at all. *)
Leads(k, a) == k \in Token => transfer[k] \in {a, NoAddr}

Owned ==
    /\ \A a \in Addr : Leads(reply[a], a) /\ Leads(known[a], a) /\ Leads(directory[a], a)
    /\ serving \in Addr => Leads(heart, serving)

IInv == TypeOK /\ TablesAgree /\ Sweeping /\ Owned

USE AddrAssumption, TokenAssumption

LEMMA TypeInit == Init => TypeOK
<1> SUFFICES ASSUME Init PROVE TypeOK
  OBVIOUS
<1>1. /\ clientToken \in [Addr -> Token \cup {NoToken}]
      /\ transfer \in [Token -> Addr \cup {NoAddr}]
      /\ reply \in [Addr -> Token \cup {NoToken}]
      /\ known \in [Addr -> Token \cup {NoToken}]
      /\ directory \in [Addr -> Token \cup {NoToken}]
      /\ phase \in [Addr -> {"new", "idle", "asked", "served", "answered", "lost"}]
  BY DEF Init
<1>2. victim \in [addr : Addr \cup {NoAddr}, token : Token \cup {NoToken}]
  BY DEF Init, NoVictim
<1> QED
  BY <1>1, <1>2 DEF Init, TypeOK

LEMMA TypeLookup ==
    ASSUME TypeOK, NEW a \in Addr, Lookup(a)
    PROVE  /\ clientToken' \in [Addr -> Token \cup {NoToken}]
           /\ transfer' \in [Token -> Addr \cup {NoAddr}]
           /\ old' \subseteq Token /\ recent' \subseteq Addr
           /\ serving' \in Addr /\ heart' \in Token /\ refreshed' = FALSE
BY DEF TypeOK, Lookup, relayVars

LEMMA TypeStep == TypeOK /\ [Next]_vars => TypeOK'
<1> SUFFICES ASSUME TypeOK, [Next]_vars PROVE TypeOK'
  OBVIOUS
<1> USE DEF TypeOK, relayVars, loopVars, sweepVars, clientVars
<1>1. CASE Loop
  <2>1. CASE Refresh
    BY <2>1 DEF Refresh
  <2>2. CASE BindReply
    <3>1. /\ phase' \in [Addr -> {"new", "idle", "asked", "served", "answered", "lost"}]
          /\ reply' \in [Addr -> Token \cup {NoToken}]
      BY <2>2 DEF BindReply
    <3> QED
      BY <2>2, <3>1 DEF BindReply
  <2> QED
    BY <1>1, <2>1, <2>2 DEF Loop
<1>2. CASE SweepStep
  BY <1>2 DEF SweepStep, SweepStart, SweepCheck, SweepClient, SweepTransfer, SweepEnd, NoVictim
<1>3. ASSUME NEW a \in Addr, Bind(a) PROVE TypeOK'
  BY <1>3, TypeLookup DEF Bind
<1>4. ASSUME NEW a \in Addr, BindLate(a) PROVE TypeOK'
  BY <1>4, TypeLookup DEF BindLate
<1>5. ASSUME NEW a \in Addr, HeartOld(a) PROVE TypeOK'
  BY <1>5 DEF HeartOld
<1>6. ASSUME NEW a \in Addr, Ask(a) \/ Lose(a) PROVE TypeOK'
  BY <1>6 DEF Ask, Lose
<1>7. ASSUME NEW a \in Addr, Receive(a) \/ Timeout(a) \/ Publish(a) PROVE TypeOK'
  BY <1>7 DEF Receive, Timeout, Publish
<1>8. CASE UNCHANGED vars
  BY <1>8 DEF vars
<1> QED
  BY <1>1, <1>2, <1>3, <1>4, <1>5, <1>6, <1>7, <1>8 DEF Next

(* The type invariant of the relay and its clients. *)
THEOREM TypeCorrect == Spec => []TypeOK
<1>1. Init => TypeOK
  BY TypeInit
<1>2. TypeOK /\ [Next]_vars => TypeOK'
  BY TypeStep
<1> QED
  BY <1>1, <1>2, PTL DEF Spec
-----------------------------------------------------------------------------
LEMMA IInit == Init => IInv
<1> SUFFICES ASSUME Init PROVE IInv
  OBVIOUS
<1>1. TypeOK
  BY TypeInit
<1>2. TablesAgree
  BY DEF Init, TablesAgree
<1>3. Sweeping
  BY DEF Init, Sweeping
<1>4. Owned
  BY DEF Init, Owned, Leads
<1> QED
  BY <1>1, <1>2, <1>3, <1>4 DEF IInv

(* A new token is nobody's, so nothing that names a token comes to lead astray. *)
LEMMA LookupKeeps ==
    ASSUME IInv, NEW a \in Addr, Lookup(a), UNCHANGED <<sweepVars, reply, known, directory>>
    PROVE  TablesAgree' /\ Sweeping' /\ Owned'
<1> USE DEF IInv, TypeOK, sweepVars
<1>1. CASE clientToken[a] # NoToken
  <2>1. UNCHANGED <<clientToken, transfer>> /\ serving' = a /\ heart' = clientToken[a]
    BY <1>1 DEF Lookup, relayVars
  <2>2. TablesAgree' /\ Sweeping'
    BY <2>1 DEF TablesAgree, Sweeping
  <2>3. Owned'
    BY <2>1, <1>1 DEF TablesAgree, Owned, Leads
  <2> QED
    BY <2>2, <2>3
<1>2. CASE clientToken[a] = NoToken
  <2> PICK k \in Token : /\ Fresh(k)
                         /\ heart' = k
                         /\ transfer' = [transfer EXCEPT ![k] = a]
                         /\ clientToken' = [clientToken EXCEPT ![a] = k]
    BY <1>2 DEF Lookup
  <2>0. serving' = a
    BY DEF Lookup
  <2>1. TablesAgree'
    <3>1. \A b \in Addr : clientToken'[b] # NoToken => transfer'[clientToken'[b]] = b
      BY DEF TablesAgree, Fresh
    <3>2. \A j \in Token : transfer'[j] # NoAddr =>
              \/ clientToken'[transfer'[j]] = j
              \/ sweepAt' = "transfer" /\ victim' = [addr |-> transfer'[j], token |-> j]
      BY <1>2 DEF TablesAgree, Fresh
    <3> QED
      BY <3>1, <3>2 DEF TablesAgree
  <2>2. Sweeping'
    BY <1>2 DEF Sweeping, Fresh
  <2>3. Owned'
    BY <2>0 DEF Owned, Leads, Fresh
  <2> QED
    BY <2>1, <2>2, <2>3
<1> QED
  BY <1>1, <1>2

LEMMA IStep == IInv /\ [Next]_vars => IInv'
<1> SUFFICES ASSUME IInv, [Next]_vars PROVE IInv'
  OBVIOUS
<1>0. TypeOK'
  BY TypeStep DEF IInv
<1> SUFFICES TablesAgree' /\ Sweeping' /\ Owned'
  BY <1>0 DEF IInv
<1> USE DEF IInv, TypeOK, relayVars, loopVars, sweepVars, clientVars
<1>1. CASE Refresh
  BY <1>1 DEF Refresh, TablesAgree, Sweeping, Owned, Leads
<1>2. CASE BindReply
  BY <1>2 DEF BindReply, TablesAgree, Sweeping, Owned, Leads
<1>3. CASE SweepStart \/ SweepEnd
  BY <1>3 DEF SweepStart, SweepEnd, TablesAgree, Sweeping, Owned, Leads
<1>4. ASSUME NEW a \in Addr, SweepCheck(a) PROVE TablesAgree' /\ Sweeping' /\ Owned'
  BY <1>4 DEF SweepCheck, TablesAgree, Sweeping, Owned, Leads
<1>5. CASE SweepClient
  <2>1. TablesAgree'
    BY <1>5 DEF SweepClient, TablesAgree, Sweeping
  <2>2. Sweeping'
    BY <1>5 DEF SweepClient, TablesAgree, Sweeping
  <2>3. Owned'
    BY <1>5 DEF SweepClient, Owned, Leads
  <2> QED
    BY <2>1, <2>2, <2>3
<1>6. CASE SweepTransfer
  <2>1. TablesAgree'
    BY <1>6 DEF SweepTransfer, TablesAgree, Sweeping
  <2>2. Sweeping'
    BY <1>6 DEF SweepTransfer, Sweeping
  <2>3. Owned'
    BY <1>6 DEF SweepTransfer, Owned, Leads, Sweeping
  <2> QED
    BY <2>1, <2>2, <2>3
<1>7. ASSUME NEW a \in Addr, Bind(a) \/ BindLate(a) PROVE TablesAgree' /\ Sweeping' /\ Owned'
  BY <1>7, LookupKeeps DEF Bind, BindLate
<1>8. ASSUME NEW a \in Addr, HeartOld(a) \/ Ask(a) PROVE TablesAgree' /\ Sweeping' /\ Owned'
  BY <1>8 DEF HeartOld, Ask, TablesAgree, Sweeping, Owned, Leads
<1>9. ASSUME NEW a \in Addr, Lose(a) \/ Receive(a) \/ Timeout(a) \/ Publish(a)
      PROVE  TablesAgree' /\ Sweeping' /\ Owned'
  <2>1. TablesAgree' /\ Sweeping'
    BY <1>9 DEF Lose, Receive, Timeout, Publish, TablesAgree, Sweeping
  <2>2. Owned'
    BY <1>9 DEF Lose, Receive, Timeout, Publish, Owned, Leads
  <2> QED
    BY <2>1, <2>2
<1>10. CASE UNCHANGED vars
  BY <1>10 DEF vars, TablesAgree, Sweeping, Owned, Leads
<1> QED
  BY <1>1, <1>2, <1>3, <1>4, <1>5, <1>6, <1>7, <1>8, <1>9, <1>10 DEF Next, Loop, SweepStep

LEMMA Invariance == Spec => []IInv
BY IInit, IStep, PTL DEF Spec

(* However binds and the sweep interleave, the relay's two tables agree. *)
THEOREM RelayTablesAgree == Spec => []TablesAgree
<1>1. IInv => TablesAgree
  BY DEF IInv
<1> QED
  BY Invariance, <1>1, PTL

(* A packet reaches the client whose token it names, or nobody. *)
THEOREM RelayRoutedHome == Spec => []RoutedHome
<1>1. IInv => RoutedHome
  BY DEF IInv, TypeOK, Owned, Leads, RoutedHome, Forwarded
<1> QED
  BY Invariance, <1>1, PTL
=============================================================================
