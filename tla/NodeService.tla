---------------------------- MODULE NodeService ----------------------------
(***************************************************************************)
(* The nodes of a tenant and their vips in the controller's database:         *)
(* registrations that assign a vip (NodeServiceImpl.assignNodeInfo), and the    *)
(* administration that adds, edits and deletes nodes and edits the tenant.        *)
(*                                                                         *)
(* A request runs in one transaction, at read committed with row locks (Derby's *)
(* default): a written row belongs to its transaction until the end, and a         *)
(* statement that has to look at a row of another transaction waits for it, or       *)
(* gives up.  A row is read at the moment of its statement and may be old when         *)
(* what was read is used.                                                               *)
(*                                                                         *)
(* The rows of other tenants, names (checked the way macs are) and the tables of *)
(* the groups are left out; what the handlers do with the groups may fail.         *)
(***************************************************************************)
EXTENDS Integers, FiniteSets

CONSTANTS
    Loop,         \* event loops, which handle registrations
    Admin,        \* threads of administration requests
    Request,      \* the administration requests made: add, edit, del, tenant
    Mac,
    NodeId, PoolId, Tenant, \* rows: biz_node, biz_vip_pool, and the tenant's in biz_tenant
    NoRow, Gone, NoVip, Nobody,
    NodeGrant,    \* new nodes wait to be enabled
    Count,        \* addresses of the tenant's cidr
    Connections,  \* maxActive of the connection pool
    MaxIndex,     \* bound: the address index
    MaxRequests   \* bound: requests

Worker == Loop \cup Admin
Row == NodeId \cup PoolId \cup {Tenant}
Vip == 0 .. MaxIndex
Node == [mac : Mac, vip : Vip \cup {NoVip}, enable : BOOLEAN]
Pooled == [vip : Vip, used : BOOLEAN]
Index == -1 .. MaxIndex

ASSUME RowAssumption ==
    /\ NodeId \cap PoolId = {} /\ Tenant \notin NodeId \cup PoolId
    /\ NoRow # Gone /\ {NoRow, Gone} \cap (Row \cup Node \cup Pooled \cup Index) = {}
ASSUME NobodyAssumption == Nobody \notin Worker
ASSUME VipAssumption == NoVip \notin Vip
ASSUME CountAssumption == Count \in Nat /\ MaxIndex \in Nat /\ Count + 1 < MaxIndex
ASSUME GrantAssumption == NodeGrant \in BOOLEAN
ASSUME BoundAssumption == Connections \in Nat /\ MaxRequests \in Nat

Stage == {"idle", "lock", "find", "tenant", "insert", "reuse", "take", "index", "pool",
          "update", "check", "save", "read", "free", "delete", "readTenant", "writeTenant",
          "groups", "unlock", "end"}

VARIABLES
    db,         \* rows as their transactions see them
    committed,  \* rows as they were committed
    owner,      \* transaction that holds a row's lock
    lock,       \* LockGroup: the tenant's lock
    job,        \* what a worker does
    requests    \* requests made

vars == <<db, committed, owner, lock, job, requests>>

Job == [at : Stage, op : {"none", "regist", "add", "edit", "del", "tenant"},
        id : NodeId \cup {NoRow}, row : Node \cup {NoRow}, idx : Index,
        pool : PoolId \cup {NoRow}, ok : BOOLEAN]

Doing(stage, op, id, row) ==
    [at |-> stage, op |-> op, id |-> id, row |-> row, idx |-> -1, pool |-> NoRow, ok |-> TRUE]
Idle == Doing("idle", "none", NoRow, NoRow)

Typed(rows) ==
    /\ rows = [r \in Row |-> rows[r]]
    /\ \A i \in NodeId : rows[i] \in Node \cup {NoRow, Gone}
    /\ \A p \in PoolId : rows[p] \in Pooled \cup {NoRow}
    /\ rows[Tenant] \in Index

TypeOK ==
    /\ Typed(db) /\ Typed(committed)
    /\ owner \in [Row -> Worker \cup {Nobody}]
    /\ lock \in Loop \cup {Nobody}
    /\ job \in [Worker -> Job]
    /\ requests \in 0 .. MaxRequests

Init ==
    /\ db = [r \in Row |-> IF r = Tenant THEN -1 ELSE NoRow]
    /\ committed = db
    /\ owner = [r \in Row |-> Nobody]
    /\ lock = Nobody
    /\ job = [w \in Worker |-> Idle]
    /\ requests = 0
-----------------------------------------------------------------------------
(* The database. *)

Exists(rows, r) == rows[r] \notin {NoRow, Gone}
OthersRow(w, r) == owner[r] \notin {w, Nobody}

Write(w, r, value) ==
    /\ db' = [db EXCEPT ![r] = value]
    /\ owner' = [owner EXCEPT ![r] = w]

(* Identities are handed out one after the other. *)
Fresh(table) == {r \in table : db[r] = NoRow}
NewRow(table) == CHOOSE r \in Fresh(table) : TRUE

(* updateById leaves columns alone whose field is null. *)
Merge(old, new) == [new EXCEPT !.vip = IF @ = NoVip THEN old.vip ELSE @]

(* The rows that the next statement of a worker looks at: the tables have no index *)
(* but the primary key.                                                               *)
Needs(w) ==
    CASE job[w].at \in {"find", "check"} -> NodeId
      [] job[w].at \in {"reuse", "free"} -> PoolId
      [] job[w].at = "take" -> {job[w].pool}
      [] job[w].at \in {"update", "read", "delete"} -> {job[w].id}
      [] job[w].at \in {"tenant", "index", "readTenant", "writeTenant"} -> {Tenant}
      [] OTHER -> {}

Granted(w) == \A r \in Needs(w) : ~ OthersRow(w, r)

(* A worker has a connection from the start of its transaction on. *)
ConnectionFree == Cardinality({w \in Worker : job[w].at # "idle"}) < Connections

At(w, stage) == job[w].at = stage
Go(w, stage) == job' = [job EXCEPT ![w].at = stage]

(* An exception: a registration leaves its lock, the transaction is rolled back. *)
Fail(w) ==
    job' = [job EXCEPT ![w].at = IF job[w].op = "regist" THEN "unlock" ELSE "end",
                       ![w].ok = FALSE]

Reads == UNCHANGED <<db, committed, owner, lock, requests>>
Writes == UNCHANGED <<committed, lock, requests>>
-----------------------------------------------------------------------------
(* Requests. *)

Start(w, op, stage, id, row) ==
    /\ At(w, "idle") /\ ConnectionFree /\ requests < MaxRequests
    /\ requests' = requests + 1
    /\ job' = [job EXCEPT ![w] = Doing(stage, op, id, row)]
    /\ UNCHANGED <<db, committed, owner, lock>>

Asked(m, enable) == [mac |-> m, vip |-> NoVip, enable |-> enable]

Regist(w) ==
    /\ w \in Loop
    /\ \E m \in Mac : Start(w, "regist", "lock", NoRow, Asked(m, TRUE))

Add(w) ==
    /\ w \in Admin /\ "add" \in Request
    /\ \E m \in Mac, enable \in BOOLEAN : Start(w, "add", "check", NoRow, Asked(m, enable))

(* The administrator has seen the node, which may be gone by now. *)
Edit(w) ==
    /\ w \in Admin /\ "edit" \in Request
    /\ \E i \in NodeId, m \in Mac, enable \in BOOLEAN :
          /\ committed[i] # NoRow
          /\ Start(w, "edit", "check", i, Asked(m, enable))

Del(w) ==
    /\ w \in Admin /\ "del" \in Request
    /\ \E i \in NodeId : committed[i] # NoRow /\ Start(w, "del", "read", i, NoRow)

EditTenant(w) ==
    /\ w \in Admin /\ "tenant" \in Request
    /\ Start(w, "tenant", "readTenant", NoRow, NoRow)
-----------------------------------------------------------------------------
(* assignNodeInfo *)

Lock(w) ==
    /\ At(w, "lock") /\ lock = Nobody
    /\ lock' = w
    /\ Go(w, "find")
    /\ UNCHANGED <<db, committed, owner, requests>>

WithMac(m) == {i \in NodeId : Exists(db, i) /\ db[i].mac = m}

FindNone(w) ==
    /\ At(w, "find") /\ Granted(w)
    /\ WithMac(job[w].row.mac) = {}
    /\ Go(w, "tenant")
    /\ Reads

FindOne(w) ==
    /\ At(w, "find") /\ Granted(w)
    /\ \E i \in NodeId :
          /\ WithMac(job[w].row.mac) = {i}
          /\ job' = [job EXCEPT ![w].id = i, ![w].row = db[i],
                                ![w].at = IF db[i].vip = NoVip THEN "tenant" ELSE "update"]
    /\ Reads

(* one() throws if there are several. *)
FindSeveral(w) ==
    /\ At(w, "find") /\ Granted(w)
    /\ \A i \in NodeId : WithMac(job[w].row.mac) \notin {{}, {i}}
    /\ Fail(w)
    /\ Reads

(* The tenant is read once: the session keeps what it has read. *)
ReadTenant(w) ==
    /\ At(w, "tenant") /\ Granted(w)
    /\ IF job[w].op = "regist" /\ job[w].id # NoRow /\ NodeGrant /\ ~ job[w].row.enable
       THEN Fail(w) \* NotGrant
       ELSE job' = [job EXCEPT ![w].idx = db[Tenant],
                               ![w].at = IF job[w].op = "regist" /\ job[w].id = NoRow
                                         THEN "insert" ELSE "reuse"]
    /\ Reads

(* A transaction of its own, and a second connection. *)
Insert(w) ==
    /\ At(w, "insert") /\ ConnectionFree /\ Fresh(NodeId) # {}
    /\ LET i == NewRow(NodeId)
           row == [job[w].row EXCEPT !.enable = ~ NodeGrant]
       IN  /\ db' = [db EXCEPT ![i] = row]
           /\ committed' = [committed EXCEPT ![i] = row]
           /\ IF NodeGrant
              THEN Fail(w) \* NotGrant
              ELSE job' = [job EXCEPT ![w].id = i, ![w].row = row, ![w].at = "reuse"]
    /\ UNCHANGED <<owner, lock, requests>>

(* Mutant: updateById writes nulls too. *)
UpdateAll(w) ==
    /\ At(w, "update") /\ Granted(w)
    /\ IF Exists(db, job[w].id) THEN Write(w, job[w].id, job[w].row)
                                ELSE UNCHANGED <<db, owner>>
    /\ IF job[w].op = "regist" /\ ~ job[w].row.enable THEN Fail(w) ELSE Go(w, "groups")
    /\ Writes

(* The row as it was read, with what the node says of itself; also edit's. *)
Update(w) ==
    /\ At(w, "update") /\ Granted(w)
    /\ LET i == job[w].id
       IN  IF Exists(db, i) THEN Write(w, i, Merge(db[i], job[w].row))
                            ELSE UNCHANGED <<db, owner>>
    /\ IF job[w].op = "regist" /\ ~ job[w].row.enable
       THEN Fail(w) \* Disabled
       ELSE Go(w, "groups")
    /\ Writes

(* The group tables are read or written, and may fail: a group is gone, a wait for a *)
(* row was too long.                                                                   *)
Groups(w) ==
    /\ At(w, "groups")
    /\ \/ Go(w, CASE job[w].op = "regist" -> "unlock" [] job[w].op = "del" -> "delete"
                  [] OTHER -> "end")
       \/ Fail(w)
    /\ Reads

Unlock(w) ==
    /\ At(w, "unlock")
    /\ lock' = Nobody
    /\ Go(w, "end")
    /\ UNCHANGED <<db, committed, owner, requests>>

(* The transaction ends after the lock was left. *)
End(w) ==
    /\ At(w, "end")
    /\ LET mine(r) == owner[r] = w
       IN  /\ db' = [r \in Row |-> IF mine(r) /\ ~ job[w].ok THEN committed[r] ELSE db[r]]
           /\ committed' = [r \in Row |-> IF mine(r) /\ job[w].ok THEN db[r] ELSE committed[r]]
           /\ owner' = [r \in Row |-> IF mine(r) THEN Nobody ELSE owner[r]]
    /\ job' = [job EXCEPT ![w] = Idle]
    /\ UNCHANGED <<lock, requests>>

LockTimeout(w) ==
    /\ ~ Granted(w)
    /\ Fail(w)
    /\ Reads
-----------------------------------------------------------------------------
(* assignIp *)

(* network, gateway, broadcast; indexes beyond the cidr are not checked. *)
Available(idx) == idx \notin {0, 1, Count - 1}

(* The vip goes into the row that is saved. *)
Assign(w, vip) ==
    job' = [job EXCEPT ![w].row.vip = vip,
                       ![w].at = IF job[w].op = "regist" THEN "update" ELSE "save"]

ReuseIp(w) ==
    /\ At(w, "reuse")
    /\ \E p \in PoolId :
          /\ ~ OthersRow(w, p) /\ Exists(db, p) /\ ~ db[p].used
          /\ job' = [job EXCEPT ![w].pool = p, ![w].at = "take"]
    /\ Reads

(* A new address, if the index read is in the cidr; the addresses passed over later *)
(* are all in it.                                                                      *)
ReuseNone(w) ==
    /\ At(w, "reuse") /\ Granted(w)
    /\ \A p \in PoolId : Exists(db, p) => db[p].used
    /\ IF job[w].idx > Count
       THEN Fail(w) \* NotEnough
       ELSE Go(w, "index")
    /\ Reads

Take(w) ==
    /\ At(w, "take") /\ Granted(w)
    /\ ~ db[job[w].pool].used
    /\ Write(w, job[w].pool, [db[job[w].pool] EXCEPT !.used = TRUE])
    /\ Assign(w, db[job[w].pool].vip)
    /\ Writes

TakeMissed(w) ==
    /\ At(w, "take") /\ Granted(w)
    /\ db[job[w].pool].used
    /\ Go(w, "reuse")
    /\ Reads

(* Mutant: the index is set although another took it. *)
SelectIdxAnyway(w) ==
    LET next == job[w].idx + 1
    IN  /\ At(w, "index") /\ Granted(w)
        /\ next <= MaxIndex
        /\ Write(w, Tenant, next)
        /\ job' = [job EXCEPT ![w].idx = next,
                              ![w].at = IF Available(next) THEN "pool" ELSE "index"]
        /\ Writes

SelectIdx(w) ==
    LET next == job[w].idx + 1
    IN  /\ At(w, "index") /\ Granted(w)
        /\ db[Tenant] = job[w].idx /\ next <= MaxIndex
        /\ Write(w, Tenant, next)
        /\ job' = [job EXCEPT ![w].idx = next,
                              ![w].at = IF Available(next) THEN "pool" ELSE "index"]
        /\ Writes

(* Mutant: the same index again. *)
SelectIdxAgain(w) ==
    /\ At(w, "index") /\ Granted(w)
    /\ db[Tenant] # job[w].idx
    /\ UNCHANGED job
    /\ Reads

(* Another took that index: try the following one, for ever if the index went back. *)
SelectIdxMissed(w) ==
    /\ At(w, "index") /\ Granted(w)
    /\ db[Tenant] # job[w].idx
    /\ job' = [job EXCEPT ![w].idx = IF @ < MaxIndex THEN @ + 1 ELSE @]
    /\ Reads

(* Mutant: the row is inserted with the column's default. *)
PoolInsertUnused(w) ==
    /\ At(w, "pool")
    /\ Fresh(PoolId) # {}
    /\ Write(w, NewRow(PoolId), [vip |-> job[w].idx, used |-> FALSE])
    /\ Assign(w, job[w].idx)
    /\ Writes

(* Mutant: the vip is not set. *)
PoolInsertNoVip(w) ==
    /\ At(w, "pool")
    /\ Fresh(PoolId) # {}
    /\ Write(w, NewRow(PoolId), [vip |-> NoVip, used |-> TRUE])
    /\ Assign(w, job[w].idx)
    /\ Writes

(* Mutant: the row is committed in a transaction of its own. *)
PoolInsertCommitted(w) ==
    /\ At(w, "pool")
    /\ Fresh(PoolId) # {}
    /\ LET row == [vip |-> job[w].idx, used |-> TRUE]
       IN  /\ db' = [db EXCEPT ![NewRow(PoolId)] = row]
           /\ committed' = [committed EXCEPT ![NewRow(PoolId)] = row]
    /\ Assign(w, job[w].idx)
    /\ UNCHANGED <<owner, lock, requests>>

PoolInsert(w) ==
    /\ At(w, "pool")
    /\ Fresh(PoolId) # {}
    /\ Write(w, NewRow(PoolId), [vip |-> job[w].idx, used |-> TRUE])
    /\ Assign(w, job[w].idx)
    /\ Writes
-----------------------------------------------------------------------------
(* add, edit, del; the tenant's edit. *)

CheckUnique(w) ==
    /\ At(w, "check") /\ Granted(w)
    /\ IF WithMac(job[w].row.mac) \ {job[w].id} # {}
       THEN Fail(w)
       ELSE Go(w, IF job[w].op = "add" THEN "tenant" ELSE "update")
    /\ Reads

Save(w) ==
    /\ At(w, "save")
    /\ Fresh(NodeId) # {}
    /\ Write(w, NewRow(NodeId), job[w].row)
    /\ job' = [job EXCEPT ![w].id = NewRow(NodeId), ![w].at = "groups"]
    /\ Writes

(* A route or a virtual nat uses the node. *)
Used(w) == At(w, "read") /\ Fail(w) /\ Reads

Read(w) ==
    /\ At(w, "read") /\ Granted(w)
    /\ LET row == db[job[w].id]
       IN  IF row = Gone
           THEN Fail(w) \* NullPointerException
           ELSE job' = [job EXCEPT ![w].row = row,
                                   ![w].at = IF row.vip = NoVip THEN "groups" ELSE "free"]
    /\ Reads

Free(w) ==
    /\ At(w, "free") /\ Granted(w)
    /\ LET freed == {p \in PoolId : Exists(db, p) /\ db[p].vip = job[w].row.vip}
       IN  /\ db' = [r \in Row |-> IF r \in freed THEN [db[r] EXCEPT !.used = FALSE] ELSE db[r]]
           /\ owner' = [r \in Row |-> IF r \in freed THEN w ELSE owner[r]]
    /\ Go(w, "groups")
    /\ Writes

Delete(w) ==
    /\ At(w, "delete") /\ Granted(w)
    /\ IF Exists(db, job[w].id) THEN Write(w, job[w].id, Gone) ELSE UNCHANGED <<db, owner>>
    /\ Go(w, "end")
    /\ Writes

EditTenantRead(w) ==
    /\ At(w, "readTenant") /\ Granted(w)
    /\ job' = [job EXCEPT ![w].idx = db[Tenant], ![w].at = "writeTenant"]
    /\ Reads

(* updateById writes every column, the address index as it was read. *)
EditTenantWrite(w) ==
    /\ At(w, "writeTenant") /\ Granted(w)
    /\ Write(w, Tenant, job[w].idx)
    /\ Go(w, "end")
    /\ Writes
-----------------------------------------------------------------------------
Begin(w) == Regist(w) \/ Add(w) \/ Edit(w) \/ Del(w) \/ EditTenant(w)

Run(w) ==
    \/ Lock(w) \/ FindNone(w) \/ FindOne(w) \/ FindSeveral(w) \/ ReadTenant(w) \/ Insert(w)
    \/ Update(w) \/ Groups(w) \/ Unlock(w) \/ End(w) \/ LockTimeout(w)
    \/ ReuseIp(w) \/ ReuseNone(w) \/ Take(w) \/ TakeMissed(w)
    \/ SelectIdx(w) \/ SelectIdxMissed(w) \/ PoolInsert(w)
    \/ CheckUnique(w) \/ Save(w) \/ Used(w) \/ Read(w) \/ Free(w) \/ Delete(w)
    \/ EditTenantRead(w) \/ EditTenantWrite(w)

(* All requests are done. *)
Finished ==
    /\ requests = MaxRequests /\ \A w \in Worker : At(w, "idle")
    /\ UNCHANGED vars

Next == Finished \/ \E w \in Worker : Begin(w) \/ Run(w)

Spec == Init /\ [][Next]_vars

(* A thread that has started a request goes on with it. *)
FairSpec == Spec /\ \A w \in Worker : WF_vars(Run(w))
-----------------------------------------------------------------------------
(* Properties, of what is committed. *)

Vips(i) == IF Exists(committed, i) THEN {committed[i].vip} \ {NoVip} ELSE {}

(* Two nodes never have the same vip, although assignments do not take the lock in *)
(* add, and a vip is freed, found and taken in statements of several transactions.   *)
VipExclusive == \A i, j \in NodeId : i # j => Vips(i) \cap Vips(j) = {}

InUse == {committed[p].vip : p \in {q \in PoolId : Exists(committed, q) /\ committed[q].used}}

(* The vip of a node is one the pool will not hand out. *)
PoolCovers == \A i \in NodeId : Vips(i) \subseteq InUse

(* An assignment that fails half-way leaves no vip behind that nobody has: the pool *)
(* gets smaller by the nodes only (in the absence of deletions).                      *)
NoVipLost == InUse \subseteq UNION {Vips(i) : i \in NodeId}

(* A node keeps its vip, whatever copies of its row are written back. *)
VipStable == [][\A i \in NodeId : Exists(committed', i) => Vips(i) \subseteq Vips(i)']_vars

(* A request ends: nobody keeps the tenant's lock or waits in a circle. *)
RequestEnds == \A w \in Worker : ~ At(w, "idle") ~> At(w, "idle")

(* What checkUnique is for: no two nodes with one mac, which could not register. *)
MacUnique ==
    \A i, j \in NodeId : Exists(committed, i) /\ Exists(committed, j) /\ i # j =>
        committed[i].mac # committed[j].mac
=============================================================================
