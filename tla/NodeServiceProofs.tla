------------------------- MODULE NodeServiceProofs -------------------------
(***************************************************************************)
(* The rows and what the workers hold keep their types, with every kind of       *)
(* request and any number of workers.                                              *)
(*                                                                         *)
(* Vips stay exclusive and covered by the pool, for any number of event loops  *)
(* and administrators, nodes and addresses, as long as at most one               *)
(* administrator deletes and nobody edits the tenant (Restricted).                *)
(*                                                                         *)
(* What decides is the pool row of a vip: while a transaction owns it nobody else *)
(* can take the vip, and the row agrees with the node rows again when the           *)
(* transaction ends either way.                                                       *)
(***************************************************************************)
EXTENDS NodeService, TLAPS

(* The markers of absent rows are no rows, rows no workers. *)
LEMMA Markers ==
    /\ NodeId \cap PoolId = {} /\ Tenant \notin NodeId /\ Tenant \notin PoolId
    /\ NoRow # Gone /\ NoRow \notin Node /\ Gone \notin Node
    /\ NoRow \notin Pooled /\ Gone \notin Pooled /\ NoRow \notin NodeId /\ NoRow \notin PoolId
    /\ NoVip \notin Vip /\ Nobody \notin Worker /\ NoRow \notin Index
BY RowAssumption, VipAssumption, NobodyAssumption DEF Row

-----------------------------------------------------------------------------
(* The types, with every request. *)

(* What a worker has in its hand at each stage is what its next statement needs. *)
Handling == {"lock", "find", "check", "tenant", "insert", "reuse", "take", "index", "pool", "update", "save"}

Holding(j) ==
    /\ j.at \in Handling => j.row \in Node
    /\ j.at = "read" => j.id \in NodeId /\ committed[j.id] # NoRow
    /\ j.at = "take" => j.pool \in PoolId /\ committed[j.pool] \in Pooled
    /\ j.at = "pool" => j.idx \in Vip

(* Its next stage, and what it has in its hand then. *)
Takes(w, k) == job' = [job EXCEPT ![w] = k] /\ Holding(k) /\ (k.at = "lock" => w \in Loop)

(* Who owns pool rows is past the search; what is committed does not cease to be. *)
Past == {"update", "save", "groups", "unlock", "end", "delete"}

RowsStay ==
    /\ \A p \in PoolId : owner[p] = Nobody => db[p] = committed[p]
    /\ \A p \in PoolId, w \in Worker : owner[p] = w => job[w].at \in Past
    /\ \A p \in PoolId : committed[p] \in Pooled => db[p] \in Pooled
    /\ \A i \in NodeId : committed[i] # NoRow => db[i] # NoRow

HandsOK == \A w \in Worker : Holding(job[w]) /\ (job[w].at = "lock" => w \in Loop)

TInv == TypeOK /\ RowsStay /\ HandsOK

(* Rows that are there are of their table's type. *)
LEMMA RowTypes ==
    ASSUME TypeOK
    PROVE  /\ \A i \in NodeId : Exists(db, i) => db[i] \in Node
           /\ \A p \in PoolId : Exists(db, p) => db[p] \in Pooled
           /\ db[Tenant] \in Index
           /\ \A w \in Worker : job[w] \in Job
BY DEF TypeOK, Typed, Exists

(* The job of a worker that moves to another stage. *)
LEMMA Moved ==
    ASSUME TypeOK, NEW w \in Worker, NEW stage \in Stage, NEW k,
           k = [job[w] EXCEPT !.at = stage]
    PROVE  /\ k \in Job /\ k.at = stage /\ k.op = job[w].op /\ k.id = job[w].id
           /\ k.row = job[w].row /\ k.idx = job[w].idx /\ k.pool = job[w].pool
<1>1. job[w] \in Job
  BY RowTypes
<1> QED
  BY <1>1 DEF Job

(* The ways to the next stage: on, out with an exception, in. *)
LEMMA GoStep ==
    ASSUME TypeOK, NEW w \in Worker, NEW stage \in Stage, Go(w, stage),
           stage = "lock" => w \in Loop,
           stage \in Handling => job[w].row \in Node,
           stage \notin {"read", "take", "pool"}
    PROVE  \E k \in Job : Takes(w, k) /\ k.at = stage
<1> DEFINE k == [job[w] EXCEPT !.at = stage]
<1>1. job' = [job EXCEPT ![w] = k]
  BY DEF Go, TypeOK
<1>2. k \in Job /\ k.at = stage /\ k.row = job[w].row
  BY Moved
<1> HIDE DEF k
<1> QED
  BY <1>1, <1>2 DEF Holding, Takes

LEMMA FailStep ==
    ASSUME TypeOK, NEW w \in Worker, Fail(w)
    PROVE  \E k \in Job : Takes(w, k) /\ k.at \in Past
<1> DEFINE stage == IF job[w].op = "regist" THEN "unlock" ELSE "end"
           k == [job[w] EXCEPT !.at = stage, !.ok = FALSE]
<1>1. job' = [job EXCEPT ![w] = k]
  BY DEF Fail, TypeOK
<1>2. stage \in {"unlock", "end"} /\ job[w] \in Job
  BY RowTypes
<1>3. k \in Job /\ k.at = stage
  <2> HIDE DEF stage
  <2> QED
    BY <1>2 DEF Job, Stage
<1> HIDE DEF k, stage
<1> QED
  BY <1>1, <1>2, <1>3 DEF Holding, Handling, Takes, Past

LEMMA StartStep ==
    ASSUME TypeOK, NEW w \in Worker, Begin(w)
    PROVE  \E k \in Job : Takes(w, k)
<1>1. ASSUME NEW op \in {"regist", "add", "edit", "del", "tenant"},
             NEW stage \in Stage, NEW id \in NodeId \cup {NoRow}, NEW row \in Node \cup {NoRow},
             Start(w, op, stage, id, row), stage \notin {"take", "pool"},
             stage \in Handling => row \in Node,
             stage = "read" => id \in NodeId /\ committed[id] # NoRow,
             stage = "lock" => w \in Loop
      PROVE  \E k \in Job : Takes(w, k)
  <2> DEFINE k == Doing(stage, op, id, row)
  <2>1. k \in Job /\ k.at = stage /\ k.id = id /\ k.row = row
    BY CountAssumption DEF Doing, Job, Index
  <2>2. job' = [job EXCEPT ![w] = k]
    BY <1>1 DEF Start
  <2> HIDE DEF k
  <2> QED
    BY <1>1, <2>1, <2>2 DEF Holding, Takes
<1>2. \A m \in Mac, enable \in BOOLEAN : Asked(m, enable) \in Node
  BY DEF Asked, Node
<1>3. CASE Regist(w)
  BY <1>1, <1>2, <1>3 DEF Regist, Stage
<1>4. CASE Add(w)
  BY <1>1, <1>2, <1>4 DEF Add, Stage
<1>5. CASE Edit(w)
  BY <1>1, <1>2, <1>5 DEF Edit, Stage
<1>6. CASE Del(w)
  BY <1>1, <1>6 DEF Del, Stage, Handling
<1>7. CASE EditTenant(w)
  BY <1>1, <1>7 DEF EditTenant, Stage, Handling
<1> QED
  BY <1>3, <1>4, <1>5, <1>6, <1>7 DEF Begin

(* The vip goes into a row. *)
LEMMA AssignStep ==
    ASSUME TypeOK, NEW w \in Worker, NEW vip \in Vip, Assign(w, vip), job[w].row \in Node
    PROVE  \E k \in Job : Takes(w, k) /\ k.at \in Past
<1> DEFINE stage == IF job[w].op = "regist" THEN "update" ELSE "save"
           k == [job[w] EXCEPT !.row.vip = vip, !.at = stage]
<1>1. job' = [job EXCEPT ![w] = k]
  BY DEF Assign, TypeOK
<1>2. stage \in {"update", "save"} /\ job[w] \in Job
  BY RowTypes
<1>3. [job[w].row EXCEPT !.vip = vip] \in Node
  BY DEF Node
<1>4. k \in Job /\ k.at = stage /\ k.row \in Node
  <2> HIDE DEF stage
  <2> QED
    BY <1>2, <1>3 DEF Job, Stage
<1> HIDE DEF k, stage
<1> QED
  BY <1>1, <1>2, <1>4 DEF Holding, Takes, Past


(* One worker moves on, and the rows it owns, or commits, keep their types. *)
LEMMA StepKeeps ==
    ASSUME TInv, NEW w \in Worker, NEW k \in Job, Takes(w, k),
           Typed(db)', Typed(committed)', owner' \in [Row -> Worker \cup {Nobody}],
           lock' \in Loop \cup {Nobody}, requests' \in 0 .. MaxRequests,
           \A p \in PoolId : owner'[p] = w => k.at \in Past,
           \A p \in PoolId : owner'[p] \in {w, Nobody, owner[p]},
           \A p \in PoolId : owner'[p] = Nobody => db'[p] = committed'[p],
           \A p \in PoolId : committed'[p] \in Pooled => db'[p] \in Pooled,
           \A i \in NodeId : committed'[i] # NoRow => db'[i] # NoRow,
           \A p \in PoolId : committed[p] \in Pooled => committed'[p] \in Pooled,
           \A i \in NodeId : committed[i] # NoRow => committed'[i] # NoRow
    PROVE  TInv'
<1>1. job' = [job EXCEPT ![w] = k] /\ Holding(k) /\ (k.at = "lock" => w \in Loop)
  BY DEF Takes
<1>2. job \in [Worker -> Job]
  BY DEF TInv, TypeOK
<1>3. job' \in [Worker -> Job] /\ job'[w] = k /\ \A x \in Worker \ {w} : job'[x] = job[x]
  BY <1>1, <1>2
<1>4. TypeOK'
  BY <1>3 DEF TypeOK
<1>5. RowsStay'
  <2>1. ASSUME NEW p \in PoolId, NEW x \in Worker, owner'[p] = x
        PROVE  job'[x].at \in Past
    <3>1. CASE x = w
      BY <2>1, <3>1, <1>3
    <3>2. CASE x # w
      <4>1. owner[p] = x
        BY <2>1, <3>2, Markers
      <4> QED
        BY <4>1, <3>2, <1>3 DEF TInv, RowsStay
    <3> QED
      BY <3>1, <3>2
  <2> QED
    BY <2>1 DEF RowsStay
<1>6. ASSUME NEW j \in Job, Holding(j)
      PROVE  /\ j.at \in Handling => j.row \in Node
             /\ j.at = "read" => j.id \in NodeId /\ committed'[j.id] # NoRow
             /\ j.at = "take" => j.pool \in PoolId /\ committed'[j.pool] \in Pooled
             /\ j.at = "pool" => j.idx \in Vip
  BY <1>6 DEF Holding
<1>7. ASSUME NEW x \in Worker
      PROVE  Holding(job[x])' /\ (job'[x].at = "lock" => x \in Loop)
  <2>1. PICK j \in Job : j = job'[x]
    BY <1>3
  <2>2. Holding(j) /\ (j.at = "lock" => x \in Loop)
    BY <2>1, <1>1, <1>3 DEF TInv, HandsOK
  <2> QED
    BY <2>1, <2>2, <1>6 DEF Holding
<1> QED
  BY <1>4, <1>5, <1>7 DEF TInv, HandsOK

(* A statement that only reads leaves the rows to who has them. *)
LEMMA ReadKeeps ==
    ASSUME TInv, NEW w \in Worker, NEW k \in Job, Takes(w, k),
           UNCHANGED <<db, committed, owner>>,
           lock' \in Loop \cup {Nobody}, requests' \in 0 .. MaxRequests,
           job[w].at \in Past => k.at \in Past
    PROVE  TInv'
<1>1. /\ Typed(db)' /\ Typed(committed)' /\ owner' \in [Row -> Worker \cup {Nobody}]
      /\ RowsStay
  BY DEF TInv, TypeOK, Typed
<1>2. \A p \in PoolId : owner'[p] = w => k.at \in Past
  BY <1>1 DEF RowsStay
<1> QED
  BY <1>1, <1>2, StepKeeps DEF RowsStay

(* A statement of a transaction writes a row. *)
LEMMA RowWritten ==
    ASSUME TInv, NEW w \in Worker, NEW k \in Job, Takes(w, k),
           k.at \in Past \/ job[w].at \notin Past,
           NEW r \in Row, NEW value, Write(w, r, value),
           r \in NodeId => value \in Node \cup {Gone},
           r \in PoolId => value \in Pooled /\ k.at \in Past,
           r = Tenant => value \in Index,
           UNCHANGED <<committed, lock, requests>>
    PROVE  TInv'
<1>1. TypeOK /\ RowsStay
  BY DEF TInv
<1>2. /\ db' = [db EXCEPT ![r] = value] /\ owner' = [owner EXCEPT ![r] = w]
      /\ db = [x \in Row |-> db[x]] /\ owner \in [Row -> Worker \cup {Nobody}]
  BY <1>1 DEF Write, TypeOK, Typed
<1>3. \A x \in Row : /\ db'[x] = IF x = r THEN value ELSE db[x]
                     /\ owner'[x] = IF x = r THEN w ELSE owner[x]
  BY <1>2
<1>4. db' = [x \in Row |-> db'[x]] /\ owner' \in [Row -> Worker \cup {Nobody}]
  BY <1>2
<1>5. NodeId \subseteq Row /\ PoolId \subseteq Row /\ Tenant \in Row
  BY DEF Row
<1>6. /\ Typed(db)
      /\ Typed(committed)' /\ lock' \in Loop \cup {Nobody} /\ requests' \in 0 .. MaxRequests
  BY <1>1 DEF TypeOK, Typed
<1>7. Typed(db)'
  BY <1>3, <1>4, <1>5, <1>6 DEF Typed
<1>8. /\ \A p \in PoolId : owner'[p] = Nobody => db'[p] = committed'[p]
      /\ \A p \in PoolId : committed'[p] \in Pooled => db'[p] \in Pooled
      /\ \A i \in NodeId : committed'[i] # NoRow => db'[i] # NoRow
  BY <1>1, <1>3, <1>5, Markers DEF RowsStay
<1>9. \A p \in PoolId : owner'[p] \in {w, Nobody, owner[p]}
  BY <1>3, <1>5
<1>10. \A p \in PoolId : owner'[p] = w => k.at \in Past
  BY <1>1, <1>3, <1>5 DEF RowsStay
<1> QED
  BY <1>4, <1>6, <1>7, <1>8, <1>9, <1>10, StepKeeps

(* The statements that only read: a registration, the search, the administration. *)
LEMMA RegistReads ==
    ASSUME TInv, NEW w \in Worker,
           Lock(w) \/ FindNone(w) \/ FindOne(w) \/ FindSeveral(w) \/ ReadTenant(w)
             \/ Groups(w) \/ Unlock(w) \/ LockTimeout(w)
    PROVE  TInv'
<1> TypeOK /\ HandsOK /\ Holding(job[w]) /\ job[w] \in Job
  BY RowTypes DEF TInv, HandsOK
<1>1. /\ lock \in Loop \cup {Nobody} /\ requests \in 0 .. MaxRequests
      /\ Reads => UNCHANGED <<db, committed, owner>> /\ lock' = lock /\ requests' = requests
  BY DEF TypeOK, Reads
<1>2. ASSUME Fail(w), Reads
      PROVE  TInv'
  BY <1>1, <1>2, FailStep, ReadKeeps
<1>3. CASE Lock(w)
  <2>1. At(w, "lock") /\ w \in Loop /\ Go(w, "find") /\ lock' = w
        /\ UNCHANGED <<db, committed, owner, requests>>
    BY <1>3 DEF Lock, At, HandsOK
  <2>2. PICK k \in Job : Takes(w, k) /\ k.at = "find"
    BY <2>1, GoStep DEF Holding, At, Stage, Handling
  <2> QED
    BY <1>1, <2>1, <2>2, ReadKeeps DEF At, Past
<1>4. CASE FindNone(w)
  <2>1. At(w, "find") /\ Go(w, "tenant") /\ Reads
    BY <1>4 DEF FindNone
  <2>2. PICK k \in Job : Takes(w, k) /\ k.at = "tenant"
    BY <2>1, GoStep DEF Holding, At, Stage, Handling
  <2> QED
    BY <1>1, <2>1, <2>2, ReadKeeps DEF At, Past
<1>5. CASE FindOne(w)
  <2>1. PICK i \in NodeId :
          /\ WithMac(job[w].row.mac) = {i}
          /\ job' = [job EXCEPT ![w].id = i, ![w].row = db[i],
                                ![w].at = IF db[i].vip = NoVip THEN "tenant" ELSE "update"]
    BY <1>5 DEF FindOne
  <2>2. Reads /\ job[w].at = "find"
    BY <1>5 DEF FindOne, At
  <2>3. i \in NodeId /\ db[i] \in Node
    <3>1. i \in WithMac(job[w].row.mac)
      BY <2>1
    <3> QED
      BY <3>1, RowTypes DEF WithMac
  <2> DEFINE stage == IF db[i].vip = NoVip THEN "tenant" ELSE "update"
             k == [job[w] EXCEPT !.id = i, !.row = db[i], !.at = stage]
  <2>4. job' = [job EXCEPT ![w] = k]
    BY <2>1 DEF TypeOK
  <2>5. stage \in {"tenant", "update"}
    OBVIOUS
  <2>6. k \in Job /\ k.at = stage /\ k.row \in Node
    <3> HIDE DEF stage
    <3> QED
      BY <2>3, <2>5 DEF Job, Stage
  <2> HIDE DEF k, stage
  <2>7. Takes(w, k)
    BY <2>4, <2>5, <2>6 DEF Takes, Holding
  <2> QED
    BY <1>1, <2>2, <2>6, <2>7, ReadKeeps DEF Past
<1>6. CASE FindSeveral(w)
  BY <1>2, <1>6 DEF FindSeveral
<1>7. CASE ReadTenant(w)
  <2>1. At(w, "tenant") /\ Reads
    BY <1>7 DEF ReadTenant
  <2>2. CASE Fail(w)
    BY <1>2, <2>1, <2>2
  <2>3. CASE ~ Fail(w)
    <3> DEFINE stage == IF job[w].op = "regist" /\ job[w].id = NoRow THEN "insert" ELSE "reuse"
               k == [job[w] EXCEPT !.idx = db[Tenant], !.at = stage]
    <3>1. job' = [job EXCEPT ![w] = k]
      BY <1>7, <2>3 DEF ReadTenant, TypeOK
    <3>2. stage \in {"insert", "reuse"} /\ db[Tenant] \in Index
      BY RowTypes
    <3>3. job[w].row \in Node
      BY <2>1 DEF At, Holding, Handling
    <3>4. k \in Job /\ k.at = stage /\ k.row = job[w].row
      <4> HIDE DEF stage
      <4> QED
        BY <3>2 DEF Job, Stage
    <3> HIDE DEF k, stage
    <3>5. Takes(w, k)
      BY <3>1, <3>2, <3>3, <3>4 DEF Takes, Holding
    <3> QED
      BY <1>1, <2>1, <3>4, <3>5, ReadKeeps DEF Past, At
  <2> QED
    BY <2>2, <2>3
<1>8. CASE Groups(w)
  <2>1. Reads
    BY <1>8 DEF Groups
  <2>2. CASE Fail(w)
    BY <1>2, <2>1, <2>2
  <2>3. CASE ~ Fail(w)
    <3>1. PICK stage \in {"unlock", "delete", "end"} : Go(w, stage)
      BY <1>8, <2>3 DEF Groups
    <3>2. PICK k \in Job : Takes(w, k) /\ k.at = stage
      BY <3>1, GoStep DEF Stage, Handling
    <3> QED
      BY <1>1, <2>1, <3>2, ReadKeeps DEF Past
  <2> QED
    BY <2>2, <2>3
<1>9. CASE Unlock(w)
  <2>1. Go(w, "end") /\ lock' = Nobody /\ UNCHANGED <<db, committed, owner, requests>>
    BY <1>9 DEF Unlock
  <2>2. PICK k \in Job : Takes(w, k) /\ k.at = "end"
    BY <2>1, GoStep DEF Stage, Handling
  <2> QED
    BY <1>1, <2>1, <2>2, ReadKeeps DEF Past
<1>10. CASE LockTimeout(w)
  BY <1>2, <1>10 DEF LockTimeout
<1> QED
  BY <1>3, <1>4, <1>5, <1>6, <1>7, <1>8, <1>9, <1>10

LEMMA SearchReads ==
    ASSUME TInv, NEW w \in Worker,
           ReuseIp(w) \/ ReuseNone(w) \/ TakeMissed(w) \/ SelectIdxMissed(w)
             \/ CheckUnique(w) \/ Used(w) \/ Read(w) \/ EditTenantRead(w)
    PROVE  TInv'
<1> TypeOK /\ HandsOK /\ RowsStay /\ Holding(job[w]) /\ job[w] \in Job
  BY RowTypes DEF TInv, HandsOK
<1>1. /\ lock \in Loop \cup {Nobody} /\ requests \in 0 .. MaxRequests
      /\ Reads => UNCHANGED <<db, committed, owner>> /\ lock' = lock /\ requests' = requests
  BY DEF TypeOK, Reads
<1>2. ASSUME Fail(w), Reads
      PROVE  TInv'
  BY <1>1, <1>2, FailStep, ReadKeeps
<1>3. CASE ReuseIp(w)
  <2>1. Reads /\ job[w].at = "reuse" /\ job[w].row \in Node
    BY <1>3 DEF ReuseIp, At, Holding, Handling
  <2>2. PICK p \in PoolId :
          /\ ~ OthersRow(w, p) /\ Exists(db, p) /\ ~ db[p].used
          /\ job' = [job EXCEPT ![w].pool = p, ![w].at = "take"]
    BY <1>3 DEF ReuseIp
  <2>3. owner[p] = Nobody
    BY <2>1, <2>2 DEF OthersRow, RowsStay, Past
  <2>4. p \in PoolId /\ committed[p] \in Pooled
    BY <2>2, <2>3, RowTypes DEF RowsStay
  <2> DEFINE k == [job[w] EXCEPT !.pool = p, !.at = "take"]
  <2>5. job' = [job EXCEPT ![w] = k]
    BY <2>2 DEF TypeOK
  <2>6. k \in Job /\ k.at = "take" /\ k.row = job[w].row /\ k.pool = p
    BY <2>4 DEF Job, Stage
  <2> HIDE DEF k
  <2>7. Takes(w, k)
    BY <2>1, <2>4, <2>5, <2>6 DEF Takes, Holding
  <2> QED
    BY <1>1, <2>1, <2>6, <2>7, ReadKeeps DEF Past
<1>4. CASE ReuseNone(w)
  <2>1. Reads /\ At(w, "reuse")
    BY <1>4 DEF ReuseNone
  <2>2. CASE Fail(w)
    BY <1>2, <2>1, <2>2
  <2>3. CASE ~ Fail(w)
    <3>1. Go(w, "index")
      BY <1>4, <2>3 DEF ReuseNone
    <3>2. PICK k \in Job : Takes(w, k) /\ k.at = "index"
      BY <2>1, <3>1, GoStep DEF Holding, At, Stage, Handling
    <3> QED
      BY <1>1, <2>1, <3>2, ReadKeeps DEF At, Past
  <2> QED
    BY <2>2, <2>3
<1>5. CASE TakeMissed(w)
  <2>1. Reads /\ At(w, "take") /\ Go(w, "reuse")
    BY <1>5 DEF TakeMissed
  <2>2. PICK k \in Job : Takes(w, k) /\ k.at = "reuse"
    BY <2>1, GoStep DEF Holding, At, Stage, Handling
  <2> QED
    BY <1>1, <2>1, <2>2, ReadKeeps DEF At, Past
<1>6. CASE SelectIdxMissed(w)
  <2>1. Reads /\ job[w].at = "index" /\ job[w].row \in Node
    BY <1>6 DEF SelectIdxMissed, At, Holding, Handling
  <2> DEFINE idx == IF job[w].idx < MaxIndex THEN job[w].idx + 1 ELSE job[w].idx
             k == [job[w] EXCEPT !.idx = idx]
  <2>2. job' = [job EXCEPT ![w] = k]
    BY <1>6 DEF SelectIdxMissed, TypeOK
  <2>3. idx \in Index
    BY CountAssumption DEF Job, Index
  <2>4. k \in Job /\ k.at = "index" /\ k.row = job[w].row
    <3> HIDE DEF idx
    <3> QED
      BY <2>1, <2>3 DEF Job
  <2> HIDE DEF k, idx
  <2>5. Takes(w, k)
    BY <2>1, <2>2, <2>4 DEF Takes, Holding
  <2> QED
    BY <1>1, <2>1, <2>4, <2>5, ReadKeeps DEF Past
<1>7. CASE CheckUnique(w)
  <2>1. Reads /\ At(w, "check")
    BY <1>7 DEF CheckUnique
  <2>2. CASE Fail(w)
    BY <1>2, <2>1, <2>2
  <2>3. CASE ~ Fail(w)
    <3>1. PICK stage \in {"tenant", "update"} : Go(w, stage)
      BY <1>7, <2>3 DEF CheckUnique
    <3>2. PICK k \in Job : Takes(w, k) /\ k.at = stage
      BY <2>1, <3>1, GoStep DEF Holding, At, Stage, Handling
    <3> QED
      BY <1>1, <2>1, <3>2, ReadKeeps DEF At, Past
  <2> QED
    BY <2>2, <2>3
<1>8. CASE Used(w)
  BY <1>2, <1>8 DEF Used
<1>9. CASE Read(w)
  <2>1. Reads /\ job[w].at = "read"
    BY <1>9 DEF Read, At
  <2>2. CASE Fail(w)
    BY <1>2, <2>1, <2>2
  <2>3. CASE ~ Fail(w)
    <3> DEFINE row == db[job[w].id]
               stage == IF row.vip = NoVip THEN "groups" ELSE "free"
               k == [job[w] EXCEPT !.row = row, !.at = stage]
    <3>1. job' = [job EXCEPT ![w] = k] /\ row # Gone
      BY <1>9, <2>3 DEF Read, TypeOK
    <3>2. row \in Node
      <4>1. job[w].id \in NodeId /\ row # NoRow
        BY <2>1 DEF Holding, RowsStay
      <4> QED
        BY <3>1, <4>1, RowTypes DEF Exists
    <3>3. stage \in {"groups", "free"}
      OBVIOUS
    <3>4. k \in Job /\ k.at = stage
      <4> HIDE DEF stage, row
      <4> QED
        BY <3>2, <3>3 DEF Job, Stage
    <3> HIDE DEF k, stage
    <3>5. Takes(w, k)
      BY <3>1, <3>3, <3>4 DEF Takes, Holding, Handling
    <3> QED
      BY <1>1, <2>1, <3>4, <3>5, ReadKeeps DEF Past
  <2> QED
    BY <2>2, <2>3
<1>10. CASE EditTenantRead(w)
  <2>1. Reads /\ job[w].at = "readTenant"
    BY <1>10 DEF EditTenantRead, At
  <2> DEFINE k == [job[w] EXCEPT !.idx = db[Tenant], !.at = "writeTenant"]
  <2>2. job' = [job EXCEPT ![w] = k]
    BY <1>10 DEF EditTenantRead, TypeOK
  <2>3. k \in Job /\ k.at = "writeTenant"
    BY RowTypes DEF Job, Stage
  <2> HIDE DEF k
  <2>4. Takes(w, k)
    BY <2>2, <2>3 DEF Takes, Holding, Handling
  <2> QED
    BY <1>1, <2>1, <2>3, <2>4, ReadKeeps DEF Past
<1> QED
  BY <1>3, <1>4, <1>5, <1>6, <1>7, <1>8, <1>9, <1>10

(* A node row is written, if it is there. *)
LEMMA UpdateType ==
    ASSUME TInv, NEW w \in Worker, Update(w) \/ Delete(w)
    PROVE  TInv'
<1> TypeOK /\ RowsStay /\ HandsOK /\ Holding(job[w]) /\ job[w] \in Job
  BY RowTypes DEF TInv, HandsOK
<1> DEFINE i == job[w].id
<1>1. /\ lock \in Loop \cup {Nobody} /\ requests \in 0 .. MaxRequests
      /\ UNCHANGED <<committed, lock, requests>>
  BY DEF TypeOK, Update, Delete, Writes
<1>2. PICK k \in Job : Takes(w, k) /\ k.at \in Past
  <2>1. CASE Fail(w)
    BY <2>1, FailStep
  <2>2. CASE ~ Fail(w)
    <3>1. PICK stage \in {"groups", "end"} : Go(w, stage)
      BY <2>2 DEF Update, Delete
    <3> QED
      BY <3>1, GoStep DEF Stage, Handling, Past
  <2> QED
    BY <2>1, <2>2
<1>3. CASE UNCHANGED <<db, owner>>
  BY <1>1, <1>2, <1>3, ReadKeeps
<1>4. CASE ~ UNCHANGED <<db, owner>>
  <2>1. PICK value \in Node \cup {Gone} : Write(w, i, value)
    <3>1. CASE Update(w)
      <4>1. Exists(db, i) /\ Write(w, i, Merge(db[i], job[w].row)) /\ job[w].at = "update"
        BY <1>4, <3>1 DEF Update, At
      <4>2. job[w].row \in Node
        BY <4>1 DEF Holding, Handling
      <4>3. CASE i \in NodeId
        <5>1. db[i] \in Node
          BY <4>1, <4>3, RowTypes
        <5> QED
          BY <4>1, <4>2, <5>1 DEF Merge, Node
      <4>4. CASE i \notin NodeId
        <5>1. i \notin Row
          BY <4>4, RowAssumption DEF Job
        <5>2. UNCHANGED <<db, owner>>
          BY <4>1, <5>1 DEF Write, TypeOK, Typed
        <5> QED
          BY <1>4, <5>2
      <4> QED
        BY <4>3, <4>4
    <3>2. CASE Delete(w)
      BY <1>4, <3>2 DEF Delete
    <3> QED
      BY <3>1, <3>2
  <2>2. i \in NodeId
    <3>1. CASE i \notin Row
      BY <1>4, <2>1, <3>1 DEF Write, TypeOK, Typed
    <3>2. CASE i \in Row
      BY <3>2, RowAssumption DEF Job
    <3> QED
      BY <3>1, <3>2
  <2>3. i \in Row /\ i \notin PoolId /\ i # Tenant
    BY <2>2, Markers DEF Row
  <2> HIDE DEF i
  <2> QED
    BY <1>1, <1>2, <2>1, <2>3, RowWritten
<1> QED
  BY <1>3, <1>4

(* The statements that write one row: the search, save, the tenant. *)
LEMMA SearchWrites ==
    ASSUME TInv, NEW w \in Worker,
           Take(w) \/ SelectIdx(w) \/ PoolInsert(w) \/ Save(w) \/ EditTenantWrite(w)
    PROVE  TInv'
<1> TypeOK /\ RowsStay /\ HandsOK /\ Holding(job[w]) /\ job[w] \in Job
  BY RowTypes DEF TInv, HandsOK
<1>1. Writes => UNCHANGED <<committed, lock, requests>>
  BY DEF Writes
<1>2. ASSUME NEW table, Fresh(table) # {}
      PROVE  NewRow(table) \in table /\ db[NewRow(table)] = NoRow
  BY <1>2 DEF Fresh, NewRow
<1>3. CASE Take(w)
  <2>1. Writes /\ job[w].at = "take" /\ job[w].row \in Node /\ job[w].pool \in PoolId
    BY <1>3 DEF Take, At, Holding, Handling
  <2>2. PICK p \in PoolId : p = job[w].pool
    BY <2>1
  <2>3. db[p] \in Pooled
    BY <2>1, <2>2 DEF Holding, RowsStay
  <2>4. Write(w, p, [db[p] EXCEPT !.used = TRUE]) /\ Assign(w, db[p].vip)
    BY <1>3, <2>2 DEF Take
  <2>5. [db[p] EXCEPT !.used = TRUE] \in Pooled /\ db[p].vip \in Vip
    BY <2>3 DEF Pooled
  <2>6. PICK k \in Job : Takes(w, k) /\ k.at \in Past
    BY <2>1, <2>4, <2>5, AssignStep
  <2>7. p \in Row /\ p \notin NodeId /\ p # Tenant
    BY Markers DEF Row
  <2> QED
    BY <1>1, <2>1, <2>4, <2>5, <2>6, <2>7, RowWritten
<1>4. CASE SelectIdx(w)
  <2> DEFINE next == job[w].idx + 1
             stage == IF Available(next) THEN "pool" ELSE "index"
             k == [job[w] EXCEPT !.idx = next, !.at = stage]
  <2>1. Writes /\ job[w].at = "index" /\ job[w].row \in Node
    BY <1>4 DEF SelectIdx, At, Holding, Handling
  <2>2. next \in Vip /\ next \in Index
    BY <1>4, CountAssumption DEF SelectIdx, Job, Index, Vip
  <2>3. Write(w, Tenant, next) /\ job' = [job EXCEPT ![w] = k]
    BY <1>4 DEF SelectIdx, TypeOK
  <2>4. stage \in {"pool", "index"}
    OBVIOUS
  <2>5. k \in Job /\ k.at = stage /\ k.row = job[w].row /\ k.idx = next
    <3> HIDE DEF next, stage
    <3> QED
      BY <2>2, <2>4 DEF Job, Stage
  <2> HIDE DEF k, next, stage
  <2>6. Takes(w, k)
    BY <2>1, <2>2, <2>3, <2>4, <2>5 DEF Takes, Holding
  <2>7. Tenant \in Row /\ Tenant \notin NodeId /\ Tenant \notin PoolId
    BY Markers DEF Row
  <2>8. job[w].at \notin Past
    BY <2>1 DEF Past
  <2> QED
    BY <1>1, <2>1, <2>2, <2>3, <2>5, <2>6, <2>7, <2>8, RowWritten
<1>5. CASE PoolInsert(w)
  <2>1. Writes /\ job[w].at = "pool" /\ job[w].row \in Node /\ job[w].idx \in Vip
    BY <1>5 DEF PoolInsert, At, Holding, Handling
  <2>2. PICK p \in PoolId : p = NewRow(PoolId)
    BY <1>2, <1>5 DEF PoolInsert
  <2>3. Write(w, p, [vip |-> job[w].idx, used |-> TRUE]) /\ Assign(w, job[w].idx)
    BY <1>5, <2>2 DEF PoolInsert
  <2>4. [vip |-> job[w].idx, used |-> TRUE] \in Pooled
    BY <2>1 DEF Pooled
  <2>5. PICK k \in Job : Takes(w, k) /\ k.at \in Past
    BY <2>1, <2>3, AssignStep
  <2>6. p \in Row /\ p \notin NodeId /\ p # Tenant
    BY Markers DEF Row
  <2> QED
    BY <1>1, <2>1, <2>3, <2>4, <2>5, <2>6, RowWritten
<1>6. CASE Save(w)
  <2>1. Writes /\ job[w].at = "save" /\ job[w].row \in Node
    BY <1>6 DEF Save, At, Holding, Handling
  <2>2. PICK i \in NodeId : i = NewRow(NodeId)
    BY <1>2, <1>6 DEF Save
  <2>3. Write(w, i, job[w].row)
    BY <1>6, <2>2 DEF Save
  <2> DEFINE k == [job[w] EXCEPT !.id = i, !.at = "groups"]
  <2>4. job' = [job EXCEPT ![w] = k]
    BY <1>6, <2>2 DEF Save, TypeOK
  <2>5. k \in Job /\ k.at = "groups"
    BY DEF Job, Stage
  <2> HIDE DEF k
  <2>6. Takes(w, k) /\ k.at \in Past
    BY <2>4, <2>5 DEF Takes, Holding, Handling, Past
  <2>7. i \in Row /\ i \notin PoolId /\ i # Tenant
    BY Markers DEF Row
  <2> QED
    BY <1>1, <2>1, <2>3, <2>6, <2>5, <2>7, RowWritten
<1>7. CASE EditTenantWrite(w)
  <2>1. Writes /\ Write(w, Tenant, job[w].idx) /\ Go(w, "end") /\ job[w].idx \in Index
    BY <1>7 DEF EditTenantWrite, Job
  <2>2. PICK k \in Job : Takes(w, k) /\ k.at = "end"
    BY <2>1, GoStep DEF Stage, Handling
  <2>3. Tenant \in Row /\ Tenant \notin NodeId /\ Tenant \notin PoolId
    BY Markers DEF Row
  <2>4. k.at \in Past
    BY <2>2 DEF Past
  <2> QED
    BY <1>1, <2>1, <2>2, <2>3, <2>4, RowWritten
<1> QED
  BY <1>3, <1>4, <1>5, <1>6, <1>7

(* The pool rows of a vip are written. *)
LEMMA FreeType ==
    ASSUME TInv, NEW w \in Worker, Free(w)
    PROVE  TInv'
<1> TypeOK /\ RowsStay /\ HandsOK /\ Typed(db)
  BY DEF TInv, TypeOK
<1>1. PICK freed \in SUBSET PoolId :
        /\ \A p \in freed : Exists(db, p)
        /\ db' = [r \in Row |-> IF r \in freed THEN [db[r] EXCEPT !.used = FALSE] ELSE db[r]]
        /\ owner' = [r \in Row |-> IF r \in freed THEN w ELSE owner[r]]
  <2> DEFINE freed == {p \in PoolId : Exists(db, p) /\ db[p].vip = job[w].row.vip}
  <2> QED
    BY DEF Free
<1>2. Go(w, "groups") /\ UNCHANGED <<committed, lock, requests>>
  BY DEF Free, Writes
<1>3. PICK k \in Job : Takes(w, k) /\ k.at = "groups"
  BY <1>2, GoStep DEF Stage, Handling
<1>4. NodeId \subseteq Row /\ PoolId \subseteq Row /\ Tenant \in Row
  BY DEF Row
<1>5. \A r \in Row : /\ db'[r] = IF r \in freed THEN [db[r] EXCEPT !.used = FALSE] ELSE db[r]
                     /\ owner'[r] = IF r \in freed THEN w ELSE owner[r]
  BY <1>1
<1>6. \A p \in freed : db'[p] \in Pooled
  <2>1. \A p \in freed : db[p] \in Pooled
    BY <1>1, RowTypes
  <2> QED
    BY <1>4, <1>5, <2>1 DEF Pooled
<1>7. db' = [r \in Row |-> db'[r]] /\ owner' \in [Row -> Worker \cup {Nobody}]
  BY <1>1 DEF TypeOK
<1>8. \A r \in Row \ PoolId : db'[r] = db[r]
  BY <1>5
<1>9. Typed(db)'
  BY <1>4, <1>5, <1>6, <1>7, <1>8, Markers DEF Typed
<1>10. /\ Typed(committed)' /\ lock' \in Loop \cup {Nobody} /\ requests' \in 0 .. MaxRequests
  BY <1>2 DEF TypeOK, Typed
<1>11. k.at \in Past
  BY <1>3 DEF Past
<1>12. /\ \A p \in PoolId : owner'[p] = Nobody => db'[p] = committed'[p]
       /\ \A p \in PoolId : committed'[p] \in Pooled => db'[p] \in Pooled
       /\ \A i \in NodeId : committed'[i] # NoRow => db'[i] # NoRow
  BY <1>2, <1>4, <1>5, <1>6, Markers DEF RowsStay
<1>13. \A p \in PoolId : owner'[p] \in {w, Nobody, owner[p]}
  BY <1>4, <1>5
<1> QED
  BY <1>2, <1>3, <1>7, <1>9, <1>10, <1>11, <1>12, <1>13, StepKeeps

(* A row that is committed at once. *)
LEMMA InsertType ==
    ASSUME TInv, NEW w \in Worker, Insert(w)
    PROVE  TInv'
<1> TypeOK /\ RowsStay /\ HandsOK /\ Holding(job[w]) /\ job[w] \in Job
  BY RowTypes DEF TInv, HandsOK
<1> DEFINE row == [job[w].row EXCEPT !.enable = ~ NodeGrant]
<1>1. PICK i \in NodeId : i = NewRow(NodeId)
  BY DEF Insert, Fresh, NewRow
<1>2. /\ db' = [db EXCEPT ![i] = row] /\ committed' = [committed EXCEPT ![i] = row]
      /\ UNCHANGED <<owner, lock, requests>> /\ job[w].at = "insert"
  BY <1>1 DEF Insert, At
<1>3. row \in Node
  <2>1. job[w].row \in Node
    BY <1>2 DEF Holding, Handling
  <2> QED
    BY <2>1, GrantAssumption DEF Node
<1>4. PICK k \in Job : Takes(w, k)
  <2>1. CASE NodeGrant
    BY <2>1, FailStep DEF Insert
  <2>2. CASE ~ NodeGrant
    <3> DEFINE k == [job[w] EXCEPT !.id = i, !.row = row, !.at = "reuse"]
    <3>1. job' = [job EXCEPT ![w] = k]
      BY <1>1, <2>2 DEF Insert, TypeOK
    <3>2. k \in Job /\ k.at = "reuse" /\ k.row = row
      <4> HIDE DEF row
      <4> QED
        BY <1>3 DEF Job, Stage
    <3> HIDE DEF k, row
    <3>3. Takes(w, k)
      BY <1>3, <3>1, <3>2 DEF Takes, Holding
    <3> QED
      BY <3>2, <3>3
  <2> QED
    BY <2>1, <2>2
<1> HIDE DEF row
<1>5. NodeId \subseteq Row /\ PoolId \subseteq Row /\ Tenant \in Row /\ i \notin PoolId /\ i # Tenant
  BY Markers DEF Row
<1>6. /\ Typed(db) /\ Typed(committed) /\ owner' \in [Row -> Worker \cup {Nobody}]
      /\ lock' \in Loop \cup {Nobody} /\ requests' \in 0 .. MaxRequests
  BY <1>2 DEF TypeOK
<1>7. \A r \in Row : /\ db'[r] = IF r = i THEN row ELSE db[r]
                     /\ committed'[r] = IF r = i THEN row ELSE committed[r]
  BY <1>2, <1>6 DEF Typed
<1>8. db' = [r \in Row |-> db'[r]] /\ committed' = [r \in Row |-> committed'[r]]
  BY <1>2, <1>6 DEF Typed
<1>9. Typed(db)'
  BY <1>3, <1>5, <1>6, <1>7, <1>8 DEF Typed
<1>10. Typed(committed)'
  BY <1>3, <1>5, <1>6, <1>7, <1>8 DEF Typed
<1>11. \A p \in PoolId : owner'[p] # w
  BY <1>2 DEF RowsStay, Past
<1>12. /\ \A p \in PoolId : owner'[p] = Nobody => db'[p] = committed'[p]
       /\ \A p \in PoolId : committed'[p] \in Pooled => db'[p] \in Pooled
       /\ \A j \in NodeId : committed'[j] # NoRow => db'[j] # NoRow
       /\ \A p \in PoolId : committed[p] \in Pooled => committed'[p] \in Pooled
       /\ \A j \in NodeId : committed[j] # NoRow => committed'[j] # NoRow
       /\ \A p \in PoolId : owner'[p] \in {w, Nobody, owner[p]}
  BY <1>2, <1>3, <1>5, <1>7, Markers DEF RowsStay
<1> QED
  BY <1>4, <1>6, <1>9, <1>10, <1>11, <1>12, StepKeeps

(* Commit or rollback: rows of the pool that nobody owns are what is committed. *)
LEMMA EndType ==
    ASSUME TInv, NEW w \in Worker, End(w)
    PROVE  TInv'
<1> TypeOK /\ RowsStay /\ HandsOK
  BY DEF TInv
<1>1. PICK keep \in BOOLEAN : keep = job[w].ok
  BY RowTypes DEF Job
<1>2. /\ db' = [r \in Row |-> IF owner[r] = w /\ ~ keep THEN committed[r] ELSE db[r]]
      /\ committed' = [r \in Row |-> IF owner[r] = w /\ keep THEN db[r] ELSE committed[r]]
      /\ owner' = [r \in Row |-> IF owner[r] = w THEN Nobody ELSE owner[r]]
      /\ job' = [job EXCEPT ![w] = Idle] /\ UNCHANGED <<lock, requests>>
  BY <1>1 DEF End
<1>3. PICK k \in Job : k = Idle
  <2>1. Idle \in Job
    BY CountAssumption DEF Idle, Doing, Job, Stage, Index
  <2> QED
    BY <2>1
<1>4. k.at = "idle"
  BY <1>3 DEF Idle, Doing
<1>5. Takes(w, k)
  BY <1>2, <1>3, <1>4 DEF Takes, Holding, Handling
<1>6. NodeId \subseteq Row /\ PoolId \subseteq Row /\ Tenant \in Row
  BY DEF Row
<1>7. /\ Typed(db) /\ Typed(committed) /\ owner \in [Row -> Worker \cup {Nobody}]
      /\ lock' \in Loop \cup {Nobody} /\ requests' \in 0 .. MaxRequests
  BY <1>2 DEF TypeOK
<1>8. \A r \in Row :
        /\ db'[r] = IF owner[r] = w /\ ~ keep THEN committed[r] ELSE db[r]
        /\ committed'[r] = IF owner[r] = w /\ keep THEN db[r] ELSE committed[r]
        /\ owner'[r] = IF owner[r] = w THEN Nobody ELSE owner[r]
  BY <1>2
<1>9. /\ db' = [r \in Row |-> db'[r]] /\ committed' = [r \in Row |-> committed'[r]]
      /\ owner' \in [Row -> Worker \cup {Nobody}]
  BY <1>2, <1>7
<1>10. Typed(db)' /\ Typed(committed)'
  BY <1>6, <1>7, <1>8, <1>9 DEF Typed
<1>11. \A p \in PoolId : owner'[p] # w
  BY <1>6, <1>8, Markers
<1>12. \A p \in PoolId : owner'[p] \in {w, Nobody, owner[p]}
  BY <1>6, <1>8
<1>13. \A p \in PoolId : owner'[p] = Nobody => db'[p] = committed'[p]
  BY <1>6, <1>8 DEF RowsStay
<1>14. /\ \A p \in PoolId : committed'[p] \in Pooled => db'[p] \in Pooled
       /\ \A p \in PoolId : committed[p] \in Pooled => committed'[p] \in Pooled
  BY <1>6, <1>8 DEF RowsStay
<1>15. /\ \A j \in NodeId : committed'[j] # NoRow => db'[j] # NoRow
       /\ \A j \in NodeId : committed[j] # NoRow => committed'[j] # NoRow
  BY <1>6, <1>8 DEF RowsStay
<1> QED
  BY <1>5, <1>7, <1>9, <1>10, <1>11, <1>12, <1>13, <1>14, <1>15, StepKeeps

(* Together. *)
LEMMA TInvInit == ASSUME Init PROVE TInv
<1>1. NodeId \subseteq Row /\ PoolId \subseteq Row /\ Tenant \in Row /\ -1 \in Index
  BY CountAssumption DEF Row, Index
<1>2. Idle \in Job /\ Idle.at = "idle"
  BY CountAssumption DEF Idle, Doing, Job, Stage, Index
<1>3. Typed(db) /\ committed = db
  BY <1>1, Markers DEF Init, Typed
<1>4. Typed(committed)
  BY <1>3
<1>5. TypeOK
  BY <1>2, <1>3, <1>4, BoundAssumption DEF TypeOK, Init
<1>6. RowsStay
  BY <1>1, <1>3, Markers DEF RowsStay, Init
<1>7. HandsOK
  BY <1>2 DEF HandsOK, Init, Holding, Handling
<1> QED
  BY <1>5, <1>6, <1>7 DEF TInv

LEMMA TInvNext == ASSUME TInv, [Next]_vars PROVE TInv'
<1>1. CASE UNCHANGED vars
  <2>1. UNCHANGED <<db, committed, owner, lock, job, requests>>
    BY <1>1 DEF vars
  <2>2. TypeOK' = TypeOK
    BY <2>1 DEF TypeOK, Typed
  <2>3. RowsStay' = RowsStay
    BY <2>1 DEF RowsStay
  <2>4. HandsOK' = HandsOK
    BY <2>1 DEF HandsOK, Holding
  <2> QED
    BY <2>2, <2>3, <2>4 DEF TInv
<1>2. CASE Finished
  BY <1>1, <1>2 DEF Finished
<1>3. ASSUME NEW w \in Worker, Begin(w)
      PROVE  TInv'
  <2>1. PICK k \in Job : Takes(w, k)
    BY <1>3, StartStep DEF TInv
  <2>2. job[w].at = "idle" /\ requests < MaxRequests /\ requests' = requests + 1
        /\ UNCHANGED <<db, committed, owner, lock>>
    BY <1>3 DEF Begin, Regist, Add, Edit, Del, EditTenant, Start, At
  <2>3. lock' \in Loop \cup {Nobody} /\ requests' \in 0 .. MaxRequests
    BY <2>2, BoundAssumption DEF TInv, TypeOK
  <2> QED
    BY <2>1, <2>2, <2>3, ReadKeeps DEF Past
<1>4. ASSUME NEW w \in Worker, Run(w)
      PROVE  TInv'
  BY <1>4, RegistReads, SearchReads, UpdateType, SearchWrites, FreeType, InsertType, EndType DEF Run
<1> QED
  BY <1>1, <1>2, <1>3, <1>4 DEF Next

(* Rows, locks and what the workers have in their hands are of their types: with any number *)
(* of administrators, with deletions and edits of the tenant.                                    *)
THEOREM TypeCorrect == Spec => []TypeOK
<1>1. Init => TInv
  BY TInvInit
<1>2. TInv /\ [Next]_vars => TInv'
  BY TInvNext
<1>3. TInv => TypeOK
  BY DEF TInv
<1> QED
  BY <1>1, <1>2, <1>3, PTL DEF Spec
-----------------------------------------------------------------------------
(* What the vips need: without it two deletions free a vip twice, and a tenant that is *)
(* written back sets the address index back.                                              *)
Restricted ==
    /\ "tenant" \notin Request
    /\ "del" \in Request => \A x, y \in Admin : x = y
-----------------------------------------------------------------------------
(* The rows. *)

(* Rows without a lock are what was committed; nothing committed ceases to exist, no *)
(* vip of a node changes.                                                               *)
RowsOK ==
    /\ \A r \in Row : owner[r] = Nobody => db[r] = committed[r]
    /\ \A r \in Row : committed[r] # NoRow => db[r] # NoRow
    /\ \A i \in NodeId : committed[i] = Gone => db[i] = Gone
    /\ \A i \in NodeId : db[i] \in Node /\ committed[i] \in Node /\ committed[i].vip # NoVip =>
          db[i].vip = committed[i].vip

(* The address index is ahead of the pool; an address is in it once. *)
IndexOK ==
    /\ committed[Tenant] <= db[Tenant]
    /\ \A p \in PoolId : db[p] \in Pooled => db[p].vip <= db[Tenant]
    /\ \A p \in PoolId : committed[p] \in Pooled =>
          db[p] \in Pooled /\ db[p].vip = committed[p].vip /\ db[p].vip <= committed[Tenant]
    /\ \A p \in PoolId : db[p] \in Pooled /\ committed[p] = NoRow => owner[p] = owner[Tenant]
    /\ \A p, q \in PoolId : db[p] \in Pooled /\ db[q] \in Pooled /\ db[p].vip = db[q].vip => p = q

HasRow(rows, i, v) == rows[i] \in Node /\ rows[i].vip = v
Has(i, v) == HasRow(db, i, v) \/ HasRow(committed, i, v)

(* The vip of a node: its pool row is used, or owned by the transaction that gives it *)
(* to that node or takes it from it.                                                    *)
CoverOK ==
    \A i \in NodeId, v \in Vip : Has(i, v) =>
        \E p \in PoolId :
            /\ db[p] \in Pooled /\ db[p].vip = v
            /\ \/ owner[p] = Nobody /\ db[p].used
               \/ owner[p] \in Worker /\ job[owner[p]].id = i

(* A vip that is being assigned belongs to no node yet but the one it is for. *)
AssignOK ==
    \A w \in Worker, p \in PoolId : owner[p] = w /\ job[w].op \in {"regist", "add"} =>
        \A i \in NodeId :
            /\ ~ HasRow(committed, i, db[p].vip)
            /\ HasRow(db, i, db[p].vip) => owner[i] = w

ExclusiveOK == \A i, j \in NodeId, v \in Vip : Has(i, v) /\ Has(j, v) => i = j
-----------------------------------------------------------------------------
(* The workers: what each has in its hand at each stage. *)

AtOK(w) ==
    LET j == job[w]
    IN  /\ j.op = "none" => j.at = "idle"
        /\ j.op = "regist" => w \in Loop /\ j.at \in
              {"lock", "find", "tenant", "insert", "reuse", "take", "index", "pool", "update",
               "groups", "unlock", "end"}
        /\ j.op = "add" => j.at \in
              {"check", "tenant", "reuse", "take", "index", "pool", "save", "groups", "end"}
        /\ j.op = "edit" => j.at \in {"check", "update", "groups", "end"}
        /\ j.op = "del" => w \in Admin /\ "del" \in Request
                           /\ j.at \in {"read", "free", "groups", "delete", "end"}
        /\ j.op # "tenant"

HandOK(w) ==
    LET j == job[w]
    IN  /\ j.op \in {"regist", "add", "edit"} => j.row \in Node
        /\ j.op \in {"edit", "del"} => j.id \in NodeId
        /\ j.op = "regist" /\ j.at \in {"reuse", "take", "index", "pool", "update"} => j.id \in NodeId
        /\ j.op \in {"regist", "edit", "del"} /\ j.id \in NodeId => committed[j.id] # NoRow
        /\ j.at = "take" => j.pool \in PoolId /\ db[j.pool] \in Pooled /\ committed[j.pool] \in Pooled
        /\ j.at = "pool" => j.idx \in Vip
        /\ j.op = "del" /\ j.at \in {"free", "groups", "delete"} => j.row \in Node

(* Which rows it has locked, and for what. *)
OwnerOK(w) ==
    LET j == job[w]
    IN  /\ \A i \in NodeId : owner[i] = w =>
              /\ j.id = i /\ j.at \in {"groups", "unlock", "end"} /\ db[i] # NoRow
              /\ j.op = "del" => j.at = "end"
        /\ owner[Tenant] = w => j.op \in {"regist", "add"}
              /\ j.at \in {"index", "pool", "update", "save", "groups", "unlock", "end"}
        /\ \A p \in PoolId : owner[p] = w =>
              /\ db[p] \in Pooled /\ j.row \in Node /\ db[p].vip = j.row.vip
              /\ \/ j.op \in {"regist", "add"} /\ db[p].used
                    /\ j.at \in {"update", "save", "groups", "unlock", "end"}
                 \/ /\ j.op = "del" /\ ~ db[p].used
                    /\ committed[p] \in Pooled /\ committed[p].used
                    /\ j.at \in {"groups", "delete", "end"}

(* It is about to insert an address that is new. *)
NewOK(w) ==
    job[w].at = "pool" =>
        /\ owner[Tenant] = w /\ job[w].idx = db[Tenant]
        /\ \A p \in PoolId : db[p] \in Pooled => db[p].vip < db[Tenant]

LockOK(w) == job[w].op = "regist" /\ job[w].at \notin {"lock", "end"} => lock = w

OwnsPool(w) == \E p \in PoolId : owner[p] = w
OnlyVip(i, v) == (db[i] \in Node => db[i].vip = v) /\ (committed[i] \in Node => committed[i].vip = v)

(* The copy of the node row that a registration writes back; an edit has no vip. *)
CopyOK(w) ==
    LET j == job[w]
    IN  /\ j.op = "regist" /\ j.id \in NodeId /\ j.at \in {"tenant", "reuse", "take", "index", "pool"} =>
              OnlyVip(j.id, NoVip)
        /\ j.op = "regist" /\ j.at = "update" =>
              (OwnsPool(w) /\ OnlyVip(j.id, NoVip)) \/ OnlyVip(j.id, j.row.vip)
        /\ j.at \in {"lock", "find", "insert"} => j.id = NoRow
        /\ j.op = "regist" /\ j.id = NoRow => j.row.vip = NoVip
        /\ j.op = "edit" => j.row.vip = NoVip
        /\ j.at = "save" => OwnsPool(w)

(* A vip that is freed is that of a node which is deleted in the same transaction. *)
FreeOK(w) ==
    LET j == job[w]
    IN  /\ j.at = "free" => j.row.vip \in Vip
        /\ j.op = "del" /\ (j.at = "free" \/ (j.at \in {"groups", "delete"} /\ OwnsPool(w))) =>
              HasRow(db, j.id, j.row.vip) /\ HasRow(committed, j.id, j.row.vip)
        /\ j.op = "del" /\ j.at = "end" /\ j.ok /\ OwnsPool(w) =>
              db[j.id] = Gone /\ owner[j.id] = w

JobOK(w) == AtOK(w) /\ HandOK(w) /\ OwnerOK(w) /\ NewOK(w) /\ LockOK(w) /\ CopyOK(w) /\ FreeOK(w)

IInv == TypeOK /\ RowsOK /\ IndexOK /\ CoverOK /\ AssignOK /\ ExclusiveOK /\ \A w \in Worker : JobOK(w)
-----------------------------------------------------------------------------
(* A step that changes what one worker has in its hand, and at most its lock. *)
LEMMA Frame ==
    ASSUME IInv, TypeOK', NEW w \in Worker, JobOK(w)',
           \A u \in Worker : u # w => job'[u] = job[u],
           UNCHANGED <<db, committed, owner>>,
           lock' = lock \/ lock \in {w, Nobody},
           OwnsPool(w) => job'[w].id = job[w].id /\ job'[w].op = job[w].op
    PROVE  IInv'
<1>1. ASSUME NEW u \in Worker, u # w PROVE JobOK(u)'
  <2>1. JobOK(u) /\ job'[u] = job[u]
    BY <1>1 DEF IInv
  <2>2. LockOK(u)'
    BY <1>1, <2>1, Markers DEF JobOK, LockOK
  <2> QED
    BY <2>1, <2>2 DEF JobOK, AtOK, HandOK, OwnerOK, NewOK, CopyOK, FreeOK, OwnsPool, OnlyVip, HasRow
<1>2. \A p \in PoolId : \A u \in Worker : owner[p] = u =>
          job'[u].id = job[u].id /\ job'[u].op = job[u].op
  BY DEF OwnsPool
<1>3. CoverOK'
  <2> SUFFICES ASSUME NEW i \in NodeId, NEW v \in Vip, Has(i, v)'
               PROVE  \E p \in PoolId :
                          /\ db[p] \in Pooled /\ db[p].vip = v
                          /\ \/ owner[p] = Nobody /\ db[p].used
                             \/ owner[p] \in Worker /\ job'[owner[p]].id = i
    BY DEF CoverOK
  <2>1. Has(i, v)
    BY DEF Has, HasRow
  <2>2. PICK p \in PoolId : /\ db[p] \in Pooled /\ db[p].vip = v
                            /\ \/ owner[p] = Nobody /\ db[p].used
                               \/ owner[p] \in Worker /\ job[owner[p]].id = i
    BY <2>1 DEF IInv, CoverOK
  <2> QED
    BY <2>2, <1>2
<1>4. AssignOK'
  <2>1. AssignOK
    BY DEF IInv
  <2> QED
    BY <2>1, <1>2 DEF AssignOK, HasRow
<1>5. RowsOK' /\ IndexOK' /\ ExclusiveOK'
  BY DEF IInv, RowsOK, IndexOK, ExclusiveOK, Has, HasRow
<1> QED
  BY <1>1, <1>3, <1>4, <1>5 DEF IInv

(* A worker that owns a pool row is past the assignment. *)
LEMMA NoPoolYet ==
    ASSUME IInv, NEW w \in Worker, OwnsPool(w)
    PROVE  job[w].at \in {"update", "save", "groups", "unlock", "end", "delete"}
BY DEF IInv, JobOK, OwnerOK, OwnsPool

(* Restarts of job[w] keep the types. *)
LEMMA JobType ==
    ASSUME TypeOK, NEW w \in Worker, job' \in [Worker -> Job], UNCHANGED <<db, committed, owner>>,
           lock' \in Loop \cup {Nobody}, requests' \in 0 .. MaxRequests
    PROVE  TypeOK'
BY DEF TypeOK, Typed

(* An exception while a worker runs, with its rows as they are. *)
LEMMA FailKeeps ==
    ASSUME IInv, NEW w \in Worker, Fail(w), UNCHANGED <<db, committed, owner, lock, requests>>,
           job[w].at \notin {"idle", "lock", "unlock", "end"}
    PROVE  IInv'
<1> DEFINE k == [job[w] EXCEPT !.at = IF job[w].op = "regist" THEN "unlock" ELSE "end", !.ok = FALSE]
<1>1. job[w] \in Job /\ JobOK(w) /\ TypeOK
  BY DEF IInv, TypeOK
<1>2. /\ job'[w] = k /\ k \in Job /\ k.id = job[w].id /\ k.op = job[w].op /\ k.row = job[w].row
      /\ k.at = (IF job[w].op = "regist" THEN "unlock" ELSE "end") /\ k.ok = FALSE
      /\ \A u \in Worker : u # w => job'[u] = job[u]
      /\ job' \in [Worker -> Job]
  <2>1. k \in Job /\ k.id = job[w].id /\ k.op = job[w].op /\ k.row = job[w].row
        /\ k.at = (IF job[w].op = "regist" THEN "unlock" ELSE "end") /\ k.ok = FALSE
    <3>1. \A stage \in Stage : [job[w] EXCEPT !.at = stage, !.ok = FALSE] \in Job
      BY <1>1 DEF Job
    <3>2. (IF job[w].op = "regist" THEN "unlock" ELSE "end") \in Stage
      BY DEF Stage
    <3>3. k \in Job
      BY <3>1, <3>2
    <3> QED
      BY <1>1, <3>3 DEF Job
  <2>2. job' = [job EXCEPT ![w] = k] /\ job \in [Worker -> Job]
    BY <1>1 DEF Fail, TypeOK
  <2> HIDE DEF k
  <2> QED
    BY <2>1, <2>2
<1> HIDE DEF k
<1>3. TypeOK'
  BY <1>1, <1>2, JobType DEF TypeOK
<1>4. AtOK(w)' /\ HandOK(w)' /\ NewOK(w)' /\ LockOK(w)' /\ CopyOK(w)' /\ FreeOK(w)'
  BY <1>1, <1>2 DEF JobOK, AtOK, HandOK, NewOK, LockOK, CopyOK, FreeOK, Job
<1>5. OwnerOK(w)'
  BY <1>1, <1>2 DEF JobOK, AtOK, OwnerOK, Job
<1> QED
  BY <1>2, <1>3, <1>4, <1>5, Frame DEF JobOK

(* A request that is started. *)
LEMMA StartKeeps ==
    ASSUME IInv, NEW w \in Worker, Restricted, Begin(w)
    PROVE  IInv'
<1>1. job[w] \in Job /\ JobOK(w) /\ TypeOK
  BY DEF IInv, TypeOK
<1>2. \E op \in {"regist", "add", "edit", "del"}, stage \in {"lock", "check", "read"},
         id \in NodeId \cup {NoRow}, row \in Node \cup {NoRow} :
          /\ Start(w, op, stage, id, row)
          /\ op = "regist" => w \in Loop /\ stage = "lock" /\ id = NoRow /\ row \in Node
          /\ op = "add" => stage = "check" /\ id = NoRow /\ row \in Node
          /\ op = "edit" => stage = "check" /\ id \in NodeId /\ committed[id] # NoRow /\ row \in Node
          /\ op = "del" => stage = "read" /\ w \in Admin /\ "del" \in Request
                           /\ id \in NodeId /\ committed[id] # NoRow
          /\ op # "del" => row.vip = NoVip
  <2>1. ASSUME NEW m \in Mac, NEW e \in BOOLEAN
        PROVE  Asked(m, e) \in Node /\ Asked(m, e).vip = NoVip
    BY DEF Asked, Node
  <2>2. CASE Regist(w)
    BY <2>1, <2>2 DEF Regist
  <2>3. CASE Add(w)
    BY <2>1, <2>3 DEF Add
  <2>4. CASE Edit(w)
    BY <2>1, <2>4 DEF Edit
  <2>5. CASE Del(w)
    BY <2>5 DEF Del
  <2> QED
    BY <2>2, <2>3, <2>4, <2>5 DEF Begin, EditTenant, Restricted
<1>3. PICK op \in {"regist", "add", "edit", "del"}, stage \in {"lock", "check", "read"},
         id \in NodeId \cup {NoRow}, row \in Node \cup {NoRow} :
          /\ Start(w, op, stage, id, row)
          /\ op = "regist" => w \in Loop /\ stage = "lock" /\ id = NoRow /\ row \in Node
          /\ op = "add" => stage = "check" /\ id = NoRow /\ row \in Node
          /\ op = "edit" => stage = "check" /\ id \in NodeId /\ committed[id] # NoRow /\ row \in Node
          /\ op = "del" => stage = "read" /\ w \in Admin /\ "del" \in Request
                           /\ id \in NodeId /\ committed[id] # NoRow
          /\ op # "del" => row.vip = NoVip
  BY <1>2
<1> DEFINE k == Doing(stage, op, id, row)
<1>b. k \in Job /\ k.at = stage /\ k.op = op /\ k.id = id /\ k.row = row
  BY CountAssumption DEF Doing, Job, Stage, Index
<1>c. /\ job[w].at = "idle" /\ requests < MaxRequests /\ requests' = requests + 1
      /\ UNCHANGED <<db, committed, owner, lock>>
      /\ job' = [job EXCEPT ![w] = k]
  BY <1>3 DEF Start, At
<1>4. /\ job'[w] = k /\ k \in Job /\ k.at = stage /\ k.op = op /\ k.id = id /\ k.row = row
      /\ \A u \in Worker : u # w => job'[u] = job[u]
      /\ job' \in [Worker -> Job] /\ job[w].at = "idle"
      /\ UNCHANGED <<db, committed, owner, lock>> /\ requests' \in 0 .. MaxRequests
  <2> HIDE DEF k
  <2> QED
    BY <1>1, <1>b, <1>c, BoundAssumption DEF TypeOK
<1> HIDE DEF k
<1>5. TypeOK'
  BY <1>1, <1>4, JobType DEF TypeOK
<1>6. \A r \in Row : owner[r] # w
  <2>1. \A r \in NodeId \cup PoolId \cup {Tenant} : owner[r] # w
    BY <1>1, <1>4 DEF JobOK, OwnerOK
  <2> QED
    BY <2>1 DEF Row
<1>7. AtOK(w)' /\ HandOK(w)' /\ NewOK(w)' /\ LockOK(w)' /\ CopyOK(w)' /\ FreeOK(w)'
  BY <1>3, <1>4, <1>6, Markers DEF AtOK, HandOK, NewOK, LockOK, CopyOK, FreeOK
<1>8. OwnerOK(w)'
  BY <1>4, <1>6 DEF OwnerOK, Row
<1> QED
  BY <1>4, <1>5, <1>6, <1>7, <1>8, Frame DEF JobOK, OwnsPool, Row

(* A worker goes on to another stage with what it has. *)
LEMMA Advance ==
    ASSUME TypeOK, NEW w \in Worker, NEW stage \in Stage, Go(w, stage)
    PROVE  /\ job' \in [Worker -> Job]
           /\ \A u \in Worker : u # w => job'[u] = job[u]
           /\ job'[w].at = stage /\ job'[w].op = job[w].op /\ job'[w].id = job[w].id
           /\ job'[w].row = job[w].row /\ job'[w].idx = job[w].idx
           /\ job'[w].pool = job[w].pool /\ job'[w].ok = job[w].ok
BY DEF TypeOK, Go, Job

(* Before its first write a transaction has no lock. *)
LEMMA OwnsNothing ==
    ASSUME IInv, NEW w \in Worker,
           job[w].at \in {"idle", "lock", "find", "tenant", "insert", "check", "read", "reuse", "take"}
    PROVE  ~ OwnsPool(w) /\ \A r \in Row : owner[r] # w
<1>1. JobOK(w)
  BY DEF IInv
<1> QED
  BY <1>1 DEF JobOK, OwnerOK, OwnsPool, Row

(* What a statement is granted to look at is committed, or its own transaction's. *)
LEMMA Seen ==
    ASSUME IInv, NEW w \in Worker, Granted(w), NEW r \in Needs(w), r \in Row, owner[r] # w
    PROVE  owner[r] = Nobody /\ db[r] = committed[r]
BY DEF IInv, RowsOK, Granted, OthersRow

(* Locking the tenant, leaving it. *)
LEMMA LockKeeps ==
    ASSUME IInv, NEW w \in Worker, Lock(w) \/ Unlock(w)
    PROVE  IInv'
<1>1. job[w] \in Job /\ JobOK(w) /\ TypeOK
  BY DEF IInv, TypeOK
<1>2. CASE Lock(w)
  <2>1. /\ job[w].at = "lock" /\ job[w].op = "regist" /\ w \in Loop /\ lock = Nobody /\ lock' = w
        /\ Go(w, "find") /\ UNCHANGED <<db, committed, owner, requests>>
    BY <1>1, <1>2 DEF Lock, At, JobOK, AtOK, Job
  <2>2. ~ OwnsPool(w) /\ \A r \in Row : owner[r] # w
    BY <2>1, OwnsNothing
  <2>3. /\ job' \in [Worker -> Job] /\ \A u \in Worker : u # w => job'[u] = job[u]
        /\ job'[w].at = "find" /\ job'[w].op = "regist" /\ job'[w].id = job[w].id
        /\ job'[w].row = job[w].row
    BY <1>1, <2>1, Advance DEF Stage
  <2>4. TypeOK'
    BY <1>1, <2>1, <2>3, JobType DEF TypeOK
  <2>5. OwnerOK(w)'
    BY <2>1, <2>2 DEF OwnerOK, Row
  <2>6. AtOK(w)' /\ HandOK(w)' /\ NewOK(w)' /\ LockOK(w)' /\ CopyOK(w)' /\ FreeOK(w)'
    BY <1>1, <2>1, <2>3 DEF JobOK, AtOK, HandOK, NewOK, LockOK, CopyOK, FreeOK
  <2> QED
    BY <2>1, <2>2, <2>3, <2>4, <2>5, <2>6, Frame DEF JobOK
<1>3. CASE Unlock(w)
  <2>1. /\ job[w].at = "unlock" /\ job[w].op = "regist" /\ w \in Loop /\ lock = w /\ lock' = Nobody
        /\ Go(w, "end") /\ UNCHANGED <<db, committed, owner, requests>>
    BY <1>1, <1>3 DEF Unlock, At, JobOK, AtOK, LockOK, Job
  <2>2. /\ job' \in [Worker -> Job] /\ \A u \in Worker : u # w => job'[u] = job[u]
        /\ job'[w].at = "end" /\ job'[w].op = "regist" /\ job'[w].id = job[w].id
        /\ job'[w].row = job[w].row
    BY <1>1, <2>1, Advance DEF Stage
  <2>3. TypeOK'
    BY <1>1, <2>1, <2>2, JobType DEF TypeOK
  <2>4. OwnerOK(w)'
    BY <1>1, <2>1, <2>2 DEF JobOK, OwnerOK
  <2>5. AtOK(w)' /\ HandOK(w)' /\ NewOK(w)' /\ LockOK(w)' /\ CopyOK(w)' /\ FreeOK(w)'
    BY <1>1, <2>1, <2>2 DEF JobOK, AtOK, HandOK, NewOK, LockOK, CopyOK, FreeOK
  <2> QED
    BY <2>1, <2>2, <2>3, <2>4, <2>5, Frame DEF JobOK
<1> QED
  BY <1>2, <1>3

(* A node looks for its row. *)
LEMMA FindKeeps ==
    ASSUME IInv, NEW w \in Worker, FindNone(w) \/ FindOne(w) \/ FindSeveral(w)
    PROVE  IInv'
<1>1. job[w] \in Job /\ JobOK(w) /\ TypeOK
  BY DEF IInv, TypeOK
<1>2. job[w].at = "find" /\ job[w].op = "regist" /\ Granted(w) /\ Needs(w) = NodeId
      /\ UNCHANGED <<db, committed, owner, lock, requests>>
  BY <1>1 DEF JobOK, AtOK, FindNone, FindOne, FindSeveral, At, Job, Needs, Reads
<1>3. ~ OwnsPool(w) /\ \A r \in Row : owner[r] # w
  BY <1>2, OwnsNothing
<1>4. OwnerOK(w)'
  BY <1>2, <1>3 DEF OwnerOK, Row
<1>5. CASE FindSeveral(w)
  BY <1>2, <1>5, FailKeeps DEF FindSeveral
<1>6. CASE FindNone(w)
  <2>1. /\ job' \in [Worker -> Job] /\ \A u \in Worker : u # w => job'[u] = job[u]
        /\ job'[w].at = "tenant" /\ job'[w].op = "regist" /\ job'[w].id = job[w].id
        /\ job'[w].row = job[w].row
    BY <1>1, <1>2, <1>6, Advance DEF FindNone, Stage
  <2>2. TypeOK'
    BY <1>1, <1>2, <2>1, JobType DEF TypeOK
  <2>3. AtOK(w)' /\ HandOK(w)' /\ NewOK(w)' /\ LockOK(w)' /\ CopyOK(w)' /\ FreeOK(w)'
    BY <1>1, <1>2, <2>1, Markers DEF JobOK, AtOK, HandOK, NewOK, LockOK, CopyOK, FreeOK
  <2> QED
    BY <1>2, <1>3, <1>4, <2>1, <2>2, <2>3, Frame DEF JobOK
<1>7. CASE FindOne(w)
  <2>1. PICK i \in NodeId :
          /\ WithMac(job[w].row.mac) = {i}
          /\ job' = [job EXCEPT ![w].id = i, ![w].row = db[i],
                                ![w].at = IF db[i].vip = NoVip THEN "tenant" ELSE "update"]
    BY <1>7 DEF FindOne
  <2>2. db[i] \in Node /\ owner[i] = Nobody /\ committed[i] = db[i]
    BY <1>1, <1>2, <1>3, <2>1, Seen DEF WithMac, Exists, TypeOK, Typed, Row
  <2>3. /\ job' \in [Worker -> Job] /\ \A u \in Worker : u # w => job'[u] = job[u]
        /\ job'[w].at = (IF db[i].vip = NoVip THEN "tenant" ELSE "update")
        /\ job'[w].op = "regist" /\ job'[w].id = i /\ job'[w].row = db[i]
    BY <1>1, <1>2, <2>1, <2>2 DEF TypeOK, Job, Stage
  <2>4. TypeOK'
    BY <1>1, <1>2, <2>3, JobType DEF TypeOK
  <2>5. AtOK(w)' /\ HandOK(w)' /\ NewOK(w)' /\ LockOK(w)' /\ FreeOK(w)'
    BY <1>1, <1>2, <2>2, <2>3, Markers DEF JobOK, AtOK, HandOK, NewOK, LockOK, FreeOK
  <2>6. CopyOK(w)'
    BY <1>2, <2>2, <2>3, Markers DEF CopyOK, OnlyVip
  <2> QED
    BY <1>2, <1>3, <1>4, <2>3, <2>4, <2>5, <2>6, Frame DEF JobOK
<1> QED
  BY <1>5, <1>6, <1>7

(* The tenant is read, the pool searched, an index missed. *)
LEMMA SearchKeeps ==
    ASSUME IInv, NEW w \in Worker,
           ReadTenant(w) \/ ReuseIp(w) \/ ReuseNone(w) \/ TakeMissed(w) \/ SelectIdxMissed(w)
    PROVE  IInv'
<1>1. job[w] \in Job /\ JobOK(w) /\ TypeOK
  BY DEF IInv, TypeOK
<1>2. /\ job[w].at \in {"tenant", "reuse", "take", "index"} /\ job[w].op \in {"regist", "add"}
      /\ UNCHANGED <<db, committed, owner, lock, requests>>
  BY <1>1 DEF JobOK, AtOK, ReadTenant, ReuseIp, ReuseNone, TakeMissed, SelectIdxMissed, At, Job, Reads
<1>3. ~ OwnsPool(w) /\ \A r \in NodeId \cup PoolId : owner[r] # w
  BY <1>1, <1>2 DEF JobOK, OwnerOK, OwnsPool
<1>4. ASSUME ReadTenant(w), ~ (job[w].op = "regist" /\ job[w].id # NoRow /\ NodeGrant /\ ~ job[w].row.enable)
      PROVE  IInv'
  <2> DEFINE stage == IF job[w].op = "regist" /\ job[w].id = NoRow THEN "insert" ELSE "reuse"
  <2>1. /\ job[w].at = "tenant" /\ db[Tenant] \in Index
        /\ job' = [job EXCEPT ![w].idx = db[Tenant], ![w].at = stage]
    BY <1>1, <1>4, Zenon DEF ReadTenant, At, TypeOK, Typed
  <2>2. \A r \in Row : owner[r] # w
    BY <2>1, OwnsNothing
  <2>3. stage \in {"insert", "reuse"} /\ (stage = "reuse" /\ job[w].op = "regist" => job[w].id \in NodeId)
        /\ (stage = "insert" => job[w].op = "regist" /\ job[w].id = NoRow)
    BY <1>1 DEF Job
  <2> HIDE DEF stage
  <2>4. /\ job' \in [Worker -> Job] /\ \A u \in Worker : u # w => job'[u] = job[u]
        /\ job'[w].at = stage /\ job'[w].op = job[w].op /\ job'[w].id = job[w].id
        /\ job'[w].row = job[w].row
    BY <1>1, <2>1, <2>3 DEF TypeOK, Job, Stage
  <2>5. TypeOK'
    BY <1>1, <1>2, <2>4, JobType DEF TypeOK
  <2>6. AtOK(w)' /\ HandOK(w)' /\ NewOK(w)' /\ LockOK(w)' /\ FreeOK(w)'
    BY <1>1, <1>2, <2>1, <2>3, <2>4, Markers DEF JobOK, AtOK, HandOK, NewOK, LockOK, FreeOK
  <2>7. CopyOK(w)'
    BY <1>1, <1>2, <2>1, <2>3, <2>4, Markers DEF JobOK, CopyOK, OnlyVip
  <2>8. OwnerOK(w)'
    BY <1>2, <2>2 DEF OwnerOK, Row
  <2> QED
    BY <1>2, <1>3, <2>4, <2>5, <2>6, <2>7, <2>8, Frame DEF JobOK
<1>5. CASE ReuseIp(w)
  <2>1. PICK p \in PoolId :
          /\ job[w].at = "reuse" /\ ~ OthersRow(w, p) /\ Exists(db, p)
          /\ job' = [job EXCEPT ![w].pool = p, ![w].at = "take"]
    BY <1>5 DEF ReuseIp, At
  <2>2. \A r \in Row : owner[r] # w
    BY <2>1, OwnsNothing
  <2>3. db[p] \in Pooled /\ committed[p] = db[p]
    BY <1>1, <2>1, <2>2 DEF TypeOK, Typed, Exists, OthersRow, IInv, RowsOK, Row
  <2>4. /\ job' \in [Worker -> Job] /\ \A u \in Worker : u # w => job'[u] = job[u]
        /\ job'[w].at = "take" /\ job'[w].op = job[w].op /\ job'[w].id = job[w].id
        /\ job'[w].row = job[w].row /\ job'[w].pool = p
    BY <1>1, <2>1 DEF TypeOK, Job, Stage
  <2>5. TypeOK'
    BY <1>1, <1>2, <2>4, JobType DEF TypeOK
  <2>6. AtOK(w)' /\ HandOK(w)' /\ NewOK(w)' /\ LockOK(w)' /\ CopyOK(w)' /\ FreeOK(w)'
    BY <1>1, <1>2, <2>1, <2>3, <2>4
    DEF JobOK, AtOK, HandOK, NewOK, LockOK, CopyOK, FreeOK, OnlyVip
  <2>7. OwnerOK(w)'
    BY <1>2, <2>2 DEF OwnerOK, Row
  <2> QED
    BY <1>2, <1>3, <2>4, <2>5, <2>6, <2>7, Frame DEF JobOK
<1>6. ASSUME NEW stage \in {"index", "reuse"}, Go(w, stage), job[w].at \in {"reuse", "take"}
      PROVE  IInv'
  <2>1. \A r \in Row : owner[r] # w
    BY <1>6, OwnsNothing
  <2>2. /\ job' \in [Worker -> Job] /\ \A u \in Worker : u # w => job'[u] = job[u]
        /\ job'[w].at = stage /\ job'[w].op = job[w].op /\ job'[w].id = job[w].id
        /\ job'[w].row = job[w].row
    BY <1>1, <1>6, Advance DEF Stage
  <2>3. TypeOK'
    BY <1>1, <1>2, <2>2, JobType DEF TypeOK
  <2>4. AtOK(w)' /\ HandOK(w)' /\ NewOK(w)' /\ LockOK(w)' /\ CopyOK(w)' /\ FreeOK(w)'
    BY <1>1, <1>2, <1>6, <2>2
    DEF JobOK, AtOK, HandOK, NewOK, LockOK, CopyOK, FreeOK, OnlyVip
  <2>5. OwnerOK(w)'
    BY <1>2, <2>1 DEF OwnerOK, Row
  <2> QED
    BY <1>2, <1>3, <2>2, <2>3, <2>4, <2>5, Frame DEF JobOK
<1>7. CASE SelectIdxMissed(w)
  <2> DEFINE next == IF job[w].idx < MaxIndex THEN job[w].idx + 1 ELSE job[w].idx
  <2>1. job[w].at = "index" /\ job' = [job EXCEPT ![w].idx = next]
    BY <1>7 DEF SelectIdxMissed, At
  <2>2. next \in Index
    BY <1>1, CountAssumption DEF Job, Index
  <2> HIDE DEF next
  <2>3. /\ job' \in [Worker -> Job] /\ \A u \in Worker : u # w => job'[u] = job[u]
        /\ job'[w].at = "index" /\ job'[w].op = job[w].op /\ job'[w].id = job[w].id
        /\ job'[w].row = job[w].row
    BY <1>1, <2>1, <2>2 DEF TypeOK, Job
  <2>4. TypeOK'
    BY <1>1, <1>2, <2>3, JobType DEF TypeOK
  <2>5. AtOK(w)' /\ HandOK(w)' /\ NewOK(w)' /\ LockOK(w)' /\ CopyOK(w)' /\ FreeOK(w)'
    BY <1>1, <1>2, <2>1, <2>3 DEF JobOK, AtOK, HandOK, NewOK, LockOK, CopyOK, FreeOK, OnlyVip
  <2>6. OwnerOK(w)'
    BY <1>1, <1>2, <2>1, <2>3 DEF JobOK, OwnerOK
  <2> QED
    BY <1>2, <1>3, <2>3, <2>4, <2>5, <2>6, Frame DEF JobOK
<1>8. ASSUME Fail(w) PROVE IInv'
  BY <1>2, <1>8, FailKeeps
<1>9. CASE ReadTenant(w)
  BY <1>4, <1>8, <1>9 DEF ReadTenant
<1>10. CASE ReuseNone(w)
  BY <1>6, <1>8, <1>10 DEF ReuseNone, At
<1>11. CASE TakeMissed(w)
  BY <1>6, <1>11 DEF TakeMissed, At
<1> QED
  BY <1>5, <1>7, <1>9, <1>10, <1>11

(* The reading steps of the administration, and a wait that takes too long. *)
LEMMA AdminReadKeeps ==
    ASSUME IInv, NEW w \in Worker,
           CheckUnique(w) \/ Used(w) \/ Read(w) \/ Groups(w) \/ LockTimeout(w)
    PROVE  IInv'
<1>1. job[w] \in Job /\ JobOK(w) /\ TypeOK
  BY DEF IInv, TypeOK
<1>2. UNCHANGED <<db, committed, owner, lock, requests>>
  BY DEF CheckUnique, Used, Read, Groups, LockTimeout, Reads
<1>3. job[w].at \notin {"idle", "lock", "unlock", "end"}
  <2>1. CASE LockTimeout(w)
    BY <2>1 DEF LockTimeout, Granted, Needs
  <2> QED
    BY <2>1 DEF CheckUnique, Used, Read, Groups, At
<1>4. ASSUME Fail(w) PROVE IInv'
  BY <1>2, <1>3, <1>4, FailKeeps
<1>5. ASSUME NEW stage \in {"tenant", "update"}, job[w].at = "check", Go(w, stage),
             stage = IF job[w].op = "add" THEN "tenant" ELSE "update"
      PROVE  IInv'
  <2>1. ~ OwnsPool(w) /\ \A r \in Row : owner[r] # w
    BY <1>5, OwnsNothing
  <2>2. /\ job' \in [Worker -> Job] /\ \A u \in Worker : u # w => job'[u] = job[u]
        /\ job'[w].at = stage /\ job'[w].op = job[w].op /\ job'[w].id = job[w].id
        /\ job'[w].row = job[w].row
    BY <1>1, <1>5, Advance DEF Stage
  <2>3. TypeOK'
    BY <1>1, <1>2, <2>2, JobType DEF TypeOK
  <2>4. AtOK(w)' /\ HandOK(w)' /\ NewOK(w)' /\ LockOK(w)' /\ CopyOK(w)' /\ FreeOK(w)'
    BY <1>1, <1>2, <1>5, <2>2 DEF JobOK, AtOK, HandOK, NewOK, LockOK, CopyOK, FreeOK, Job
  <2>5. OwnerOK(w)'
    BY <1>2, <2>1 DEF OwnerOK, Row
  <2> QED
    BY <1>2, <2>1, <2>2, <2>3, <2>4, <2>5, Frame DEF JobOK
<1>6. CASE Read(w) /\ ~ Fail(w)
  <2> DEFINE i == job[w].id
             stage == IF db[i].vip = NoVip THEN "groups" ELSE "free"
  <2>1. /\ job[w].at = "read" /\ db[i] # Gone /\ Granted(w)
        /\ job' = [job EXCEPT ![w].row = db[i], ![w].at = stage]
    BY <1>6 DEF Read, At
  <2>2. ~ OwnsPool(w) /\ \A r \in Row : owner[r] # w
    BY <2>1, OwnsNothing
  <2>3. job[w].op = "del" /\ i \in NodeId /\ i \in Row /\ committed[i] # NoRow /\ db[i] # NoRow
    BY <1>1, <2>1 DEF JobOK, AtOK, HandOK, Job, IInv, RowsOK, Row
  <2>4. db[i] \in Node /\ committed[i] = db[i]
    <3>1. i \in Needs(w)
      BY <2>1 DEF Needs
    <3> QED
      BY <1>1, <2>1, <2>2, <2>3, <3>1, Seen DEF TypeOK, Typed
  <2>5. stage = "free" => db[i].vip \in Vip
    BY <2>4 DEF Node
  <2>6. stage \in {"groups", "free"}
    OBVIOUS
  <2> HIDE DEF stage
  <2>7. /\ job' \in [Worker -> Job] /\ \A u \in Worker : u # w => job'[u] = job[u]
        /\ job'[w].at = stage /\ job'[w].op = "del" /\ job'[w].id = i /\ job'[w].row = db[i]
    BY <1>1, <2>1, <2>3, <2>4, <2>6 DEF TypeOK, Job, Stage
  <2>8. TypeOK'
    BY <1>1, <1>2, <2>7, JobType DEF TypeOK
  <2>9. AtOK(w)' /\ HandOK(w)' /\ NewOK(w)' /\ LockOK(w)' /\ CopyOK(w)'
    BY <1>1, <1>2, <2>1, <2>3, <2>4, <2>6, <2>7 DEF JobOK, AtOK, HandOK, NewOK, LockOK, CopyOK
  <2>10. FreeOK(w)'
    BY <1>2, <2>2, <2>4, <2>5, <2>6, <2>7 DEF FreeOK, HasRow, OwnsPool
  <2>11. OwnerOK(w)'
    BY <1>2, <2>2 DEF OwnerOK, Row
  <2> QED
    BY <1>2, <2>2, <2>7, <2>8, <2>9, <2>10, <2>11, Frame DEF JobOK
<1>7. CASE Groups(w) /\ ~ Fail(w)
  <2> DEFINE stage == CASE job[w].op = "regist" -> "unlock" [] job[w].op = "del" -> "delete"
                        [] OTHER -> "end"
  <2>1. job[w].at = "groups" /\ Go(w, stage)
    BY <1>7 DEF Groups, At
  <2>2. /\ stage \in {"unlock", "delete", "end"}
        /\ stage = "unlock" <=> job[w].op = "regist"
        /\ stage = "delete" <=> job[w].op = "del"
    OBVIOUS
  <2> HIDE DEF stage
  <2>3. /\ job' \in [Worker -> Job] /\ \A u \in Worker : u # w => job'[u] = job[u]
        /\ job'[w].at = stage /\ job'[w].op = job[w].op /\ job'[w].id = job[w].id
        /\ job'[w].row = job[w].row
    BY <1>1, <2>1, <2>2, Advance DEF Stage
  <2>4. TypeOK'
    BY <1>1, <1>2, <2>3, JobType DEF TypeOK
  <2>5. AtOK(w)' /\ HandOK(w)' /\ NewOK(w)' /\ LockOK(w)' /\ CopyOK(w)'
    BY <1>1, <1>2, <2>1, <2>2, <2>3 DEF JobOK, AtOK, HandOK, NewOK, LockOK, CopyOK, Job
  <2>6. FreeOK(w)'
    BY <1>1, <1>2, <2>1, <2>2, <2>3 DEF JobOK, FreeOK, HasRow, OwnsPool
  <2>7. OwnerOK(w)'
    BY <1>1, <1>2, <2>1, <2>2, <2>3 DEF JobOK, AtOK, OwnerOK, Job
  <2> QED
    BY <1>2, <2>3, <2>4, <2>5, <2>6, <2>7, Frame DEF JobOK
<1> QED
  BY <1>4, <1>5, <1>6, <1>7 DEF CheckUnique, Used, LockTimeout, At

(* A write into a row that is free or its own: what it must keep so that the rows and  *)
(* the other workers stay as they should be.                                             *)
LEMMA WriteKeeps ==
    ASSUME IInv, Restricted, NEW w \in Worker, NEW r \in Row, NEW value, Write(w, r, value),
           owner[r] \in {w, Nobody}, UNCHANGED <<committed, lock>>,
           \A u \in Worker : u # w => job'[u] = job[u],
           r \in PoolId => /\ value \in Pooled
                           /\ \/ db[r] \in Pooled /\ value.vip = db[r].vip
                              \/ db[r] = NoRow /\ owner[Tenant] = w,
           r = Tenant => value \in Index,
           r \in NodeId =>
               \/ db[r] \in Node /\ value = Gone /\ job[w].op = "del"
               \/ db[r] \in Node /\ value \in Node /\ value.vip = db[r].vip
               \/ db[r] = NoRow /\ value \in Node
               \/ /\ job[w].op = "regist" /\ job[w].at \notin {"lock", "end"}
                  /\ db[r] \in Node /\ value \in Node /\ OnlyVip(r, NoVip)
    PROVE  RowsOK' /\ \A u \in Worker : u # w => JobOK(u)'
<1>1. /\ TypeOK /\ RowsOK /\ \A u \in Worker : JobOK(u)
      /\ db' = [db EXCEPT ![r] = value] /\ owner' = [owner EXCEPT ![r] = w]
      /\ committed' = committed
  BY DEF IInv, Write
<1>2. /\ db'[r] = value /\ owner'[r] = w
      /\ \A x \in Row : x # r => db'[x] = db[x] /\ owner'[x] = owner[x]
  BY <1>1 DEF TypeOK, Typed
<1>3. RowsOK'
  <2>1. \A x \in Row : owner'[x] = Nobody => db'[x] = committed'[x]
    BY <1>1, <1>2, Markers DEF RowsOK
  <2>2. value # NoRow
    BY Markers DEF Row
  <2>3. \A x \in Row : committed'[x] # NoRow => db'[x] # NoRow
    BY <1>1, <1>2, <2>2 DEF RowsOK
  <2>4. \A i \in NodeId : committed'[i] = Gone => db'[i] = Gone
    BY <1>1, <1>2, Markers DEF RowsOK, Row
  <2>5. \A i \in NodeId : db'[i] \in Node /\ committed'[i] \in Node /\ committed'[i].vip # NoVip =>
            db'[i].vip = committed'[i].vip
    BY <1>1, <1>2, Markers DEF RowsOK, Row, OnlyVip
  <2> QED
    BY <2>1, <2>3, <2>4, <2>5 DEF RowsOK
<1>4. ASSUME NEW u \in Worker, u # w PROVE JobOK(u)'
  <2>1. JobOK(u) /\ job'[u] = job[u] /\ \A x \in Row : owner'[x] = u <=> owner[x] = u
    BY <1>1, <1>2, <1>4, Markers
  <2>2. \A x \in Row : owner'[x] = u => db'[x] = db[x]
    BY <1>2, <1>4, <2>1
  <2>3. AtOK(u)' /\ LockOK(u)'
    BY <1>1, <2>1 DEF JobOK, AtOK, LockOK
  <2>4. HandOK(u)'
    BY <1>1, <1>2, <2>1 DEF JobOK, HandOK, Row
  <2>5. OwnerOK(u)'
    BY <1>1, <2>1, <2>2 DEF JobOK, OwnerOK, Row
  <2>6. NewOK(u)'
    <3>1. owner[Tenant] = u => r # Tenant
      BY <1>4, Markers
    <3> QED
      BY <1>1, <1>2, <1>4, <2>1, <3>1, Markers DEF JobOK, NewOK, Row
  <2>7. OwnsPool(u)' <=> OwnsPool(u)
    BY <2>1 DEF OwnsPool, Row
  <2>8. CopyOK(u)'
    <3>1. ASSUME NEW i \in NodeId, NEW v, OnlyVip(i, v), committed[i] # NoRow,
                 job[u].op = "regist", job[u].at \notin {"lock", "end"}
          PROVE  OnlyVip(i, v)'
      <4>1. ~ (job[w].op = "regist" /\ job[w].at \notin {"lock", "end"})
        BY <1>1, <1>4, <3>1 DEF JobOK, LockOK
      <4>2. db[i] # NoRow
        BY <1>1, <3>1 DEF RowsOK, Row
      <4> QED
        BY <1>1, <1>2, <3>1, <4>1, <4>2, Markers DEF OnlyVip, Row
    <3>2. job[u].op = "regist" /\ job[u].id \in NodeId => committed[job[u].id] # NoRow
      BY <2>1 DEF JobOK, HandOK
    <3>3. job[u].op = "regist" /\ job[u].at = "update" => job[u].id \in NodeId
      BY <2>1 DEF JobOK, HandOK
    <3> QED
      BY <2>1, <2>7, <3>1, <3>2, <3>3 DEF JobOK, CopyOK
  <2>9. FreeOK(u)'
    <3>1. ASSUME job[u].op = "del" PROVE job[w].op # "del" /\ job[u].id \in NodeId
      BY <1>1, <1>4, <3>1, <2>1 DEF JobOK, AtOK, HandOK, Restricted
    <3>2. ASSUME job[u].op = "del", NEW v \in Vip, HasRow(db, job[u].id, v), HasRow(committed, job[u].id, v)
          PROVE  HasRow(db, job[u].id, v)' /\ HasRow(committed, job[u].id, v)'
      BY <1>1, <1>2, <3>1, <3>2, Markers DEF HasRow, OnlyVip, Row
    <3>3. job[u].op = "del" /\ OwnsPool(u) => job[u].row.vip \in Vip
      BY <2>1 DEF JobOK, OwnerOK, OwnsPool, Pooled
    <3>4. owner[job[u].id] = u /\ job[u].id \in NodeId =>
              db'[job[u].id] = db[job[u].id] /\ owner'[job[u].id] = u
      BY <2>1, <2>2 DEF Row
    <3> QED
      BY <2>1, <2>7, <3>1, <3>2, <3>3, <3>4 DEF JobOK, FreeOK
  <2> QED
    BY <2>3, <2>4, <2>5, <2>6, <2>8, <2>9 DEF JobOK
<1> QED
  BY <1>3, <1>4

(* A write changes one row, and that row only. *)
LEMMA WriteType ==
    ASSUME TypeOK, NEW w \in Worker, NEW r \in Row, NEW value, Write(w, r, value),
           UNCHANGED <<committed, lock, requests>>, job' \in [Worker -> Job],
           r \in NodeId => value \in Node \cup {Gone}, r \in PoolId => value \in Pooled,
           r = Tenant => value \in Index
    PROVE  /\ TypeOK'
           /\ db'[r] = value /\ owner'[r] = w
           /\ \A x \in Row : x # r => db'[x] = db[x] /\ owner'[x] = owner[x]
<1>1. /\ db'[r] = value /\ owner'[r] = w
      /\ \A x \in Row : x # r => db'[x] = db[x] /\ owner'[x] = owner[x]
      /\ db' = [x \in Row |-> db'[x]] /\ owner' \in [Row -> Worker \cup {Nobody}]
  BY DEF TypeOK, Typed, Write
<1>2. Typed(db)'
  BY <1>1, Markers DEF TypeOK, Typed, Row
<1> QED
  BY <1>1, <1>2 DEF TypeOK, Typed

(* A row that is new was nobody's. *)
LEMMA NewRowFree ==
    ASSUME IInv, NEW table, table = NodeId \/ table = PoolId, Fresh(table) # {}
    PROVE  LET r == NewRow(table)
           IN  r \in table /\ r \in Row /\ db[r] = NoRow /\ committed[r] = NoRow /\ owner[r] = Nobody
<1> DEFINE r == NewRow(table)
<1>1. r \in table /\ db[r] = NoRow /\ r \in Row
  BY DEF NewRow, Fresh, Row
<1>2. committed[r] = NoRow
  BY <1>1 DEF IInv, RowsOK
<1>3. owner[r] \in Worker \cup {Nobody}
  BY <1>1 DEF IInv, TypeOK
<1>4. \A u \in Worker : owner[r] # u
  BY <1>1, Markers DEF IInv, JobOK, OwnerOK
<1> QED
  BY <1>1, <1>2, <1>3, <1>4

(* The pool row of a vip that a node has. *)
LEMMA PoolRow ==
    ASSUME IInv, NEW i \in NodeId, NEW v \in Vip, Has(i, v), NEW p \in PoolId, db[p] \in Pooled,
           db[p].vip = v
    PROVE  (owner[p] = Nobody /\ db[p].used) \/ (owner[p] \in Worker /\ job[owner[p]].id = i)
<1>1. \A q \in PoolId : db[q] \in Pooled /\ db[q].vip = v => q = p
  BY DEF IInv, IndexOK
<1>2. \E q \in PoolId : /\ db[q] \in Pooled /\ db[q].vip = v
                        /\ \/ owner[q] = Nobody /\ db[q].used
                           \/ owner[q] \in Worker /\ job[owner[q]].id = i
  BY DEF IInv, CoverOK
<1> QED
  BY <1>1, <1>2

(* A free address is taken. *)
LEMMA TakeKeeps ==
    ASSUME IInv, Restricted, NEW w \in Worker, Take(w)
    PROVE  IInv'
<1> DEFINE p == job[w].pool
           value == [db[p] EXCEPT !.used = TRUE]
           stage == IF job[w].op = "regist" THEN "update" ELSE "save"
<1>1. job[w] \in Job /\ JobOK(w) /\ TypeOK /\ IndexOK /\ CoverOK /\ AssignOK /\ ExclusiveOK
  BY DEF IInv, TypeOK
<1>2. /\ job[w].at = "take" /\ Granted(w) /\ ~ db[p].used /\ Write(w, p, value)
      /\ job' = [job EXCEPT ![w].row.vip = db[p].vip, ![w].at = stage]
      /\ UNCHANGED <<committed, lock, requests>>
  BY DEF Take, At, Assign, Writes
<1>3. ~ OwnsPool(w) /\ \A r \in Row : owner[r] # w
  BY <1>2, OwnsNothing
<1>4. /\ p \in PoolId /\ p \in Row /\ db[p] \in Pooled /\ committed[p] \in Pooled
      /\ job[w].op \in {"regist", "add"} /\ job[w].row \in Node
      /\ job[w].op = "regist" => job[w].id \in NodeId
  BY <1>1, <1>2 DEF JobOK, HandOK, AtOK, Job, Row
<1>5. owner[p] = Nobody
  BY <1>2, <1>3, <1>4 DEF Granted, Needs, OthersRow
<1>6. value \in Pooled /\ value.vip = db[p].vip /\ value.used /\ db[p].vip \in Vip
  BY <1>4 DEF Pooled
<1>7. stage \in {"update", "save"} /\ (stage = "update" <=> job[w].op = "regist")
  BY <1>4
<1> HIDE DEF p, value, stage
<1>8. /\ job' \in [Worker -> Job] /\ \A u \in Worker : u # w => job'[u] = job[u]
      /\ job'[w].at = stage /\ job'[w].op = job[w].op /\ job'[w].id = job[w].id
      /\ job'[w].row \in Node /\ job'[w].row.vip = db[p].vip
  <2> DEFINE row == [job[w].row EXCEPT !.vip = db[p].vip]
  <2>1. row \in Node /\ row.vip = db[p].vip
    BY <1>4, <1>6 DEF Node
  <2>2. job'[w] = [job[w] EXCEPT !.row = row, !.at = stage]
        /\ \A u \in Worker : u # w => job'[u] = job[u]
        /\ DOMAIN job' = Worker
    BY <1>1, <1>2 DEF TypeOK
  <2> HIDE DEF row
  <2>3. job'[w] \in Job /\ job'[w].at = stage /\ job'[w].op = job[w].op /\ job'[w].id = job[w].id
        /\ job'[w].row = row
    BY <1>1, <1>7, <2>1, <2>2 DEF Job, Stage
  <2>4. job' = [u \in Worker |-> job'[u]]
    BY <1>1, <1>2 DEF TypeOK
  <2> QED
    BY <1>1, <2>1, <2>2, <2>3, <2>4 DEF TypeOK
<1>9. /\ TypeOK' /\ db'[p] = value /\ owner'[p] = w
      /\ \A x \in Row : x # p => db'[x] = db[x] /\ owner'[x] = owner[x]
  BY <1>1, <1>2, <1>4, <1>6, <1>8, Markers, WriteType
<1>10. RowsOK' /\ \A u \in Worker : u # w => JobOK(u)'
  BY <1>2, <1>4, <1>5, <1>6, <1>8, Markers, WriteKeeps
<1>11. \A i \in NodeId : ~ Has(i, db[p].vip)
  BY <1>1, <1>2, <1>4, <1>5, <1>6, Markers, PoolRow
<1>12. \A i \in NodeId : \A v : (HasRow(db', i, v) <=> HasRow(db, i, v)) /\ (Has(i, v)' <=> Has(i, v))
  BY <1>2, <1>4, <1>9, Markers DEF Has, HasRow, Row
<1>13. IndexOK'
  BY <1>1, <1>2, <1>4, <1>6, <1>9, Markers DEF IndexOK, Row
<1>14. CoverOK'
  <2> SUFFICES ASSUME NEW i \in NodeId, NEW v \in Vip, Has(i, v)
               PROVE  \E q \in PoolId :
                          /\ db'[q] \in Pooled /\ db'[q].vip = v
                          /\ \/ owner'[q] = Nobody /\ db'[q].used
                             \/ owner'[q] \in Worker /\ job'[owner'[q]].id = i
    BY <1>12 DEF CoverOK
  <2>1. PICK q \in PoolId : /\ db[q] \in Pooled /\ db[q].vip = v
                            /\ \/ owner[q] = Nobody /\ db[q].used
                               \/ owner[q] \in Worker /\ job[owner[q]].id = i
    BY <1>1 DEF CoverOK
  <2>2. q # p
    BY <1>11, <2>1
  <2> QED
    BY <1>8, <1>9, <2>1, <2>2 DEF Row
<1>15. AssignOK'
  <2> SUFFICES ASSUME NEW u \in Worker, NEW q \in PoolId, owner'[q] = u,
                      job'[u].op \in {"regist", "add"}, NEW i \in NodeId
               PROVE  /\ ~ HasRow(committed', i, db'[q].vip)
                      /\ HasRow(db', i, db'[q].vip) => owner'[i] = u
    BY DEF AssignOK, HasRow
  <2>1. CASE q = p
    BY <1>2, <1>6, <1>9, <1>11, <1>12, <2>1 DEF Has
  <2>2. CASE q # p
    <3>1. owner[q] = u /\ db'[q] = db[q] /\ job[u].op \in {"regist", "add"} /\ owner'[i] = owner[i]
      BY <1>4, <1>8, <1>9, <2>2, Markers DEF Row
    <3> QED
      BY <1>1, <1>2, <1>12, <3>1 DEF AssignOK
  <2> QED
    BY <2>1, <2>2
<1>16. ExclusiveOK'
  BY <1>1, <1>12 DEF ExclusiveOK
<1>17. AtOK(w)' /\ HandOK(w)' /\ NewOK(w)' /\ LockOK(w)' /\ FreeOK(w)'
  BY <1>1, <1>2, <1>4, <1>7, <1>8 DEF JobOK, AtOK, HandOK, NewOK, LockOK, FreeOK
<1>18. OwnerOK(w)'
  BY <1>3, <1>4, <1>6, <1>7, <1>8, <1>9, Markers DEF OwnerOK, Row
<1>19. CopyOK(w)'
  <2>1. OwnsPool(w)'
    BY <1>4, <1>9 DEF OwnsPool
  <2>2. job[w].op = "regist" => OnlyVip(job[w].id, NoVip)'
    BY <1>1, <1>2, <1>4, <1>8, <1>9, Markers DEF JobOK, CopyOK, OnlyVip, Row
  <2> QED
    BY <1>4, <1>7, <1>8, <2>1, <2>2, Markers DEF CopyOK
<1> QED
  BY <1>9, <1>10, <1>13, <1>14, <1>15, <1>16, <1>17, <1>18, <1>19 DEF IInv, JobOK

(* The address index is moved on. *)
LEMMA SelectKeeps ==
    ASSUME IInv, Restricted, NEW w \in Worker, SelectIdx(w)
    PROVE  IInv'
<1> DEFINE next == job[w].idx + 1
           stage == IF Available(next) THEN "pool" ELSE "index"
<1>1. job[w] \in Job /\ JobOK(w) /\ TypeOK /\ IndexOK /\ RowsOK /\ CoverOK /\ AssignOK /\ ExclusiveOK
  BY DEF IInv, TypeOK
<1>2. /\ job[w].at = "index" /\ Granted(w) /\ db[Tenant] = job[w].idx /\ next <= MaxIndex
      /\ Write(w, Tenant, next) /\ job' = [job EXCEPT ![w].idx = next, ![w].at = stage]
      /\ UNCHANGED <<committed, lock, requests>>
  BY DEF SelectIdx, At, Writes
<1>3. /\ ~ OwnsPool(w) /\ \A i \in NodeId : owner[i] # w
      /\ owner[Tenant] \in {w, Nobody} /\ Tenant \in Row
  BY <1>1, <1>2 DEF JobOK, OwnerOK, OwnsPool, Granted, Needs, OthersRow, Row
<1>4. /\ job[w].op \in {"regist", "add"} /\ job[w].row \in Node
      /\ job[w].op = "regist" => job[w].id \in NodeId
  BY <1>1, <1>2 DEF JobOK, HandOK, AtOK, Job
<1>5. /\ next \in Vip /\ next \in Index /\ db[Tenant] < next /\ next \in Int
      /\ db[Tenant] \in Int /\ committed[Tenant] \in Int
      /\ \A p \in PoolId : db[p] \in Pooled => db[p].vip \in Int
  BY <1>1, <1>2, CountAssumption DEF TypeOK, Typed, Job, Vip, Index, Pooled
<1>6. stage \in {"pool", "index"}
  OBVIOUS
<1> HIDE DEF next, stage
<1>7. /\ job' \in [Worker -> Job] /\ \A u \in Worker : u # w => job'[u] = job[u]
      /\ job'[w].at = stage /\ job'[w].op = job[w].op /\ job'[w].id = job[w].id
      /\ job'[w].row = job[w].row /\ job'[w].idx = next
  BY <1>1, <1>2, <1>5, <1>6 DEF TypeOK, Job, Stage
<1>8. /\ TypeOK' /\ db'[Tenant] = next /\ owner'[Tenant] = w
      /\ \A x \in Row : x # Tenant => db'[x] = db[x] /\ owner'[x] = owner[x]
  BY <1>1, <1>2, <1>3, <1>5, <1>7, Markers, WriteType
<1>9. RowsOK' /\ \A u \in Worker : u # w => JobOK(u)'
  BY <1>2, <1>3, <1>5, <1>7, Markers, WriteKeeps
<1>10. /\ \A i \in NodeId : db'[i] = db[i] /\ owner'[i] = owner[i]
       /\ \A p \in PoolId : db'[p] = db[p] /\ owner'[p] = owner[p]
  BY <1>8, Markers DEF Row
<1>11. \A p \in PoolId : db[p] \in Pooled => db[p].vip < next
  BY <1>1, <1>5 DEF IndexOK
<1>12. IndexOK'
  <2>1. committed'[Tenant] <= db'[Tenant]
    BY <1>1, <1>2, <1>5, <1>8 DEF IndexOK
  <2>2. \A p \in PoolId : db'[p] \in Pooled => db'[p].vip <= db'[Tenant]
    BY <1>5, <1>8, <1>10, <1>11
  <2>3. \A p \in PoolId : db'[p] \in Pooled /\ committed'[p] = NoRow => owner'[p] = owner'[Tenant]
    <3> SUFFICES ASSUME NEW p \in PoolId, db[p] \in Pooled, committed[p] = NoRow
                 PROVE  owner[p] = w
      BY <1>2, <1>8, <1>10
    <3>1. owner[p] = owner[Tenant]
      BY <1>1 DEF IndexOK
    <3>2. owner[p] # Nobody
      BY <1>1, Markers DEF RowsOK, Row
    <3> QED
      BY <1>3, <3>1, <3>2
  <2> QED
    BY <1>1, <1>2, <1>10, <2>1, <2>2, <2>3 DEF IndexOK
<1>13. CoverOK'
  <2> SUFFICES ASSUME NEW i \in NodeId, NEW v \in Vip, Has(i, v)
               PROVE  \E q \in PoolId :
                          /\ db'[q] \in Pooled /\ db'[q].vip = v
                          /\ \/ owner'[q] = Nobody /\ db'[q].used
                             \/ owner'[q] \in Worker /\ job'[owner'[q]].id = i
    <3>1. \A i \in NodeId : \A v : Has(i, v)' <=> Has(i, v)
      BY <1>2, <1>10 DEF Has, HasRow
    <3> QED
      BY <3>1 DEF CoverOK
  <2>1. PICK q \in PoolId : /\ db[q] \in Pooled /\ db[q].vip = v
                            /\ \/ owner[q] = Nobody /\ db[q].used
                               \/ owner[q] \in Worker /\ job[owner[q]].id = i
    BY <1>1 DEF CoverOK
  <2> QED
    BY <1>7, <1>10, <2>1
<1>14. AssignOK'
  BY <1>1, <1>2, <1>7, <1>10 DEF AssignOK, HasRow
<1>15. ExclusiveOK'
  BY <1>1, <1>2, <1>10 DEF ExclusiveOK, Has, HasRow
<1>16. AtOK(w)' /\ HandOK(w)' /\ LockOK(w)' /\ FreeOK(w)'
  BY <1>1, <1>2, <1>4, <1>5, <1>6, <1>7 DEF JobOK, AtOK, HandOK, LockOK, FreeOK
<1>17. OwnerOK(w)' /\ NewOK(w)'
  BY <1>3, <1>4, <1>6, <1>7, <1>8, <1>10, <1>11, Markers DEF OwnerOK, NewOK, OwnsPool
<1>18. CopyOK(w)'
  BY <1>1, <1>2, <1>4, <1>6, <1>7, <1>10 DEF JobOK, CopyOK, OnlyVip
<1> QED
  BY <1>8, <1>9, <1>12, <1>13, <1>14, <1>15, <1>16, <1>17, <1>18 DEF IInv, JobOK

(* A new address goes into the pool. *)
LEMMA InsertPoolKeeps ==
    ASSUME IInv, Restricted, NEW w \in Worker, PoolInsert(w)
    PROVE  IInv'
<1> DEFINE p == NewRow(PoolId)
           value == [vip |-> job[w].idx, used |-> TRUE]
           stage == IF job[w].op = "regist" THEN "update" ELSE "save"
<1>1. job[w] \in Job /\ JobOK(w) /\ TypeOK /\ IndexOK /\ CoverOK /\ AssignOK /\ ExclusiveOK
  BY DEF IInv, TypeOK
<1>2. /\ job[w].at = "pool" /\ Fresh(PoolId) # {} /\ Write(w, p, value)
      /\ job' = [job EXCEPT ![w].row.vip = job[w].idx, ![w].at = stage]
      /\ UNCHANGED <<committed, lock, requests>>
  BY DEF PoolInsert, At, Assign, Writes
<1>3. ~ OwnsPool(w) /\ \A i \in NodeId : owner[i] # w
  BY <1>1, <1>2 DEF JobOK, OwnerOK, OwnsPool
<1>4. /\ job[w].op \in {"regist", "add"} /\ job[w].row \in Node /\ job[w].idx \in Vip
      /\ job[w].op = "regist" => job[w].id \in NodeId
  BY <1>1, <1>2 DEF JobOK, HandOK, AtOK, Job
<1>5. /\ owner[Tenant] = w /\ job[w].idx = db[Tenant]
      /\ \A q \in PoolId : db[q] \in Pooled => db[q].vip < db[Tenant]
  BY <1>1, <1>2 DEF JobOK, NewOK
<1>6. value \in Pooled /\ value.vip = db[Tenant] /\ value.used
  BY <1>4, <1>5 DEF Pooled
<1>7. stage \in {"update", "save"} /\ (stage = "update" <=> job[w].op = "regist")
  BY <1>4
<1>8. /\ p \in PoolId /\ p \in Row /\ p # Tenant /\ db[p] = NoRow /\ committed[p] = NoRow
      /\ owner[p] = Nobody
  BY <1>2, Markers, NewRowFree
<1> HIDE DEF p, value, stage
<1>9. /\ job' \in [Worker -> Job] /\ \A u \in Worker : u # w => job'[u] = job[u]
      /\ job'[w].at = stage /\ job'[w].op = job[w].op /\ job'[w].id = job[w].id
      /\ job'[w].row \in Node /\ job'[w].row.vip = db[Tenant]
  <2> DEFINE row == [job[w].row EXCEPT !.vip = job[w].idx]
  <2>1. row \in Node /\ row.vip = db[Tenant]
    BY <1>4, <1>5 DEF Node
  <2>2. job'[w] = [job[w] EXCEPT !.row = row, !.at = stage]
        /\ \A u \in Worker : u # w => job'[u] = job[u]
    BY <1>1, <1>2 DEF TypeOK
  <2> HIDE DEF row
  <2>3. job'[w] \in Job /\ job'[w].at = stage /\ job'[w].op = job[w].op /\ job'[w].id = job[w].id
        /\ job'[w].row = row
    BY <1>1, <1>7, <2>1, <2>2 DEF Job, Stage
  <2>4. job' = [u \in Worker |-> job'[u]]
    BY <1>1, <1>2 DEF TypeOK
  <2> QED
    BY <1>1, <2>1, <2>2, <2>3, <2>4 DEF TypeOK
<1>10. /\ TypeOK' /\ db'[p] = value /\ owner'[p] = w
       /\ \A x \in Row : x # p => db'[x] = db[x] /\ owner'[x] = owner[x]
  BY <1>1, <1>2, <1>6, <1>8, <1>9, Markers, WriteType
<1>11. RowsOK' /\ \A u \in Worker : u # w => JobOK(u)'
  BY <1>2, <1>5, <1>6, <1>8, <1>9, Markers, WriteKeeps
<1>12. \A i \in NodeId : db'[i] = db[i] /\ owner'[i] = owner[i]
  BY <1>8, <1>10, Markers DEF Row
<1>13. db'[Tenant] = db[Tenant] /\ owner'[Tenant] = w
  BY <1>5, <1>8, <1>10 DEF Row
<1>14. \A q \in PoolId : q # p => db'[q] = db[q] /\ owner'[q] = owner[q]
  BY <1>10 DEF Row
<1>15. \A i \in NodeId : ~ Has(i, db[Tenant])
  <2> SUFFICES ASSUME NEW i \in NodeId, Has(i, db[Tenant]) PROVE FALSE
    OBVIOUS
  <2>1. PICK q \in PoolId : db[q] \in Pooled /\ db[q].vip = db[Tenant]
    BY <1>1, <1>4, <1>5 DEF CoverOK
  <2>2. db[Tenant] < db[Tenant] /\ db[Tenant] \in Int
    BY <1>4, <1>5, <2>1 DEF Vip
  <2> QED
    BY <2>2
<1>16. IndexOK'
  <2>1. committed'[Tenant] <= db'[Tenant]
    BY <1>1, <1>2, <1>13 DEF IndexOK
  <2>2. \A q \in PoolId : db'[q] \in Pooled => db'[q].vip <= db'[Tenant]
    BY <1>1, <1>4, <1>5, <1>6, <1>10, <1>13, <1>14 DEF IndexOK, Vip
  <2>3. \A q \in PoolId : committed'[q] \in Pooled =>
            db'[q] \in Pooled /\ db'[q].vip = committed'[q].vip /\ db'[q].vip <= committed'[Tenant]
    BY <1>1, <1>2, <1>8, <1>14, Markers DEF IndexOK
  <2>4. \A q \in PoolId : db'[q] \in Pooled /\ committed'[q] = NoRow => owner'[q] = owner'[Tenant]
    BY <1>1, <1>2, <1>5, <1>10, <1>13, <1>14 DEF IndexOK
  <2>5. \A q \in PoolId : q # p /\ db[q] \in Pooled => db[q].vip # value.vip
    <3> SUFFICES ASSUME NEW q \in PoolId, db[q] \in Pooled, db[q].vip = db[Tenant] PROVE FALSE
      BY <1>6
    <3>1. db[Tenant] < db[Tenant] /\ db[Tenant] \in Int
      BY <1>4, <1>5 DEF Vip
    <3> QED
      BY <3>1
  <2>6. \A q, x \in PoolId : db'[q] \in Pooled /\ db'[x] \in Pooled /\ db'[q].vip = db'[x].vip => q = x
    BY <1>1, <1>10, <1>14, <2>5 DEF IndexOK
  <2> QED
    BY <2>1, <2>2, <2>3, <2>4, <2>6 DEF IndexOK
<1>17. CoverOK'
  <2> SUFFICES ASSUME NEW i \in NodeId, NEW v \in Vip, Has(i, v)
               PROVE  \E q \in PoolId :
                          /\ db'[q] \in Pooled /\ db'[q].vip = v
                          /\ \/ owner'[q] = Nobody /\ db'[q].used
                             \/ owner'[q] \in Worker /\ job'[owner'[q]].id = i
    <3>1. \A i \in NodeId : \A v : Has(i, v)' <=> Has(i, v)
      BY <1>2, <1>12 DEF Has, HasRow
    <3> QED
      BY <3>1 DEF CoverOK
  <2>1. PICK q \in PoolId : /\ db[q] \in Pooled /\ db[q].vip = v
                            /\ \/ owner[q] = Nobody /\ db[q].used
                               \/ owner[q] \in Worker /\ job[owner[q]].id = i
    BY <1>1 DEF CoverOK
  <2>2. q # p
    BY <1>8, <2>1, Markers
  <2> QED
    BY <1>9, <1>14, <2>1, <2>2
<1>18. AssignOK'
  <2> SUFFICES ASSUME NEW u \in Worker, NEW q \in PoolId, owner'[q] = u,
                      job'[u].op \in {"regist", "add"}, NEW i \in NodeId
               PROVE  /\ ~ HasRow(committed', i, db'[q].vip)
                      /\ HasRow(db', i, db'[q].vip) => owner'[i] = u
    BY DEF AssignOK, HasRow
  <2>1. CASE q = p
    BY <1>2, <1>6, <1>10, <1>12, <1>15, <2>1 DEF Has, HasRow
  <2>2. CASE q # p
    <3>1. owner[q] = u /\ db'[q] = db[q] /\ job[u].op \in {"regist", "add"}
      BY <1>9, <1>14, <2>2
    <3> QED
      BY <1>1, <1>2, <1>12, <3>1 DEF AssignOK, HasRow
  <2> QED
    BY <2>1, <2>2
<1>19. ExclusiveOK'
  BY <1>1, <1>2, <1>12 DEF ExclusiveOK, Has, HasRow
<1>20. AtOK(w)' /\ HandOK(w)' /\ NewOK(w)' /\ LockOK(w)' /\ FreeOK(w)'
  BY <1>1, <1>2, <1>4, <1>7, <1>9 DEF JobOK, AtOK, HandOK, NewOK, LockOK, FreeOK
<1>21. OwnerOK(w)'
  BY <1>3, <1>4, <1>6, <1>7, <1>9, <1>10, <1>12, <1>14, Markers DEF OwnerOK, OwnsPool
<1>22. CopyOK(w)'
  <2>1. OwnsPool(w)'
    BY <1>8, <1>10 DEF OwnsPool
  <2>2. job[w].op = "regist" => OnlyVip(job[w].id, NoVip)'
    BY <1>1, <1>2, <1>4, <1>9, <1>12 DEF JobOK, CopyOK, OnlyVip
  <2> QED
    BY <1>4, <1>7, <1>9, <2>1, <2>2, Markers DEF CopyOK
<1> QED
  BY <1>10, <1>11, <1>16, <1>17, <1>18, <1>19, <1>20, <1>21, <1>22 DEF IInv, JobOK

(* The vip of a node that is deleted goes back to the pool. *)
LEMMA FreeKeeps ==
    ASSUME IInv, Restricted, NEW w \in Worker, Free(w)
    PROVE  IInv'
<1> DEFINE i == job[w].id
           v == job[w].row.vip
<1>1. job[w] \in Job /\ JobOK(w) /\ TypeOK /\ RowsOK /\ IndexOK /\ CoverOK /\ AssignOK /\ ExclusiveOK
  BY DEF IInv, TypeOK
<1>2. /\ job[w].at = "free" /\ Granted(w) /\ Go(w, "groups") /\ UNCHANGED <<committed, lock, requests>>
  BY DEF Free, At, Writes
<1>3. job[w].op = "del" /\ i \in NodeId /\ v \in Vip /\ HasRow(db, i, v) /\ HasRow(committed, i, v)
  BY <1>1, <1>2 DEF JobOK, HandOK, AtOK, FreeOK, Job
<1>4. ~ OwnsPool(w) /\ \A k \in NodeId : owner[k] # w
  BY <1>1, <1>2 DEF JobOK, OwnerOK, OwnsPool
<1>5. PICK p \in PoolId : /\ db[p] \in Pooled /\ db[p].vip = v
                          /\ \/ owner[p] = Nobody /\ db[p].used
                             \/ owner[p] \in Worker /\ job[owner[p]].id = i
  BY <1>1, <1>3 DEF CoverOK, Has
<1>6. owner[p] = Nobody /\ db[p].used /\ db[p] = committed[p] /\ p \in Row
  <2>1. owner[p] \in {w, Nobody}
    BY <1>2 DEF Granted, Needs, OthersRow
  <2> QED
    BY <1>1, <1>4, <1>5, <2>1, Markers DEF OwnsPool, RowsOK, Row
<1> DEFINE value == [db[p] EXCEPT !.used = FALSE]
<1>7. value \in Pooled /\ value.vip = v /\ ~ value.used
  BY <1>5 DEF Pooled
<1>8. Write(w, p, value)
  <2> DEFINE freed == {q \in PoolId : Exists(db, q) /\ db[q].vip = v}
  <2>1. freed = {p}
    <3>1. \A q \in PoolId : Exists(db, q) => db[q] \in Pooled
      BY <1>1 DEF TypeOK, Typed, Exists
    <3>2. Exists(db, p)
      BY <1>5, Markers DEF Exists
    <3>3. \A q \in PoolId : db[q] \in Pooled /\ db[q].vip = v => q = p
      BY <1>1, <1>5 DEF IndexOK
    <3> QED
      BY <1>5, <3>1, <3>2, <3>3
  <2>2. /\ db' = [r \in Row |-> IF r \in freed THEN [db[r] EXCEPT !.used = FALSE] ELSE db[r]]
        /\ owner' = [r \in Row |-> IF r \in freed THEN w ELSE owner[r]]
    BY DEF Free
  <2> HIDE DEF freed
  <2>3. db' = [r \in Row |-> IF r = p THEN value ELSE db[r]]
    BY <2>1, <2>2
  <2>4. owner' = [r \in Row |-> IF r = p THEN w ELSE owner[r]]
    BY <2>1, <2>2
  <2> HIDE DEF value
  <2>6. db' = [db EXCEPT ![p] = value]
    <3>1. db = [r \in Row |-> db[r]]
      BY <1>1 DEF TypeOK, Typed
    <3> QED
      BY <1>6, <2>3, <3>1
  <2>7. owner' = [owner EXCEPT ![p] = w]
    BY <1>1, <1>6, <2>4 DEF TypeOK
  <2> QED
    BY <2>6, <2>7 DEF Write
<1> HIDE DEF i, v, value
<1>9. /\ job' \in [Worker -> Job] /\ \A u \in Worker : u # w => job'[u] = job[u]
      /\ job'[w].at = "groups" /\ job'[w].op = "del" /\ job'[w].id = i
      /\ job'[w].row = job[w].row
  BY <1>1, <1>2, <1>3, Advance DEF i, Stage
<1>10. /\ TypeOK' /\ db'[p] = value /\ owner'[p] = w
       /\ \A x \in Row : x # p => db'[x] = db[x] /\ owner'[x] = owner[x]
  BY <1>1, <1>2, <1>6, <1>7, <1>8, <1>9, Markers, WriteType
<1>11. RowsOK' /\ \A u \in Worker : u # w => JobOK(u)'
  BY <1>2, <1>5, <1>6, <1>7, <1>8, <1>9, Markers, WriteKeeps
<1>12. \A k \in NodeId : db'[k] = db[k] /\ owner'[k] = owner[k]
  BY <1>10, Markers DEF Row
<1>13. db'[Tenant] = db[Tenant] /\ owner'[Tenant] = owner[Tenant]
  BY <1>10, Markers DEF Row
<1>14. \A q \in PoolId : q # p => db'[q] = db[q] /\ owner'[q] = owner[q]
  BY <1>10 DEF Row
<1>15. \A k \in NodeId : \A x : Has(k, x)' <=> Has(k, x)
  BY <1>2, <1>12 DEF Has, HasRow
<1>16. IndexOK'
  BY <1>1, <1>2, <1>5, <1>6, <1>7, <1>10, <1>13, <1>14, Markers DEF IndexOK
<1>17. CoverOK'
  <2> SUFFICES ASSUME NEW k \in NodeId, NEW x \in Vip, Has(k, x)
               PROVE  \E q \in PoolId :
                          /\ db'[q] \in Pooled /\ db'[q].vip = x
                          /\ \/ owner'[q] = Nobody /\ db'[q].used
                             \/ owner'[q] \in Worker /\ job'[owner'[q]].id = k
    BY <1>15 DEF CoverOK
  <2>1. PICK q \in PoolId : /\ db[q] \in Pooled /\ db[q].vip = x
                            /\ \/ owner[q] = Nobody /\ db[q].used
                               \/ owner[q] \in Worker /\ job[owner[q]].id = k
    BY <1>1 DEF CoverOK
  <2>2. CASE q = p
    <3>1. k = i
      BY <1>1, <1>3, <1>5, <2>1, <2>2 DEF ExclusiveOK, Has, i, v
    <3> QED
      BY <1>5, <1>7, <1>9, <1>10, <2>1, <2>2, <3>1
  <2>3. CASE q # p
    <3>1. \A u \in Worker : job'[u].id = job[u].id
      BY <1>9 DEF i
    <3> QED
      BY <1>14, <2>1, <2>3, <3>1
  <2> QED
    BY <2>2, <2>3
<1>18. AssignOK'
  <2> SUFFICES ASSUME NEW u \in Worker, NEW q \in PoolId, owner'[q] = u,
                      job'[u].op \in {"regist", "add"}, NEW k \in NodeId
               PROVE  /\ ~ HasRow(committed', k, db'[q].vip)
                      /\ HasRow(db', k, db'[q].vip) => owner'[k] = u
    BY DEF AssignOK, HasRow
  <2>1. u # w /\ q # p
    BY <1>9, <1>10
  <2>2. owner[q] = u /\ db'[q] = db[q] /\ job[u].op \in {"regist", "add"}
    BY <1>9, <1>14, <2>1
  <2> QED
    BY <1>1, <1>2, <1>12, <2>2 DEF AssignOK, HasRow
<1>19. ExclusiveOK'
  BY <1>1, <1>15 DEF ExclusiveOK
<1>20. AtOK(w)' /\ HandOK(w)' /\ NewOK(w)' /\ LockOK(w)' /\ CopyOK(w)'
  BY <1>1, <1>2, <1>3, <1>9 DEF JobOK, AtOK, HandOK, NewOK, LockOK, CopyOK, i
<1>21. OwnerOK(w)'
  <2>1. owner[Tenant] # w
    BY <1>1, <1>2 DEF JobOK, OwnerOK
  <2>2. job[w].row \in Node
    BY <1>1, <1>2, <1>3 DEF JobOK, HandOK
  <2>3. \A q \in PoolId : owner'[q] = w => q = p
    BY <1>4, <1>14 DEF OwnsPool
  <2>4. /\ db'[p] \in Pooled /\ job'[w].row \in Node /\ db'[p].vip = job'[w].row.vip
        /\ ~ db'[p].used /\ committed'[p] \in Pooled /\ committed'[p].used
    BY <1>2, <1>5, <1>6, <1>7, <1>9, <1>10, <2>2 DEF v
  <2> QED
    BY <1>4, <1>9, <1>12, <1>13, <2>1, <2>3, <2>4 DEF OwnerOK
<1>22. FreeOK(w)'
  BY <1>2, <1>3, <1>9, <1>12 DEF FreeOK, HasRow, i, v
<1> QED
  BY <1>10, <1>11, <1>16, <1>17, <1>18, <1>19, <1>20, <1>21, <1>22 DEF IInv, JobOK

(* A node row is written: the pool rows stay, and so does what is assigned. *)
LEMMA NodeWriteKeeps ==
    ASSUME IInv, NEW w \in Worker, NEW i \in NodeId, NEW value, db'[i] = value, owner'[i] = w,
           \A x \in Row : x # i => db'[x] = db[x] /\ owner'[x] = owner[x],
           owner[i] \in {w, Nobody}, UNCHANGED committed,
           \A u \in Worker : job'[u].op = job[u].op,
           \A u \in Worker, p \in PoolId, k \in NodeId :
               owner[p] = u /\ Has(k, db[p].vip) => job'[u].id = job[u].id,
           \A v \in Vip : HasRow(db', i, v) =>
               \/ HasRow(db, i, v)
               \/ /\ \A k \in NodeId \ {i} : ~ Has(k, v)
                  /\ \E p \in PoolId : /\ owner[p] = w /\ db[p] \in Pooled /\ db[p].vip = v
                                       /\ job'[w].id = i
    PROVE  IndexOK' /\ CoverOK' /\ AssignOK' /\ ExclusiveOK'
<1>1. /\ IndexOK /\ CoverOK /\ AssignOK /\ ExclusiveOK /\ TypeOK
      /\ \A u \in Worker : JobOK(u)
  BY DEF IInv
<1>2. /\ \A p \in PoolId : db'[p] = db[p] /\ owner'[p] = owner[p]
      /\ db'[Tenant] = db[Tenant] /\ owner'[Tenant] = owner[Tenant]
      /\ \A k \in NodeId : k # i => db'[k] = db[k] /\ owner'[k] = owner[k]
  BY Markers DEF Row
<1>3. \A k \in NodeId : \A v \in Vip : Has(k, v)' => Has(k, v) \/ (k = i /\ HasRow(db', i, v))
  BY <1>2 DEF Has, HasRow
<1>4. IndexOK'
  BY <1>1, <1>2 DEF IndexOK
<1>5. CoverOK'
  <2> SUFFICES ASSUME NEW k \in NodeId, NEW v \in Vip, Has(k, v)'
               PROVE  \E q \in PoolId :
                          /\ db'[q] \in Pooled /\ db'[q].vip = v
                          /\ \/ owner'[q] = Nobody /\ db'[q].used
                             \/ owner'[q] \in Worker /\ job'[owner'[q]].id = k
    BY DEF CoverOK
  <2>1. CASE Has(k, v)
    <3>1. PICK q \in PoolId : /\ db[q] \in Pooled /\ db[q].vip = v
                              /\ \/ owner[q] = Nobody /\ db[q].used
                                 \/ owner[q] \in Worker /\ job[owner[q]].id = k
      BY <1>1, <2>1 DEF CoverOK
    <3>2. owner[q] \in Worker => job'[owner[q]].id = job[owner[q]].id
      BY <2>1, <3>1
    <3> QED
      BY <1>2, <3>1, <3>2
  <2>2. CASE ~ Has(k, v)
    <3>1. k = i /\ HasRow(db', i, v) /\ ~ HasRow(db, i, v)
      BY <1>3, <2>2 DEF Has
    <3>2. PICK p \in PoolId : owner[p] = w /\ db[p] \in Pooled /\ db[p].vip = v /\ job'[w].id = i
      BY <3>1
    <3> QED
      BY <1>2, <3>1, <3>2
  <2> QED
    BY <2>1, <2>2
<1>6. AssignOK'
  <2> SUFFICES ASSUME NEW u \in Worker, NEW q \in PoolId, owner'[q] = u,
                      job'[u].op \in {"regist", "add"}, NEW k \in NodeId
               PROVE  /\ ~ HasRow(committed', k, db'[q].vip)
                      /\ HasRow(db', k, db'[q].vip) => owner'[k] = u
    BY DEF AssignOK, HasRow
  <2>1. owner[q] = u /\ db'[q] = db[q] /\ job[u].op \in {"regist", "add"}
    BY <1>2
  <2>2. db[q] \in Pooled /\ db[q].vip \in Vip
    BY <1>1, <2>1 DEF JobOK, OwnerOK, Pooled
  <2>3. ~ HasRow(committed', k, db'[q].vip)
    BY <1>1, <2>1 DEF AssignOK
  <2>4. CASE k # i
    BY <1>1, <1>2, <2>1, <2>3, <2>4 DEF AssignOK, HasRow
  <2>5. CASE k = i /\ HasRow(db', i, db[q].vip)
    <3>1. CASE HasRow(db, i, db[q].vip)
      BY <1>1, <2>1, <2>3, <2>5, <3>1, Markers DEF AssignOK
    <3>2. CASE ~ HasRow(db, i, db[q].vip)
      <4>1. PICK p \in PoolId : owner[p] = w /\ db[p] \in Pooled /\ db[p].vip = db[q].vip
        BY <2>2, <2>5, <3>2
      <4>2. p = q
        BY <1>1, <2>2, <4>1 DEF IndexOK
      <4> QED
        BY <2>1, <2>3, <2>5, <4>1, <4>2
    <3> QED
      BY <3>1, <3>2
  <2> QED
    BY <2>1, <2>3, <2>4, <2>5
<1>7. ExclusiveOK'
  <2> SUFFICES ASSUME NEW k \in NodeId, NEW l \in NodeId, NEW v \in Vip, Has(k, v)', Has(l, v)'
               PROVE  k = l
    BY DEF ExclusiveOK
  <2> QED
    BY <1>1, <1>3 DEF ExclusiveOK, Has
<1> QED
  BY <1>4, <1>5, <1>6, <1>7

(* The row of a node is written back. *)
LEMMA UpdateKeeps ==
    ASSUME IInv, Restricted, NEW w \in Worker, Update(w)
    PROVE  IInv'
<1> DEFINE i == job[w].id
           value == Merge(db[i], job[w].row)
<1>1. /\ job[w] \in Job /\ JobOK(w) /\ TypeOK /\ RowsOK /\ IndexOK /\ CoverOK /\ AssignOK
      /\ ExclusiveOK
  BY DEF IInv, TypeOK
<1>2. /\ job[w].at = "update" /\ Granted(w) /\ UNCHANGED <<committed, lock, requests>>
      /\ (Fail(w) /\ job[w].op = "regist") \/ Go(w, "groups")
  BY DEF Update, At, Writes
<1>3. /\ job[w].op \in {"regist", "edit"} /\ i \in NodeId /\ i \in Row /\ job[w].row \in Node
      /\ committed[i] # NoRow /\ db[i] # NoRow
  BY <1>1, <1>2 DEF JobOK, AtOK, HandOK, Job, Row, RowsOK
<1>4. \A k \in NodeId : owner[k] # w
  BY <1>1, <1>2 DEF JobOK, OwnerOK
<1>5. owner[i] = Nobody /\ db[i] = committed[i]
  BY <1>1, <1>2, <1>3, <1>4 DEF Granted, Needs, OthersRow, RowsOK
<1>6. /\ job' \in [Worker -> Job] /\ \A u \in Worker : u # w => job'[u] = job[u]
      /\ job'[w].op = job[w].op /\ job'[w].id = i /\ job'[w].row = job[w].row
      /\ job'[w].at \in {"unlock", "groups"} /\ (job'[w].at = "unlock" => job[w].op = "regist")
  <2>1. CASE Fail(w) /\ job[w].op = "regist"
    <3> DEFINE k == [job[w] EXCEPT !.at = "unlock", !.ok = FALSE]
    <3>1. job' = [job EXCEPT ![w] = k]
      BY <1>1, <2>1 DEF Fail, TypeOK
    <3>2. k \in Job /\ k.op = job[w].op /\ k.id = i /\ k.row = job[w].row /\ k.at = "unlock"
      BY <1>1 DEF Job, Stage
    <3> HIDE DEF k, i
    <3> QED
      BY <1>1, <2>1, <3>1, <3>2 DEF TypeOK
  <2>2. CASE Go(w, "groups")
    BY <1>1, <2>2, Advance DEF Stage
  <2> QED
    BY <1>2, <2>1, <2>2
<1>7. AtOK(w)' /\ HandOK(w)' /\ LockOK(w)' /\ CopyOK(w)' /\ FreeOK(w)' /\ NewOK(w)'
  BY <1>1, <1>2, <1>3, <1>6 DEF JobOK, AtOK, HandOK, LockOK, CopyOK, FreeOK, NewOK, i
<1>8. CASE ~ Exists(db, i)
  <2>1. UNCHANGED <<db, owner>>
    BY <1>8 DEF Update, i
  <2>2. TypeOK'
    BY <1>1, <1>2, <1>6, <2>1, JobType DEF TypeOK
  <2>3. OwnerOK(w)'
    BY <1>1, <1>2, <1>3, <1>4, <1>6, <2>1 DEF JobOK, OwnerOK
  <2> QED
    BY <1>2, <1>6, <1>7, <2>1, <2>2, <2>3, Frame DEF JobOK, i
<1>9. CASE Exists(db, i)
  <2>1. Write(w, i, value)
    BY <1>9 DEF Update
  <2>2. db[i] \in Node
    BY <1>1, <1>3, <1>9 DEF TypeOK, Typed, Exists
  <2>3. value \in Node /\ value.vip = IF job[w].row.vip = NoVip THEN db[i].vip ELSE job[w].row.vip
    BY <1>3, <2>2 DEF Merge, Node
  <2>4. \/ value.vip = db[i].vip
        \/ /\ job[w].op = "regist" /\ OwnsPool(w) /\ OnlyVip(i, NoVip)
           /\ value.vip = job[w].row.vip
    BY <1>1, <1>2, <1>3, <2>2, <2>3 DEF JobOK, CopyOK, OnlyVip
  <2> HIDE DEF i, value
  <2>5. /\ TypeOK' /\ db'[i] = value /\ owner'[i] = w
        /\ \A x \in Row : x # i => db'[x] = db[x] /\ owner'[x] = owner[x]
    BY <1>1, <1>2, <1>3, <1>6, <2>1, <2>3, Markers, WriteType
  <2>6. RowsOK' /\ \A u \in Worker : u # w => JobOK(u)'
    BY <1>2, <1>3, <1>5, <1>6, <2>1, <2>2, <2>3, <2>4, Markers, WriteKeeps
  <2>7. ASSUME NEW v \in Vip, HasRow(db', i, v), ~ HasRow(db, i, v)
        PROVE  /\ \A k \in NodeId \ {i} : ~ Has(k, v)
               /\ \E p \in PoolId : /\ owner[p] = w /\ db[p] \in Pooled /\ db[p].vip = v
                                    /\ job'[w].id = i
    <3>1. value.vip = v /\ db[i].vip # v
      BY <2>2, <2>5, <2>7 DEF HasRow
    <3>2. OwnsPool(w) /\ job[w].row.vip = v
      BY <2>4, <3>1
    <3>3. PICK p \in PoolId : owner[p] = w /\ db[p] \in Pooled /\ db[p].vip = v
      BY <1>1, <3>2 DEF OwnsPool, JobOK, OwnerOK
    <3>4. ASSUME NEW k \in NodeId \ {i}, Has(k, v) PROVE FALSE
      BY <3>3, <3>4, PoolRow, Markers DEF i
    <3> QED
      BY <1>6, <3>3, <3>4
  <2>8. IndexOK' /\ CoverOK' /\ AssignOK' /\ ExclusiveOK'
    <3>1. \A u \in Worker : job'[u].op = job[u].op /\ job'[u].id = job[u].id
      BY <1>6 DEF i
    <3> QED
      BY <1>2, <1>3, <1>5, <2>5, <2>7, <3>1, NodeWriteKeeps
  <2>9. OwnerOK(w)'
    <3>1. db'[i] # NoRow
      BY <2>3, <2>5, Markers
    <3>2. \A k \in NodeId : owner'[k] = w => k = i
      BY <1>4, <2>5 DEF Row
    <3>3. /\ \A p \in PoolId : db'[p] = db[p] /\ owner'[p] = owner[p]
          /\ owner'[Tenant] = owner[Tenant]
      BY <1>3, <2>5, Markers DEF Row
    <3> QED
      BY <1>1, <1>2, <1>3, <1>6, <3>1, <3>2, <3>3 DEF JobOK, OwnerOK
  <2> QED
    BY <1>7, <2>5, <2>6, <2>8, <2>9 DEF IInv, JobOK
<1> QED
  BY <1>8, <1>9

(* A node is deleted. *)
LEMMA DeleteKeeps ==
    ASSUME IInv, Restricted, NEW w \in Worker, Delete(w)
    PROVE  IInv'
<1> DEFINE i == job[w].id
<1>1. job[w] \in Job /\ JobOK(w) /\ TypeOK /\ RowsOK
  BY DEF IInv, TypeOK
<1>2. /\ job[w].at = "delete" /\ Granted(w) /\ UNCHANGED <<committed, lock, requests>>
      /\ Go(w, "end")
  BY DEF Delete, At, Writes
<1>3. job[w].op = "del" /\ i \in NodeId /\ i \in Row /\ job[w].row \in Node
  BY <1>1, <1>2 DEF JobOK, AtOK, HandOK, Job, Row
<1>4. \A k \in NodeId : owner[k] # w
  BY <1>1, <1>2 DEF JobOK, OwnerOK
<1>5. owner[i] = Nobody
  BY <1>1, <1>2, <1>3, <1>4 DEF Granted, Needs, OthersRow
<1>6. /\ job' \in [Worker -> Job] /\ \A u \in Worker : u # w => job'[u] = job[u]
      /\ job'[w].op = "del" /\ job'[w].id = i /\ job'[w].row = job[w].row /\ job'[w].at = "end"
  BY <1>1, <1>2, <1>3, Advance DEF Stage
<1>7. OwnsPool(w) => HasRow(db, i, job[w].row.vip)
  BY <1>1, <1>2, <1>3 DEF JobOK, FreeOK
<1>8. AtOK(w)' /\ HandOK(w)' /\ LockOK(w)' /\ CopyOK(w)' /\ NewOK(w)'
  BY <1>1, <1>2, <1>3, <1>6 DEF JobOK, AtOK, HandOK, LockOK, CopyOK, NewOK, i
<1>9. CASE ~ Exists(db, i)
  <2>1. UNCHANGED <<db, owner>>
    BY <1>9 DEF Delete, i
  <2>2. TypeOK'
    BY <1>1, <1>2, <1>6, <2>1, JobType DEF TypeOK
  <2>3. OwnerOK(w)'
    BY <1>1, <1>2, <1>3, <1>4, <1>6, <2>1 DEF JobOK, OwnerOK
  <2>4. ~ OwnsPool(w)
    BY <1>7, <1>9, Markers DEF HasRow, Exists
  <2>5. FreeOK(w)'
    BY <1>6, <2>1, <2>4 DEF FreeOK, OwnsPool
  <2> QED
    BY <1>2, <1>6, <1>8, <2>1, <2>2, <2>3, <2>4, <2>5, Frame DEF JobOK
<1>10. CASE Exists(db, i)
  <2>1. Write(w, i, Gone)
    BY <1>10 DEF Delete
  <2>2. db[i] \in Node
    BY <1>1, <1>3, <1>10 DEF TypeOK, Typed, Exists
  <2> HIDE DEF i
  <2>3. /\ TypeOK' /\ db'[i] = Gone /\ owner'[i] = w
        /\ \A x \in Row : x # i => db'[x] = db[x] /\ owner'[x] = owner[x]
    BY <1>1, <1>2, <1>3, <1>6, <2>1, Markers, WriteType
  <2>4. RowsOK' /\ \A u \in Worker : u # w => JobOK(u)'
    BY <1>2, <1>3, <1>5, <1>6, <2>1, <2>2, Markers, WriteKeeps
  <2>5. IndexOK' /\ CoverOK' /\ AssignOK' /\ ExclusiveOK'
    <3>1. \A u \in Worker : job'[u].op = job[u].op /\ job'[u].id = job[u].id
      BY <1>3, <1>6 DEF i
    <3>2. \A v : ~ HasRow(db', i, v)
      BY <2>3, Markers DEF HasRow
    <3> QED
      BY <1>2, <1>3, <1>5, <2>3, <3>1, <3>2, NodeWriteKeeps
  <2>6. OwnerOK(w)'
    <3>1. db'[i] # NoRow
      BY <2>3, Markers
    <3>2. \A k \in NodeId : owner'[k] = w => k = i
      BY <1>4, <2>3 DEF Row
    <3>3. /\ \A p \in PoolId : db'[p] = db[p] /\ owner'[p] = owner[p]
          /\ owner'[Tenant] = owner[Tenant]
      BY <1>3, <2>3, Markers DEF Row
    <3> QED
      BY <1>1, <1>2, <1>3, <1>6, <3>1, <3>2, <3>3 DEF JobOK, OwnerOK
  <2>7. FreeOK(w)'
    BY <1>6, <2>3 DEF FreeOK
  <2> QED
    BY <1>8, <2>3, <2>4, <2>5, <2>6, <2>7 DEF IInv, JobOK
<1> QED
  BY <1>9, <1>10

(* A node is added. *)
LEMMA SaveKeeps ==
    ASSUME IInv, Restricted, NEW w \in Worker, Save(w)
    PROVE  IInv'
<1> DEFINE i == NewRow(NodeId)
           row == job[w].row
<1>1. /\ job[w] \in Job /\ JobOK(w) /\ TypeOK /\ RowsOK /\ IndexOK /\ AssignOK
  BY DEF IInv, TypeOK
<1>2. /\ job[w].at = "save" /\ Fresh(NodeId) # {} /\ Write(w, i, row)
      /\ UNCHANGED <<committed, lock, requests>>
      /\ job' = [job EXCEPT ![w].id = i, ![w].at = "groups"]
  BY DEF Save, At, Writes
<1>3. job[w].op = "add" /\ row \in Node
  BY <1>1, <1>2 DEF JobOK, AtOK, HandOK, Job
<1>4. \A k \in NodeId : owner[k] # w
  BY <1>1, <1>2 DEF JobOK, OwnerOK
<1>5. i \in NodeId /\ i \in Row /\ db[i] = NoRow /\ committed[i] = NoRow /\ owner[i] = Nobody
  BY <1>2, NewRowFree
<1> HIDE DEF i, row
<1>6. /\ job' \in [Worker -> Job] /\ \A u \in Worker : u # w => job'[u] = job[u]
      /\ job'[w].op = "add" /\ job'[w].id = i /\ job'[w].row = row /\ job'[w].at = "groups"
  BY <1>1, <1>2, <1>3, <1>5 DEF TypeOK, Job, Stage, row
<1>7. PICK p \in PoolId : owner[p] = w /\ db[p] \in Pooled /\ db[p].vip = row.vip
  BY <1>1, <1>2 DEF JobOK, CopyOK, OwnsPool, OwnerOK, row
<1>8. ASSUME NEW q \in PoolId, owner[q] = w, NEW k \in NodeId PROVE ~ Has(k, db[q].vip)
  BY <1>1, <1>3, <1>4, <1>8 DEF AssignOK, Has
<1>9. /\ TypeOK' /\ db'[i] = row /\ owner'[i] = w
      /\ \A x \in Row : x # i => db'[x] = db[x] /\ owner'[x] = owner[x]
  BY <1>1, <1>2, <1>3, <1>5, <1>6, Markers, WriteType
<1>10. RowsOK' /\ \A u \in Worker : u # w => JobOK(u)'
  BY <1>2, <1>3, <1>5, <1>6, Markers, WriteKeeps
<1>11. IndexOK' /\ CoverOK' /\ AssignOK' /\ ExclusiveOK'
  <2>1. \A u \in Worker : job'[u].op = job[u].op
    BY <1>3, <1>6
  <2>3. \A u \in Worker, q \in PoolId, k \in NodeId :
            owner[q] = u /\ Has(k, db[q].vip) => job'[u].id = job[u].id
    BY <1>6, <1>8
  <2>2. ASSUME NEW v \in Vip, HasRow(db', i, v)
        PROVE  /\ \A k \in NodeId \ {i} : ~ Has(k, v)
               /\ \E q \in PoolId : /\ owner[q] = w /\ db[q] \in Pooled /\ db[q].vip = v
                                    /\ job'[w].id = i
    BY <1>6, <1>7, <1>8, <1>9, <2>2 DEF HasRow
  <2>4. \A v \in Vip : HasRow(db', i, v) =>
            \/ HasRow(db, i, v)
            \/ /\ \A k \in NodeId \ {i} : ~ Has(k, v)
               /\ \E q \in PoolId : /\ owner[q] = w /\ db[q] \in Pooled /\ db[q].vip = v
                                    /\ job'[w].id = i
    BY <2>2
  <2>5. i \in NodeId /\ owner[i] \in {w, Nobody} /\ committed' = committed
    BY <1>2, <1>5
  <2> QED
    BY <1>9, <2>1, <2>3, <2>4, <2>5, NodeWriteKeeps
<1>12. AtOK(w)' /\ HandOK(w)' /\ LockOK(w)' /\ CopyOK(w)' /\ NewOK(w)' /\ FreeOK(w)'
  BY <1>1, <1>2, <1>3, <1>5, <1>6 DEF JobOK, AtOK, HandOK, LockOK, CopyOK, NewOK, FreeOK
<1>13. OwnerOK(w)'
  <2>1. db'[i] # NoRow
    BY <1>3, <1>9, Markers
  <2>2. \A k \in NodeId : owner'[k] = w => k = i
    BY <1>4, <1>9 DEF Row
  <2>3. /\ \A q \in PoolId : db'[q] = db[q] /\ owner'[q] = owner[q]
        /\ owner'[Tenant] = owner[Tenant]
    BY <1>5, <1>9, Markers DEF Row
  <2> QED
    BY <1>1, <1>2, <1>3, <1>6, <2>1, <2>2, <2>3 DEF JobOK, OwnerOK, row
<1> QED
  BY <1>9, <1>10, <1>11, <1>12, <1>13 DEF IInv, JobOK

(* A node that is new gets a row, in a transaction of its own. *)
LEMMA InsertKeeps ==
    ASSUME IInv, NEW w \in Worker, Insert(w)
    PROVE  IInv'
<1> DEFINE i == NewRow(NodeId)
           row == [job[w].row EXCEPT !.enable = ~ NodeGrant]
<1>1. /\ job[w] \in Job /\ JobOK(w) /\ TypeOK /\ RowsOK /\ IndexOK /\ CoverOK /\ AssignOK
      /\ ExclusiveOK
  BY DEF IInv, TypeOK
<1>2. /\ job[w].at = "insert" /\ Fresh(NodeId) # {}
      /\ db' = [db EXCEPT ![i] = row] /\ committed' = [committed EXCEPT ![i] = row]
      /\ Fail(w) \/ job' = [job EXCEPT ![w].id = i, ![w].row = row, ![w].at = "reuse"]
      /\ UNCHANGED <<owner, lock, requests>>
  BY DEF Insert, At
<1>3. /\ job[w].op = "regist" /\ job[w].row \in Node /\ job[w].id = NoRow
      /\ job[w].row.vip = NoVip
  BY <1>1, <1>2 DEF JobOK, AtOK, HandOK, CopyOK, Job
<1>4. ~ OwnsPool(w) /\ \A r \in Row : owner[r] # w
  BY <1>2, OwnsNothing
<1>5. i \in NodeId /\ i \in Row /\ db[i] = NoRow /\ committed[i] = NoRow /\ owner[i] = Nobody
  BY <1>2, NewRowFree
<1>6. row \in Node /\ row.vip = NoVip
  BY <1>3, GrantAssumption DEF Node
<1> HIDE DEF i, row
<1>7. /\ job' \in [Worker -> Job] /\ \A u \in Worker : u # w => job'[u] = job[u]
      /\ job'[w].op = "regist" /\ job'[w].row \in Node /\ job'[w].row.vip = NoVip
      /\ job'[w].at \in {"unlock", "reuse"}
      /\ job'[w].id = IF job'[w].at = "reuse" THEN i ELSE NoRow
  <2>1. CASE Fail(w)
    <3> DEFINE k == [job[w] EXCEPT !.at = "unlock", !.ok = FALSE]
    <3>1. job' = [job EXCEPT ![w] = k]
      BY <1>1, <1>3, <2>1 DEF Fail, TypeOK
    <3>2. k \in Job /\ k.op = "regist" /\ k.id = NoRow /\ k.row = job[w].row /\ k.at = "unlock"
      BY <1>1, <1>3 DEF Job, Stage
    <3> HIDE DEF k
    <3> QED
      BY <1>1, <1>3, <2>1, <3>1, <3>2 DEF TypeOK
  <2>2. CASE job' = [job EXCEPT ![w].id = i, ![w].row = row, ![w].at = "reuse"]
    <3> DEFINE k == [job[w] EXCEPT !.id = i, !.row = row, !.at = "reuse"]
    <3>1. job' = [job EXCEPT ![w] = k]
      BY <1>1, <2>2 DEF TypeOK
    <3>2. k \in Job /\ k.op = "regist" /\ k.id = i /\ k.row = row /\ k.at = "reuse"
      BY <1>1, <1>3, <1>5, <1>6 DEF Job, Stage
    <3> HIDE DEF k
    <3> QED
      BY <1>1, <1>6, <3>1, <3>2 DEF TypeOK
  <2> QED
    BY <1>2, <2>1, <2>2
<1>8. /\ db'[i] = row /\ committed'[i] = row
      /\ \A x \in Row : x # i => db'[x] = db[x] /\ committed'[x] = committed[x]
      /\ db' = [x \in Row |-> db'[x]] /\ committed' = [x \in Row |-> committed'[x]]
  BY <1>1, <1>2, <1>5 DEF TypeOK, Typed
<1>9. TypeOK'
  <2>1. Typed(db)' /\ Typed(committed)'
    BY <1>1, <1>5, <1>6, <1>8, Markers DEF TypeOK, Typed, Row
  <2> QED
    BY <1>1, <1>2, <1>7, <2>1 DEF TypeOK
<1>10. RowsOK'
  BY <1>1, <1>2, <1>5, <1>6, <1>8, Markers DEF RowsOK, Row
<1>11. /\ \A p \in PoolId : db'[p] = db[p] /\ committed'[p] = committed[p]
       /\ db'[Tenant] = db[Tenant] /\ committed'[Tenant] = committed[Tenant]
       /\ \A k \in NodeId : k # i => db'[k] = db[k] /\ committed'[k] = committed[k]
  BY <1>5, <1>8, Markers DEF Row
<1>12. \A k \in NodeId : \A v \in Vip : (HasRow(db', k, v) <=> HasRow(db, k, v))
                                       /\ (HasRow(committed', k, v) <=> HasRow(committed, k, v))
  BY <1>5, <1>6, <1>8, <1>11, Markers DEF HasRow
<1>13. \A u \in Worker, p \in PoolId : owner[p] = u => u # w /\ job'[u] = job[u]
  BY <1>4, <1>7 DEF OwnsPool
<1>14. IndexOK'
  BY <1>1, <1>2, <1>11 DEF IndexOK
<1>15. \A k \in NodeId : \A v \in Vip : Has(k, v)' <=> Has(k, v)
  BY <1>12 DEF Has
<1>16. CoverOK'
  <2> SUFFICES ASSUME NEW k \in NodeId, NEW v \in Vip, Has(k, v)
               PROVE  \E q \in PoolId :
                          /\ db'[q] \in Pooled /\ db'[q].vip = v
                          /\ \/ owner'[q] = Nobody /\ db'[q].used
                             \/ owner'[q] \in Worker /\ job'[owner'[q]].id = k
    BY <1>15 DEF CoverOK
  <2>1. PICK q \in PoolId : /\ db[q] \in Pooled /\ db[q].vip = v
                            /\ \/ owner[q] = Nobody /\ db[q].used
                               \/ owner[q] \in Worker /\ job[owner[q]].id = k
    BY <1>1 DEF CoverOK
  <2> QED
    BY <1>2, <1>11, <1>13, <2>1
<1>17. AssignOK'
  <2> SUFFICES ASSUME NEW u \in Worker, NEW q \in PoolId, owner[q] = u,
                      job'[u].op \in {"regist", "add"}, NEW k \in NodeId
               PROVE  /\ ~ HasRow(committed', k, db'[q].vip)
                      /\ HasRow(db', k, db'[q].vip) => owner[k] = u
    BY <1>2 DEF AssignOK, HasRow
  <2>1. job[u].op \in {"regist", "add"} /\ db'[q] = db[q]
    BY <1>11, <1>13
  <2>2. db[q].vip \in Vip
    BY <1>13 DEF IInv, JobOK, OwnerOK, Pooled
  <2> QED
    BY <1>1, <1>12, <2>1, <2>2 DEF AssignOK
<1>18. ExclusiveOK'
  BY <1>1, <1>15 DEF ExclusiveOK
<1>19. ASSUME NEW u \in Worker, u # w PROVE JobOK(u)'
  <2>1. JobOK(u) /\ job'[u] = job[u]
    BY <1>7, <1>19 DEF IInv
  <2>2. AtOK(u)' /\ LockOK(u)'
    BY <1>2, <2>1 DEF JobOK, AtOK, LockOK
  <2>3. HandOK(u)'
    BY <1>6, <1>8, <1>11, <2>1, Markers DEF JobOK, HandOK
  <2>4. OwnerOK(u)'
    BY <1>2, <1>6, <1>8, <1>11, <2>1, Markers DEF JobOK, OwnerOK
  <2>5. NewOK(u)'
    BY <1>2, <1>11, <2>1 DEF JobOK, NewOK
  <2>6. OwnsPool(u)' <=> OwnsPool(u)
    BY <1>2 DEF OwnsPool
  <2>7. job[u].op \in {"regist", "del"} /\ job[u].id \in NodeId => job[u].id # i
    BY <1>5, <2>1 DEF JobOK, HandOK
  <2>8. CopyOK(u)'
    <3>1. job[u].op = "regist" /\ job[u].at = "update" => job[u].id \in NodeId
      BY <2>1 DEF JobOK, HandOK
    <3> QED
      BY <1>11, <2>1, <2>6, <2>7, <3>1 DEF JobOK, CopyOK, OnlyVip
  <2>9. FreeOK(u)'
    <3>1. job[u].op = "del" => job[u].id \in NodeId
      BY <2>1 DEF JobOK, HandOK
    <3> QED
      BY <1>2, <1>11, <2>1, <2>6, <2>7, <3>1 DEF JobOK, FreeOK, HasRow
  <2> QED
    BY <2>2, <2>3, <2>4, <2>5, <2>8, <2>9 DEF JobOK
<1>20. AtOK(w)' /\ NewOK(w)' /\ LockOK(w)' /\ FreeOK(w)'
  BY <1>1, <1>2, <1>3, <1>7 DEF JobOK, AtOK, NewOK, LockOK, FreeOK
<1>21. HandOK(w)'
  BY <1>5, <1>6, <1>7, <1>8, Markers DEF HandOK
<1>22. OwnerOK(w)'
  BY <1>2, <1>4 DEF OwnerOK, Row
<1>23. CopyOK(w)'
  BY <1>6, <1>7, <1>8 DEF CopyOK, OnlyVip
<1> QED
  BY <1>9, <1>10, <1>14, <1>16, <1>17, <1>18, <1>19, <1>20, <1>21, <1>22, <1>23 DEF IInv, JobOK

(* A transaction is committed or rolled back. *)
LEMMA EndKeeps ==
    ASSUME IInv, NEW w \in Worker, End(w)
    PROVE  IInv'
<1>1. /\ job[w] \in Job /\ JobOK(w) /\ TypeOK /\ RowsOK /\ IndexOK /\ CoverOK /\ AssignOK
      /\ ExclusiveOK
  BY DEF IInv, TypeOK
<1>2. /\ job[w].at = "end" /\ job' = [job EXCEPT ![w] = Idle] /\ UNCHANGED <<lock, requests>>
      /\ db' = [r \in Row |-> IF owner[r] = w /\ ~ job[w].ok THEN committed[r] ELSE db[r]]
      /\ committed' = [r \in Row |-> IF owner[r] = w /\ job[w].ok THEN db[r] ELSE committed[r]]
      /\ owner' = [r \in Row |-> IF owner[r] = w THEN Nobody ELSE owner[r]]
  BY DEF End, At
<1> DEFINE ok == job[w].ok
<1>3. ok \in BOOLEAN
  BY <1>1 DEF Job
<1>4. \A r \in Row : db'[r] = IF owner[r] = w /\ ~ ok THEN committed[r] ELSE db[r]
  BY <1>2
<1>5. \A r \in Row : committed'[r] = IF owner[r] = w /\ ok THEN db[r] ELSE committed[r]
  BY <1>2
<1>6. \A r \in Row : owner'[r] = IF owner[r] = w THEN Nobody ELSE owner[r]
  BY <1>2
<1> HIDE DEF ok
<1>7. /\ \A u \in Worker : u # w => job'[u] = job[u]
      /\ job'[w] = Idle /\ Idle \in Job /\ job' \in [Worker -> Job]
      /\ Idle.at = "idle" /\ Idle.op = "none" /\ Idle.id = NoRow
  <2>1. Idle \in Job /\ Idle.at = "idle" /\ Idle.op = "none" /\ Idle.id = NoRow
    BY CountAssumption DEF Idle, Doing, Job, Stage, Index
  <2> QED
    BY <1>1, <1>2, <2>1 DEF TypeOK
(* Rows of others are left alone; its own are the same in both places afterwards. *)
<1>8. \A r \in Row : owner[r] # w =>
          db'[r] = db[r] /\ committed'[r] = committed[r] /\ owner'[r] = owner[r]
  BY <1>4, <1>5, <1>6
<1>9. ASSUME NEW r \in Row, owner[r] = w
      PROVE  /\ db'[r] = committed'[r] /\ owner'[r] = Nobody
             /\ db'[r] = IF ok THEN db[r] ELSE committed[r]
  BY <1>3, <1>4, <1>5, <1>6, <1>9
<1>10. TypeOK'
  <2>1. db' = [r \in Row |-> db'[r]] /\ committed' = [r \in Row |-> committed'[r]]
    BY <1>2
  <2>2. \A r \in Row : db'[r] \in {db[r], committed[r]} /\ committed'[r] \in {db[r], committed[r]}
    BY <1>4, <1>5
  <2>3. Typed(db)' /\ Typed(committed)'
    BY <1>1, <2>1, <2>2 DEF TypeOK, Typed, Row
  <2>4. owner' \in [Row -> Worker \cup {Nobody}]
    BY <1>1, <1>2 DEF TypeOK
  <2> QED
    BY <1>1, <1>2, <1>7, <2>3, <2>4 DEF TypeOK
<1>11. RowsOK'
  BY <1>1, <1>8, <1>9, Markers DEF RowsOK, Row
<1>12. NodeId \subseteq Row /\ PoolId \subseteq Row /\ Tenant \in Row
  BY DEF Row
<1>13. ASSUME NEW p \in PoolId
       PROVE  /\ db'[p] \in Pooled => db[p] \in Pooled /\ db'[p].vip = db[p].vip
              /\ committed'[p] \in Pooled => db[p] \in Pooled /\ committed'[p].vip = db[p].vip
  BY <1>1, <1>4, <1>5, <1>12 DEF IndexOK
<1>14. ASSUME NEW i \in NodeId, NEW v
       PROVE  /\ HasRow(db', i, v) => Has(i, v)
              /\ HasRow(committed', i, v) => Has(i, v)
              /\ Has(i, v)' => Has(i, v)
  BY <1>4, <1>5, <1>12 DEF Has, HasRow
<1>15. IndexOK'
  <2>1. /\ db[Tenant] \in Int /\ committed[Tenant] \in Int
        /\ \A p \in PoolId : db[p] \in Pooled => db[p].vip \in Int
    BY <1>1, CountAssumption DEF TypeOK, Typed, Index, Vip, Pooled
  <2>2. committed'[Tenant] <= db'[Tenant]
    BY <1>1, <1>4, <1>5, <1>12, <2>1 DEF IndexOK
  <2>3. ASSUME NEW p \in PoolId, db'[p] \in Pooled PROVE db'[p].vip <= db'[Tenant]
    <3>1. db[p] \in Pooled /\ db'[p].vip = db[p].vip /\ db[p].vip <= db[Tenant]
      BY <1>1, <1>13, <2>3 DEF IndexOK
    <3>2. CASE db'[Tenant] = db[Tenant]
      BY <3>1, <3>2
    <3>3. CASE owner[Tenant] = w /\ ~ ok
      <4>1. db'[Tenant] = committed[Tenant]
        BY <1>4, <1>12, <3>3
      <4>2. committed[p] \in Pooled
        <5> SUFFICES ASSUME committed[p] \notin Pooled PROVE FALSE
          OBVIOUS
        <5>1. committed[p] = NoRow
          BY <1>1 DEF TypeOK, Typed
        <5>2. owner[p] = w
          BY <1>1, <3>1, <3>3, <5>1 DEF IndexOK
        <5> QED
          BY <1>4, <1>12, <2>3, <3>3, <5>1, <5>2, Markers
      <4> QED
        BY <1>1, <3>1, <4>1, <4>2 DEF IndexOK
    <3> QED
      BY <1>4, <1>12, <3>2, <3>3
  <2>4. ASSUME NEW p \in PoolId, committed'[p] \in Pooled
        PROVE  /\ db'[p] \in Pooled /\ db'[p].vip = committed'[p].vip
               /\ db'[p].vip <= committed'[Tenant]
    <3>1. db'[p] \in Pooled /\ db'[p].vip = committed'[p].vip
      BY <1>1, <1>4, <1>5, <1>12, <2>4 DEF IndexOK
    <3>2. db[p] \in Pooled /\ db'[p].vip = db[p].vip
      BY <1>13, <3>1
    <3>3. db[p].vip <= committed'[Tenant]
      <4>1. CASE committed[p] \in Pooled
        BY <1>1, <1>5, <1>12, <2>1, <3>2, <4>1 DEF IndexOK
      <4>2. CASE committed[p] \notin Pooled
        <5>1. committed[p] = NoRow /\ owner[p] = w /\ ok
          BY <1>1, <1>5, <1>12, <2>4, <4>2 DEF TypeOK, Typed
        <5>2. owner[Tenant] = w
          BY <1>1, <3>2, <5>1 DEF IndexOK
        <5> QED
          BY <1>1, <1>5, <1>12, <3>2, <5>1, <5>2 DEF IndexOK
      <4> QED
        BY <4>1, <4>2
    <3> QED
      BY <3>1, <3>2, <3>3
  <2>5. ASSUME NEW p \in PoolId, db'[p] \in Pooled, committed'[p] = NoRow
        PROVE  owner'[p] = owner'[Tenant]
    <3>1. owner[p] # w
      BY <1>9, <1>12, <2>5, Markers
    <3>2. db[p] \in Pooled /\ committed[p] = NoRow
      BY <1>8, <1>12, <2>5, <3>1
    <3>3. owner[p] = owner[Tenant]
      BY <1>1, <3>2 DEF IndexOK
    <3> QED
      BY <1>6, <1>12, <3>1, <3>3
  <2>6. \A p, q \in PoolId : db'[p] \in Pooled /\ db'[q] \in Pooled /\ db'[p].vip = db'[q].vip => p = q
    BY <1>1, <1>13 DEF IndexOK
  <2> QED
    BY <2>2, <2>3, <2>4, <2>5, <2>6 DEF IndexOK
<1>16. CoverOK'
  <2> SUFFICES ASSUME NEW i \in NodeId, NEW v \in Vip, Has(i, v)'
               PROVE  \E q \in PoolId :
                          /\ db'[q] \in Pooled /\ db'[q].vip = v
                          /\ \/ owner'[q] = Nobody /\ db'[q].used
                             \/ owner'[q] \in Worker /\ job'[owner'[q]].id = i
    BY DEF CoverOK
  <2>1. PICK p \in PoolId : /\ db[p] \in Pooled /\ db[p].vip = v
                            /\ \/ owner[p] = Nobody /\ db[p].used
                               \/ owner[p] \in Worker /\ job[owner[p]].id = i
    BY <1>1, <1>14 DEF CoverOK
  <2>2. CASE owner[p] # w
    <3>1. db'[p] = db[p] /\ owner'[p] = owner[p]
      BY <1>8, <1>12, <2>2
    <3> QED
      BY <1>7, <2>1, <2>2, <3>1
  <2>3. CASE owner[p] = w
    <3>1. /\ job[w].id = i
          /\ \/ job[w].op \in {"regist", "add"} /\ db[p].used
             \/ /\ job[w].op = "del" /\ ~ db[p].used
                /\ committed[p] \in Pooled /\ committed[p].used
      BY <1>1, <2>1, <2>3, Markers DEF JobOK, OwnerOK
    <3>2. owner'[p] = Nobody
      BY <1>9, <1>12, <2>3
    <3>3. CASE job[w].op \in {"regist", "add"} /\ db[p].used
      <4>1. ok
        <5> SUFFICES ASSUME ~ ok PROVE FALSE
          OBVIOUS
        <5>1. ~ HasRow(committed, i, v) /\ (HasRow(db, i, v) => owner[i] = w)
          BY <1>1, <2>1, <2>3, <3>3 DEF AssignOK
        <5>2. HasRow(db, i, v)
          BY <1>14, <5>1 DEF Has
        <5>3. db'[i] = committed[i] /\ committed'[i] = committed[i]
          BY <1>4, <1>5, <1>12, <5>1, <5>2
        <5> QED
          BY <5>1, <5>3 DEF Has, HasRow
      <4>2. db'[p] = db[p]
        BY <1>9, <1>12, <2>3, <4>1
      <4> QED
        BY <2>1, <3>2, <3>3, <4>2
    <3>4. CASE job[w].op = "del" /\ committed[p] \in Pooled /\ committed[p].used
      <4>1. ~ ok
        <5> SUFFICES ASSUME ok PROVE FALSE
          OBVIOUS
        <5>1. db[i] = Gone /\ owner[i] = w
          BY <1>1, <1>2, <2>3, <3>1, <3>4 DEF JobOK, FreeOK, OwnsPool, ok
        <5>2. db'[i] = Gone /\ committed'[i] = Gone
          BY <1>9, <1>12, <5>1
        <5> QED
          BY <5>2, Markers DEF Has, HasRow
      <4>2. db'[p] = committed[p]
        BY <1>9, <1>12, <2>3, <4>1
      <4>3. committed[p].vip = v
        BY <1>1, <2>1, <3>4 DEF IndexOK
      <4> QED
        BY <3>2, <3>4, <4>2, <4>3
    <3> QED
      BY <3>1, <3>3, <3>4
  <2> QED
    BY <2>2, <2>3
<1>17. AssignOK'
  <2> SUFFICES ASSUME NEW u \in Worker, NEW q \in PoolId, owner'[q] = u,
                      job'[u].op \in {"regist", "add"}, NEW i \in NodeId
               PROVE  /\ ~ HasRow(committed', i, db'[q].vip)
                      /\ HasRow(db', i, db'[q].vip) => owner'[i] = u
    BY DEF AssignOK, HasRow
  <2>1. owner[q] # w /\ u # w
    BY <1>7, <1>9, <1>12, Markers
  <2>2. owner[q] = u /\ db'[q] = db[q] /\ job[u].op \in {"regist", "add"}
    BY <1>7, <1>8, <1>12, <2>1
  <2>3. ~ HasRow(committed, i, db[q].vip) /\ (HasRow(db, i, db[q].vip) => owner[i] = u)
    BY <1>1, <2>2 DEF AssignOK
  <2>4. CASE owner[i] = w
    <3>1. ~ HasRow(db, i, db[q].vip)
      BY <2>1, <2>3, <2>4
    <3> QED
      BY <1>4, <1>5, <1>12, <2>2, <2>3, <3>1 DEF HasRow
  <2>5. CASE owner[i] # w
    BY <1>8, <1>12, <2>2, <2>3, <2>5 DEF HasRow
  <2> QED
    BY <2>4, <2>5
<1>18. ExclusiveOK'
  BY <1>1, <1>14 DEF ExclusiveOK
<1>19. ASSUME NEW u \in Worker, u # w PROVE JobOK(u)'
  <2>1. JobOK(u) /\ job'[u] = job[u]
    BY <1>7, <1>19 DEF IInv
  <2>2. \A r \in Row : (owner'[r] = u <=> owner[r] = u)
                       /\ (owner[r] = u => db'[r] = db[r] /\ committed'[r] = committed[r])
    BY <1>6, <1>8, <1>19, Markers
  <2>3. AtOK(u)' /\ LockOK(u)'
    BY <1>2, <2>1 DEF JobOK, AtOK, LockOK
  <2>4. HandOK(u)'
    <3>1. \A i \in NodeId : committed[i] # NoRow => committed'[i] # NoRow
      BY <1>1, <1>5, <1>12 DEF RowsOK
    <3>2. \A p \in PoolId : db[p] \in Pooled /\ committed[p] \in Pooled =>
              db'[p] \in Pooled /\ committed'[p] \in Pooled
      BY <1>4, <1>5, <1>12
    <3> QED
      BY <2>1, <3>1, <3>2 DEF JobOK, HandOK
  <2>5. OwnerOK(u)'
    BY <1>12, <2>1, <2>2 DEF JobOK, OwnerOK
  <2>6. NewOK(u)'
    BY <1>12, <1>13, <2>1, <2>2 DEF JobOK, NewOK
  <2>7. OwnsPool(u)' <=> OwnsPool(u)
    BY <1>12, <2>2 DEF OwnsPool
  <2>8. CopyOK(u)'
    <3>1. \A i \in NodeId : \A v : OnlyVip(i, v) => OnlyVip(i, v)'
      BY <1>4, <1>5, <1>12 DEF OnlyVip
    <3>2. job[u].op = "regist" /\ job[u].at = "update" => job[u].id \in NodeId
      BY <2>1 DEF JobOK, HandOK
    <3> QED
      BY <2>1, <2>7, <3>1, <3>2 DEF JobOK, CopyOK
  <2>9. FreeOK(u)'
    <3>1. \A i \in NodeId : \A v : HasRow(db, i, v) /\ HasRow(committed, i, v) =>
              HasRow(db', i, v) /\ HasRow(committed', i, v)
      BY <1>4, <1>5, <1>12 DEF HasRow
    <3>2. job[u].op = "del" => job[u].id \in NodeId
      BY <2>1 DEF JobOK, HandOK
    <3>3. job[u].op = "del" /\ owner[job[u].id] = u =>
              owner'[job[u].id] = u /\ db'[job[u].id] = db[job[u].id]
      BY <1>12, <2>2, <3>2 DEF Row
    <3> QED
      BY <2>1, <2>7, <3>1, <3>2, <3>3 DEF JobOK, FreeOK, HasRow
  <2> QED
    BY <2>3, <2>4, <2>5, <2>6, <2>8, <2>9 DEF JobOK
<1>20. \A r \in Row : owner'[r] # w
  BY <1>6, Markers
<1>21. AtOK(w)' /\ HandOK(w)' /\ NewOK(w)' /\ LockOK(w)' /\ CopyOK(w)' /\ FreeOK(w)' /\ OwnerOK(w)'
  BY <1>7, <1>12, <1>20, Markers DEF AtOK, HandOK, NewOK, LockOK, CopyOK, FreeOK, OwnerOK, Row
<1> QED
  BY <1>10, <1>11, <1>15, <1>16, <1>17, <1>18, <1>19, <1>21 DEF IInv, JobOK

(* At the start there are no nodes and no requests. *)
LEMMA InitInv == ASSUME Init PROVE IInv
<1>1. /\ Idle \in Job /\ Idle.at = "idle" /\ Idle.op = "none" /\ Idle.id = NoRow /\ -1 \in Index
      /\ 0 \in 0 .. MaxRequests
  BY CountAssumption, BoundAssumption DEF Idle, Doing, Job, Stage, Index
<1>2. /\ \A i \in NodeId : db[i] = NoRow
      /\ \A p \in PoolId : db[p] = NoRow
      /\ db[Tenant] = -1 /\ db = [r \in Row |-> db[r]] /\ committed = db
  BY Markers DEF Init, Row
<1>3. /\ \A r \in Row : owner[r] = Nobody
      /\ \A w \in Worker : job[w] = Idle
  BY DEF Init
<1>4. TypeOK
  BY <1>1, <1>2 DEF Init, TypeOK, Typed
<1>5. RowsOK
  BY <1>2, <1>3, Markers DEF RowsOK
<1>6. IndexOK
  BY <1>2, Markers DEF IndexOK
<1>7. \A i \in NodeId : \A v : ~ Has(i, v)
  BY <1>2, Markers DEF Has, HasRow
<1>8. CoverOK /\ ExclusiveOK
  BY <1>7 DEF CoverOK, ExclusiveOK
<1>9. AssignOK
  BY <1>3, Markers DEF AssignOK, Row
<1>10. ASSUME NEW w \in Worker PROVE JobOK(w)
  BY <1>1, <1>3, Markers DEF JobOK, AtOK, HandOK, NewOK, LockOK, CopyOK, FreeOK, OwnerOK, Row
<1> QED
  BY <1>4, <1>5, <1>6, <1>8, <1>9, <1>10 DEF IInv

(* The tenant is not edited: nothing waits for that. *)
LEMMA NoTenantEdit ==
    ASSUME IInv, NEW w \in Worker
    PROVE  ~ EditTenantRead(w) /\ ~ EditTenantWrite(w)
<1>1. job[w] \in Job /\ AtOK(w)
  BY DEF IInv, TypeOK, JobOK
<1> QED
  BY <1>1 DEF AtOK, EditTenantRead, EditTenantWrite, At, Job

(* Every step keeps the invariant. *)
LEMMA NextInv == ASSUME Restricted, IInv, [Next]_vars PROVE IInv'
<1>1. CASE UNCHANGED vars
  <2>1. UNCHANGED <<db, committed, owner, lock, job, requests>>
    BY <1>1 DEF vars
  <2>2. TypeOK' /\ RowsOK' /\ IndexOK'
    BY <2>1 DEF IInv, TypeOK, Typed, RowsOK, IndexOK
  <2>3. CoverOK' /\ AssignOK' /\ ExclusiveOK'
    BY <2>1 DEF IInv, CoverOK, AssignOK, ExclusiveOK, Has, HasRow
  <2>4. ASSUME NEW w \in Worker PROVE JobOK(w)'
    <3>1. JobOK(w)
      BY DEF IInv
    <3>2. OwnsPool(w)' <=> OwnsPool(w)
      BY <2>1 DEF OwnsPool
    <3>3. AtOK(w)' /\ HandOK(w)' /\ OwnerOK(w)' /\ NewOK(w)' /\ LockOK(w)'
      BY <2>1, <3>1 DEF JobOK, AtOK, HandOK, OwnerOK, NewOK, LockOK
    <3>4. CopyOK(w)' /\ FreeOK(w)'
      BY <2>1, <3>1, <3>2 DEF JobOK, CopyOK, FreeOK, OnlyVip, HasRow
    <3> QED
      BY <3>1, <3>3, <3>4 DEF JobOK
  <2> QED
    BY <2>2, <2>3, <2>4 DEF IInv
<1>2. ASSUME NEW w \in Worker, Begin(w) PROVE IInv'
  BY <1>2, StartKeeps
<1>3. ASSUME NEW w \in Worker, Run(w) PROVE IInv'
  <2>1. CASE Lock(w) \/ Unlock(w)
    BY <2>1, LockKeeps
  <2>2. CASE FindNone(w) \/ FindOne(w) \/ FindSeveral(w)
    BY <2>2, FindKeeps
  <2>3. CASE ReadTenant(w) \/ ReuseIp(w) \/ ReuseNone(w) \/ TakeMissed(w) \/ SelectIdxMissed(w)
    BY <2>3, SearchKeeps
  <2>4. CASE CheckUnique(w) \/ Used(w) \/ Read(w) \/ Groups(w) \/ LockTimeout(w)
    BY <2>4, AdminReadKeeps
  <2>5. CASE Insert(w)
    BY <2>5, InsertKeeps
  <2>6. CASE Update(w)
    BY <2>6, UpdateKeeps
  <2>7. CASE Take(w)
    BY <2>7, TakeKeeps
  <2>8. CASE SelectIdx(w)
    BY <2>8, SelectKeeps
  <2>9. CASE PoolInsert(w)
    BY <2>9, InsertPoolKeeps
  <2>10. CASE Save(w)
    BY <2>10, SaveKeeps
  <2>11. CASE Free(w)
    BY <2>11, FreeKeeps
  <2>12. CASE Delete(w)
    BY <2>12, DeleteKeeps
  <2>13. CASE End(w)
    BY <2>13, EndKeeps
  <2> QED
    BY <1>3, <2>1, <2>2, <2>3, <2>4, <2>5, <2>6, <2>7, <2>8, <2>9, <2>10, <2>11, <2>12, <2>13,
       NoTenantEdit DEF Run
<1> QED
  BY <1>1, <1>2, <1>3 DEF Next, Finished

LEMMA Invariant == ASSUME Restricted PROVE Spec => []IInv
<1>1. Init => IInv
  BY InitInv
<1>2. IInv /\ [Next]_vars => IInv'
  BY NextInv
<1> QED
  BY <1>1, <1>2, PTL DEF Spec
-----------------------------------------------------------------------------
(* No two nodes are given the same vip, in whatever order the statements of registrations, *)
(* additions, edits and one administrator's deletions run (assignNodeInfo, assignIp,          *)
(* freeIp).                                                                                      *)
THEOREM VipIsExclusive == ASSUME Restricted PROVE Spec => []VipExclusive
<1>1. ASSUME IInv PROVE VipExclusive
  <2> SUFFICES ASSUME NEW i \in NodeId, NEW j \in NodeId, i # j, NEW v \in Vips(i), v \in Vips(j)
               PROVE  FALSE
    BY DEF VipExclusive
  <2>1. v \in Vip /\ HasRow(committed, i, v) /\ HasRow(committed, j, v)
    BY <1>1 DEF Vips, Exists, HasRow, IInv, TypeOK, Typed, Node
  <2> QED
    BY <1>1, <2>1 DEF IInv, ExclusiveOK, Has
<1> QED
  BY <1>1, Invariant, PTL

(* The vip of a node is marked as used in the pool (selectNotUsed finds only others). *)
THEOREM PoolIsCovering == ASSUME Restricted PROVE Spec => []PoolCovers
<1>1. ASSUME IInv PROVE PoolCovers
  <2> SUFFICES ASSUME NEW i \in NodeId, NEW v \in Vips(i)
               PROVE  v \in InUse
    BY DEF PoolCovers
  <2>1. v \in Vip /\ HasRow(committed, i, v)
    BY <1>1 DEF Vips, Exists, HasRow, IInv, TypeOK, Typed, Node
  <2>2. PICK p \in PoolId : /\ db[p] \in Pooled /\ db[p].vip = v
                            /\ \/ owner[p] = Nobody /\ db[p].used
                               \/ owner[p] \in Worker /\ job[owner[p]].id = i
    BY <1>1, <2>1 DEF IInv, CoverOK, Has
  <2>3. committed[p] \in Pooled /\ committed[p].vip = v /\ committed[p].used
    <3>1. CASE owner[p] = Nobody /\ db[p].used
      BY <1>1, <2>2, <3>1 DEF IInv, RowsOK, Row
    <3>2. CASE owner[p] \in Worker
      <4>1. job[owner[p]].op \notin {"regist", "add"}
        BY <1>1, <2>1, <2>2, <3>2 DEF IInv, AssignOK
      <4>2. committed[p] \in Pooled /\ committed[p].used
        BY <1>1, <2>2, <3>2, <4>1 DEF IInv, JobOK, OwnerOK
      <4> QED
        BY <1>1, <2>2, <4>2 DEF IInv, IndexOK
    <3> QED
      BY <2>2, <3>1, <3>2
  <2> QED
    BY <2>3, Markers DEF InUse, Exists
<1> QED
  BY <1>1, Invariant, PTL

(* A node that has a vip keeps it as long as it exists, whatever old copies of its row are *)
(* written back (updateById in assignNodeInfo and update).                                    *)
THEOREM VipIsStable == ASSUME Restricted PROVE Spec => VipStable
<1>1. ASSUME IInv, [Next]_vars
      PROVE  [\A i \in NodeId : Exists(committed', i) => Vips(i) \subseteq Vips(i)']_vars
  <2>1. CASE committed' = committed
    BY <2>1 DEF Vips, Exists
  <2>2. ASSUME NEW w \in Worker, Insert(w)
        PROVE  \A i \in NodeId : Exists(committed', i) => Vips(i) \subseteq Vips(i)'
    <3>1. LET r == NewRow(NodeId)
          IN  committed[r] = NoRow /\ \A i \in NodeId : i # r => committed'[i] = committed[i]
      <4>1. committed[NewRow(NodeId)] = NoRow
        BY <1>1, <2>2, NewRowFree DEF Insert
      <4>2. \A i \in NodeId : i # NewRow(NodeId) => committed'[i] = committed[i]
        BY <1>1, <2>2 DEF Insert, IInv, TypeOK, Typed, Row
      <4> QED
        BY <4>1, <4>2
    <3> QED
      BY <3>1 DEF Vips, Exists
  <2>3. ASSUME NEW w \in Worker, End(w)
        PROVE  \A i \in NodeId : Exists(committed', i) => Vips(i) \subseteq Vips(i)'
    <3>1. \A i \in NodeId : committed'[i] \in {db[i], committed[i]}
      BY <2>3 DEF End, Row
    <3>2. \A i \in NodeId : Exists(committed', i) => committed'[i] \in Node
      BY <1>1, <3>1 DEF IInv, TypeOK, Typed, Exists
    <3>3. ASSUME NEW i \in NodeId, Exists(committed', i), NEW v \in Vips(i) PROVE v \in Vips(i)'
      <4>1. committed[i] \in Node /\ committed[i].vip = v /\ v # NoVip
        BY <1>1, <3>3 DEF Vips, Exists, IInv, TypeOK, Typed
      <4>2. committed'[i].vip = v
        BY <1>1, <3>1, <3>2, <3>3, <4>1 DEF IInv, RowsOK
      <4> QED
        BY <3>3, <4>1, <4>2 DEF Vips
    <3> QED
      BY <3>3
  <2>4. ASSUME Next PROVE committed' = committed \/ \E w \in Worker : Insert(w) \/ End(w)
    <3>1. ASSUME NEW w \in Worker, Begin(w) PROVE committed' = committed
      BY <3>1 DEF Begin, Regist, Add, Edit, Del, EditTenant, Start
    <3>2. ASSUME NEW w \in Worker, Run(w) PROVE committed' = committed \/ Insert(w) \/ End(w)
      <4>1. CASE \/ Lock(w) \/ FindNone(w) \/ FindOne(w) \/ FindSeveral(w) \/ ReadTenant(w)
                 \/ Update(w) \/ Groups(w) \/ Unlock(w) \/ LockTimeout(w)
        BY <4>1 DEF Lock, FindNone, FindOne, FindSeveral, ReadTenant, Update, Groups, Unlock,
           LockTimeout, Reads, Writes
      <4>2. CASE \/ ReuseIp(w) \/ ReuseNone(w) \/ Take(w) \/ TakeMissed(w) \/ SelectIdx(w)
                 \/ SelectIdxMissed(w) \/ PoolInsert(w)
        BY <4>2 DEF ReuseIp, ReuseNone, Take, TakeMissed, SelectIdx, SelectIdxMissed, PoolInsert,
           Reads, Writes
      <4>3. CASE \/ CheckUnique(w) \/ Save(w) \/ Used(w) \/ Read(w) \/ Free(w) \/ Delete(w)
                 \/ EditTenantRead(w) \/ EditTenantWrite(w)
        BY <4>3 DEF CheckUnique, Save, Used, Read, Free, Delete, EditTenantRead, EditTenantWrite,
           Reads, Writes
      <4> QED
        BY <3>2, <4>1, <4>2, <4>3 DEF Run
    <3> QED
      BY <2>4, <3>1, <3>2 DEF Next, Finished, vars
  <2>5. CASE UNCHANGED vars
    BY <2>5
  <2> QED
    BY <1>1, <2>1, <2>2, <2>3, <2>4, <2>5
<1> QED
  BY <1>1, Invariant, PTL DEF Spec, VipStable
-----------------------------------------------------------------------------
(* No vip is lost.  Without deletions a row that exists stays, so that a transaction *)
(* that used a vip of the pool has given it to a node by the time it commits.          *)
NoDeletion == Restricted /\ "del" \notin Request

NoneGone == \A i \in NodeId : db[i] # Gone

(* A vip that is committed as used is that of a node. *)
HeldOK ==
    \A p \in PoolId : committed[p] \in Pooled /\ committed[p].used =>
        \E i \in NodeId : HasRow(committed, i, committed[p].vip)

(* A transaction that will be committed has written the node its vip is for. *)
GivenOK(w) ==
    \A p \in PoolId :
        owner[p] = w /\ job[w].ok /\ job[w].at \in {"groups", "unlock", "end"} =>
            \E i \in NodeId : owner[i] = w /\ HasRow(db, i, db[p].vip)

HInv == IInv /\ NoneGone /\ HeldOK /\ \A w \in Worker : GivenOK(w)

(* The row that w writes is not one another transaction has written. *)
LEMMA OthersGiven ==
    ASSUME HInv, NEW w \in Worker, NEW u \in Worker, u # w, job'[u] = job[u],
           \A r \in NodeId \cup PoolId : owner[r] = u => db'[r] = db[r] /\ owner'[r] = u,
           \A p \in PoolId : owner'[p] = u => owner[p] = u
    PROVE  GivenOK(u)'
<1> SUFFICES ASSUME NEW p \in PoolId, owner'[p] = u, job'[u].ok,
                    job'[u].at \in {"groups", "unlock", "end"}
             PROVE  \E i \in NodeId : owner'[i] = u /\ HasRow(db', i, db'[p].vip)
  BY DEF GivenOK, HasRow
<1>1. PICK i \in NodeId : owner[i] = u /\ HasRow(db, i, db[p].vip)
  BY DEF HInv, GivenOK
<1>2. db'[i] = db[i] /\ owner'[i] = u /\ db'[p] = db[p]
  BY <1>1
<1> QED
  BY <1>1, <1>2 DEF HasRow

(* Steps of w that write no row, or none of a node or the pool. *)
LEMMA HeldStill ==
    ASSUME HInv, IInv', NEW w \in Worker, UNCHANGED committed,
           \A r \in NodeId \cup PoolId : db'[r] = db[r] /\ owner'[r] = owner[r],
           \A u \in Worker : u # w => job'[u] = job[u],
           \/ ~ job'[w].ok
           \/ job'[w].at \notin {"groups", "unlock", "end"}
           \/ job'[w].ok = job[w].ok /\ job[w].at \in {"groups", "unlock", "end"}
           \/ ~ OwnsPool(w)
    PROVE  HInv'
<1>1. GivenOK(w)'
  <2> SUFFICES ASSUME NEW p \in PoolId, owner'[p] = w, job'[w].ok,
                      job'[w].at \in {"groups", "unlock", "end"}
               PROVE  \E i \in NodeId : owner'[i] = w /\ HasRow(db', i, db'[p].vip)
    BY DEF GivenOK, HasRow
  <2>1. owner[p] = w /\ db'[p] = db[p] /\ OwnsPool(w)
    BY DEF OwnsPool
  <2>2. PICK i \in NodeId : owner[i] = w /\ HasRow(db, i, db[p].vip)
    BY <2>1 DEF HInv, GivenOK
  <2> QED
    BY <2>1, <2>2 DEF HasRow
<1>2. ASSUME NEW u \in Worker, u # w PROVE GivenOK(u)'
  BY <1>2, OthersGiven
<1>3. NoneGone' /\ HeldOK'
  BY DEF HInv, NoneGone, HeldOK, HasRow
<1> QED
  BY <1>1, <1>2, <1>3 DEF HInv

(* A pool row is taken or inserted: the node is still to be written. *)
LEMMA HeldPool ==
    ASSUME HInv, IInv', NEW w \in Worker, Take(w) \/ PoolInsert(w)
    PROVE  HInv'
<1>1. job[w] \in Job /\ JobOK(w) /\ TypeOK /\ IInv
  BY DEF HInv, IInv, TypeOK
<1>2. PICK p \in PoolId : owner[p] \in {w, Nobody} /\ \E value : Write(w, p, value)
  <2>1. CASE Take(w)
    <3>1. job[w].at = "take" /\ Granted(w) /\ Needs(w) = {job[w].pool} /\ job[w].pool \in PoolId
          /\ Write(w, job[w].pool, [db[job[w].pool] EXCEPT !.used = TRUE])
      BY <1>1, <2>1 DEF Take, At, Needs, JobOK, HandOK
    <3>2. owner[job[w].pool] \in {w, Nobody}
      BY <3>1 DEF Granted, OthersRow
    <3> QED
      BY <3>1, <3>2
  <2>2. CASE PoolInsert(w)
    <3>1. Fresh(PoolId) # {} /\ Write(w, NewRow(PoolId), [vip |-> job[w].idx, used |-> TRUE])
      BY <2>2 DEF PoolInsert
    <3>2. NewRow(PoolId) \in PoolId /\ owner[NewRow(PoolId)] = Nobody
      BY <1>1, <3>1, NewRowFree
    <3> QED
      BY <3>1, <3>2
  <2> QED
    BY <2>1, <2>2
<1>3. /\ \A r \in Row : r # p => db'[r] = db[r] /\ owner'[r] = owner[r]
      /\ owner'[p] = w /\ UNCHANGED committed
  BY <1>1, <1>2 DEF Write, TypeOK, Typed, Row, Take, PoolInsert, Writes
<1>4. /\ job'[w].at \in {"update", "save"} /\ \A u \in Worker : u # w => job'[u] = job[u]
  BY <1>1 DEF Take, PoolInsert, Assign, TypeOK, Job
<1>5. \A i \in NodeId : i # p /\ i \in Row /\ p \in Row /\ p \notin NodeId
  BY Markers DEF Row
<1>6. GivenOK(w)'
  BY <1>4 DEF GivenOK
<1>7. ASSUME NEW u \in Worker, u # w PROVE GivenOK(u)'
  <2>1. \A r \in NodeId \cup PoolId : owner[r] = u => db'[r] = db[r] /\ owner'[r] = u
    BY <1>2, <1>3, <1>7, Markers DEF Row
  <2>2. \A q \in PoolId : owner'[q] = u => owner[q] = u
    BY <1>3, <1>7 DEF Row
  <2> QED
    BY <1>4, <1>7, <2>1, <2>2, OthersGiven
<1>8. NoneGone' /\ HeldOK'
  BY <1>3, <1>5 DEF HInv, NoneGone, HeldOK, HasRow
<1> QED
  BY <1>6, <1>7, <1>8 DEF HInv

(* The node is written, with the vip that was taken for it. *)
LEMMA HeldWrite ==
    ASSUME HInv, IInv', NEW w \in Worker, NEW i \in NodeId, NEW row \in Node, Write(w, i, row),
           owner[i] \in {w, Nobody}, UNCHANGED committed,
           \A u \in Worker : u # w => job'[u] = job[u],
           ~ job'[w].ok \/ \A p \in PoolId : owner[p] = w => row.vip = db[p].vip
    PROVE  HInv'
<1>1. TypeOK
  BY DEF HInv, IInv
<1>2. /\ \A r \in Row : r # i => db'[r] = db[r] /\ owner'[r] = owner[r]
      /\ db'[i] = row /\ owner'[i] = w
  BY <1>1 DEF Write, TypeOK, Typed, Row
<1>3. \A p \in PoolId : p # i /\ p \in Row
  BY Markers DEF Row
<1>4. GivenOK(w)'
  <2> SUFFICES ASSUME NEW p \in PoolId, owner'[p] = w, job'[w].ok
               PROVE  \E k \in NodeId : owner'[k] = w /\ HasRow(db', k, db'[p].vip)
    BY DEF GivenOK, HasRow
  <2>1. db'[p] = db[p] /\ owner[p] = w
    BY <1>2, <1>3
  <2>2. HasRow(db', i, db'[p].vip)
    BY <1>2, <2>1 DEF HasRow
  <2> QED
    BY <1>2, <2>2
<1>5. ASSUME NEW u \in Worker, u # w PROVE GivenOK(u)'
  <2>1. \A r \in NodeId \cup PoolId : owner[r] = u => db'[r] = db[r] /\ owner'[r] = u
    BY <1>2, <1>5, Markers DEF Row
  <2>2. \A q \in PoolId : owner'[q] = u => owner[q] = u
    BY <1>2, <1>3
  <2> QED
    BY <1>5, <2>1, <2>2, OthersGiven
<1>6. NoneGone' /\ HeldOK'
  BY <1>2, Markers DEF HInv, NoneGone, HeldOK, HasRow, Row
<1> QED
  BY <1>4, <1>5, <1>6 DEF HInv

LEMMA HeldUpdate ==
    ASSUME HInv, IInv', NoDeletion, NEW w \in Worker, Update(w)
    PROVE  HInv'
<1> DEFINE i == job[w].id
           row == Merge(db[i], job[w].row)
<1>1. job[w] \in Job /\ JobOK(w) /\ TypeOK /\ RowsOK /\ IInv
  BY DEF HInv, IInv, TypeOK
<1>2. job[w].at = "update" /\ job[w].op \in {"regist", "edit"} /\ i \in NodeId /\ job[w].row \in Node
      /\ committed[i] # NoRow
  BY <1>1 DEF Update, At, JobOK, AtOK, HandOK, Job
<1>3. db[i] \in Node
  BY <1>1, <1>2 DEF HInv, NoneGone, RowsOK, TypeOK, Typed, Row
<1>4. owner[i] \in {w, Nobody}
  BY <1>2 DEF Update, Granted, Needs, OthersRow
<1>5. row \in Node /\ (job[w].row.vip # NoVip => row.vip = job[w].row.vip)
  BY <1>2, <1>3 DEF Merge, Node
<1>6. Write(w, i, row) /\ UNCHANGED committed
  BY <1>3, Markers DEF Update, Exists, Writes
<1>7. \A u \in Worker : u # w => job'[u] = job[u]
  BY <1>1 DEF Update, Fail, Go, TypeOK
<1>8. ASSUME NEW p \in PoolId, owner[p] = w PROVE row.vip = db[p].vip
  <2>1. db[p] \in Pooled /\ db[p].vip = job[w].row.vip
    BY <1>1, <1>8 DEF JobOK, OwnerOK
  <2>2. job[w].row.vip # NoVip
    BY <2>1, VipAssumption DEF Pooled
  <2> QED
    BY <1>5, <2>1, <2>2
<1> HIDE DEF i, row
<1> QED
  BY <1>2, <1>4, <1>5, <1>6, <1>7, <1>8, HeldWrite

LEMMA HeldSave ==
    ASSUME HInv, IInv', NEW w \in Worker, Save(w)
    PROVE  HInv'
<1>1. job[w] \in Job /\ JobOK(w) /\ TypeOK /\ IInv
  BY DEF HInv, IInv, TypeOK
<1>2. job[w].op = "add" /\ job[w].row \in Node
  BY <1>1 DEF Save, At, JobOK, AtOK, HandOK, Job
<1>3. NewRow(NodeId) \in NodeId /\ owner[NewRow(NodeId)] = Nobody
  BY <1>1, NewRowFree DEF Save
<1>4. Write(w, NewRow(NodeId), job[w].row) /\ UNCHANGED committed
      /\ \A u \in Worker : u # w => job'[u] = job[u]
  BY <1>1 DEF Save, Writes, TypeOK
<1>5. \A p \in PoolId : owner[p] = w => job[w].row.vip = db[p].vip
  BY <1>1 DEF JobOK, OwnerOK
<1> QED
  BY <1>2, <1>3, <1>4, <1>5, HeldWrite

(* A row of its own transaction, without a vip. *)
LEMMA HeldInsert ==
    ASSUME HInv, IInv', NEW w \in Worker, Insert(w)
    PROVE  HInv'
<1> DEFINE i == NewRow(NodeId)
           row == [job[w].row EXCEPT !.enable = ~ NodeGrant]
<1>1. job[w] \in Job /\ JobOK(w) /\ TypeOK /\ IInv
  BY DEF HInv, IInv, TypeOK
<1>2. job[w].at = "insert" /\ job[w].op = "regist" /\ job[w].row \in Node /\ UNCHANGED owner
  BY <1>1 DEF Insert, At, JobOK, AtOK, HandOK, Job
<1>3. i \in NodeId /\ db[i] = NoRow /\ committed[i] = NoRow /\ owner[i] = Nobody
  BY <1>1, NewRowFree DEF Insert
<1>4. row # Gone
  <2>1. row \in Node
    BY <1>2, GrantAssumption DEF Node
  <2> QED
    BY <2>1, Markers
<1>5. db' = [db EXCEPT ![i] = row] /\ committed' = [committed EXCEPT ![i] = row]
  BY DEF Insert
<1> HIDE DEF i, row
<1>6. /\ \A r \in Row : r # i => db'[r] = db[r] /\ committed'[r] = committed[r]
      /\ db'[i] = row
  BY <1>1, <1>3, <1>5 DEF TypeOK, Typed, Row
<1>7. \A p \in PoolId : p # i /\ p \in Row
  BY <1>3, Markers DEF Row
<1>8. \A u \in Worker : u # w => job'[u] = job[u]
  BY <1>1 DEF Insert, Fail, TypeOK
<1>9. ~ OwnsPool(w)
  BY <1>1, <1>2, OwnsNothing
<1>10. GivenOK(w)'
  BY <1>2, <1>9 DEF GivenOK, OwnsPool
<1>11. ASSUME NEW u \in Worker, u # w PROVE GivenOK(u)'
  <2>1. \A r \in NodeId \cup PoolId : owner[r] = u => db'[r] = db[r] /\ owner'[r] = u
    BY <1>2, <1>3, <1>6, Markers DEF Row
  <2>2. \A q \in PoolId : owner'[q] = u => owner[q] = u
    BY <1>2
  <2> QED
    BY <1>8, <1>11, <2>1, <2>2, OthersGiven
<1>12. NoneGone'
  BY <1>4, <1>6 DEF HInv, NoneGone, Row
<1>13. HeldOK'
  <2> SUFFICES ASSUME NEW p \in PoolId, committed'[p] \in Pooled, committed'[p].used
               PROVE  \E k \in NodeId : HasRow(committed', k, committed'[p].vip)
    BY DEF HeldOK, HasRow
  <2>1. committed'[p] = committed[p]
    BY <1>6, <1>7
  <2>2. PICK k \in NodeId : HasRow(committed, k, committed[p].vip)
    BY <2>1 DEF HInv, HeldOK
  <2>3. k # i
    BY <1>3, <2>2, Markers DEF HasRow
  <2> QED
    BY <1>6, <2>1, <2>2, <2>3 DEF HasRow, Row
<1> QED
  BY <1>10, <1>11, <1>12, <1>13 DEF HInv

(* The commit: a vip used by it has its node, and a node that had one keeps it. *)
LEMMA HeldEnd ==
    ASSUME HInv, IInv', NEW w \in Worker, End(w)
    PROVE  HInv'
<1>1. job[w] \in Job /\ JobOK(w) /\ TypeOK /\ RowsOK /\ IInv
  BY DEF HInv, IInv, TypeOK
<1>2. job[w].at = "end"
  BY DEF End, At
<1>3. /\ \A r \in Row : db'[r] = IF owner[r] = w /\ ~ job[w].ok THEN committed[r] ELSE db[r]
      /\ \A r \in Row : committed'[r] = IF owner[r] = w /\ job[w].ok THEN db[r] ELSE committed[r]
      /\ \A r \in Row : owner'[r] = IF owner[r] = w THEN Nobody ELSE owner[r]
      /\ job'[w] = Idle /\ \A u \in Worker : u # w => job'[u] = job[u]
  BY <1>1 DEF End, TypeOK
<1>4. GivenOK(w)'
  BY <1>3 DEF GivenOK, Idle, Doing
<1>5. ASSUME NEW u \in Worker, u # w PROVE GivenOK(u)'
  <2>1. \A r \in NodeId \cup PoolId : owner[r] = u => db'[r] = db[r] /\ owner'[r] = u
    BY <1>3, <1>5 DEF Row
  <2>2. \A q \in PoolId : owner'[q] = u => owner[q] = u
    BY <1>3, Markers DEF Row
  <2> QED
    BY <1>3, <1>5, <2>1, <2>2, OthersGiven
<1>6. NoneGone'
  BY <1>1, <1>3 DEF HInv, NoneGone, RowsOK, Row
<1>7. HeldOK'
  <2> SUFFICES ASSUME NEW p \in PoolId, committed'[p] \in Pooled, committed'[p].used
               PROVE  \E i \in NodeId : HasRow(committed', i, committed'[p].vip)
    BY DEF HeldOK, HasRow
  <2>1. CASE owner[p] = w /\ job[w].ok
    <3>1. PICK i \in NodeId : owner[i] = w /\ HasRow(db, i, db[p].vip)
      BY <1>2, <2>1 DEF HInv, GivenOK
    <3>2. committed'[i] = db[i] /\ committed'[p] = db[p]
      BY <1>3, <2>1, <3>1 DEF Row
    <3> QED
      BY <3>1, <3>2 DEF HasRow
  <2>2. CASE ~ (owner[p] = w /\ job[w].ok)
    <3>1. committed'[p] = committed[p]
      BY <1>3, <2>2 DEF Row
    <3>2. PICK i \in NodeId : HasRow(committed, i, committed[p].vip)
      BY <3>1 DEF HInv, HeldOK
    <3>3. db[i] \in Node
      BY <1>1, <3>2, Markers DEF HInv, NoneGone, RowsOK, TypeOK, Typed, HasRow, Row
    <3>4. committed[i] \in Node /\ committed[i].vip = committed[p].vip /\ committed[i].vip # NoVip
      BY <3>1, <3>2, VipAssumption DEF HasRow, Pooled
    <3>5. db[i].vip = committed[i].vip
      BY <1>1, <3>3, <3>4 DEF RowsOK
    <3>6. committed'[i] \in {db[i], committed[i]}
      BY <1>3 DEF Row
    <3> QED
      BY <3>1, <3>3, <3>4, <3>5, <3>6 DEF HasRow
  <2> QED
    BY <2>1, <2>2
<1> QED
  BY <1>4, <1>5, <1>6, <1>7 DEF HInv

(* The steps that write neither a node nor the pool. *)
LEMMA HeldRest ==
    ASSUME HInv, IInv', NoDeletion, NEW w \in Worker,
           \/ Begin(w) \/ Lock(w) \/ FindNone(w) \/ FindOne(w) \/ FindSeveral(w) \/ ReadTenant(w)
           \/ Groups(w) \/ Unlock(w) \/ LockTimeout(w) \/ ReuseIp(w) \/ ReuseNone(w) \/ TakeMissed(w)
           \/ SelectIdx(w) \/ SelectIdxMissed(w) \/ CheckUnique(w)
    PROVE  HInv'
<1>1. job[w] \in Job /\ JobOK(w) /\ TypeOK
  BY DEF HInv, IInv, TypeOK
<1>2. \A r \in NodeId \cup PoolId : r \in Row /\ r # Tenant
  BY Markers DEF Row
<1>3. UNCHANGED committed /\ \A r \in NodeId \cup PoolId : db'[r] = db[r] /\ owner'[r] = owner[r]
  <2>1. CASE SelectIdx(w)
    BY <1>1, <1>2, <2>1 DEF SelectIdx, Write, Writes, TypeOK, Typed
  <2>2. CASE ~ SelectIdx(w)
    BY <2>2 DEF Begin, Regist, Add, Edit, Del, EditTenant, Start, Lock, FindNone, FindOne, FindSeveral,
       ReadTenant, Groups, Unlock, LockTimeout, ReuseIp, ReuseNone, TakeMissed, SelectIdxMissed,
       CheckUnique, Reads
  <2> QED
    BY <2>1, <2>2
<1>4. \A u \in Worker : u # w => job'[u] = job[u]
  BY <1>1 DEF Begin, Regist, Add, Edit, Del, EditTenant, Start, Lock, FindNone, FindOne, FindSeveral,
     ReadTenant, Groups, Unlock, LockTimeout, ReuseIp, ReuseNone, TakeMissed, SelectIdx,
     SelectIdxMissed, CheckUnique, Go, Fail, TypeOK
<1>5. \/ ~ job'[w].ok
      \/ job'[w].at \notin {"groups", "unlock", "end"}
      \/ job'[w].ok = job[w].ok /\ job[w].at \in {"groups", "unlock", "end"}
      \/ ~ OwnsPool(w)
  <2>1. CASE Begin(w)
    <3>1. job[w].at = "idle"
      BY <2>1 DEF Begin, Regist, Add, Edit, Del, EditTenant, Start, At
    <3> QED
      BY <3>1, NoPoolYet DEF HInv
  <2>2. CASE Groups(w) \/ Unlock(w)
    BY <1>1, <2>2 DEF Groups, Unlock, Go, Fail, At, TypeOK, Job
  <2>3. CASE LockTimeout(w)
    BY <1>1, <2>3 DEF LockTimeout, Fail, TypeOK, Job
  <2>4. CASE SelectIdx(w) \/ SelectIdxMissed(w)
    BY <1>1, <2>4 DEF SelectIdx, SelectIdxMissed, At, TypeOK, Job
  <2>5. CASE \/ Lock(w) \/ FindNone(w) \/ FindOne(w) \/ FindSeveral(w) \/ ReadTenant(w)
             \/ ReuseIp(w) \/ ReuseNone(w) \/ TakeMissed(w) \/ CheckUnique(w)
    <3>1. job[w].at \in {"lock", "find", "tenant", "reuse", "take", "check"}
      BY <2>5 DEF Lock, FindNone, FindOne, FindSeveral, ReadTenant, ReuseIp, ReuseNone, TakeMissed,
         CheckUnique, At
    <3> QED
      BY <3>1, NoPoolYet DEF HInv
  <2> QED
    BY <2>1, <2>2, <2>3, <2>4, <2>5
<1> QED
  BY <1>3, <1>4, <1>5, HeldStill

LEMMA HInvInit == ASSUME Init PROVE HInv
<1>1. \A r \in NodeId \cup PoolId : db[r] = NoRow /\ committed[r] = NoRow
  BY Markers DEF Init, Row
<1>2. \A w \in Worker : GivenOK(w)
  BY DEF Init, GivenOK, Idle, Doing
<1>3. NoneGone /\ HeldOK
  BY <1>1, Markers DEF NoneGone, HeldOK
<1> QED
  BY <1>2, <1>3, InitInv DEF HInv

LEMMA HInvNext == ASSUME NoDeletion, HInv, [Next]_vars PROVE HInv'
<1>1. IInv'
  BY NextInv DEF NoDeletion, HInv
<1>2. CASE UNCHANGED vars
  <2>1. UNCHANGED <<db, committed, owner, job>>
    BY <1>2 DEF vars
  <2>2. ASSUME NEW w \in Worker PROVE GivenOK(w)'
    BY <2>1 DEF HInv, GivenOK, HasRow
  <2> QED
    BY <1>1, <2>1, <2>2 DEF HInv, NoneGone, HeldOK, HasRow
<1>3. ASSUME NEW w \in Worker, Begin(w) PROVE HInv'
  BY <1>1, <1>3, HeldRest
<1>4. ASSUME NEW w \in Worker, Run(w) PROVE HInv'
  <2>1. ~ Used(w) /\ ~ Read(w) /\ ~ Free(w) /\ ~ Delete(w)
    <3>1. job[w] \in Job /\ AtOK(w)
      BY DEF HInv, IInv, TypeOK, JobOK
    <3> QED
      BY <3>1 DEF AtOK, NoDeletion, Used, Read, Free, Delete, At, Job
  <2>2. ~ EditTenantRead(w) /\ ~ EditTenantWrite(w)
    BY NoTenantEdit DEF HInv
  <2>3. CASE Take(w) \/ PoolInsert(w)
    BY <1>1, <2>3, HeldPool
  <2>4. CASE Update(w) \/ Save(w) \/ Insert(w) \/ End(w)
    BY <1>1, <2>4, HeldUpdate, HeldSave, HeldInsert, HeldEnd
  <2>5. CASE ~ (Take(w) \/ PoolInsert(w) \/ Update(w) \/ Save(w) \/ Insert(w) \/ End(w))
    BY <1>1, <1>4, <2>1, <2>2, <2>5, HeldRest DEF Run
  <2> QED
    BY <2>3, <2>4, <2>5
<1> QED
  BY <1>2, <1>3, <1>4 DEF Next, Finished

(* A vip that is marked as used is that of a node, whatever assignments fail half-way *)
(* (assignIp and what follows it in one transaction), if nothing is deleted.            *)
THEOREM NoVipIsLost == ASSUME NoDeletion PROVE Spec => []NoVipLost
<1>1. ASSUME HInv PROVE NoVipLost
  <2> SUFFICES ASSUME NEW p \in PoolId, Exists(committed, p), committed[p].used
               PROVE  \E i \in NodeId : committed[p].vip \in Vips(i)
    BY DEF NoVipLost, InUse
  <2>1. committed[p] \in Pooled
    BY <1>1 DEF HInv, IInv, TypeOK, Typed, Exists
  <2>2. PICK i \in NodeId : HasRow(committed, i, committed[p].vip)
    BY <1>1, <2>1 DEF HInv, HeldOK
  <2>3. committed[p].vip # NoVip
    BY <2>1, VipAssumption DEF Pooled
  <2> QED
    BY <2>2, <2>3, Markers DEF HasRow, Vips, Exists
<1>2. Init => HInv
  BY HInvInit
<1>3. HInv /\ [Next]_vars => HInv'
  BY HInvNext
<1> QED
  BY <1>1, <1>2, <1>3, PTL DEF Spec
=============================================================================
