--------------------------- MODULE NodeScanProofs ---------------------------
(***************************************************************************)
(* Type correctness of NodeScan and its two safety invariants, for any     *)
(* number of nodes, changes, failures, crashes and database versions.      *)
(*                                                                         *)
(* Neither is inductive.  The worker writes matches by an id it has read   *)
(* before, and a node may have left and come back in between: what holds   *)
(* of the row it meets, the one it knows or another, is WorkerOK, which    *)
(* needs that ids only grow (IdsBounded) and that an absent row is empty   *)
(* (AbsentRows).  That the report is not newer than the claim needs that   *)
(* no row claims more than the database on disk (Backed).                  *)
(***************************************************************************)
EXTENDS NodeScan, FiniteSetTheorems, TLAPS

Jobs == [node : Nodes, force : BOOLEAN]

QueueDistinct == \A i, j \in DOMAIN queue : queue[i].node = queue[j].node => i = j

RestTypeOK ==
    /\ cluster \in [Nodes -> 0 .. 2]
    /\ ready \subseteq {n \in Nodes : cluster[n] # 0}
    /\ churn \in 0 .. MaxChurn
    /\ faults \in [count : 0 .. MaxFaults, write : BOOLEAN]
    /\ mem \subseteq Nodes
    /\ removing \in [node : Nodes \cup {NoNode}, attempt : 0 .. RemoveAttempts]
    /\ removing # NoRemoval => removing.node \in Nodes
    /\ sweep \in [pc : {"idle", "status", "complete", "enqueue"}, rescue : BOOLEAN,
                  names : SUBSET Nodes, done : SUBSET Nodes]
    /\ synced \in BOOLEAN
    /\ rescan \in [pc : {"idle", "check", "select", "enqueue"}, left : SUBSET Nodes]
    /\ grypeDB \in Versions
    /\ dbReady \in BOOLEAN
    /\ stopping \in BOOLEAN

\* The queue, the rows and the worker are in their types.
CoreTypeOK ==
    /\ queue \in Seq(Jobs)
    /\ rows \in [Nodes -> Row]
    /\ lastId \in [Nodes -> Nat]
    /\ worker \in [pc : Steps, node : Nodes \cup {NoNode}, id : Nat, ver : Versions]

AbsentRows == \A n \in Nodes : rows[n].id = 0 => rows[n] = NoRow

IdsBounded == /\ \A n \in Nodes : rows[n].id <= lastId[n]
              /\ worker.node \in Nodes => worker.id <= lastId[worker.node]

Backed == \A n \in Nodes : /\ rows[n].found = rows[n].built
                           /\ rows[n].report <= rows[n].built
                           /\ rows[n].built <= grypeDB

WorkerOK ==
    /\ IF At("idle") THEN worker.node = NoNode ELSE worker.node \in Nodes
    /\ At("storeVulns") \/ At("storeVulnsRows")
          => worker.ver <= grypeDB /\ rows[worker.node].built <= worker.ver
    /\ At("storeSBOMRows") \/ At("storeVulnsRows") \/ At("storeVulnsBlob") => worker.id # 0
    /\ At("storeVulnsRows") => \/ rows[worker.node].id = worker.id
                               \/ ~Transient(rows[worker.node].status)
    /\ At("storeVulnsBlob") => /\ ~Transient(rows[worker.node].status)
                               /\ \/ rows[worker.node].id # worker.id
                                  \/ rows[worker.node].built = worker.ver

RowsInv == CoreTypeOK /\ AbsentRows /\ IdsBounded /\ Backed /\ WorkerOK /\ TransientOwned

IInv == RestTypeOK /\ QueueDistinct /\ RowsInv

-----------------------------------------------------------------------------
(* What the invariant gives *)

LEMMA ShortQueue ==
    ASSUME queue \in Seq(Jobs), QueueDistinct
    PROVE  Len(queue) <= Cardinality(Nodes)
<1> DEFINE S == 1 .. Len(queue)
           f == [i \in S |-> queue[i].node]
<1>1. Len(queue) \in Nat /\ DOMAIN queue = S
    OBVIOUS
<1>2. IsFiniteSet(S) /\ Cardinality(S) = Len(queue)
    BY <1>1, FS_Interval
<1>3. f \in [S -> Nodes]
  <2>1. \A i \in S : queue[i].node \in Nodes
    <3>1. \A i \in S : queue[i] \in Jobs
        BY <1>1
    <3> QED BY <3>1 DEF Jobs
  <2> QED BY <2>1
<1>4. \A i, j \in S : f[i] = f[j] => i = j
    BY <1>1 DEF QueueDistinct
<1>5. IsFiniteSet(Nodes) /\ Cardinality(Nodes) \in Nat
    BY FiniteAssumption, FS_CardinalityType
<1> HIDE DEF f, S
<1>6. ~(Cardinality(Nodes) < Cardinality(S))
    BY <1>2, <1>3, <1>4, <1>5, FS_PigeonHole
<1> QED BY <1>1, <1>2, <1>5, <1>6

LEMMA IInvType == IInv => TypeOK
BY ShortQueue DEF IInv, RestTypeOK, RowsInv, CoreTypeOK, TypeOK, Jobs

LEMMA IInvBacked == IInv => CompletedIsBacked
BY DEF IInv, RowsInv, Backed, CompletedIsBacked

LEMMA Empty == NoRow \in Row /\ ~Transient(NoRow.status) /\ NoNode \notin Nodes /\ 0 \in Versions
BY NodeAssumption, BoundsAssumption DEF NoRow, Row, Status, Versions, Transient

LEMMA InitInv == Init => IInv
<1> SUFFICES ASSUME Init PROVE IInv
    OBVIOUS
<1>1. RestTypeOK
  <2>1. grypeDB \in Versions /\ churn \in 0 .. MaxChurn
      BY BoundsAssumption DEF Init, Versions
  <2>2. removing \in [node : Nodes \cup {NoNode}, attempt : 0 .. RemoveAttempts]
      BY BoundsAssumption DEF Init, NoRemoval
  <2>3. faults \in [count : 0 .. MaxFaults, write : BOOLEAN]
      BY BoundsAssumption DEF Init
  <2>4. cluster \in [Nodes -> 0 .. 2] /\ ready \subseteq {n \in Nodes : cluster[n] # 0}
      BY DEF Init
  <2> QED BY <2>1, <2>2, <2>3, <2>4 DEF Init, RestTypeOK, SweepRest, RescanRest
<1>2. CoreTypeOK
    BY Empty DEF Init, CoreTypeOK, Idle, Steps
<1>3. QueueDistinct /\ AbsentRows
    BY DEF Init, QueueDistinct, AbsentRows
<1>4. IdsBounded /\ Backed /\ WorkerOK /\ TransientOwned
    BY Empty DEF Init, IdsBounded, Backed, WorkerOK, TransientOwned, NoRow, Idle, At
<1> QED BY <1>1, <1>2, <1>3, <1>4 DEF IInv, RowsInv

-----------------------------------------------------------------------------
(* The queue and the failures *)

LEMMA EnqueueIs ==
    ASSUME queue \in Seq(Jobs), QueueDistinct, NEW n \in Nodes, NEW force \in BOOLEAN,
           queue' = Enqueue(queue, n, force)
    PROVE  queue' \in Seq(Jobs) /\ QueueDistinct'
<1> DEFINE j == [node |-> n, force |-> force]
<1>1. CASE queue' = queue
    BY <1>1 DEF QueueDistinct
<1>2. CASE queue' # queue
  <2>1. queue' = Append(queue, j) /\ (\A i \in DOMAIN queue : queue[i].node # n) /\ j \in Jobs
      BY <1>2 DEF Enqueue, Jobs
  <2>2. DOMAIN queue' = 1 .. Len(queue) + 1 /\ queue'[Len(queue) + 1] = j
        /\ \A i \in 1 .. Len(queue) : queue'[i] = queue[i]
      BY <2>1
  <2> QED BY <2>1, <2>2 DEF QueueDistinct
<1> QED BY <1>1, <1>2

LEMMA FailsIs ==
    ASSUME RestTypeOK, NEW kind, Fails(kind)
    PROVE  /\ faults' \in [count : 0 .. MaxFaults, write : BOOLEAN]
           /\ faults.write \/ kind = "write" => faults'.write
<1> DEFINE w == faults.write \/ kind = "write"
<1>1. faults.count \in 0 .. MaxFaults /\ faults.count < MaxFaults
    BY DEF RestTypeOK, Fails
<1>2. faults.count + 1 \in 0 .. MaxFaults
    BY <1>1, BoundsAssumption
<1>3. faults' = [count |-> faults.count + 1, write |-> w]
    BY DEF Fails
<1>4. w \in BOOLEAN
    OBVIOUS
<1> HIDE DEF w
<1>5. faults'.write = w /\ faults' \in [count : 0 .. MaxFaults, write : BOOLEAN]
    BY <1>2, <1>3, <1>4
<1> QED BY <1>5 DEF w

-----------------------------------------------------------------------------
(* Steps beside the worker *)

\* The row's content stays, and its status does not become a transient one ...
Kept(n) == /\ rows'[n].id = rows[n].id /\ rows'[n].built = rows[n].built
           /\ rows'[n].found = rows[n].found /\ rows'[n].report = rows[n].report
           /\ Transient(rows'[n].status) => Transient(rows[n].status)

\* ... or the row is gone or a new one.
Replaced(n) == /\ rows'[n].built = 0 /\ rows'[n].found = 0 /\ rows'[n].report = 0
               /\ ~Transient(rows'[n].status)
               /\ rows'[n].id = 0 \/ rows'[n].id > lastId[n]

LEMMA Beside ==
    ASSUME RowsInv, CoreTypeOK', AbsentRows', UNCHANGED worker,
           \A n \in Nodes : Kept(n) \/ Replaced(n),
           \A n \in Nodes : rows'[n].id <= lastId'[n] /\ lastId[n] <= lastId'[n],
           grypeDB' \in Versions, grypeDB' >= grypeDB, grypeDB \in Versions,
           faults.write => faults'.write
    PROVE  RowsInv'
<1> USE DEF RowsInv
<1>1. \A n \in Nodes : /\ rows[n].built \in Nat /\ rows[n].id \in Nat
                       /\ rows'[n].built \in Nat /\ rows'[n].id \in Nat
                       /\ lastId[n] \in Nat /\ lastId'[n] \in Nat
  <2> SUFFICES ASSUME NEW n \in Nodes
               PROVE  /\ rows[n].built \in Nat /\ rows[n].id \in Nat
                      /\ rows'[n].built \in Nat /\ rows'[n].id \in Nat
                      /\ lastId[n] \in Nat /\ lastId'[n] \in Nat
      OBVIOUS
  <2>1. rows[n] \in Row /\ rows'[n] \in Row /\ lastId[n] \in Nat /\ lastId'[n] \in Nat
      BY DEF CoreTypeOK
  <2> QED BY <2>1 DEF Row, Versions
<1>2. worker.id \in Nat /\ worker.ver \in Nat /\ grypeDB \in Nat /\ grypeDB' \in Nat
    BY DEF CoreTypeOK, Versions
<1>3. IdsBounded'
    BY <1>1, <1>2 DEF IdsBounded
<1>4. Backed'
    BY <1>1, <1>2 DEF Backed, Kept, Replaced
<1>5. WorkerOK'
  <2>1. CASE worker.node \in Nodes
    <3> DEFINE n == worker.node
    <3>1. Kept(n) \/ Replaced(n)
        BY <2>1
    <3>2. worker.id <= lastId[n]
        BY <2>1 DEF IdsBounded
    <3>3. Replaced(n) /\ worker.id # 0 => rows'[n].id # worker.id
        BY <1>1, <1>2, <2>1, <3>2 DEF Replaced
    <3> QED BY <1>1, <1>2, <2>1, <3>1, <3>3 DEF WorkerOK, At, Kept, Replaced
  <2>2. CASE worker.node \notin Nodes
      BY <2>2 DEF WorkerOK, At
  <2> QED BY <2>1, <2>2
<1>6. TransientOwned'
    BY DEF TransientOwned, Kept, Replaced
<1> QED BY <1>3, <1>4, <1>5, <1>6

\* What leaves rows, worker and queue alone.
LEMMA Aside ==
    ASSUME IInv, RestTypeOK', UNCHANGED <<table, worker, queue>>, grypeDB' >= grypeDB,
           faults.write => faults'.write
    PROVE  IInv'
<1>1. CoreTypeOK' /\ AbsentRows' /\ QueueDistinct'
    BY DEF IInv, RowsInv, CoreTypeOK, AbsentRows, QueueDistinct, table
<1>2. \A n \in Nodes : Kept(n) /\ rows'[n].id <= lastId'[n] /\ lastId[n] <= lastId'[n]
    BY DEF IInv, RowsInv, CoreTypeOK, IdsBounded, Kept, table
<1> QED BY <1>1, <1>2, Beside DEF IInv, RestTypeOK

\* What only asks for a scan.
LEMMA Asks ==
    ASSUME IInv, RestTypeOK', UNCHANGED <<table, worker, grypeDB, faults>>, NEW n \in Nodes,
           queue' = Enqueue(queue, n, TRUE)
    PROVE  IInv'
<1>1. queue' \in Seq(Jobs) /\ QueueDistinct'
    BY EnqueueIs DEF IInv, RowsInv, CoreTypeOK
<1>2. CoreTypeOK' /\ AbsentRows'
    BY <1>1 DEF IInv, RowsInv, CoreTypeOK, AbsentRows, table
<1>3. \A m \in Nodes : Kept(m) /\ rows'[m].id <= lastId'[m] /\ lastId[m] <= lastId'[m]
    BY DEF IInv, RowsInv, CoreTypeOK, IdsBounded, Kept, table
<1>4. grypeDB' \in Versions /\ grypeDB' >= grypeDB
    BY DEF IInv, RestTypeOK, Versions
<1> QED BY <1>1, <1>2, <1>3, <1>4, Beside DEF IInv, RestTypeOK

\* Types at hand.
LEMMA Types ==
    ASSUME IInv
    PROVE  /\ grypeDB \in Nat /\ \A n \in Nodes : rows[n] \in Row /\ lastId[n] \in Nat
           /\ \A n \in Nodes : rows[n].id \in Nat /\ rows[n].id <= lastId[n]
BY DEF IInv, RestTypeOK, RowsInv, CoreTypeOK, IdsBounded, Row, Versions

LEMMA ChangeNodeInv == ASSUME IInv, NEW n \in Nodes, ChangeNode(n) PROVE IInv'
<1>1. cluster' \in [Nodes -> 0 .. 2] /\ ready' \subseteq {m \in Nodes : cluster'[m] # 0}
    BY DEF IInv, RestTypeOK, ChangeNode
<1>2. churn' \in 0 .. MaxChurn
    BY BoundsAssumption DEF IInv, RestTypeOK, ChangeNode
<1>3. RestTypeOK'
    BY <1>1, <1>2 DEF IInv, RestTypeOK, ChangeNode, manager, sweeper, grype
<1> QED BY <1>3, Types, Aside DEF ChangeNode, manager, sweeper, grype

\* A new row has an id above every earlier one of its name.
LEMMA StoreNodeIs ==
    ASSUME IInv, NEW n \in Nodes, cluster[n] \in 0 .. 2, StoreNode(n)
    PROVE  /\ rows' \in [Nodes -> Row] /\ lastId' \in [Nodes -> Nat] /\ AbsentRows'
           /\ \A m \in Nodes : /\ Kept(m) \/ Replaced(m)
                               /\ rows'[m].id <= lastId'[m] /\ lastId[m] <= lastId'[m]
<1>1. rows \in [Nodes -> Row] /\ lastId \in [Nodes -> Nat] /\ AbsentRows
    BY DEF IInv, RowsInv, CoreTypeOK
<1>2. CASE ~Present(n)
  <2> DEFINE r == [NoRow EXCEPT !.id = lastId[n] + 1, !.info = cluster[n]]
  <2>1. rows' = [rows EXCEPT ![n] = r] /\ lastId' = [lastId EXCEPT ![n] = @ + 1]
      BY <1>2 DEF StoreNode
  <2>2. /\ r \in Row /\ r.id = lastId[n] + 1 /\ r.built = 0 /\ r.found = 0 /\ r.report = 0
        /\ r.status = "pending"
    <3>1. lastId[n] + 1 \in Nat
        BY <1>1
    <3>2. r \in Row
        BY <3>1, Empty DEF Row
    <3>3. r.id = lastId[n] + 1 /\ r.built = 0 /\ r.found = 0 /\ r.report = 0 /\ r.status = "pending"
        BY DEF NoRow
    <3> QED BY <3>2, <3>3
  <2> HIDE DEF r
  <2>3. rows' \in [Nodes -> Row] /\ lastId' \in [Nodes -> Nat]
      BY <1>1, <2>1, <2>2
  <2>4. AbsentRows'
      BY <1>1, <2>1, <2>2 DEF AbsentRows
  <2>5. Replaced(n) /\ rows'[n].id <= lastId'[n] /\ lastId[n] <= lastId'[n]
      BY <1>1, <2>1, <2>2 DEF Replaced, Transient
  <2>6. \A m \in Nodes \ {n} : Kept(m) /\ rows'[m].id <= lastId'[m] /\ lastId[m] <= lastId'[m]
      BY <1>1, <2>1, Types DEF Kept
  <2> QED BY <2>3, <2>4, <2>5, <2>6
<1>3. CASE Present(n)
  <2> DEFINE r == [rows[n] EXCEPT !.info = cluster[n], !.old = FALSE]
  <2>1. UNCHANGED lastId /\ (rows' = rows \/ rows' = [rows EXCEPT ![n] = r])
      BY <1>1, <1>3 DEF StoreNode
  <2>2. /\ r \in Row /\ r.id = rows[n].id /\ r.built = rows[n].built /\ r.found = rows[n].found
        /\ r.report = rows[n].report /\ r.status = rows[n].status
    <3>1. rows[n] \in Row
        BY <1>1
    <3> QED BY <3>1 DEF Row
  <2> HIDE DEF r
  <2>3. rows' \in [Nodes -> Row] /\ lastId' \in [Nodes -> Nat]
      BY <1>1, <2>1, <2>2
  <2>4. AbsentRows'
      BY <1>1, <1>3, <2>1, <2>2 DEF AbsentRows, Present
  <2>5. \A m \in Nodes : Kept(m) /\ rows'[m].id <= lastId'[m] /\ lastId[m] <= lastId'[m]
      BY <1>1, <2>1, <2>2, Types DEF Kept
  <2> QED BY <2>3, <2>4, <2>5
<1> QED BY <1>2, <1>3

LEMMA AddNodeInv == ASSUME IInv, NEW n \in Nodes, AddNode(n) PROVE IInv'
<1>1. cluster[n] \in 0 .. 2
    BY DEF IInv, RestTypeOK, AddNode
<1>2. RestTypeOK'
    BY FailsIs DEF IInv, RestTypeOK, AddNode, world, sweeper, grype
<1>3. CASE StoreNode(n) /\ UNCHANGED faults /\ queue' = IF Present(n) THEN queue ELSE Enqueue(queue, n, FALSE)
  <2>1. queue' \in Seq(Jobs) /\ QueueDistinct'
      BY <1>3, EnqueueIs DEF IInv, RowsInv, CoreTypeOK, QueueDistinct
  <2>2. CoreTypeOK'
      BY <1>1, <1>3, <2>1, StoreNodeIs DEF IInv, RowsInv, CoreTypeOK, AddNode
  <2> QED BY <1>1, <1>2, <1>3, <2>1, <2>2, StoreNodeIs, Beside, Types DEF IInv, RestTypeOK, AddNode, grype
<1>4. CASE Fails("write") /\ UNCHANGED <<table, queue>>
    BY <1>2, <1>4, FailsIs, Aside, Types DEF IInv, AddNode, grype
<1> QED BY <1>3, <1>4 DEF AddNode

LEMMA RemoveNodeInv == ASSUME IInv, NEW n \in Nodes, RemoveNode(n) PROVE IInv'
<1>1. removing' \in [node : Nodes \cup {NoNode}, attempt : 0 .. RemoveAttempts] /\ removing'.node \in Nodes
    BY BoundsAssumption DEF RemoveNode
<1>2. RestTypeOK'
    BY <1>1 DEF IInv, RestTypeOK, RemoveNode, world, sweeper, grype
<1> QED BY <1>2, Aside, Types DEF RemoveNode, grype

LEMMA RemoveAttemptInv == ASSUME IInv, RemoveAttempt PROVE IInv'
<1> DEFINE n == removing.node
<1>1. n \in Nodes /\ rows \in [Nodes -> Row] /\ lastId \in [Nodes -> Nat]
    BY DEF IInv, RestTypeOK, RowsInv, CoreTypeOK, RemoveAttempt
<1>2. removing' \in [node : Nodes \cup {NoNode}, attempt : 0 .. RemoveAttempts]
      /\ (removing' # NoRemoval => removing'.node \in Nodes)
  <2>1. CASE removing' = NoRemoval
      BY <2>1, BoundsAssumption DEF NoRemoval
  <2>2. CASE removing' # NoRemoval
    <3>1. removing' = [removing EXCEPT !.attempt = @ + 1] /\ removing.attempt # RemoveAttempts
        BY <2>2 DEF RemoveAttempt
    <3>2. removing.attempt + 1 \in 0 .. RemoveAttempts
        BY <3>1, BoundsAssumption DEF IInv, RestTypeOK
    <3> QED BY <1>1, <3>1, <3>2 DEF IInv, RestTypeOK
  <2> QED BY <2>1, <2>2
<1>3. RestTypeOK'
    BY <1>2, FailsIs DEF IInv, RestTypeOK, RemoveAttempt, world, sweeper, grype
<1>4. CASE rows' = [rows EXCEPT ![n] = NoRow] /\ UNCHANGED faults
  <2>1. CoreTypeOK' /\ QueueDistinct'
      BY <1>1, <1>4, Empty DEF IInv, RowsInv, CoreTypeOK, QueueDistinct, RemoveAttempt
  <2>2. AbsentRows'
      BY <1>1, <1>4 DEF IInv, RowsInv, AbsentRows
  <2>3. Replaced(n) /\ \A m \in Nodes \ {n} : Kept(m)
      BY <1>1, <1>4, Empty DEF Replaced, Kept, NoRow
  <2>4. \A m \in Nodes : rows'[m].id <= lastId'[m] /\ lastId[m] <= lastId'[m]
      BY <1>1, <1>4, Types DEF RemoveAttempt, NoRow
  <2> QED BY <1>3, <1>4, <2>1, <2>2, <2>3, <2>4, Beside, Types DEF IInv, RestTypeOK, RemoveAttempt, grype
<1>5. CASE Fails("write") /\ UNCHANGED rows
    BY <1>3, <1>5, FailsIs, Aside, Types DEF IInv, RemoveAttempt, table, grype
<1> QED BY <1>4, <1>5 DEF RemoveAttempt

-----------------------------------------------------------------------------
(* The sweep and the rescan job *)

LEMMA SweepStepInv == ASSUME IInv, SweepStep PROVE IInv'
<1>1. CASE SweepStart
  <2>1. RestTypeOK'
      BY <1>1 DEF IInv, RestTypeOK, SweepStart, SweepRest, world, manager, grype
  <2> QED BY <1>1, <2>1, Aside, Types DEF SweepStart, grype
<1>2. CASE SweepStatus
  <2>1. RestTypeOK'
      BY <1>2 DEF IInv, RestTypeOK, SweepStatus, world, manager, grype
  <2> QED BY <1>2, <2>1, Aside, Types DEF SweepStatus, grype
<1>3. CASE SweepComplete
  <2>1. RestTypeOK'
      BY <1>3 DEF IInv, RestTypeOK, SweepComplete, world, manager, grype
  <2> QED BY <1>3, <2>1, Aside, Types DEF SweepComplete, grype
<1>4. CASE SweepEnqueue
  <2>1. RestTypeOK'
    <3>1. sweep' = SweepRest \/ \E n \in Nodes : sweep' = [sweep EXCEPT !.names = @ \ {n}]
        BY <1>4 DEF IInv, RestTypeOK, SweepEnqueue
    <3>2. sweep' \in [pc : {"idle", "status", "complete", "enqueue"}, rescue : BOOLEAN,
                      names : SUBSET Nodes, done : SUBSET Nodes]
      <4>1. CASE sweep' = SweepRest
          BY <4>1 DEF SweepRest
      <4>2. ASSUME NEW n \in Nodes, sweep' = [sweep EXCEPT !.names = @ \ {n}]
            PROVE  sweep' \in [pc : {"idle", "status", "complete", "enqueue"}, rescue : BOOLEAN,
                              names : SUBSET Nodes, done : SUBSET Nodes]
        <5> DEFINE names == sweep.names \ {n}
        <5>1. names \in SUBSET Nodes
            BY DEF IInv, RestTypeOK
        <5>2. sweep' = [sweep EXCEPT !.names = names]
            BY <4>2
        <5> HIDE DEF names
        <5> QED BY <5>1, <5>2 DEF IInv, RestTypeOK
      <4> QED BY <3>1, <4>1, <4>2
    <3> QED BY <1>4, <3>2 DEF IInv, RestTypeOK, SweepEnqueue, world, manager, grype
  <2>2. CASE UNCHANGED queue
      BY <1>4, <2>1, <2>2, Aside, Types DEF SweepEnqueue, grype
  <2>3. CASE \E n \in sweep.names : queue' = Enqueue(queue, n, TRUE)
    <3>1. sweep.names \subseteq Nodes
        BY DEF IInv, RestTypeOK
    <3> QED BY <1>4, <2>1, <2>3, <3>1, Asks DEF SweepEnqueue, grype
  <2> QED BY <1>4, <2>2, <2>3 DEF SweepEnqueue
<1> QED BY <1>1, <1>2, <1>3, <1>4 DEF SweepStep

\* A status that changes to one that is not transient, or not at all.
LEMMA Calmed ==
    ASSUME IInv, RestTypeOK', UNCHANGED <<lastId, worker, queue, grypeDB>>, faults.write => faults'.write,
           rows' \in [Nodes -> Row], \A n \in Nodes : rows[n] = NoRow => rows'[n] = NoRow,
           \A n \in Nodes : Kept(n)
    PROVE  IInv'
<1>1. CoreTypeOK' /\ QueueDistinct'
    BY DEF IInv, RowsInv, CoreTypeOK, QueueDistinct
<1>2. AbsentRows'
    BY DEF IInv, RowsInv, AbsentRows, Kept
<1>3. \A n \in Nodes : rows'[n].id <= lastId'[n] /\ lastId[n] <= lastId'[n]
    BY Types DEF Kept
<1> QED BY <1>1, <1>2, <1>3, Beside, Types DEF IInv, RestTypeOK

LEMMA AgeInv == ASSUME IInv, NEW n \in Nodes, Age(n) PROVE IInv'
<1> DEFINE r == [rows[n] EXCEPT !.old = TRUE]
<1>1. rows \in [Nodes -> Row] /\ rows[n] \in Row /\ rows' = [rows EXCEPT ![n] = r] /\ rows[n] # NoRow
    BY Empty DEF IInv, RowsInv, CoreTypeOK, Age
<1>2. /\ r \in Row /\ r.id = rows[n].id /\ r.built = rows[n].built /\ r.found = rows[n].found
      /\ r.report = rows[n].report /\ r.status = rows[n].status
    BY <1>1 DEF Row
<1> HIDE DEF r
<1>3. rows' \in [Nodes -> Row] /\ (\A m \in Nodes : rows[m] = NoRow => rows'[m] = NoRow)
      /\ \A m \in Nodes : Kept(m)
    BY <1>1, <1>2 DEF Kept
<1>4. RestTypeOK'
    BY DEF IInv, RestTypeOK, Age, offRescan, world, manager, sweeper, grype
<1> QED BY <1>3, <1>4, Calmed DEF Age, offRescan, grype

LEMMA ReapStuckScansInv == ASSUME IInv, ReapStuckScans PROVE IInv'
<1>1. RestTypeOK'
    BY FailsIs DEF IInv, RestTypeOK, ReapStuckScans, offRescan, world, manager, sweeper, grype
<1>2. CASE UNCHANGED faults /\ UNCHANGED <<queue, grypeDB>> /\ rows' # rows
  <2> DEFINE r(n) == [rows[n] EXCEPT !.status = "vuln_scan_failed", !.old = FALSE]
  <2>1. rows \in [Nodes -> Row]
      BY DEF IInv, RowsInv, CoreTypeOK
  <2>2. rows' = [n \in Nodes |-> IF Transient(rows[n].status) /\ rows[n].old THEN r(n) ELSE rows[n]]
      BY <1>2 DEF ReapStuckScans
  <2>3. ASSUME NEW n \in Nodes
        PROVE  /\ r(n) \in Row /\ r(n).id = rows[n].id /\ r(n).built = rows[n].built
               /\ r(n).found = rows[n].found /\ r(n).report = rows[n].report
               /\ r(n).status = "vuln_scan_failed"
    <3>1. rows[n] \in Row
        BY <2>1
    <3> QED BY <3>1 DEF Row, Status
  <2> HIDE DEF r
  <2>4. rows' \in [Nodes -> Row]
      BY <2>1, <2>2, <2>3
  <2>5. \A n \in Nodes : rows[n] = NoRow => rows'[n] = NoRow
      BY <2>2, Empty
  <2>6. \A n \in Nodes : Kept(n)
      BY <2>2, <2>3 DEF Kept, Transient
  <2> QED BY <1>1, <1>2, <2>4, <2>5, <2>6, Calmed DEF ReapStuckScans, offRescan
<1>3. CASE rows' = rows
  <2>1. faults.write => faults'.write
      BY FailsIs DEF IInv, ReapStuckScans
  <2>2. UNCHANGED <<table, worker, queue, grypeDB>>
      BY <1>3 DEF ReapStuckScans, offRescan, table, grype
  <2> QED BY <1>1, <2>1, <2>2, Aside, Types
<1> QED BY <1>2, <1>3 DEF ReapStuckScans, grype, Fails

LEMMA CheckForUpdatesInv == ASSUME IInv, CheckForUpdates PROVE IInv'
<1>1. /\ grypeDB' \in Versions /\ dbReady' \in BOOLEAN
      /\ rescan' = RescanRest \/ rescan' = [rescan EXCEPT !.pc = "select"]
    BY DEF IInv, RestTypeOK, CheckForUpdates, grype
<1>2. grypeDB' >= grypeDB
    BY Types DEF CheckForUpdates, grype
<1>3. rescan' \in [pc : {"idle", "check", "select", "enqueue"}, left : SUBSET Nodes]
    BY <1>1 DEF IInv, RestTypeOK, RescanRest
<1>4. RestTypeOK'
    BY <1>1, <1>3, FailsIs DEF IInv, RestTypeOK, CheckForUpdates, offRescan, world, manager, sweeper
<1> QED BY <1>2, <1>4, FailsIs, Aside DEF IInv, CheckForUpdates, offRescan, table

LEMMA SelectNodesInv == ASSUME IInv, SelectNodes PROVE IInv'
<1>1. RestTypeOK'
    BY DEF IInv, RestTypeOK, SelectNodes, RescanRest, offRescan, world, manager, sweeper, grype
<1> QED BY <1>1, Aside, Types DEF SelectNodes, offRescan, table, grype

LEMMA RescanNodeInv == ASSUME IInv, NEW n \in Nodes, RescanNode(n) PROVE IInv'
<1>1. RestTypeOK'
    BY DEF IInv, RestTypeOK, RescanNode, RescanRest, offRescan, world, manager, sweeper, grype
<1> QED BY <1>1, Asks DEF RescanNode, offRescan, table, grype

LEMMA StopInv == ASSUME IInv, Stop PROVE IInv'
<1>1. RestTypeOK'
    BY FailsIs DEF IInv, RestTypeOK, Stop, world, manager, sweeper, grype
<1> QED BY <1>1, FailsIs, Aside, Types DEF IInv, Stop, grype

\* No scan is under way after a restart, for any row.
LEMMA RestartInv == ASSUME IInv, Restart PROVE IInv'
<1> DEFINE r(n) == [rows[n] EXCEPT !.status = "pending", !.old = FALSE]
<1>1. faults' \in [count : 0 .. MaxFaults, write : BOOLEAN] /\ (faults.write => faults'.write)
    BY FailsIs DEF IInv, RestTypeOK, Restart
<1>2. removing' \in [node : Nodes \cup {NoNode}, attempt : 0 .. RemoveAttempts]
    BY BoundsAssumption DEF Restart, NoRemoval
<1>3. RestTypeOK'
    BY <1>1, <1>2 DEF IInv, RestTypeOK, Restart, world, SweepRest, RescanRest
<1>4. rows \in [Nodes -> Row] /\ rows' = [n \in Nodes |-> IF Transient(rows[n].status) THEN r(n) ELSE rows[n]]
    BY DEF IInv, RowsInv, CoreTypeOK, Restart, ResetInterruptedScans
<1>5. ASSUME NEW n \in Nodes
      PROVE  /\ r(n) \in Row /\ r(n).id = rows[n].id /\ r(n).built = rows[n].built
             /\ r(n).found = rows[n].found /\ r(n).report = rows[n].report /\ r(n).status = "pending"
  <2>1. rows[n] \in Row
      BY <1>4
  <2> QED BY <2>1 DEF Row, Status
<1> HIDE DEF r
<1>6. \A n \in Nodes : /\ rows'[n] \in Row /\ rows'[n].id = rows[n].id /\ rows'[n].built = rows[n].built
                       /\ rows'[n].found = rows[n].found /\ rows'[n].report = rows[n].report
                       /\ ~Transient(rows'[n].status) /\ (rows[n] = NoRow => rows'[n] = NoRow)
    BY <1>4, <1>5, Empty DEF Transient
<1>7. CoreTypeOK' /\ QueueDistinct'
  <2>1. rows' \in [Nodes -> Row] /\ worker' \in [pc : Steps, node : Nodes \cup {NoNode}, id : Nat, ver : Versions]
      BY <1>4, <1>6, Empty DEF Restart, Idle, Steps
  <2> QED BY <2>1 DEF IInv, RowsInv, CoreTypeOK, QueueDistinct, Restart
<1>8. AbsentRows' /\ TransientOwned'
    BY <1>6 DEF IInv, RowsInv, AbsentRows, TransientOwned
<1>9. Backed' /\ IdsBounded' /\ WorkerOK'
    BY <1>6, Empty, Types DEF IInv, RowsInv, Backed, IdsBounded, WorkerOK, At, Restart, Idle
<1> QED BY <1>3, <1>7, <1>8, <1>9 DEF IInv, RowsInv

-----------------------------------------------------------------------------
(* The worker *)

Workers == [pc : Steps, node : Nodes \cup {NoNode}, id : Nat, ver : Versions]

MayFail == faults' = faults \/ \E kind \in FaultKinds : Fails(kind)

LEMMA MayFailIs ==
    ASSUME IInv, MayFail, UNCHANGED offWorker
    PROVE  RestTypeOK' /\ (faults.write => faults'.write)
<1>1. faults' \in [count : 0 .. MaxFaults, write : BOOLEAN] /\ (faults.write => faults'.write)
    BY FailsIs DEF IInv, RestTypeOK, MayFail
<1> QED BY <1>1 DEF IInv, RestTypeOK, offWorker, world, manager, sweeper, grype

\* What remains to be shown of a step of the worker.
LEMMA Turn ==
    ASSUME IInv, UNCHANGED offWorker, MayFail, queue' \in Seq(Jobs), QueueDistinct',
           rows' \in [Nodes -> Row], AbsentRows', Backed', worker' \in Workers, WorkerOK',
           \A n \in Nodes : rows'[n].id = rows[n].id,
           worker'.node \in Nodes => worker'.id <= lastId[worker'.node],
           ~faults'.write => \A n \in Nodes : Transient(rows'[n].status) => worker'.node = n
    PROVE  IInv'
<1>1. CoreTypeOK'
    BY DEF IInv, RowsInv, CoreTypeOK, Workers, offWorker
<1>2. IdsBounded'
    BY DEF IInv, RowsInv, IdsBounded, offWorker
<1>3. TransientOwned'
    BY DEF TransientOwned
<1> QED BY <1>1, <1>2, <1>3, MayFailIs DEF IInv, RowsInv

Special == {"idle", "storeSBOMRows", "storeVulns", "storeVulnsRows", "storeVulnsBlob"}

\* The worker goes to a step of which nothing particular is to be known.
LEMMA Moves ==
    ASSUME IInv, UNCHANGED <<offWorker, queue, rows>>, MayFail, ~At("idle"),
           NEW p \in Steps \ Special, Goto(p)
    PROVE  IInv'
<1>1. worker \in Workers /\ worker.node \in Nodes
    BY DEF IInv, RowsInv, CoreTypeOK, WorkerOK, Workers
<1>2. worker' \in Workers /\ worker'.pc = p /\ worker'.node = worker.node /\ worker'.id = worker.id
    BY <1>1 DEF Goto, Workers
<1>3. WorkerOK'
    BY <1>1, <1>2 DEF WorkerOK, At, Special
<1>4. rows' \in [Nodes -> Row] /\ AbsentRows' /\ Backed' /\ queue' \in Seq(Jobs) /\ QueueDistinct'
    BY DEF IInv, RowsInv, CoreTypeOK, AbsentRows, Backed, QueueDistinct, offWorker, grype
<1>5. worker'.id <= lastId[worker'.node]
    BY <1>1, <1>2 DEF IInv, RowsInv, IdsBounded
<1>6. ~faults'.write => \A n \in Nodes : Transient(rows'[n].status) => worker'.node = n
    BY <1>2, MayFailIs DEF IInv, RowsInv, TransientOwned
<1> QED BY <1>2, <1>3, <1>4, <1>5, <1>6, Turn

LEMMA IdleIs == Idle \in Workers /\ Idle.pc = "idle" /\ Idle.node = NoNode /\ Idle.id = 0
BY Empty DEF Idle, Workers, Steps

LEMMA ProcessHostJobInv == ASSUME IInv, ProcessHostJob PROVE IInv'
<1> DEFINE j == Head(queue)
<1>1. queue \in Seq(Jobs) /\ queue # <<>> /\ j \in Jobs /\ queue' = Tail(queue)
    BY DEF IInv, RowsInv, CoreTypeOK, ProcessHostJob
<1>2. queue' \in Seq(Jobs) /\ \A i \in DOMAIN queue' : queue'[i] = queue[i + 1] /\ i + 1 \in DOMAIN queue
    BY <1>1
<1>3. QueueDistinct'
  <2>1. \A i \in DOMAIN queue' : i \in Nat
      BY <1>2
  <2> QED BY <1>2, <2>1 DEF IInv, QueueDistinct
<1>4. j.node \in Nodes
    BY <1>1 DEF Jobs
<1>5. worker' = Idle \/ worker' = [Idle EXCEPT !.pc = "markGenerating", !.node = j.node]
    BY DEF ProcessHostJob
<1> HIDE DEF j
<1>6. /\ worker' \in Workers /\ worker'.id = 0
      /\ \/ worker'.pc = "idle" /\ worker'.node = NoNode
         \/ worker'.pc = "markGenerating" /\ worker'.node \in Nodes
  <2>1. CASE worker' = Idle
      BY <2>1, IdleIs
  <2>2. CASE worker' = [Idle EXCEPT !.pc = "markGenerating", !.node = j.node]
    <3>1. "markGenerating" \in Steps
        BY DEF Steps
    <3> QED BY <1>4, <2>2, <3>1, IdleIs DEF Workers
  <2> QED BY <1>5, <2>1, <2>2
<1>7. rows' \in [Nodes -> Row] /\ AbsentRows' /\ Backed' /\ UNCHANGED <<offWorker, faults, rows>>
    BY DEF IInv, RowsInv, CoreTypeOK, AbsentRows, Backed, ProcessHostJob, offWorker, grype
<1>8. WorkerOK'
    BY <1>6 DEF WorkerOK, At
<1>9. ~faults'.write => \A n \in Nodes : Transient(rows'[n].status) => worker'.node = n
    BY <1>7, Empty DEF IInv, RowsInv, TransientOwned, WorkerOK, ProcessHostJob
<1>10. worker'.node \in Nodes => worker'.id <= lastId[worker'.node]
    BY <1>6, Types
<1> QED BY <1>2, <1>3, <1>6, <1>7, <1>8, <1>9, <1>10, Turn DEF MayFail

\* A status the worker writes by name.
LEMMA WithStatusIs ==
    ASSUME IInv, NEW n \in Nodes, NEW s \in Status, rows' = WithStatus(n, s), UNCHANGED grypeDB
    PROVE  /\ rows' \in [Nodes -> Row] /\ AbsentRows' /\ Backed'
           /\ \A m \in Nodes : rows'[m].id = rows[m].id
           /\ \A m \in Nodes \ {n} : rows'[m] = rows[m]
           /\ rows'[n].status = s \/ ~Transient(rows'[n].status)
<1>1. rows \in [Nodes -> Row] /\ AbsentRows /\ Backed /\ rows[n] \in Row
    BY DEF IInv, RowsInv, CoreTypeOK
<1>2. CASE Present(n)
  <2> DEFINE r == [rows[n] EXCEPT !.status = s, !.old = FALSE]
  <2>1. /\ r \in Row /\ r.id = rows[n].id /\ r.built = rows[n].built /\ r.found = rows[n].found
        /\ r.report = rows[n].report /\ r.status = s
      BY <1>1 DEF Row
  <2>2. rows' = [rows EXCEPT ![n] = r]
      BY <1>1, <1>2 DEF WithStatus
  <2> HIDE DEF r
  <2>3. rows' \in [Nodes -> Row] /\ rows'[n] = r /\ \A m \in Nodes \ {n} : rows'[m] = rows[m]
      BY <1>1, <2>1, <2>2
  <2>4. AbsentRows' /\ Backed'
      BY <1>1, <1>2, <2>1, <2>3 DEF AbsentRows, Backed, Present
  <2> QED BY <2>1, <2>3, <2>4
<1>3. CASE ~Present(n)
  <2>1. rows' = rows /\ rows[n] = NoRow
      BY <1>1, <1>3 DEF WithStatus, AbsentRows, Present
  <2>2. AbsentRows' /\ Backed'
      BY <1>1, <2>1 DEF AbsentRows, Backed
  <2> QED BY <1>1, <2>1, <2>2, Empty
<1> QED BY <1>2, <1>3

\* The worker is done, and its row is in no transient status, or a write failed.
LEMMA Rests ==
    ASSUME IInv, UNCHANGED <<offWorker, queue>>, MayFail, worker' = Idle,
           rows' \in [Nodes -> Row], AbsentRows', Backed',
           \A m \in Nodes : rows'[m].id = rows[m].id,
           \A m \in Nodes \ {worker.node} : rows'[m] = rows[m],
           faults'.write \/ ~Transient(rows'[worker.node].status)
    PROVE  IInv'
<1>1. WorkerOK' /\ worker'.node \notin Nodes
    BY IdleIs, Empty DEF WorkerOK, At
<1>2. queue' \in Seq(Jobs) /\ QueueDistinct'
    BY DEF IInv, RowsInv, CoreTypeOK, QueueDistinct
<1>3. ~faults'.write => \A n \in Nodes : ~Transient(rows'[n].status)
    BY MayFailIs DEF IInv, RowsInv, TransientOwned
<1> QED BY <1>1, <1>2, <1>3, IdleIs, Turn

\* The rows as they are.
LEMMA SameRows ==
    ASSUME IInv, UNCHANGED rows, grypeDB' = grypeDB
    PROVE  rows' \in [Nodes -> Row] /\ AbsentRows' /\ Backed'
BY DEF IInv, RowsInv, CoreTypeOK, AbsentRows, Backed

LEMMA MarkGeneratingInv == ASSUME IInv, MarkGenerating PROVE IInv'
<1>1. UNCHANGED <<offWorker, queue>> /\ grypeDB' = grypeDB /\ ~At("idle") /\ worker.node \in Nodes
      /\ worker \in Workers
    BY DEF MarkGenerating, At, IInv, RowsInv, CoreTypeOK, WorkerOK, Workers, offWorker, grype
<1>2. CASE rows' = WithStatus(worker.node, "generating_sbom") /\ Goto("retrieveSBOM") /\ UNCHANGED faults
  <2>1. "generating_sbom" \in Status
      BY DEF Status
  <2>2. /\ rows' \in [Nodes -> Row] /\ AbsentRows' /\ Backed'
        /\ \A m \in Nodes : rows'[m].id = rows[m].id
        /\ \A m \in Nodes \ {worker.node} : rows'[m] = rows[m]
      BY <1>1, <1>2, <2>1, WithStatusIs
  <2>3. /\ worker' \in Workers /\ worker'.pc = "retrieveSBOM"
        /\ worker'.node = worker.node /\ worker'.id = worker.id
      BY <1>1, <1>2 DEF Goto, Workers, Steps
  <2>4. WorkerOK'
      BY <1>1, <2>3 DEF WorkerOK, At
  <2>5. worker'.id <= lastId[worker'.node]
      BY <1>1, <2>3 DEF IInv, RowsInv, IdsBounded
  <2>6. ~faults'.write => \A n \in Nodes : Transient(rows'[n].status) => worker'.node = n
      BY <1>2, <2>2, <2>3 DEF IInv, RowsInv, TransientOwned
  <2>7. queue' \in Seq(Jobs) /\ QueueDistinct'
      BY <1>1 DEF IInv, RowsInv, CoreTypeOK, QueueDistinct
  <2> QED BY <1>1, <1>2, <2>2, <2>3, <2>4, <2>5, <2>6, <2>7, Turn DEF MayFail
<1>3. CASE Fails("write") /\ worker' = Idle /\ UNCHANGED rows
  <2>1. MayFail /\ faults'.write
      BY <1>3, FailsIs DEF IInv, MayFail, FaultKinds
  <2> QED BY <1>1, <1>3, <2>1, SameRows, Rests
<1> QED BY <1>2, <1>3 DEF MarkGenerating, Write

\* The two places where a failure is recorded end the job either way.
LEMMA RecordFailed ==
    ASSUME IInv, NEW s \in {"sbom_failed", "vuln_scan_failed"}, worker.node \in Nodes,
           Write(WithStatus(worker.node, s), worker' = Idle, worker' = Idle), UNCHANGED <<offWorker, queue>>
    PROVE  IInv'
<1>1. grypeDB' = grypeDB /\ s \in Status /\ ~Transient(s)
    BY DEF offWorker, grype, Status, Transient
<1>2. CASE rows' = WithStatus(worker.node, s) /\ worker' = Idle /\ UNCHANGED faults
  <2>1. /\ rows' \in [Nodes -> Row] /\ AbsentRows' /\ Backed'
        /\ \A m \in Nodes : rows'[m].id = rows[m].id
        /\ \A m \in Nodes \ {worker.node} : rows'[m] = rows[m]
        /\ ~Transient(rows'[worker.node].status)
      BY <1>1, <1>2, WithStatusIs
  <2> QED BY <1>2, <2>1, Rests DEF MayFail
<1>3. CASE Fails("write") /\ worker' = Idle /\ UNCHANGED rows
  <2>1. MayFail /\ faults'.write
      BY <1>3, FailsIs DEF IInv, MayFail, FaultKinds
  <2> QED BY <1>1, <1>3, <2>1, SameRows, Rests
<1> QED BY <1>2, <1>3 DEF Write

LEMMA SBOMFailedInv == ASSUME IInv, SBOMFailed PROVE IInv'
<1>1. worker.node \in Nodes
    BY DEF IInv, RowsInv, WorkerOK, SBOMFailed, At
<1> QED BY <1>1, RecordFailed DEF SBOMFailed

LEMMA VulnScanFailedInv == ASSUME IInv, VulnScanFailed PROVE IInv'
<1>1. worker.node \in Nodes
    BY DEF IInv, RowsInv, WorkerOK, VulnScanFailed, At
<1> QED BY <1>1, RecordFailed DEF VulnScanFailed

LEMMA RetrieveHostSBOMInv == ASSUME IInv, RetrieveHostSBOM PROVE IInv'
<1>1. Goto("storeSBOM") \/ Goto("sbomFailed")
    BY DEF RetrieveHostSBOM
<1>2. ~At("idle") /\ MayFail /\ UNCHANGED <<offWorker, queue, rows>>
    BY DEF RetrieveHostSBOM, At, MayFail, FaultKinds
<1>3. {"storeSBOM", "sbomFailed"} \subseteq Steps \ Special
    BY DEF Steps, Special
<1> QED BY <1>1, <1>2, <1>3, Moves

LEMMA StoreNodeSBOMBlobInv == ASSUME IInv, StoreNodeSBOMBlob PROVE IInv'
<1>1. Goto("waitForReady") \/ Goto("sbomFailed")
    BY DEF StoreNodeSBOMBlob, Write
<1>2. ~At("idle") /\ MayFail /\ UNCHANGED <<offWorker, queue, rows>>
    BY DEF StoreNodeSBOMBlob, Write, At, MayFail, FaultKinds
<1>3. {"waitForReady", "sbomFailed"} \subseteq Steps \ Special
    BY DEF Steps, Special
<1> QED BY <1>1, <1>2, <1>3, Moves

LEMMA WaitForReadyInv == ASSUME IInv, WaitForReady PROVE IInv'
<1>1. Goto("scan") \/ Goto("vulnScanFailed")
    BY DEF WaitForReady
<1>2. ~At("idle") /\ MayFail /\ UNCHANGED <<offWorker, queue, rows>>
    BY DEF WaitForReady, At, MayFail
<1>3. {"scan", "vulnScanFailed"} \subseteq Steps \ Special
    BY DEF Steps, Special
<1> QED BY <1>1, <1>2, <1>3, Moves

\* Where the worker is and goes.
LEMMA Here ==
    ASSUME IInv, UNCHANGED <<offWorker, queue>>, ~At("idle")
    PROVE  /\ worker \in Workers /\ worker.node \in Nodes /\ worker.id <= lastId[worker.node]
           /\ grypeDB' = grypeDB /\ queue' \in Seq(Jobs) /\ QueueDistinct'
           /\ rows[worker.node] \in Row
BY DEF IInv, RowsInv, CoreTypeOK, WorkerOK, IdsBounded, QueueDistinct, Workers, offWorker, grype

\* A failed write of the worker's.
LEMMA WriteFails ==
    ASSUME IInv, UNCHANGED <<offWorker, queue, rows>>, ~At("idle"), Fails("write"),
           NEW p \in {"sbomFailed", "vulnScanFailed"}, Goto(p)
    PROVE  IInv'
<1>1. MayFail /\ p \in Steps \ Special
    BY DEF MayFail, FaultKinds, Steps, Special
<1> QED BY <1>1, Moves

\* A row the worker writes by its id.
LEMMA RowWriteIs ==
    ASSUME IInv, NEW n \in Nodes, rows[n].id # 0, NEW r \in Row, r.id = rows[n].id,
           r.found = r.built, r.report <= r.built, r.built <= grypeDB, grypeDB' = grypeDB,
           rows' = [rows EXCEPT ![n] = r]
    PROVE  /\ rows' \in [Nodes -> Row] /\ AbsentRows' /\ Backed' /\ rows'[n] = r
           /\ \A m \in Nodes : rows'[m].id = rows[m].id
           /\ \A m \in Nodes \ {n} : rows'[m] = rows[m]
<1>1. rows \in [Nodes -> Row] /\ AbsentRows /\ Backed
    BY DEF IInv, RowsInv, CoreTypeOK
<1>2. rows' \in [Nodes -> Row] /\ rows'[n] = r /\ \A m \in Nodes \ {n} : rows'[m] = rows[m]
    BY <1>1
<1>3. AbsentRows' /\ Backed'
    BY <1>1, <1>2 DEF AbsentRows, Backed
<1> QED BY <1>2, <1>3

\* The worker goes on with its node, having changed at most that node's row.
LEMMA GoesOn ==
    ASSUME IInv, UNCHANGED <<offWorker, queue, faults>>, ~At("idle"),
           rows' \in [Nodes -> Row], AbsentRows', Backed', worker' \in Workers, WorkerOK',
           \A m \in Nodes : rows'[m].id = rows[m].id,
           \A m \in Nodes \ {worker.node} : rows'[m] = rows[m],
           worker'.node = worker.node, worker'.id <= lastId[worker.node]
    PROVE  IInv'
<1>1. ~faults'.write => \A n \in Nodes : Transient(rows'[n].status) => worker'.node = n
    BY DEF IInv, RowsInv, TransientOwned
<1> QED BY <1>1, Here, Turn DEF MayFail

LEMMA StoreNodeSBOMInv == ASSUME IInv, StoreNodeSBOM PROVE IInv'
<1> DEFINE n == worker.node
<1>1. ~At("idle") /\ UNCHANGED <<offWorker, queue, rows, faults>>
    BY DEF StoreNodeSBOM, At
<1>2. CASE Present(n) /\ worker' = [worker EXCEPT !.pc = "storeSBOMRows", !.id = rows[n].id]
  <2>1. n \in Nodes /\ rows[n].id \in Nat /\ rows[n].id <= lastId[n] /\ rows[n].id # 0 /\ worker \in Workers
      BY <1>1, <1>2, Here, Types DEF Present
  <2>2. /\ worker' \in Workers /\ worker'.pc = "storeSBOMRows" /\ worker'.node = n
        /\ worker'.id = rows[n].id
      BY <1>2, <2>1 DEF Workers, Steps
  <2>3. WorkerOK'
      BY <2>1, <2>2 DEF WorkerOK, At
  <2> QED BY <1>1, <2>1, <2>2, <2>3, SameRows, Here, GoesOn
<1>3. CASE Goto("sbomFailed")
  <2>1. "sbomFailed" \in Steps \ Special /\ MayFail
      BY <1>1 DEF Steps, Special, MayFail
  <2> QED BY <1>1, <1>3, <2>1, Moves
<1> QED BY <1>2, <1>3 DEF StoreNodeSBOM, Goto

LEMMA StoreNodeSBOMRowsInv == ASSUME IInv, StoreNodeSBOMRows PROVE IInv'
<1> DEFINE n == worker.node
           r == [rows[n] EXCEPT !.packages = TRUE, !.old = FALSE, !.status = "scanning_vulnerabilities"]
<1>1. ~At("idle") /\ UNCHANGED <<offWorker, queue>> /\ At("storeSBOMRows")
    BY DEF StoreNodeSBOMRows, At
<1>2. CASE rows' = ById(r) /\ Goto("storeSBOMBlob") /\ UNCHANGED faults
  <2>1. /\ rows[n] \in Row /\ rows[n].found = rows[n].built /\ rows[n].report <= rows[n].built
        /\ rows[n].built <= grypeDB /\ worker.id # 0 /\ worker \in Workers /\ n \in Nodes
      BY <1>1, Here DEF IInv, RowsInv, Backed, WorkerOK
  <2>2. /\ r \in Row /\ r.id = rows[n].id /\ r.built = rows[n].built /\ r.found = rows[n].found
        /\ r.report = rows[n].report
      BY <2>1 DEF Row, Status
  <2>3. rows' = rows \/ (rows' = [rows EXCEPT ![n] = r] /\ rows[n].id = worker.id)
      BY <1>2 DEF ById
  <2> HIDE DEF r
  <2>4. /\ rows' \in [Nodes -> Row] /\ AbsentRows' /\ Backed'
        /\ \A m \in Nodes : rows'[m].id = rows[m].id
        /\ \A m \in Nodes \ {n} : rows'[m] = rows[m]
    <3>1. CASE rows' = rows
        BY <1>1, <3>1, SameRows, Here
    <3>2. CASE rows' = [rows EXCEPT ![n] = r] /\ rows[n].id = worker.id
        BY <1>1, <2>1, <2>2, <3>2, RowWriteIs, Here
    <3> QED BY <2>3, <3>1, <3>2
  <2>5. /\ worker' \in Workers /\ worker'.pc = "storeSBOMBlob" /\ worker'.node = n
        /\ worker'.id = worker.id
      BY <1>2, <2>1 DEF Goto, Workers, Steps
  <2>6. WorkerOK'
      BY <2>1, <2>5 DEF WorkerOK, At
  <2> QED BY <1>1, <1>2, <2>4, <2>5, <2>6, Here, GoesOn
<1>3. CASE Fails("write") /\ Goto("sbomFailed") /\ UNCHANGED rows
    BY <1>1, <1>3, WriteFails
<1> QED BY <1>2, <1>3 DEF StoreNodeSBOMRows, Write

LEMMA ScanInv == ASSUME IInv, Scan PROVE IInv'
<1> DEFINE n == worker.node
<1>1. ~At("idle") /\ UNCHANGED <<offWorker, queue, rows>>
    BY DEF Scan, At
<1>2. CASE worker' = [worker EXCEPT !.pc = "storeVulns", !.ver = grypeDB] /\ UNCHANGED faults
  <2>1. /\ n \in Nodes /\ worker \in Workers /\ worker.id <= lastId[n] /\ grypeDB \in Versions
        /\ rows[n].built <= grypeDB /\ grypeDB' = grypeDB
      BY <1>1, Here DEF IInv, RestTypeOK, RowsInv, Backed
  <2>2. /\ worker' \in Workers /\ worker'.pc = "storeVulns" /\ worker'.node = n
        /\ worker'.id = worker.id /\ worker'.ver = grypeDB
      BY <1>2, <2>1 DEF Workers, Steps
  <2>3. WorkerOK'
      BY <1>1, <2>1, <2>2, Types DEF WorkerOK, At
  <2> QED BY <1>1, <1>2, <2>1, <2>2, <2>3, SameRows, GoesOn
<1>3. CASE Goto("vulnScanFailed") /\ MayFail
  <2>1. "vulnScanFailed" \in Steps \ Special
      BY DEF Steps, Special
  <2> QED BY <1>1, <1>3, <2>1, Moves
<1> QED BY <1>2, <1>3 DEF Scan, MayFail, FaultKinds

LEMMA StoreNodeVulnerabilitiesInv == ASSUME IInv, StoreNodeVulnerabilities PROVE IInv'
<1> DEFINE n == worker.node
<1>1. ~At("idle") /\ UNCHANGED <<offWorker, queue, rows, faults>> /\ At("storeVulns")
    BY DEF StoreNodeVulnerabilities, At
<1>2. CASE Present(n) /\ worker' = [worker EXCEPT !.pc = "storeVulnsRows", !.id = rows[n].id]
  <2>1. n \in Nodes /\ rows[n].id \in Nat /\ rows[n].id <= lastId[n] /\ rows[n].id # 0 /\ worker \in Workers
      BY <1>1, <1>2, Here, Types DEF Present
  <2>2. worker.ver <= grypeDB /\ rows[n].built <= worker.ver /\ grypeDB' = grypeDB
      BY <1>1, Here DEF IInv, RowsInv, WorkerOK
  <2>3. /\ worker' \in Workers /\ worker'.pc = "storeVulnsRows" /\ worker'.node = n
        /\ worker'.id = rows[n].id /\ worker'.ver = worker.ver
      BY <1>2, <2>1 DEF Workers, Steps
  <2>4. WorkerOK'
      BY <1>1, <2>1, <2>2, <2>3 DEF WorkerOK, At
  <2> QED BY <1>1, <2>1, <2>2, <2>3, <2>4, SameRows, GoesOn
<1>3. CASE Goto("vulnScanFailed")
  <2>1. "vulnScanFailed" \in Steps \ Special /\ MayFail
      BY <1>1 DEF Steps, Special, MayFail
  <2> QED BY <1>1, <1>3, <2>1, Moves
<1> QED BY <1>2, <1>3 DEF StoreNodeVulnerabilities, Goto

\* The report known by the row may be as new as the matches, not newer.
LEMMA StoreNodeVulnsRowsInv == ASSUME IInv, StoreNodeVulnsRows PROVE IInv'
<1> DEFINE n == worker.node
           r == [rows[n] EXCEPT !.found = worker.ver, !.built = worker.ver,
                                !.status = "completed", !.old = FALSE]
<1>1. ~At("idle") /\ UNCHANGED <<offWorker, queue>> /\ At("storeVulnsRows")
    BY DEF StoreNodeVulnsRows, At
<1>2. CASE rows' = ById(r) /\ Goto("storeVulnsBlob") /\ UNCHANGED faults
  <2>1. /\ rows[n] \in Row /\ worker \in Workers /\ n \in Nodes /\ worker.id # 0
        /\ rows[n].report <= rows[n].built /\ rows[n].built <= worker.ver /\ worker.ver <= grypeDB
        /\ rows[n].id = worker.id \/ ~Transient(rows[n].status)
      BY <1>1, Here DEF IInv, RowsInv, Backed, WorkerOK
  <2>2. /\ r \in Row /\ r.id = rows[n].id /\ r.built = worker.ver /\ r.found = worker.ver
        /\ r.report = rows[n].report /\ r.status = "completed"
      BY <2>1 DEF Row, Status, Workers
  <2>3. r.report <= r.built
      BY <2>1, <2>2 DEF Row, Versions, Workers
  <2>4. IF rows[n].id = worker.id THEN rows' = [rows EXCEPT ![n] = r] ELSE rows' = rows
      BY <1>2 DEF ById
  <2> HIDE DEF r
  <2>5. /\ rows' \in [Nodes -> Row] /\ AbsentRows' /\ Backed'
        /\ \A m \in Nodes : rows'[m].id = rows[m].id
        /\ \A m \in Nodes \ {n} : rows'[m] = rows[m]
        /\ IF rows[n].id = worker.id THEN rows'[n] = r ELSE rows' = rows
    <3>1. CASE rows[n].id # worker.id
        BY <1>1, <2>4, <3>1, SameRows, Here
    <3>2. CASE rows[n].id = worker.id
        BY <1>1, <2>1, <2>2, <2>3, <2>4, <3>2, RowWriteIs, Here
    <3> QED BY <3>1, <3>2
  <2>6. /\ worker' \in Workers /\ worker'.pc = "storeVulnsBlob" /\ worker'.node = n
        /\ worker'.id = worker.id /\ worker'.ver = worker.ver
      BY <1>2, <2>1 DEF Goto, Workers, Steps
  <2>7. ~Transient(rows'[n].status) /\ (rows'[n].id # worker.id \/ rows'[n].built = worker.ver)
      BY <2>1, <2>2, <2>5 DEF Transient
  <2>8. WorkerOK'
      BY <2>1, <2>6, <2>7 DEF WorkerOK, At
  <2> QED BY <1>1, <1>2, <2>5, <2>6, <2>8, Here, GoesOn
<1>3. CASE Fails("write") /\ Goto("vulnScanFailed") /\ UNCHANGED rows
    BY <1>1, <1>3, WriteFails
<1> QED BY <1>2, <1>3 DEF StoreNodeVulnsRows, Write

LEMMA StoreNodeVulnsBlobInv == ASSUME IInv, StoreNodeVulnsBlob PROVE IInv'
<1> DEFINE n == worker.node
           r == [rows[n] EXCEPT !.report = worker.ver]
<1>1. ~At("idle") /\ UNCHANGED <<offWorker, queue>> /\ At("storeVulnsBlob")
    BY DEF StoreNodeVulnsBlob, At
<1>2. CASE rows' = ById(r) /\ worker' = Idle /\ UNCHANGED faults
  <2>1. /\ rows[n] \in Row /\ worker \in Workers /\ n \in Nodes /\ worker.id # 0
        /\ ~Transient(rows[n].status) /\ rows[n].found = rows[n].built /\ rows[n].built <= grypeDB
        /\ rows[n].id = worker.id => rows[n].built = worker.ver
      BY <1>1, Here DEF IInv, RowsInv, Backed, WorkerOK
  <2>2. /\ r \in Row /\ r.id = rows[n].id /\ r.built = rows[n].built /\ r.found = rows[n].found
        /\ r.report = worker.ver /\ r.status = rows[n].status
      BY <2>1 DEF Row, Workers
  <2>3. rows[n].id = worker.id => r.report <= r.built
      BY <2>1, <2>2 DEF Row, Versions
  <2>4. IF rows[n].id = worker.id THEN rows' = [rows EXCEPT ![n] = r] ELSE rows' = rows
      BY <1>2 DEF ById
  <2> HIDE DEF r
  <2>5. /\ rows' \in [Nodes -> Row] /\ AbsentRows' /\ Backed'
        /\ \A m \in Nodes : rows'[m].id = rows[m].id
        /\ \A m \in Nodes \ {n} : rows'[m] = rows[m]
        /\ ~Transient(rows'[n].status)
    <3>1. CASE rows[n].id # worker.id
        BY <1>1, <2>1, <2>4, <3>1, SameRows, Here
    <3>2. CASE rows[n].id = worker.id
        BY <1>1, <2>1, <2>2, <2>3, <2>4, <3>2, RowWriteIs, Here
    <3> QED BY <3>1, <3>2
  <2> QED BY <1>1, <1>2, <2>5, Rests DEF MayFail
<1>3. CASE Fails("write") /\ Goto("vulnScanFailed") /\ UNCHANGED rows
    BY <1>1, <1>3, WriteFails
<1> QED BY <1>2, <1>3 DEF StoreNodeVulnsBlob, Write

LEMMA WorkerStepInv == ASSUME IInv, WorkerStep PROVE IInv'
BY ProcessHostJobInv, MarkGeneratingInv, RetrieveHostSBOMInv, SBOMFailedInv, StoreNodeSBOMInv,
   StoreNodeSBOMRowsInv, StoreNodeSBOMBlobInv, WaitForReadyInv, ScanInv, VulnScanFailedInv,
   StoreNodeVulnerabilitiesInv, StoreNodeVulnsRowsInv, StoreNodeVulnsBlobInv DEF WorkerStep

-----------------------------------------------------------------------------
(* The theorems *)

LEMMA NextInv == IInv /\ [Next]_vars => IInv'
<1> SUFFICES ASSUME IInv, [Next]_vars PROVE IInv'
    OBVIOUS
<1>1. ASSUME NEW n \in Nodes, ChangeNode(n) \/ AddNode(n) \/ RemoveNode(n) \/ Age(n)
      PROVE  IInv'
    BY <1>1, ChangeNodeInv, AddNodeInv, RemoveNodeInv, AgeInv
<1>2. CASE RemoveAttempt
    BY <1>2, RemoveAttemptInv
<1>3. CASE SweepStep
    BY <1>3, SweepStepInv
<1>4. CASE WorkerStep
    BY <1>4, WorkerStepInv
<1>5. CASE RescanStep
    BY <1>5, ReapStuckScansInv, CheckForUpdatesInv, SelectNodesInv, RescanNodeInv DEF RescanStep
<1>6. CASE Stop
    BY <1>6, StopInv
<1>7. CASE Restart
    BY <1>7, RestartInv
<1>8. CASE UNCHANGED vars
  <2>1. RestTypeOK'
      BY <1>8 DEF IInv, RestTypeOK, vars, world, manager, sweeper, grype
  <2> QED BY <1>8, <2>1, Aside, Types DEF vars, grype
<1> QED BY <1>1, <1>2, <1>3, <1>4, <1>5, <1>6, <1>7, <1>8 DEF Next

LEMMA InvAlways == Spec => []IInv
BY InitInv, NextInv, PTL DEF Spec

\* Every variable keeps its type, and the queue never holds more jobs than there
\* are nodes: the informer, the sweep and the rescan job, which all enqueue
\* (nodes/manager.go, jobs/rescan_database.go), cannot make it grow beyond that.
THEOREM NodeTypeCorrect == Spec => []TypeOK
BY InvAlways, IInvType, PTL

\* The matches of a completed node are those of the report whose timestamp its row
\* has, and the stored report is never newer: the two writes of
\* StoreNodeVulnerabilities (database/nodes.go) go by the id it has read, and no
\* removal, return, reaping, restart or failed write between them breaks that.
THEOREM CompletedAlwaysBacked == Spec => []CompletedIsBacked
BY InvAlways, IInvBacked, PTL

\* Unless a write has failed, only the node the worker is on has a transient
\* status: every way out of processHostJob (scanning/queue.go) leaves a final
\* one, and a row that comes back starts as pending.
THEOREM NodeTransientAlwaysOwned == Spec => []TransientOwned
<1>1. IInv => TransientOwned
    BY DEF IInv, RowsInv
<1> QED BY <1>1, InvAlways, PTL

=============================================================================
