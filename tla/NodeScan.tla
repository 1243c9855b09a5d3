------------------------------ MODULE NodeScan ------------------------------
(***************************************************************************)
(* Host scans in k8s-scan-server: the node informer                        *)
(* (src/k8s-scan-server/k8s/node_watcher.go) feeds nodes.Manager           *)
(* (src/scanner-core/nodes/manager.go), which keeps a map of the ready     *)
(* nodes, writes the nodes table (database/nodes.go) and enqueues scans;   *)
(* a periodic sweep rescues nodes that nobody scans; the worker of the     *)
(* scan queue (scanning/queue.go) takes a node through SBOM and            *)
(* vulnerabilities; the rescan-database job reaps and rescans nodes.       *)
(*                                                                         *)
(* Unlike images (module ImageScan) a node's packages, matches and status  *)
(* are stored in one transaction, every scan generates a new SBOM, and     *)
(* nothing compares the table with the cluster after a restart.            *)
(*                                                                         *)
(* Every database write or transaction is one action.  Image jobs, which   *)
(* the worker takes first, only delay it and are left out.  A grype report *)
(* is known by the timestamp it carries, a version of the database, 0 for  *)
(* none; that the matches in it may come from an older one is module       *)
(* ImageScan's matter.  The compressed SBOM, which no step reads back, is  *)
(* left out of the row.                                                    *)
(***************************************************************************)
EXTENDS Naturals, Sequences, FiniteSets, ScanStatus

CONSTANTS
    Nodes,           \* node names
    NoNode,          \* no node
    Faults,          \* what may fail
    RemoveAttempts,  \* maxAttempts of Manager.RemoveNode
    MaxVersion,      \* grype database versions 1 .. MaxVersion   (model bound)
    MaxFaults,       \* failures and crashes                      (model bound)
    MaxChurn         \* changes of the cluster                    (model bound)

\* A database write, the process, a graceful stop, the host SBOM retriever, a
\* grype scan, the check for a new grype database.
FaultKinds == {"write", "crash", "stop", "sbom", "grype", "update"}

ASSUME NodeAssumption == NoNode \notin Nodes /\ Faults \subseteq FaultKinds
ASSUME FiniteAssumption == IsFiniteSet(Nodes)
ASSUME BoundsAssumption == /\ RemoveAttempts \in Nat \ {0}
                           /\ MaxVersion \in Nat \ {0}
                           /\ MaxFaults \in Nat
                           /\ MaxChurn \in Nat

VARIABLES
    cluster,     \* what the API server says of a node: one of two descriptions, 0 for no node
    ready,       \* the nodes whose Ready condition is true
    churn,       \* changes of the cluster so far
    faults,      \* failures and crashes so far, and whether a write was among them
    mem,         \* the names in Manager.nodes
    removing,    \* the RemoveNode call the informer's handler is in
    rows,        \* the nodes table
    lastId,      \* the last id given to a node (AUTOINCREMENT)
    queue,       \* JobQueue.hostJobs
    worker,      \* the job the worker is on and how far it is
    sweep,       \* CatchUpScans or RescueStuckNodes
    synced,      \* CatchUpScans has run
    rescan,      \* the rescan-database job
    grypeDB,     \* version of the grype database on disk
    dbReady,     \* DatabaseReadinessState.ready
    stopping     \* the queue's context is cancelled

world   == <<cluster, ready, churn>>
manager == <<mem, removing>>
table   == <<rows, lastId>>
sweeper == <<sweep, synced>>
grype   == <<grypeDB, dbReady>>
vars == <<world, faults, manager, table, queue, worker, sweeper, rescan, grype, stopping>>

Versions == 0 .. MaxVersion
Row == [id : Nat, status : Status, info : 0 .. 2, packages : BOOLEAN,
        built : Versions, found : Versions, report : Versions, old : BOOLEAN]
NoRow == [id |-> 0, status |-> "pending", info |-> 0, packages |-> FALSE,
          built |-> 0, found |-> 0, report |-> 0, old |-> FALSE]
Steps == {"idle", "markGenerating", "retrieveSBOM", "sbomFailed", "storeSBOM", "storeSBOMRows",
          "storeSBOMBlob", "waitForReady", "scan", "vulnScanFailed", "storeVulns",
          "storeVulnsRows", "storeVulnsBlob"}
Idle == [pc |-> "idle", node |-> NoNode, id |-> 0, ver |-> 0]
SweepRest == [pc |-> "idle", rescue |-> FALSE, names |-> {}, done |-> {}]
RescanRest == [pc |-> "idle", left |-> {}]
NoRemoval == [node |-> NoNode, attempt |-> 0]

Present(n) == rows[n].id # 0

Init ==
    /\ cluster = [n \in Nodes |-> 0]
    /\ ready = {}
    /\ churn = 0
    /\ faults = [count |-> 0, write |-> FALSE]
    /\ mem = {}
    /\ removing = NoRemoval
    /\ rows = [n \in Nodes |-> NoRow]
    /\ lastId = [n \in Nodes |-> 0]
    /\ queue = <<>>
    /\ worker = Idle
    /\ sweep = SweepRest
    /\ synced = FALSE
    /\ rescan = RescanRest
    /\ grypeDB = 1
    /\ dbReady = FALSE
    /\ stopping = FALSE

Fails(kind) == /\ kind \in Faults
               /\ faults.count < MaxFaults
               /\ faults' = [count |-> faults.count + 1, write |-> faults.write \/ kind = "write"]

\* Mutant: no look at the jobs already queued.
MutEnqueue(js, n, force) == IF stopping THEN js ELSE Append(js, [node |-> n, force |-> force])

\* enqueueHostJob: refused when stopping, dropped when the node is queued already
\* (whatever the force flags are).
Enqueue(js, n, force) ==
    IF stopping \/ \E i \in DOMAIN js : js[i].node = n THEN js
    ELSE Append(js, [node |-> n, force |-> force])

-----------------------------------------------------------------------------
(* The cluster and the node informer, whose events are handled one by one  *)

\* A node joins, is deleted, changes (kubelet upgrade, ...) or turns (un)ready.
ChangeNode(n) ==
    /\ churn < MaxChurn
    /\ churn' = churn + 1
    /\ \/ /\ cluster' = [cluster EXCEPT ![n] = IF @ = 1 THEN 2 ELSE 1]
          /\ ready' \in {ready \cup {n}, ready \ {n}}
       \/ /\ cluster[n] # 0
          /\ cluster' = [cluster EXCEPT ![n] = 0]
          /\ ready' = ready \ {n}
    /\ UNCHANGED <<faults, manager, table, queue, worker, sweeper, rescan, grype, stopping>>

\* db.AddNode: inserts, updates what changed, or writes nothing.
StoreNode(n) ==
    IF ~Present(n)
    THEN /\ rows' = [rows EXCEPT ![n] = [NoRow EXCEPT !.id = lastId[n] + 1, !.info = cluster[n]]]
         /\ lastId' = [lastId EXCEPT ![n] = @ + 1]
    ELSE /\ rows' = IF rows[n].info = cluster[n] THEN rows
                    ELSE [rows EXCEPT ![n].info = cluster[n], ![n].old = FALSE]
         /\ UNCHANGED lastId

\* handleNodeAddOrUpdate and Manager.AddNode: an event, or the informer's resync,
\* of a ready node.  Only a new row is enqueued.
AddNode(n) ==
    /\ removing = NoRemoval
    /\ n \in ready
    /\ mem' = mem \cup {n}
    /\ \/ /\ StoreNode(n)
          /\ queue' = IF Present(n) THEN queue ELSE Enqueue(queue, n, FALSE)
          /\ UNCHANGED faults
       \/ /\ ~(Present(n) /\ rows[n].info = cluster[n])
          /\ Fails("write")
          /\ UNCHANGED <<table, queue>>
    /\ UNCHANGED <<world, removing, worker, sweeper, rescan, grype, stopping>>

\* handleNodeDelete and Manager.RemoveNode: the map first ...
RemoveNode(n) ==
    /\ removing = NoRemoval
    /\ n \in mem
    /\ cluster[n] = 0
    /\ mem' = mem \ {n}
    /\ removing' = [node |-> n, attempt |-> 1]
    /\ UNCHANGED <<world, faults, table, queue, worker, sweeper, rescan, grype, stopping>>

\* ... then the table, without the lock, a few times over.
RemoveAttempt ==
    /\ removing # NoRemoval
    /\ \/ /\ rows' = [rows EXCEPT ![removing.node] = NoRow]
          /\ removing' = NoRemoval
          /\ UNCHANGED faults
       \/ /\ Fails("write")
          /\ removing' = IF removing.attempt = RemoveAttempts THEN NoRemoval
                         ELSE [removing EXCEPT !.attempt = @ + 1]
          /\ UNCHANGED rows
    /\ UNCHANGED <<world, mem, lastId, queue, worker, sweeper, rescan, grype, stopping>>

-----------------------------------------------------------------------------
(* CatchUpScans, once after the informer has synced, then RescueStuckNodes *)
(* on a ticker: both run beside the informer's handlers and hold the lock  *)
(* only to copy the names.                                                 *)

SweepStart ==
    /\ sweep.pc = "idle"
    /\ synced' = TRUE
    /\ sweep' = IF mem = {} THEN SweepRest
                ELSE [pc |-> "status", rescue |-> synced, names |-> mem, done |-> {}]
    /\ UNCHANGED <<world, faults, manager, table, queue, worker, rescan, grype, stopping>>

\* The statuses the rescue re-enqueues.
Rescued == {"pending", "sbom_failed", "sbom_unavailable", "vuln_scan_failed"}

\* GetNodeScanStatusBulk; a node without a row counts as pending.
SweepStatus ==
    /\ sweep.pc = "status"
    /\ LET todo == {n \in sweep.names : IF sweep.rescue THEN rows[n].status \in Rescued
                                         ELSE rows[n].status # "completed"}
           done == {n \in sweep.names : rows[n].status = "completed" /\ ~sweep.rescue}
       IN  sweep' = [sweep EXCEPT !.names = todo, !.done = done,
                        !.pc = IF done # {} THEN "complete" ELSE "enqueue"]
    /\ UNCHANGED <<world, faults, manager, table, queue, worker, synced, rescan, grype, stopping>>

\* IsNodeScanCompleteBulk: catch-up takes the completed nodes without packages too.
SweepComplete ==
    /\ sweep.pc = "complete"
    /\ sweep' = [sweep EXCEPT !.pc = "enqueue", !.done = {},
                    !.names = @ \cup {n \in sweep.done :
                                 ~(rows[n].status = "completed" /\ rows[n].packages)}]
    /\ UNCHANGED <<world, faults, manager, table, queue, worker, synced, rescan, grype, stopping>>

SweepEnqueue ==
    /\ sweep.pc = "enqueue"
    /\ \/ /\ sweep.names = {}
          /\ sweep' = SweepRest
          /\ UNCHANGED queue
       \/ \E n \in sweep.names :
             /\ queue' = Enqueue(queue, n, TRUE)
             /\ sweep' = [sweep EXCEPT !.names = @ \ {n}]
    /\ UNCHANGED <<world, faults, manager, table, worker, synced, rescan, grype, stopping>>

SweepStep == SweepStart \/ SweepStatus \/ SweepComplete \/ SweepEnqueue

-----------------------------------------------------------------------------
(* The worker: JobQueue.processHostJob and processHostVulnerabilityScan *)

At(step) == worker.pc = step
Goto(step) == worker' = [worker EXCEPT !.pc = step]
offWorker == <<world, manager, lastId, sweeper, rescan, grype, stopping>>

\* UpdateNodeStatus: by name, whatever row has it now; it refreshes updated_at.
WithStatus(n, s) == IF Present(n) THEN [rows EXCEPT ![n].status = s, ![n].old = FALSE] ELSE rows

\* A write by id reaches the row only if that very row is still there.
ById(new) == IF rows[worker.node].id = worker.id THEN [rows EXCEPT ![worker.node] = new] ELSE rows

\* A write of the worker's: it succeeds, or it fails and the job goes to `onError'.
Write(newRows, next, onError) ==
    \/ /\ rows' = newRows
       /\ next
       /\ UNCHANGED faults
    \/ /\ Fails("write")
       /\ onError
       /\ UNCHANGED rows

ProcessHostJob ==
    /\ At("idle")
    /\ queue # <<>>
    /\ queue' = Tail(queue)
    /\ LET j == Head(queue)
       IN  worker' = IF ~j.force /\ HasVulnerabilities(rows[j.node].status) THEN Idle
                     ELSE [Idle EXCEPT !.pc = "markGenerating", !.node = j.node]
    /\ UNCHANGED <<offWorker, faults, rows>>

MarkGenerating ==
    /\ At("markGenerating")
    /\ Write(WithStatus(worker.node, "generating_sbom"), Goto("retrieveSBOM"), worker' = Idle)
    /\ UNCHANGED <<offWorker, queue>>

\* hostSBOMRetriever, with its 15-minute context: fails on a node that is not
\* there or not ready, and when the queue is shutting down.
RetrieveHostSBOM ==
    /\ At("retrieveSBOM")
    /\ \/ /\ worker.node \in ready /\ ~stopping
          /\ Goto("storeSBOM")
          /\ UNCHANGED faults
       \/ /\ worker.node \notin ready \/ stopping
          /\ Goto("sbomFailed")
          /\ UNCHANGED faults
       \/ Fails("sbom") /\ Goto("sbomFailed")
    /\ UNCHANGED <<offWorker, rows, queue>>

\* UpdateNodeStatus(StatusSBOMFailed); its own failure is only logged.
SBOMFailed ==
    /\ At("sbomFailed")
    /\ Write(WithStatus(worker.node, "sbom_failed"), worker' = Idle, worker' = Idle)
    /\ UNCHANGED <<offWorker, queue>>

\* StoreNodeSBOM reads the id before it takes any lock ...
StoreNodeSBOM ==
    /\ At("storeSBOM")
    /\ worker' = IF Present(worker.node)
                 THEN [worker EXCEPT !.pc = "storeSBOMRows", !.id = rows[worker.node].id]
                 ELSE [worker EXCEPT !.pc = "sbomFailed"]
    /\ UNCHANGED <<offWorker, faults, rows, queue>>

\* ... replaces the packages and sets the status in one transaction ...
StoreNodeSBOMRows ==
    /\ At("storeSBOMRows")
    /\ Write(ById([rows[worker.node] EXCEPT !.packages = TRUE, !.old = FALSE,
                                            !.status = "scanning_vulnerabilities"]),
             Goto("storeSBOMBlob"), Goto("sbomFailed"))
    /\ UNCHANGED <<offWorker, queue>>

\* ... and writes the compressed SBOM.
StoreNodeSBOMBlob ==
    /\ At("storeSBOMBlob")
    /\ Write(rows, Goto("waitForReady"), Goto("sbomFailed"))
    /\ UNCHANGED <<offWorker, queue>>

\* Mutant: a cancelled wait ends the job without a word.
MutWaitForReady ==
    /\ At("waitForReady")
    /\ \/ dbReady /\ Goto("scan")
       \/ ~dbReady /\ stopping /\ worker' = Idle
    /\ UNCHANGED <<offWorker, faults, rows, queue>>

\* The wait for the grype database has no bound but the shutdown, which is
\* recorded as a failed scan.
WaitForReady ==
    /\ At("waitForReady")
    /\ \/ dbReady /\ Goto("scan")
       \/ ~dbReady /\ stopping /\ Goto("vulnScanFailed")
    /\ UNCHANGED <<offWorker, faults, rows, queue>>

\* grype.ScanVulnerabilitiesWithConfig: the report carries the timestamp of the
\* database now on disk.
Scan ==
    /\ At("scan")
    /\ \/ worker' = [worker EXCEPT !.pc = "storeVulns", !.ver = grypeDB] /\ UNCHANGED faults
       \/ stopping /\ Goto("vulnScanFailed") /\ UNCHANGED faults
       \/ Fails("grype") /\ Goto("vulnScanFailed")
    /\ UNCHANGED <<offWorker, rows, queue>>

VulnScanFailed ==
    /\ At("vulnScanFailed")
    /\ Write(WithStatus(worker.node, "vuln_scan_failed"), worker' = Idle, worker' = Idle)
    /\ UNCHANGED <<offWorker, queue>>

\* StoreNodeVulnerabilities reads the id ...
StoreNodeVulnerabilities ==
    /\ At("storeVulns")
    /\ worker' = IF Present(worker.node)
                 THEN [worker EXCEPT !.pc = "storeVulnsRows", !.id = rows[worker.node].id]
                 ELSE [worker EXCEPT !.pc = "vulnScanFailed"]
    /\ UNCHANGED <<offWorker, faults, rows, queue>>

\* Mutant: the status goes by name and in a write of its own, before the matches.
MutStoreNodeVulnsRows ==
    /\ At("storeVulnsRows")
    /\ Write(IF Present(worker.node)
             THEN [rows EXCEPT ![worker.node].status = "completed", ![worker.node].old = FALSE,
                                 ![worker.node].built = worker.ver]
             ELSE rows,
             Goto("storeVulnsBlob"), Goto("vulnScanFailed"))
    /\ UNCHANGED <<offWorker, queue>>

\* ... replaces the matches and sets status and grype_db_built in one transaction ...
StoreNodeVulnsRows ==
    /\ At("storeVulnsRows")
    /\ Write(ById([rows[worker.node] EXCEPT !.found = worker.ver, !.built = worker.ver,
                                            !.status = "completed", !.old = FALSE]),
             Goto("storeVulnsBlob"), Goto("vulnScanFailed"))
    /\ UNCHANGED <<offWorker, queue>>

\* ... and writes the compressed report.
StoreNodeVulnsBlob ==
    /\ At("storeVulnsBlob")
    /\ Write(ById([rows[worker.node] EXCEPT !.report = worker.ver]),
             worker' = Idle, Goto("vulnScanFailed"))
    /\ UNCHANGED <<offWorker, queue>>

WorkerStep ==
    \/ ProcessHostJob \/ MarkGenerating \/ RetrieveHostSBOM \/ SBOMFailed
    \/ StoreNodeSBOM \/ StoreNodeSBOMRows \/ StoreNodeSBOMBlob
    \/ WaitForReady \/ Scan \/ VulnScanFailed
    \/ StoreNodeVulnerabilities \/ StoreNodeVulnsRows \/ StoreNodeVulnsBlob

-----------------------------------------------------------------------------
(* The node side of the rescan-database job *)

offRescan == <<world, manager, lastId, worker, sweeper, stopping>>

\* A row has been in a transient status for stuckScanMaxAge; of the worker's own
\* steps only the wait for grype can take that long.
Age(n) ==
    /\ Transient(rows[n].status)
    /\ ~rows[n].old
    /\ worker.node = n => At("waitForReady") /\ ~dbReady
    /\ rows' = [rows EXCEPT ![n].old = TRUE]
    /\ UNCHANGED <<offRescan, faults, queue, rescan, grype>>

ReapStuckScans ==
    /\ rescan.pc = "idle"
    /\ rescan' = [rescan EXCEPT !.pc = "check"]
    /\ \/ /\ rows' = [n \in Nodes |->
                          IF Transient(rows[n].status) /\ rows[n].old
                          THEN [rows[n] EXCEPT !.status = "vuln_scan_failed", !.old = FALSE]
                          ELSE rows[n]]
          /\ UNCHANGED faults
       \/ Fails("write") /\ UNCHANGED rows
    /\ UNCHANGED <<offRescan, queue, grype>>

CheckForUpdates ==
    /\ rescan.pc = "check"
    /\ \/ /\ grypeDB' \in {grypeDB, grypeDB + 1} \cap Versions
          /\ dbReady' = TRUE
          /\ rescan' = [rescan EXCEPT !.pc = "select"]
          /\ UNCHANGED faults
       \/ /\ Fails("update")
          /\ rescan' = RescanRest
          /\ UNCHANGED grype
    /\ UNCHANGED <<offRescan, rows, queue>>

\* Mutant: only a node without any grype database is rescanned.
MutNeedsRescan(n) == Present(n) /\ rows[n].status = "completed" /\ rows[n].built = 0

\* GetNodesNeedingRescan: it asks the table, not the manager.
NeedsRescan(n) ==
    /\ Present(n)
    /\ rows[n].built < grypeDB
    /\ \/ rows[n].status \in {"completed", "vuln_scan_failed"}
       \/ rows[n].status = "pending" /\ rows[n].built # 0

SelectNodes ==
    /\ rescan.pc = "select"
    /\ LET need == {n \in Nodes : NeedsRescan(n)}
       IN  rescan' = IF need = {} THEN RescanRest ELSE [pc |-> "enqueue", left |-> need]
    /\ UNCHANGED <<offRescan, faults, rows, queue, grype>>

RescanNode(n) ==
    /\ n \in rescan.left
    /\ queue' = Enqueue(queue, n, TRUE)
    /\ rescan' = IF rescan.left = {n} THEN RescanRest ELSE [rescan EXCEPT !.left = @ \ {n}]
    /\ UNCHANGED <<offRescan, faults, rows, grype>>

RescanStep == \/ ReapStuckScans \/ CheckForUpdates \/ SelectNodes
              \/ \E n \in Nodes : RescanNode(n)

-----------------------------------------------------------------------------
(* Shutdown, crash and restart *)

\* The queue's context is cancelled; the worker drains what it has.
Stop ==
    /\ ~stopping
    /\ Fails("stop")
    /\ stopping' = TRUE
    /\ UNCHANGED <<world, manager, table, queue, worker, sweeper, rescan, grype>>

ResetInterruptedScans(row) ==
    IF Transient(row.status) THEN [row EXCEPT !.status = "pending", !.old = FALSE] ELSE row

\* The process dies, or its shutdown is over; it starts again with the tables.
Restart ==
    /\ \/ Fails("crash")
       \/ stopping /\ At("idle") /\ UNCHANGED faults
    /\ mem' = {}
    /\ removing' = NoRemoval
    /\ rows' = [n \in Nodes |-> ResetInterruptedScans(rows[n])]
    /\ queue' = <<>>
    /\ worker' = Idle
    /\ sweep' = SweepRest
    /\ synced' = FALSE
    /\ rescan' = RescanRest
    /\ dbReady' = FALSE
    /\ stopping' = FALSE
    /\ UNCHANGED <<world, lastId, grypeDB>>

Next ==
    \/ \E n \in Nodes : ChangeNode(n) \/ AddNode(n) \/ RemoveNode(n) \/ Age(n)
    \/ RemoveAttempt
    \/ SweepStep
    \/ WorkerStep
    \/ RescanStep
    \/ Stop
    \/ Restart

Spec == Init /\ [][Next]_vars

\* The informer delivers events and resyncs every five minutes, the sweep and the
\* rescan job run on timers, time passes, the worker is a running goroutine, and
\* a process that is shutting down is restarted.
FairSpec ==
    /\ Spec
    /\ WF_vars(WorkerStep)
    /\ \A n \in Nodes : /\ SF_vars(AddNode(n))
                         /\ SF_vars(RemoveNode(n) \/ RemoveAttempt)
                         /\ WF_vars(Age(n))
    /\ WF_vars(SweepStep)
    /\ WF_vars(RescanStep)
    /\ WF_vars(stopping /\ Restart)

-----------------------------------------------------------------------------
(* Properties *)

TypeOK ==
    /\ cluster \in [Nodes -> 0 .. 2]
    /\ ready \subseteq {n \in Nodes : cluster[n] # 0}
    /\ churn \in 0 .. MaxChurn
    /\ faults \in [count : 0 .. MaxFaults, write : BOOLEAN]
    /\ mem \subseteq Nodes
    /\ removing \in [node : Nodes \cup {NoNode}, attempt : 0 .. RemoveAttempts]
    /\ rows \in [Nodes -> Row]
    /\ lastId \in [Nodes -> Nat]
    /\ queue \in Seq([node : Nodes, force : BOOLEAN])
    /\ Len(queue) <= Cardinality(Nodes)
    /\ worker \in [pc : Steps, node : Nodes \cup {NoNode}, id : Nat, ver : Versions]
    /\ sweep \in [pc : {"idle", "status", "complete", "enqueue"}, rescue : BOOLEAN,
                  names : SUBSET Nodes, done : SUBSET Nodes]
    /\ synced \in BOOLEAN
    /\ rescan \in [pc : {"idle", "check", "select", "enqueue"}, left : SUBSET Nodes]
    /\ grypeDB \in Versions
    /\ dbReady \in BOOLEAN
    /\ stopping \in BOOLEAN

\* The matches of a completed node are those of the report its row claims the
\* timestamp of, whatever was deleted, re-added, reaped or lost meanwhile, and the
\* stored report is never newer than that.
CompletedIsBacked ==
    \A n \in Nodes :
        /\ rows[n].status = "completed" => rows[n].found = rows[n].built
        /\ rows[n].report <= rows[n].built

\* While no database write has failed, a row is in a transient status only while
\* the worker is on that node, also when the process is shutting down.
TransientOwned ==
    ~faults.write =>
        \A n \in Nodes : Transient(rows[n].status) => worker.node = n

\* Every node that stays in the cluster and ready ends up scanned against the
\* newest database and with its current description, through failed writes,
\* retrievals and scans, crashes and shutdowns.
NodesEventuallyScanned ==
    \A n \in Nodes :
        <>[](n \in ready => /\ rows[n].status = "completed"
                            /\ rows[n].built = grypeDB
                            /\ rows[n].info = cluster[n])

\* SCANNER-CORE-DESIGN.md, Re-Synchronize Nodes: the nodes table "accurately
\* reflects what's actually running".
RowsAreNodes == \A n \in Nodes : <>[](Present(n) => cluster[n] # 0)
=============================================================================
