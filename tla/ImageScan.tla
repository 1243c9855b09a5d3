----------------------------- MODULE ImageScan ------------------------------
(***************************************************************************)
(* The life of an image scan in k8s-scan-server, on top of ContainerStore: *)
(* the manager enqueues scans for the images of the containers it adds,    *)
(* the worker of the scan queue (src/scanner-core/scanning/queue.go) takes *)
(* a scan through SBOM and vulnerabilities and stores the results          *)
(* (database/scanning.go), and the rescan-database job                     *)
(* (jobs/rescan_database_job.go) reaps stuck scans and enqueues what a new *)
(* grype database makes stale.  After a crash the server starts with       *)
(* ResetInterruptedScans (database/db.go).                                 *)
(*                                                                         *)
(* Every database write or transaction is one action: writeMu serializes   *)
(* them, nothing else does.  The jobs of the queue are taken in order      *)
(* (module ScanQueue checks the queue itself).                             *)
(*                                                                         *)
(* Abstractions.  A vulnerability report is the version of the grype       *)
(* database it was made with, 0 for none, and the version whose timestamp  *)
(* it carries, its stamp; an SBOM is there or not.                         *)
(* updated_at is the bit `old': the row has sat in its status longer than  *)
(* stuckScanMaxAge.  The package rows parsed from an SBOM are left out:    *)
(* nothing here reads them.                                                *)
(***************************************************************************)
EXTENDS ContainerStore, ScanStatus

CONSTANTS
    MaxVersion,    \* grype database versions 1 .. MaxVersion   (model bound)
    MaxQueue       \* jobs in the queue                         (model bound)

ASSUME ScanBoundsAssumption == MaxVersion \in Nat \ {0} /\ MaxQueue \in Nat \ {0}

VARIABLES
    rows,        \* the images table: the scan columns of each digest's row
    queue,       \* JobQueue.jobs
    worker,      \* the job the worker is on and how far it is
    rescan,      \* the rescan-database job
    grypeDB,     \* version of the grype database on disk
    dbReady      \* DatabaseReadinessState.ready

grype == <<grypeDB, dbReady>>
scanVars == <<rows, queue, worker, rescan, grype>>
vars == <<storeVars, scanVars>>

Versions == 0 .. MaxVersion
Row == [status : Status, sbom : BOOLEAN, built : Versions,
        found : Versions, vulns : Versions, stamp : Versions, old : BOOLEAN]
\* The defaults of an inserted row; also stands for the columns of no row.
NewRow == [status |-> "pending", sbom |-> FALSE, built |-> 0,
           found |-> 0, vulns |-> 0, stamp |-> 0, old |-> FALSE]
ScanJob == [digest : Digests, force : BOOLEAN]
Steps == {"idle", "markGenerating", "retrieveSBOM", "sbomFailed", "storeSBOM", "storeSBOMStatus",
          "storeSBOMBlob", "waitForReady", "getSBOM", "scan", "readBuilt", "vulnScanFailed",
          "storeVulns", "storeVulnsStatus", "storeVulnsRows", "storeVulnsBlob"}
Idle == [pc |-> "idle", digest |-> NoDigest, force |-> FALSE, id |-> 0, sbom |-> FALSE,
         ver |-> 0, claim |-> 0]
RescanRest == [pc |-> "idle", left |-> {}]

\* IsScanDataComplete
Complete(d) == /\ Present(d)
               /\ HasVulnerabilities(rows[d].status)
               /\ rows[d].sbom
               /\ rows[d].vulns # 0

Init ==
    /\ StoreInit
    /\ rows = [d \in Digests |-> NewRow]
    /\ queue = <<>>
    /\ worker = Idle
    /\ rescan = RescanRest
    /\ grypeDB = 1
    /\ dbReady = FALSE

-----------------------------------------------------------------------------
(* The steps of ContainerStore, with what they mean for scans *)

\* A row inserted or deleted starts from the defaults, a kept row is kept.
CarryRows == rows' = [d \in Digests |-> IF ids'[d] = ids[d] THEN rows[d] ELSE NewRow]

\* Mutant: "scanned" is taken for complete.
MutJobsFor(d) ==
    LET s == ScanStatus(rows[d].status)
    IN  IF s = "scanned" THEN <<>> ELSE <<[digest |-> d, force |-> s # "pending"]>>

\* What checkAndEnqueueScan enqueues for an image.
JobsFor(d) ==
    LET s == ScanStatus(rows[d].status)
    IN  IF s = "scanned" /\ Complete(d) THEN <<>>
        ELSE <<[digest |-> d, force |-> s # "pending"]>>
Enqueue(js) == /\ Len(queue) + Len(js) <= MaxQueue
               /\ queue' = queue \o js

\* The steps that touch only the two tables and the manager's map.
StoreStep ==
    /\ \/ \E c \in Containers : ChangePod(c) \/ AddContainer(c) \/ RemoveContainer(c)
       \/ ReconcileSnapshot \/ ReconcileDB
       \/ CleanupStep
    /\ CarryRows
    /\ UNCHANGED <<queue, worker, rescan, grype>>

\* The end of Manager.AddContainer.
CheckAndEnqueueScan ==
    /\ FinishAdd
    /\ Enqueue(JobsFor(mem[adding]))
    /\ UNCHANGED <<rows, worker, rescan, grype>>

\* Manager.CatchUpScans: a force scan for everything not complete, in the
\* order of a Go map.
CatchUpScans ==
    /\ CatchUp
    /\ LET todo == {d \in Used(mem) : JobsFor(d) # <<>>}
           orders == {f \in [1 .. Cardinality(todo) -> todo] : \A d \in todo : \E i \in DOMAIN f : f[i] = d}
       IN  \E f \in orders : Enqueue([i \in DOMAIN f |-> [digest |-> f[i], force |-> TRUE]])
    /\ UNCHANGED <<rows, worker, rescan, grype>>

-----------------------------------------------------------------------------
(* The worker: JobQueue.processJob and processVulnerabilityScan *)

At(step) == worker.pc = step
Goto(step) == worker' = [worker EXCEPT !.pc = step]
\* A write that leaves the others' state alone.
offScan == <<cluster, manager, tables, startup, cleanup>>
offWorker == <<offScan, rescan, grype>>

\* Mutant: the manager's view of the status is stored.
MutWithStatus(d, s) == IF Present(d) THEN [rows EXCEPT ![d].status = ScanStatus(s), ![d].old = FALSE]
                                     ELSE rows

\* UpdateStatus and the status writes of StoreSBOM and StoreVulnerabilities: by
\* digest, so whatever row has the digest now; they refresh updated_at.
WithStatus(d, s) == IF Present(d) THEN [rows EXCEPT ![d].status = s, ![d].old = FALSE]
                                  ELSE rows

\* Where processJob goes after reading the status.
FirstStep(j) ==
    LET s == rows[j.digest].status
    IN  IF ~HasSBOM(s) THEN "markGenerating"
        ELSE IF j.force \/ ~HasVulnerabilities(s) THEN "waitForReady"
        ELSE "idle"

\* The worker takes the next image job and reads the image's status.
ProcessJob ==
    /\ At("idle")
    /\ queue # <<>>
    /\ queue' = Tail(queue)
    /\ LET j == Head(queue)
       IN  worker' = IF FirstStep(j) = "idle" THEN Idle
                     ELSE [Idle EXCEPT !.pc = FirstStep(j), !.digest = j.digest, !.force = j.force]
    /\ UNCHANGED <<offWorker, faults, rows>>

\* A write of the worker's: it succeeds, or it fails and the job goes to `onError'.
Write(table, next, onError) ==
    \/ /\ rows' = table
       /\ next
       /\ UNCHANGED faults
    \/ /\ Fails("write")
       /\ onError
       /\ UNCHANGED rows

\* Mutant: the write goes by digest.
MutById(table) == table

\* A write by id: it reaches the row only if that very row is still there.
ById(table) == IF ids[worker.digest] = worker.id THEN table ELSE rows

MarkGenerating ==
    /\ At("markGenerating")
    /\ Write(WithStatus(worker.digest, "generating_sbom"), Goto("retrieveSBOM"), worker' = Idle)
    /\ UNCHANGED <<offWorker, queue>>

\* sbomRetriever, with its five-minute context.
RetrieveSBOM ==
    /\ At("retrieveSBOM")
    /\ \/ Goto("storeSBOM") /\ UNCHANGED faults
       \/ Fails("sbom") /\ Goto("sbomFailed")
    /\ UNCHANGED <<offWorker, rows, queue>>

\* UpdateStatus(StatusSBOMFailed); its own failure is only logged.
SBOMFailed ==
    /\ At("sbomFailed")
    /\ Write(WithStatus(worker.digest, "sbom_failed"), worker' = Idle, worker' = Idle)
    /\ UNCHANGED <<offWorker, queue>>

\* StoreSBOM reads the image's id before it takes any lock ...
StoreSBOM ==
    /\ At("storeSBOM")
    /\ worker' = IF Present(worker.digest)
                 THEN [worker EXCEPT !.pc = "storeSBOMStatus", !.id = ids[worker.digest]]
                 ELSE [worker EXCEPT !.pc = "sbomFailed"]
    /\ UNCHANGED <<offWorker, faults, rows, queue>>

\* ... writes the status by digest ...
StoreSBOMStatus ==
    /\ At("storeSBOMStatus")
    /\ Write(WithStatus(worker.digest, "scanning_vulnerabilities"), Goto("storeSBOMBlob"), Goto("sbomFailed"))
    /\ UNCHANGED <<offWorker, queue>>

\* ... and, after the package rows, the compressed SBOM by id.
StoreSBOMBlob ==
    /\ At("storeSBOMBlob")
    /\ Write(ById([rows EXCEPT ![worker.digest].sbom = TRUE]),
             worker' = [worker EXCEPT !.pc = "waitForReady", !.sbom = TRUE, !.id = 0],
             Goto("sbomFailed"))
    /\ UNCHANGED <<offWorker, queue>>

\* processVulnerabilityScan waits for the grype database without a bound,
\* then reads the status unless the scan is forced.
WaitForReady ==
    /\ At("waitForReady")
    /\ dbReady
    /\ IF ~worker.force /\ HasVulnerabilities(rows[worker.digest].status)
       THEN worker' = Idle
       ELSE Goto(IF worker.sbom THEN "scan" ELSE "getSBOM")
    /\ UNCHANGED <<offWorker, faults, rows, queue>>

GetSBOM ==
    /\ At("getSBOM")
    /\ Goto(IF rows[worker.digest].sbom THEN "scan" ELSE "vulnScanFailed")
    /\ UNCHANGED <<offWorker, faults, rows, queue>>

\* grype.ScanVulnerabilitiesWithConfig opens the database now on disk ...
OpenDatabase ==
    /\ At("scan")
    /\ \/ /\ worker' = [worker EXCEPT !.pc = "readBuilt", !.ver = grypeDB]
          /\ UNCHANGED faults
       \/ Fails("grype") /\ Goto("vulnScanFailed")
    /\ UNCHANGED <<offWorker, rows, queue>>

\* ... and reads the timestamp for the report from the path, where the rescan job
\* may have put a newer one (an error is ignored and leaves no timestamp); the
\* matches come from the database it has open.
ScanVulnerabilities ==
    /\ At("readBuilt")
    /\ \/ /\ worker' = [worker EXCEPT !.pc = "storeVulns", !.claim = grypeDB]
          /\ UNCHANGED faults
       \/ Fails("stamp") /\ worker' = [worker EXCEPT !.pc = "storeVulns", !.claim = 0]
       \/ Fails("grype") /\ Goto("vulnScanFailed")
    /\ UNCHANGED <<offWorker, rows, queue>>

VulnScanFailed ==
    /\ At("vulnScanFailed")
    /\ Write(WithStatus(worker.digest, "vuln_scan_failed"), worker' = Idle, worker' = Idle)
    /\ UNCHANGED <<offWorker, queue>>

\* StoreVulnerabilities: the id first ...
StoreVulns ==
    /\ At("storeVulns")
    /\ worker' = IF Present(worker.digest)
                 THEN [worker EXCEPT !.pc = "storeVulnsStatus", !.id = ids[worker.digest]]
                 ELSE [worker EXCEPT !.pc = "vulnScanFailed"]
    /\ UNCHANGED <<offWorker, faults, rows, queue>>

\* ... status and grype_db_built by digest ...
StoreVulnsStatus ==
    /\ At("storeVulnsStatus")
    /\ Write(IF Present(worker.digest)
             THEN [rows EXCEPT ![worker.digest].status = "completed", ![worker.digest].old = FALSE,
                                 ![worker.digest].built = worker.claim]
             ELSE rows,
             Goto("storeVulnsRows"), Goto("vulnScanFailed"))
    /\ UNCHANGED <<offWorker, queue>>

\* ... the parsed matches by id (a failure is only logged) ...
StoreVulnsRows ==
    /\ At("storeVulnsRows")
    /\ Write(ById([rows EXCEPT ![worker.digest].found = worker.ver]),
             Goto("storeVulnsBlob"), Goto("storeVulnsBlob"))
    /\ UNCHANGED <<offWorker, queue>>

\* ... and the compressed report by id.
StoreVulnsBlob ==
    /\ At("storeVulnsBlob")
    /\ Write(ById([rows EXCEPT ![worker.digest].vulns = worker.ver, ![worker.digest].stamp = worker.claim]),
             worker' = Idle, Goto("vulnScanFailed"))
    /\ UNCHANGED <<offWorker, queue>>

WorkerStep ==
    \/ ProcessJob \/ MarkGenerating \/ RetrieveSBOM \/ SBOMFailed
    \/ StoreSBOM \/ StoreSBOMStatus \/ StoreSBOMBlob
    \/ WaitForReady \/ GetSBOM \/ OpenDatabase \/ ScanVulnerabilities \/ VulnScanFailed
    \/ StoreVulns \/ StoreVulnsStatus \/ StoreVulnsRows \/ StoreVulnsBlob

-----------------------------------------------------------------------------
(* The rescan-database job *)

\* A row has been in a transient status for stuckScanMaxAge.  The worker's own
\* steps are bounded by timeouts well below it, except the wait for grype.
Age(d) ==
    /\ Transient(rows[d].status)
    /\ ~rows[d].old
    /\ worker.digest = d => At("waitForReady") /\ ~dbReady
    /\ rows' = [rows EXCEPT ![d].old = TRUE]
    /\ UNCHANGED <<offWorker, faults, queue, worker>>

\* ReapStuckScans; its failure is only logged.
ReapStuckScans ==
    /\ rescan.pc = "idle"
    /\ rescan' = [rescan EXCEPT !.pc = "check"]
    /\ \/ /\ rows' = [d \in Digests |->
                          IF Transient(rows[d].status) /\ rows[d].old
                          THEN [rows[d] EXCEPT !.status = "vuln_scan_failed", !.old = FALSE]
                          ELSE rows[d]]
          /\ UNCHANGED faults
       \/ Fails("write") /\ UNCHANGED rows
    /\ UNCHANGED <<offScan, queue, worker, grype>>

\* CheckForUpdates and SetReady: the download may bring a newer database; an
\* error ends this run of the job.  Nothing else makes the database ready.
CheckForUpdates ==
    /\ rescan.pc = "check"
    /\ \/ /\ grypeDB' \in {grypeDB, grypeDB + 1} \cap Versions
          /\ dbReady' = TRUE
          /\ rescan' = [rescan EXCEPT !.pc = "select"]
          /\ UNCHANGED faults
       \/ /\ Fails("update")
          /\ rescan' = RescanRest
          /\ UNCHANGED grype
    /\ UNCHANGED <<offScan, rows, queue, worker>>

\* GetImagesNeedingRescan, as one query.
NeedsRescan(d) ==
    /\ rows[d].status \in {"completed", "vuln_scan_failed"}
    /\ rows[d].sbom
    /\ rows[d].built < grypeDB
    /\ d \in Used(containers)

SelectForRescan ==
    /\ rescan.pc = "select"
    /\ LET need == {d \in Digests : NeedsRescan(d)}
       IN  rescan' = IF need = {} THEN RescanRest ELSE [pc |-> "enqueue", left |-> need]
    /\ UNCHANGED <<offScan, faults, rows, queue, worker, grype>>

\* One turn of the loop: an image that has lost its last container since the
\* query is skipped.
EnqueueRescan(d) ==
    /\ d \in rescan.left
    /\ Enqueue(IF d \in Used(containers) THEN <<[digest |-> d, force |-> TRUE]>> ELSE <<>>)
    /\ rescan' = IF rescan.left = {d} THEN RescanRest ELSE [rescan EXCEPT !.left = @ \ {d}]
    /\ UNCHANGED <<offScan, faults, rows, worker, grype>>

RescanStep == \/ ReapStuckScans \/ CheckForUpdates \/ SelectForRescan
              \/ \E d \in Digests : EnqueueRescan(d)

-----------------------------------------------------------------------------
(* Crash and restart: ResetInterruptedScans runs before anything else does *)

\* Mutants: only SBOM generation is reset; the whole row is reset.
MutResetSome ==
    rows' = [d \in Digests |-> IF rows[d].status = "generating_sbom"
                               THEN [rows[d] EXCEPT !.status = "pending", !.old = FALSE]
                               ELSE rows[d]]
MutResetAll ==
    rows' = [d \in Digests |-> IF Transient(rows[d].status) THEN NewRow ELSE rows[d]]

ResetInterruptedScans ==
    rows' = [d \in Digests |-> IF Transient(rows[d].status)
                               THEN [rows[d] EXCEPT !.status = "pending", !.old = FALSE]
                               ELSE rows[d]]

Restart ==
    /\ Crash
    /\ ResetInterruptedScans
    /\ queue' = <<>>
    /\ worker' = Idle
    /\ rescan' = RescanRest
    /\ dbReady' = FALSE
    /\ UNCHANGED grypeDB

Next ==
    \/ StoreStep
    \/ CheckAndEnqueueScan \/ CatchUpScans
    \/ WorkerStep
    \/ \E d \in Digests : Age(d)
    \/ RescanStep
    \/ Restart

Spec == Init /\ [][Next]_vars

\* The Go scheduler runs the worker, the informer delivers events and announces
\* every running pod again every five minutes, the rescan job runs on a timer.
\* Strong fairness where Manager.mu or the bound on the queue can interrupt.
FairSpec ==
    /\ Spec
    /\ WF_vars(WorkerStep)
    /\ \A c \in Containers : /\ SF_vars(StoreStep /\ AddContainer(c))
                            /\ SF_vars(StoreStep /\ RemoveContainer(c))
    /\ SF_vars(CheckAndEnqueueScan)
    /\ SF_vars(StoreStep /\ (ReconcileSnapshot \/ ReconcileDB))
    /\ SF_vars(CatchUpScans)
    /\ SF_vars(RescanStep)

-----------------------------------------------------------------------------
(* Properties *)

TypeOK ==
    /\ StoreTypeOK
    /\ rows \in [Digests -> Row]
    /\ queue \in Seq(ScanJob)
    /\ worker \in [pc : Steps, digest : Digests \cup {NoDigest}, force : BOOLEAN, id : Nat,
                    sbom : BOOLEAN, ver : Versions, claim : Versions]
    /\ rescan \in [pc : {"idle", "check", "select", "enqueue"}, left : SUBSET Digests]
    /\ grypeDB \in Versions
    /\ dbReady \in BOOLEAN

\* The report and the parsed matches of an image are never newer than the
\* grype_db_built its row claims, as long as the timestamp can be read, and the
\* row never claims a database that was not on disk.
NeverNewerThanClaimed ==
    \A d \in Digests : /\ rows[d].built <= grypeDB
                       /\ ("stamp" \notin config.faults) => /\ rows[d].vulns <= rows[d].built
                                                           /\ rows[d].found <= rows[d].built

\* While no database write has failed, a row is in a transient status only while
\* the worker is on that image: an orphaned scan takes a failed write.
TransientOwned ==
    ("write" \notin config.faults) =>
        \A d \in Digests : Transient(rows[d].status) => worker.digest = d

\* What StoreSBOM and StoreVulnerabilities have written for a row stays, and is
\* only replaced by the result of a newer database, as long as the row lives.
ResultsKept ==
    [][\A d \in Digests :
          ids'[d] = ids[d] =>
              /\ rows[d].sbom => rows'[d].sbom
              /\ rows'[d].found >= rows[d].found
              /\ rows'[d].vulns >= rows[d].vulns]_vars

\* Without the cleanup job and without failed writes, every image that keeps a
\* running container ends up completed, with both blobs, against the newest
\* database: no scan is lost to a crash, a failed retrieval or a failed scan.
EventuallyScanned ==
    (~config.cleanup /\ "write" \notin config.faults) =>
        \A d \in Digests : <>[](d \in Used(pods) => (Complete(d) /\ rows[d].built = grypeDB))

\* db.go, ReapStuckScans: vuln_scan_failed is the status from which a scan is
\* taken up again, so an image that stays in use does not remain in it.
FailedIsRetried ==
    \A d \in Digests : (rows[d].status = "vuln_scan_failed")
                          ~> (d \in Used(pods) => Complete(d))

\* A row that the manager and the rescan job take for up to date, with nobody
\* working on it.
UpToDate(d) == Complete(d) /\ rows[d].built = grypeDB /\ worker.digest # d

\* scanning.go, extractGrypeDBBuiltFromJSON: the stored timestamp is the one in
\* the stored report.
ClaimMatchesReport == \A d \in Digests : UpToDate(d) => rows[d].stamp = rows[d].built

\* grype.go, ScanVulnerabilitiesWithConfig: the timestamp says what version was
\* used for the scan.
ClaimMatchesDatabase == \A d \in Digests : UpToDate(d) => rows[d].vulns = rows[d].built
=============================================================================
