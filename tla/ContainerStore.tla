--------------------------- MODULE ContainerStore ---------------------------
(***************************************************************************)
(* Which containers run, as k8s-scan-server records it: the pod informer   *)
(* feeds containers.Manager (src/scanner-core/containers/manager.go), the  *)
(* manager keeps a map in memory and writes the containers and images      *)
(* tables (database/instances.go, images.go), ReconcileDB repairs the      *)
(* table after a restart, and the cleanup-orphaned-images job              *)
(* (jobs/container_jobs.go) removes stale containers and orphaned images.  *)
(*                                                                         *)
(* Every database write or transaction is one action: writeMu serializes   *)
(* them and nothing else does.  The process may crash at any moment; only  *)
(* the tables survive.  Here an image is only its row's id; what a scan    *)
(* puts in the row is module ImageScan, which extends this one.            *)
(***************************************************************************)
EXTENDS Naturals, Sequences, FiniteSets

CONSTANTS
    Containers,    \* container identities (namespace, pod, name)
    Digests,       \* image digests
    PodImages,     \* the digests each container may run
    NoContainer,   \* no container
    NoDigest,      \* no image: the container is not running / not tracked
    Configs,       \* [cleanup |-> cfg.JobsCleanupEnabled, faults |-> what may fail]
    MaxFaults,     \* failures and crashes                      (model bound)
    MaxChurn       \* changes of the cluster                    (model bound)

\* A database write, the process; for AgentContainers Docker; and for ImageScan
\* the SBOM retriever, a grype scan, its reading of the database's timestamp,
\* the check for a new database.
FaultKinds == {"write", "crash", "docker", "sbom", "grype", "stamp", "update"}

ASSUME NoneAssumption == NoContainer \notin Containers /\ NoDigest \notin Digests
ASSUME PodImagesAssumption == PodImages \in [Containers -> SUBSET Digests]
ASSUME ConfigsAssumption == Configs \subseteq [cleanup : BOOLEAN, faults : SUBSET FaultKinds]
ASSUME FiniteAssumption == IsFiniteSet(Digests)
ASSUME BoundsAssumption == MaxFaults \in Nat /\ MaxChurn \in Nat

VARIABLES
    config,      \* which jobs are enabled and which operations may fail
    pods,        \* the cluster: the digest each container runs, or NoDigest
    churn,       \* changes of the cluster so far
    faults,      \* failures and crashes so far
    mem,         \* Manager.containers
    adding,      \* container whose AddContainer call holds Manager.mu, or NoContainer
    containers,  \* the containers table
    ids,         \* the images table: images.id of each digest, 0 for no row
    lastId,      \* the last id given to a digest (AUTOINCREMENT)
    boot,        \* what WatchPods has still to do after WaitForCacheSync
    snapshot,    \* ReconcileDB's copy of Manager.containers
    cleanup      \* the cleanup-orphaned-images job: its step and its container ids

cluster == <<config, pods, churn>>
manager == <<mem, adding>>
tables  == <<containers, ids, lastId>>
startup == <<boot, snapshot>>
storeVars == <<cluster, faults, manager, tables, startup, cleanup>>

ContainerTable == [Containers -> Digests \cup {NoDigest}]
Nothing == [c \in Containers |-> NoDigest]
CleanupRest == [pc |-> "idle", ids |-> {}]

Present(d) == ids[d] # 0
Used(table) == {table[c] : c \in Containers} \ {NoDigest}

StoreInit ==
    /\ config \in Configs
    /\ pods = Nothing
    /\ churn = 0
    /\ faults = 0
    /\ mem = Nothing
    /\ adding = NoContainer
    /\ containers = Nothing
    /\ ids = [d \in Digests |-> 0]
    /\ lastId = [d \in Digests |-> 0]
    /\ boot = "syncing"
    /\ snapshot = Nothing
    /\ cleanup = CleanupRest

Fails(kind) == /\ kind \in config.faults
               /\ faults < MaxFaults
               /\ faults' = faults + 1

\* getOrCreateImageTx for every digest of ds: a missing row gets a new id.
GetOrCreate(ds) ==
    LET new == {d \in ds : ~Present(d)}
    IN  /\ ids' = [d \in Digests |-> IF d \in new THEN lastId[d] + 1 ELSE ids[d]]
        /\ lastId' = [d \in Digests |-> IF d \in new THEN lastId[d] + 1 ELSE lastId[d]]

-----------------------------------------------------------------------------
(* The cluster and the container manager *)

\* The kubelet starts a container, stops it, or restarts it with another image.
ChangePod(c) ==
    /\ churn < MaxChurn
    /\ churn' = churn + 1
    /\ \E d \in (PodImages[c] \cup {NoDigest}) \ {pods[c]} : pods' = [pods EXCEPT ![c] = d]
    /\ UNCHANGED <<config, faults, manager, tables, startup, cleanup>>

\* Mutant: a call for a container already tracked with that image does nothing.
MutAdd(c, d) ==
    /\ adding = NoContainer /\ mem[c] # d
    /\ mem' = [mem EXCEPT ![c] = d]
    /\ \/ /\ containers' = [containers EXCEPT ![c] = d]
          /\ GetOrCreate({d})
          /\ adding' = c
          /\ UNCHANGED faults
       \/ /\ ~(Present(d) /\ containers[c] = d)
          /\ Fails("write")
          /\ UNCHANGED <<tables, adding>>
    /\ UNCHANGED <<cluster, startup, cleanup>>

\* Manager.AddContainer up to the end of db.AddContainer; Manager.mu stays
\* held.  The fast path of db.AddContainer writes nothing, hence cannot fail.
Add(c, d) ==
    /\ adding = NoContainer
    /\ mem' = [mem EXCEPT ![c] = d]
    /\ \/ /\ containers' = [containers EXCEPT ![c] = d]
          /\ GetOrCreate({d})
          /\ adding' = c
          /\ UNCHANGED faults
       \/ /\ ~(Present(d) /\ containers[c] = d)
          /\ Fails("write")
          /\ UNCHANGED <<tables, adding>>
    /\ UNCHANGED <<cluster, startup, cleanup>>

\* A pod event, or the informer's resync of a pod it has already announced.
AddContainer(c) == pods[c] # NoDigest /\ Add(c, pods[c])

\* checkAndEnqueueScan has returned: Manager.mu is released.
FinishAdd ==
    /\ adding # NoContainer
    /\ adding' = NoContainer
    /\ UNCHANGED <<cluster, faults, mem, tables, startup, cleanup>>

\* Mutant: the removal does not take Manager.mu.
MutRemove(c) ==
    /\ mem' = [mem EXCEPT ![c] = NoDigest]
    /\ \/ containers' = [containers EXCEPT ![c] = NoDigest] /\ UNCHANGED faults
       \/ Fails("write") /\ UNCHANGED containers
    /\ UNCHANGED <<cluster, adding, ids, lastId, startup, cleanup>>

\* Manager.RemoveContainer: the row goes even if the container is not tracked.
Remove(c) ==
    /\ adding = NoContainer
    /\ mem' = [mem EXCEPT ![c] = NoDigest]
    /\ \/ /\ containers' = [containers EXCEPT ![c] = NoDigest]
          /\ UNCHANGED faults
       \/ /\ Fails("write")
          /\ UNCHANGED containers
    /\ UNCHANGED <<cluster, adding, ids, lastId, startup, cleanup>>

\* The pod of a tracked container is gone.
RemoveContainer(c) == pods[c] = NoDigest /\ mem[c] # NoDigest /\ Remove(c)

-----------------------------------------------------------------------------
(* Startup: WatchPods after WaitForCacheSync.  HasSynced of the shared     *)
(* informer says its store is filled, not that the handlers have run, so   *)
(* ReconcileDB and CatchUpScans may run before, between or after the       *)
(* AddContainer calls of the initial list.                                 *)

\* Manager.ReconcileDB copies Manager.containers under a read lock ...
ReconcileSnapshot ==
    /\ boot = "syncing"
    /\ adding = NoContainer
    /\ snapshot' = mem
    /\ boot' = "reconciling"
    /\ UNCHANGED <<cluster, faults, manager, tables, cleanup>>

\* ... and calls db.SetContainers without it.
ReconcileDB ==
    /\ boot = "reconciling"
    /\ boot' = "catchup"
    /\ snapshot' = Nothing
    /\ \/ /\ containers' = snapshot
          /\ GetOrCreate(Used(snapshot))
          /\ UNCHANGED faults
       \/ /\ Fails("write")
          /\ UNCHANGED tables
    /\ UNCHANGED <<cluster, manager, cleanup>>

\* Manager.CatchUpScans; what it enqueues is in ImageScan.
CatchUp ==
    /\ boot = "catchup"
    /\ adding = NoContainer
    /\ boot' = "up"
    /\ UNCHANGED <<cluster, faults, manager, tables, snapshot, cleanup>>

-----------------------------------------------------------------------------
(* The cleanup-orphaned-images job *)

\* GetActiveContainerIDs, under Manager.mu.
CleanupStart ==
    /\ config.cleanup
    /\ cleanup.pc = "idle"
    /\ adding = NoContainer
    /\ cleanup' = [pc |-> "query", ids |-> {c \in Containers : mem[c] # NoDigest}]
    /\ UNCHANGED <<cluster, faults, manager, tables, startup>>

\* Mutant: the job ends when no container is stale.
MutCleanupQuery ==
    /\ cleanup.pc = "query"
    /\ LET stale == {c \in Containers : containers[c] # NoDigest} \ cleanup.ids
       IN  cleanup' = IF stale = {} THEN CleanupRest ELSE [pc |-> "delete", ids |-> stale]
    /\ UNCHANGED <<cluster, faults, manager, tables, startup>>

\* CleanupStaleContainers reads the table ...
CleanupQuery ==
    /\ cleanup.pc = "query"
    /\ LET stale == {c \in Containers : containers[c] # NoDigest} \ cleanup.ids
       IN  cleanup' = IF stale = {} THEN [pc |-> "orphans", ids |-> {}] ELSE [pc |-> "delete", ids |-> stale]
    /\ UNCHANGED <<cluster, faults, manager, tables, startup>>

\* ... and deletes, in a transaction of its own, what it found stale then.
CleanupStaleContainers ==
    /\ cleanup.pc = "delete"
    /\ \/ /\ containers' = [c \in Containers |-> IF c \in cleanup.ids THEN NoDigest ELSE containers[c]]
          /\ cleanup' = [pc |-> "orphans", ids |-> {}]
          /\ UNCHANGED faults
       \/ /\ Fails("write")
          /\ cleanup' = CleanupRest
          /\ UNCHANGED containers
    /\ UNCHANGED <<cluster, manager, ids, lastId, startup>>

\* Mutant: orphans are judged by what the manager tracks.
MutOrphaned(d) == d \notin Used(mem)

Orphaned(d) == d \notin Used(containers)

\* CleanupOrphanedImages, one transaction.
CleanupOrphanedImages ==
    /\ cleanup.pc = "orphans"
    /\ cleanup' = CleanupRest
    /\ \/ /\ ids' = [d \in Digests |-> IF Orphaned(d) THEN 0 ELSE ids[d]]
          /\ UNCHANGED faults
       \/ Fails("write") /\ UNCHANGED ids
    /\ UNCHANGED <<cluster, manager, containers, lastId, startup>>

CleanupStep == CleanupStart \/ CleanupQuery \/ CleanupStaleContainers \/ CleanupOrphanedImages

-----------------------------------------------------------------------------
\* The process dies and starts again: memory is lost, the tables are kept.
Crash ==
    /\ Fails("crash")
    /\ mem' = Nothing
    /\ adding' = NoContainer
    /\ boot' = "syncing"
    /\ snapshot' = Nothing
    /\ cleanup' = CleanupRest
    /\ UNCHANGED <<cluster, tables>>

StoreNext ==
    \/ \E c \in Containers : ChangePod(c) \/ AddContainer(c) \/ RemoveContainer(c)
    \/ FinishAdd
    \/ ReconcileSnapshot \/ ReconcileDB \/ CatchUp
    \/ CleanupStep
    \/ Crash

StoreSpec == StoreInit /\ [][StoreNext]_storeVars

\* The informer delivers every event and announces every running pod again each
\* five minutes; the cleanup job runs on a timer.  Strong fairness where another
\* holder of Manager.mu can interrupt.
StoreFairSpec ==
    /\ StoreSpec
    /\ \A c \in Containers : SF_storeVars(AddContainer(c)) /\ SF_storeVars(RemoveContainer(c))
    /\ WF_storeVars(FinishAdd)
    /\ SF_storeVars(ReconcileSnapshot \/ ReconcileDB \/ CatchUp)
    /\ SF_storeVars(CleanupStep)

-----------------------------------------------------------------------------
(* Properties *)

StoreTypeOK ==
    /\ config \in Configs
    /\ pods \in ContainerTable
    /\ churn \in 0 .. MaxChurn
    /\ faults \in 0 .. MaxFaults
    /\ mem \in ContainerTable
    \* the container whose AddContainer holds the lock stays tracked
    /\ adding \in Containers \cup {NoContainer}
    /\ adding # NoContainer => mem[adding] # NoDigest
    /\ containers \in ContainerTable
    /\ ids \in [Digests -> Nat]
    /\ lastId \in [Digests -> Nat]
    /\ boot \in {"syncing", "reconciling", "catchup", "up"}
    /\ snapshot \in ContainerTable
    /\ cleanup \in [pc : {"idle", "query", "delete", "orphans"}, ids : SUBSET Containers]

\* Every row of containers refers to a row of images: the orphan cleanup never
\* takes an image from under a container, whoever adds it meanwhile.
ContainersHaveImages == \A d \in Used(containers) : Present(d)

\* With the cleanup job on, the containers table ends up equal to the cluster
\* and the images table with exactly the images in use, whatever was lost,
\* removed or resurrected on the way (the cluster changes finitely often:
\* MaxChurn).
StoreConverges ==
    config.cleanup ~> [](/\ containers = pods /\ mem = pods
                         /\ \A d \in Digests : Present(d) <=> d \in Used(pods))

\* With the cleanup job off too, every container that runs ends up tracked and
\* in the tables with the image it runs: what a stale snapshot, a failed write
\* or a crash took away, the informer's resync writes again, although the
\* manager may think that it knows the container.
RunningAreRecorded ==
    <>[](\A c \in Containers : pods[c] # NoDigest =>
            containers[c] = pods[c] /\ mem[c] = pods[c] /\ Present(pods[c]))
=============================================================================
