------------------------ MODULE ContainerStoreProofs ------------------------
(***************************************************************************)
(* What ContainerStore guarantees for every cluster, every interleaving of *)
(* the manager, the reconciliation and the cleanup job, and any number of  *)
(* failed writes and crashes: type correctness, and that a row of the      *)
(* containers table always finds its row of the images table.              *)
(*                                                                         *)
(* Then the two modules built on it.  AgentContainers, where Docker's      *)
(* lists and events feed the same manager and tables: the same two, for    *)
(* its steps are the store's own (Add, Remove, FinishAdd, the cleanup,     *)
(* Crash) or leave the tables alone, but for SetContainers.  ImageScan:    *)
(* type correctness, that no result is claimed newer than it is or lost,   *)
(* and that without a failed write no scan is orphaned.                    *)
(***************************************************************************)
EXTENDS ImageScan, AgentContainers, FiniteSetTheorems, TLAPS

\* Every id in use or once used is at most lastId: what makes a new id new.
IdsBounded == \A d \in Digests : ids[d] <= lastId[d]

StoreInv == StoreTypeOK /\ ContainersHaveImages /\ IdsBounded

-----------------------------------------------------------------------------
(* What the operators do *)

\* The images a table of containers uses are digests.
LEMMA UsedAreDigests ==
    ASSUME NEW table \in ContainerTable
    PROVE  Used(table) \subseteq Digests
BY DEF Used, ContainerTable

\* getOrCreateImageTx keeps every row, creates the missing ones of ds under an id
\* above all earlier ones, and creates no other.
LEMMA GetOrCreateKeeps ==
    ASSUME ids \in [Digests -> Nat], lastId \in [Digests -> Nat], IdsBounded,
           NEW ds, GetOrCreate(ds)
    PROVE  /\ ids' \in [Digests -> Nat]
           /\ lastId' \in [Digests -> Nat]
           /\ IdsBounded'
           /\ \A d \in Digests : ids[d] # 0 => ids'[d] = ids[d]
           /\ \A d \in Digests \cap ds : ids'[d] # 0
           /\ \A d \in Digests : ids'[d] # ids[d] => ids[d] = 0 /\ ids'[d] = lastId[d] + 1
           /\ \A d \in Digests : lastId[d] <= lastId'[d]
BY DEF GetOrCreate, Present, IdsBounded

\* A table none of whose containers lost its image keeps ContainersHaveImages.
LEMMA ImagesStay ==
    ASSUME StoreTypeOK, ContainersHaveImages,
           Used(containers)' \subseteq Used(containers),
           \A d \in Used(containers) : ids'[d] = ids[d]
    PROVE  ContainersHaveImages'
BY DEF ContainersHaveImages, Present

\* Taking containers out of a table adds no image to it.
LEMMA RemovalUsesLess ==
    ASSUME NEW table \in ContainerTable, NEW gone
    PROVE  Used([c \in Containers |-> IF c \in gone THEN NoDigest ELSE table[c]]) \subseteq Used(table)
BY DEF Used, ContainerTable

LEMMA RemoveOneUsesLess ==
    ASSUME NEW table \in ContainerTable, NEW c \in Containers
    PROVE  Used([table EXCEPT ![c] = NoDigest]) \subseteq Used(table)
BY DEF Used, ContainerTable

\* Putting one container into a table adds at most its image.
LEMMA AdditionUses ==
    ASSUME NEW table \in ContainerTable, NEW c \in Containers, NEW d \in Digests
    PROVE  Used([table EXCEPT ![c] = d]) \subseteq Used(table) \cup {d}
BY DEF Used, ContainerTable

-----------------------------------------------------------------------------
(* The invariant, one lemma per action *)

LEMMA StoreInitInv == StoreInit => StoreInv
<1> SUFFICES ASSUME StoreInit PROVE StoreInv
  OBVIOUS
<1> USE NoneAssumption, ConfigsAssumption, BoundsAssumption
<1>1. Nothing \in ContainerTable
  BY DEF Nothing, ContainerTable
<1>2. StoreTypeOK
  BY <1>1 DEF StoreInit, StoreTypeOK, CleanupRest
<1>3. Used(containers) = {}
  BY DEF StoreInit, Nothing, Used
<1>4. ContainersHaveImages
  BY <1>3 DEF ContainersHaveImages
<1>5. IdsBounded
  BY DEF StoreInit, IdsBounded
<1> QED
  BY <1>2, <1>4, <1>5 DEF StoreInv

\* A failure counts; so does a step without one.
LEMMA FaultsTyped ==
    ASSUME faults \in 0 .. MaxFaults, NEW kind, Fails(kind) \/ UNCHANGED faults
    PROVE  faults' \in 0 .. MaxFaults
BY BoundsAssumption DEF Fails

\* Steps that leave the two tables alone.
LEMMA TablesUnchangedInv ==
    ASSUME StoreInv, StoreTypeOK', UNCHANGED tables
    PROVE  StoreInv'
BY DEF StoreInv, tables, ContainersHaveImages, IdsBounded, Used, Present

LEMMA ChangePodInv ==
    ASSUME StoreInv, NEW c \in Containers, ChangePod(c)
    PROVE  StoreInv'
<1> USE PodImagesAssumption, BoundsAssumption
<1>1. StoreTypeOK'
  <2>1. churn' \in 0 .. MaxChurn
    BY DEF StoreInv, StoreTypeOK, ChangePod
  <2>2. pods' \in ContainerTable
    BY DEF StoreInv, StoreTypeOK, ChangePod, ContainerTable
  <2> QED
    BY <2>1, <2>2 DEF StoreInv, StoreTypeOK, ChangePod, manager, tables, startup
<1> QED
  BY <1>1, TablesUnchangedInv DEF ChangePod

\* Manager.AddContainer, whatever container and image it is called with.
LEMMA AddInv ==
    ASSUME StoreInv, NEW c \in Containers, NEW d \in Digests, Add(c, d)
    PROVE  StoreInv'
<1> USE NoneAssumption
<1>1. StoreTypeOK
  BY DEF StoreInv
<1>2. mem' \in ContainerTable
  BY <1>1 DEF StoreTypeOK, Add, ContainerTable
<1>3. CASE /\ containers' = [containers EXCEPT ![c] = d]
           /\ GetOrCreate({d})
           /\ adding' = c
           /\ UNCHANGED faults
  <2> USE <1>3
  <2>1. /\ ids' \in [Digests -> Nat]
        /\ lastId' \in [Digests -> Nat]
        /\ IdsBounded'
        /\ \A e \in Digests : ids[e] # 0 => ids'[e] = ids[e]
        /\ ids'[d] # 0
    BY <1>1, GetOrCreateKeeps DEF StoreInv, StoreTypeOK
  <2>2. containers' \in ContainerTable
    BY <1>1 DEF StoreTypeOK, ContainerTable
  <2>3. StoreTypeOK'
    <3>1. mem'[adding'] # NoDigest
      BY <1>1 DEF StoreTypeOK, Add, ContainerTable
    <3> QED
      BY <1>1, <1>2, <2>1, <2>2, <3>1 DEF StoreTypeOK, Add, cluster, startup
  <2>4. Used(containers') \subseteq Used(containers) \cup {d}
    BY <1>1, AdditionUses DEF StoreTypeOK
  <2>5. \A e \in Used(containers) : e \in Digests /\ ids[e] # 0
    BY <1>1, UsedAreDigests DEF StoreInv, StoreTypeOK, ContainersHaveImages, Present
  <2>6. ContainersHaveImages'
    BY <2>1, <2>4, <2>5 DEF ContainersHaveImages, Present, Used
  <2> QED
    BY <2>1, <2>3, <2>6 DEF StoreInv
<1>4. CASE /\ Fails("write")
           /\ UNCHANGED <<tables, adding>>
  <2>1. faults' \in 0 .. MaxFaults
    BY <1>1, <1>4, FaultsTyped DEF StoreTypeOK
  <2>2. StoreTypeOK'
    BY <1>1, <1>2, <1>4, <2>1 DEF StoreTypeOK, Add, cluster, startup, tables
  <2> QED
    BY <1>4, <2>2, TablesUnchangedInv
<1> QED
  BY <1>3, <1>4 DEF Add

LEMMA AddContainerInv ==
    ASSUME StoreInv, NEW c \in Containers, AddContainer(c)
    PROVE  StoreInv'
<1>1. pods[c] \in Digests
  BY DEF StoreInv, StoreTypeOK, AddContainer, ContainerTable
<1> QED
  BY <1>1, AddInv DEF AddContainer

LEMMA FinishAddInv ==
    ASSUME StoreInv, FinishAdd
    PROVE  StoreInv'
<1>1. StoreTypeOK'
  BY DEF StoreInv, StoreTypeOK, FinishAdd, cluster, tables, startup
<1> QED
  BY <1>1, TablesUnchangedInv DEF FinishAdd

\* Manager.RemoveContainer, whatever container it is called with.
LEMMA RemoveInv ==
    ASSUME StoreInv, NEW c \in Containers, Remove(c)
    PROVE  StoreInv'
<1>1. mem' \in ContainerTable
  BY DEF StoreInv, StoreTypeOK, Remove, ContainerTable
<1>2. faults' \in 0 .. MaxFaults
  BY FaultsTyped DEF StoreInv, StoreTypeOK, Remove
<1>3. /\ containers' \in ContainerTable
      /\ Used(containers') \subseteq Used(containers)
  <2>1. CASE containers' = [containers EXCEPT ![c] = NoDigest]
    BY <2>1, RemoveOneUsesLess DEF StoreInv, StoreTypeOK, ContainerTable
  <2>2. CASE UNCHANGED containers
    BY <2>2 DEF StoreInv, StoreTypeOK
  <2> QED
    BY <2>1, <2>2 DEF Remove
<1>4. StoreTypeOK'
  BY <1>1, <1>2, <1>3 DEF StoreInv, StoreTypeOK, Remove, cluster, startup
<1>5. ContainersHaveImages'
  BY <1>3 DEF StoreInv, Remove, ContainersHaveImages, Present, Used
<1>6. IdsBounded'
  BY DEF StoreInv, Remove, IdsBounded
<1> QED
  BY <1>4, <1>5, <1>6 DEF StoreInv

LEMMA RemoveContainerInv ==
    ASSUME StoreInv, NEW c \in Containers, RemoveContainer(c)
    PROVE  StoreInv'
BY RemoveInv DEF RemoveContainer

-----------------------------------------------------------------------------
(* Startup *)

LEMMA ReconcileSnapshotInv ==
    ASSUME StoreInv, ReconcileSnapshot
    PROVE  StoreInv'
<1>1. StoreTypeOK'
  BY DEF StoreInv, StoreTypeOK, ReconcileSnapshot, cluster, manager, tables
<1> QED
  BY <1>1, TablesUnchangedInv DEF ReconcileSnapshot

\* db.SetContainers: the table is replaced and every image in it gets its row.
LEMMA TableReplaced ==
    ASSUME StoreInv, NEW table \in ContainerTable,
           containers' = table, GetOrCreate(Used(table))
    PROVE  /\ ids' \in [Digests -> Nat]
           /\ lastId' \in [Digests -> Nat]
           /\ IdsBounded'
           /\ ContainersHaveImages'
<1>1. Used(table) \subseteq Digests
  BY UsedAreDigests
<1>2. /\ ids' \in [Digests -> Nat]
      /\ lastId' \in [Digests -> Nat]
      /\ IdsBounded'
      /\ \A d \in Used(table) : ids'[d] # 0
  BY <1>1, GetOrCreateKeeps DEF StoreInv, StoreTypeOK
<1>3. ContainersHaveImages'
  BY <1>2 DEF ContainersHaveImages, Present, Used
<1> QED
  BY <1>2, <1>3

LEMMA ReconcileDBInv ==
    ASSUME StoreInv, ReconcileDB
    PROVE  StoreInv'
<1>1. Nothing \in ContainerTable
  BY DEF Nothing, ContainerTable
<1>2. CASE /\ containers' = snapshot
           /\ GetOrCreate(Used(snapshot))
           /\ UNCHANGED faults
  <2>1. /\ ids' \in [Digests -> Nat]
        /\ lastId' \in [Digests -> Nat]
        /\ IdsBounded'
        /\ ContainersHaveImages'
    BY <1>2, TableReplaced DEF StoreInv, StoreTypeOK
  <2>2. StoreTypeOK'
    BY <1>1, <1>2, <2>1 DEF StoreInv, StoreTypeOK, ReconcileDB, cluster, manager
  <2> QED
    BY <2>1, <2>2 DEF StoreInv
<1>3. CASE /\ Fails("write")
           /\ UNCHANGED tables
  <2>1. faults' \in 0 .. MaxFaults
    BY <1>3, FaultsTyped DEF StoreInv, StoreTypeOK
  <2>2. StoreTypeOK'
    BY <1>1, <1>3, <2>1 DEF StoreInv, StoreTypeOK, ReconcileDB, cluster, manager, tables
  <2> QED
    BY <1>3, <2>2, TablesUnchangedInv
<1> QED
  BY <1>2, <1>3 DEF ReconcileDB

LEMMA CatchUpInv ==
    ASSUME StoreInv, CatchUp
    PROVE  StoreInv'
<1>1. StoreTypeOK'
  BY DEF StoreInv, StoreTypeOK, CatchUp, cluster, manager, tables
<1> QED
  BY <1>1, TablesUnchangedInv DEF CatchUp

-----------------------------------------------------------------------------
(* The cleanup job *)

LEMMA CleanupStartInv ==
    ASSUME StoreInv, CleanupStart
    PROVE  StoreInv'
<1>1. StoreTypeOK'
  BY DEF StoreInv, StoreTypeOK, CleanupStart, cluster, manager, tables, startup
<1> QED
  BY <1>1, TablesUnchangedInv DEF CleanupStart

LEMMA CleanupQueryInv ==
    ASSUME StoreInv, CleanupQuery
    PROVE  StoreInv'
<1>1. cleanup' \in [pc : {"idle", "query", "delete", "orphans"}, ids : SUBSET Containers]
  BY DEF StoreInv, StoreTypeOK, CleanupQuery
<1>2. StoreTypeOK'
  BY <1>1 DEF StoreInv, StoreTypeOK, CleanupQuery, cluster, manager, tables, startup
<1> QED
  BY <1>2, TablesUnchangedInv DEF CleanupQuery

LEMMA CleanupStaleContainersInv ==
    ASSUME StoreInv, CleanupStaleContainers
    PROVE  StoreInv'
<1>1. faults' \in 0 .. MaxFaults
  BY FaultsTyped DEF StoreInv, StoreTypeOK, CleanupStaleContainers
<1>2. cleanup' \in [pc : {"idle", "query", "delete", "orphans"}, ids : SUBSET Containers]
  BY DEF CleanupStaleContainers, CleanupRest
<1>3. /\ containers' \in ContainerTable
      /\ Used(containers') \subseteq Used(containers)
  <2>1. CASE containers' = [c \in Containers |-> IF c \in cleanup.ids THEN NoDigest ELSE containers[c]]
    BY <2>1, RemovalUsesLess DEF StoreInv, StoreTypeOK, ContainerTable
  <2>2. CASE UNCHANGED containers
    BY <2>2 DEF StoreInv, StoreTypeOK
  <2> QED
    BY <2>1, <2>2 DEF CleanupStaleContainers
<1>4. StoreTypeOK'
  BY <1>1, <1>2, <1>3 DEF StoreInv, StoreTypeOK, CleanupStaleContainers, cluster, manager, startup
<1>5. ContainersHaveImages'
  BY <1>3 DEF StoreInv, CleanupStaleContainers, ContainersHaveImages, Present, Used
<1>6. IdsBounded'
  BY DEF StoreInv, CleanupStaleContainers, IdsBounded
<1> QED
  BY <1>4, <1>5, <1>6 DEF StoreInv

LEMMA CleanupOrphanedImagesInv ==
    ASSUME StoreInv, CleanupOrphanedImages
    PROVE  StoreInv'
<1>1. faults' \in 0 .. MaxFaults
  BY FaultsTyped DEF StoreInv, StoreTypeOK, CleanupOrphanedImages
<1>2. cleanup' \in [pc : {"idle", "query", "delete", "orphans"}, ids : SUBSET Containers]
  BY DEF CleanupOrphanedImages, CleanupRest
<1>3. /\ ids' \in [Digests -> Nat]
      /\ \A d \in Used(containers) : ids'[d] = ids[d]
      /\ \A d \in Digests : ids'[d] \in {0, ids[d]}
  <2>1. Used(containers) \subseteq Digests
    BY UsedAreDigests DEF StoreInv, StoreTypeOK
  <2> QED
    BY <2>1 DEF StoreInv, StoreTypeOK, CleanupOrphanedImages, Orphaned
<1>4. StoreTypeOK'
  BY <1>1, <1>2, <1>3 DEF StoreInv, StoreTypeOK, CleanupOrphanedImages, cluster, manager, startup
<1>5. ContainersHaveImages'
  BY <1>3 DEF StoreInv, CleanupOrphanedImages, ContainersHaveImages, Present, Used
<1>6. IdsBounded'
  BY <1>3 DEF StoreInv, StoreTypeOK, CleanupOrphanedImages, IdsBounded
<1> QED
  BY <1>4, <1>5, <1>6 DEF StoreInv

LEMMA CrashInv ==
    ASSUME StoreInv, Crash
    PROVE  StoreInv'
<1>1. Nothing \in ContainerTable
  BY DEF Nothing, ContainerTable
<1>2. faults' \in 0 .. MaxFaults
  BY FaultsTyped DEF StoreInv, StoreTypeOK, Crash
<1>3. StoreTypeOK'
  BY <1>1, <1>2 DEF StoreInv, StoreTypeOK, Crash, CleanupRest, cluster, tables
<1> QED
  BY <1>3, TablesUnchangedInv DEF Crash

-----------------------------------------------------------------------------
(* The theorems *)

LEMMA StoreNextInv == StoreInv /\ [StoreNext]_storeVars => StoreInv'
<1> SUFFICES ASSUME StoreInv, [StoreNext]_storeVars PROVE StoreInv'
  OBVIOUS
<1>1. ASSUME NEW c \in Containers, ChangePod(c) \/ AddContainer(c) \/ RemoveContainer(c)
      PROVE  StoreInv'
  BY <1>1, ChangePodInv, AddContainerInv, RemoveContainerInv
<1>2. CASE FinishAdd
  BY <1>2, FinishAddInv
<1>3. CASE ReconcileSnapshot \/ ReconcileDB \/ CatchUp
  BY <1>3, ReconcileSnapshotInv, ReconcileDBInv, CatchUpInv
<1>4. CASE CleanupStep
  BY <1>4, CleanupStartInv, CleanupQueryInv, CleanupStaleContainersInv, CleanupOrphanedImagesInv
     DEF CleanupStep
<1>5. CASE Crash
  BY <1>5, CrashInv
<1>6. CASE UNCHANGED storeVars
  <2>1. StoreTypeOK'
    BY <1>6 DEF StoreInv, StoreTypeOK, storeVars, cluster, manager, tables, startup
  <2> QED
    BY <1>6, <2>1, TablesUnchangedInv DEF storeVars
<1> QED
  BY <1>1, <1>2, <1>3, <1>4, <1>5, <1>6 DEF StoreNext

LEMMA StoreInvariant == StoreSpec => []StoreInv
<1> QED
  BY StoreInitInv, StoreNextInv, PTL DEF StoreSpec

\* The manager, the startup, the cleanup job and the tables stay well-typed.
THEOREM StoreTypeCorrect == StoreSpec => []StoreTypeOK
<1>1. StoreInv => StoreTypeOK
  BY DEF StoreInv
<1> QED
  BY <1>1, StoreInvariant, PTL

\* No interleaving of AddContainer, ReconcileDB and the cleanup job leaves a
\* container without its image (instances.go deletes orphans in one transaction).
THEOREM ContainersAlwaysHaveImages == StoreSpec => []ContainersHaveImages
<1>1. StoreInv => ContainersHaveImages
  BY DEF StoreInv
<1> QED
  BY <1>1, StoreInvariant, PTL

\* A step keeps the id of a digest, deletes its row, or gives it the next id.
IdsStep ==
    /\ \A d \in Digests : \/ ids'[d] = ids[d]
                          \/ ids'[d] = 0
                          \/ ids[d] = 0 /\ ids'[d] = lastId[d] + 1
    /\ \A d \in Digests : lastId[d] <= lastId'[d]

LEMMA IdsUnchanged ==
    ASSUME StoreInv, UNCHANGED <<ids, lastId>>
    PROVE  IdsStep
BY DEF StoreInv, StoreTypeOK, IdsStep

LEMMA GetOrCreateEffect ==
    ASSUME StoreInv, NEW ds, GetOrCreate(ds)
    PROVE  IdsStep
BY GetOrCreateKeeps DEF StoreInv, StoreTypeOK, IdsStep

LEMMA CleanupOrphanedImagesEffect ==
    ASSUME StoreInv, CleanupOrphanedImages
    PROVE  IdsStep
BY DEF CleanupOrphanedImages, StoreInv, StoreTypeOK, IdsStep

LEMMA AddEffect ==
    ASSUME StoreInv, NEW c, NEW d, Add(c, d)
    PROVE  IdsStep
BY GetOrCreateEffect, IdsUnchanged DEF Add, tables

LEMMA IdsEffect ==
    ASSUME StoreInv, [StoreNext]_storeVars
    PROVE  IdsStep
<1>1. ASSUME NEW c \in Containers, ChangePod(c) \/ AddContainer(c) \/ RemoveContainer(c)
      PROVE  IdsStep
  BY <1>1, AddEffect, IdsUnchanged DEF ChangePod, AddContainer, RemoveContainer, Remove, tables
<1>2. CASE FinishAdd \/ ReconcileSnapshot \/ CatchUp \/ Crash
  BY <1>2, IdsUnchanged DEF FinishAdd, ReconcileSnapshot, CatchUp, Crash, tables
<1>3. CASE ReconcileDB
  BY <1>3, GetOrCreateEffect, IdsUnchanged DEF ReconcileDB, tables
<1>4. CASE CleanupStart \/ CleanupQuery \/ CleanupStaleContainers
  BY <1>4, IdsUnchanged DEF CleanupStart, CleanupQuery, CleanupStaleContainers, tables
<1>5. CASE CleanupOrphanedImages
  BY <1>5, CleanupOrphanedImagesEffect
<1>6. CASE UNCHANGED storeVars
  BY <1>6, IdsUnchanged DEF storeVars, tables
<1> QED
  BY <1>1, <1>2, <1>3, <1>4, <1>5, <1>6 DEF StoreNext, CleanupStep

(***************************************************************************)
(* The agent: its watcher and its refresh job in place of the pod informer *)
(* and the reconciliation, one lemma per action.                           *)
(***************************************************************************)

EventType == [action : {"start", "die"}, container : Containers, image : Digests]
ListingType == [pc : {"idle", "inspect"}, todo : ContainerTable, found : ContainerTable]

\* What the watcher and the refresh job add to the store: their types, and that
\* nothing is left of a list that is over.
WatcherInv ==
    /\ boot = "syncing" /\ snapshot = Nothing
    /\ watcher \in {"sync", "open", "closed"}
    /\ listing \in [Listers -> ListingType]
    /\ \A l \in Listers : listing[l].pc = "idle" => listing[l] = NoListing
    /\ events \in Seq(EventType)
    /\ watcher # "open" => events = <<>>
    /\ watcher # "sync" => listing["watcher"] = NoListing

AgentInv == StoreInv /\ WatcherInv

LEMMA NothingIsTable == Nothing \in ContainerTable
BY DEF Nothing, ContainerTable

LEMMA NoListingTyped == NoListing \in ListingType
BY NothingIsTable DEF NoListing, ListingType

LEMMA AgentInitInv == AgentInit => AgentInv
<1> SUFFICES ASSUME AgentInit PROVE AgentInv
  OBVIOUS
<1>1. StoreInv
  BY StoreInitInv DEF AgentInit
<1>2. boot = "syncing" /\ snapshot = Nothing
  BY DEF AgentInit, StoreInit
<1>3. listing \in [Listers -> ListingType] /\ listing["watcher"] = NoListing
  BY NoListingTyped DEF AgentInit, Listers
<1>4. WatcherInv
  BY <1>2, <1>3 DEF AgentInit, WatcherInv
<1> QED
  BY <1>1, <1>4 DEF AgentInv

\* Steps of the store that the watcher and the jobs take.
LEMMA WatcherUnchanged ==
    ASSUME WatcherInv, UNCHANGED <<startup, watcherVars>>
    PROVE  WatcherInv'
BY DEF WatcherInv, startup, watcherVars

\* A failure of Docker leaves the store alone.
LEMMA StoreFault ==
    ASSUME StoreInv, NEW kind, Fails(kind) \/ UNCHANGED faults,
           UNCHANGED <<cluster, manager, tables, startup, cleanup>>
    PROVE  StoreInv'
<1>1. faults' \in 0 .. MaxFaults
  BY FaultsTyped DEF StoreInv, StoreTypeOK
<1>2. StoreTypeOK'
  BY <1>1 DEF StoreInv, StoreTypeOK, cluster, manager, tables, startup
<1> QED
  BY <1>2, TablesUnchangedInv

\* Only an open stream takes events.
LEMMA DeliverTyped ==
    ASSUME events \in Seq(EventType), watcher # "open" => events = <<>>,
           NEW es \in Seq(EventType), Deliver(es)
    PROVE  /\ events' \in Seq(EventType)
           /\ watcher # "open" => events' = <<>>
BY DEF Deliver

\* Docker's own steps: the cluster changes and the stream tells.
LEMMA DockerInv ==
    ASSUME AgentInv, churn < MaxChurn, churn' = churn + 1, pods' \in ContainerTable,
           UNCHANGED <<config, faults, manager, tables, startup, cleanup, watcher, listing>>,
           NEW es \in Seq(EventType), Deliver(es)
    PROVE  AgentInv'
<1> USE DEF AgentInv
<1>1. churn' \in 0 .. MaxChurn
  BY BoundsAssumption DEF StoreInv, StoreTypeOK
<1>2. StoreTypeOK'
  BY <1>1 DEF StoreInv, StoreTypeOK, manager, tables, startup
<1>3. StoreInv'
  BY <1>2, TablesUnchangedInv
<1>4. WatcherInv'
  BY DeliverTyped DEF WatcherInv, startup
<1> QED
  BY <1>3, <1>4

LEMMA EventTyped ==
    ASSUME NEW a \in {"start", "die"}, NEW c \in Containers, NEW d \in Digests
    PROVE  Event(a, c, d) \in EventType
BY DEF Event, EventType

LEMMA DockerChangeInv ==
    ASSUME AgentInv, NEW c \in Containers, DockerChange(c)
    PROVE  AgentInv'
<1> USE PodImagesAssumption
<1>1. pods \in ContainerTable
  BY DEF AgentInv, StoreInv, StoreTypeOK
<1>2. PICK d \in (PodImages[c] \cup {NoDigest}) \ {pods[c]} :
        /\ pods' = [pods EXCEPT ![c] = d]
        /\ Deliver((IF pods[c] = NoDigest THEN <<>> ELSE <<Event("die", c, pods[c])>>)
                   \o (IF d = NoDigest THEN <<>> ELSE <<Event("start", c, d)>>))
  BY DEF DockerChange
<1>3. pods' \in ContainerTable
  BY <1>1, <1>2 DEF ContainerTable
<1> DEFINE died == IF pods[c] = NoDigest THEN <<>> ELSE <<Event("die", c, pods[c])>>
           born == IF d = NoDigest THEN <<>> ELSE <<Event("start", c, d)>>
<1>4. died \in Seq(EventType)
  BY <1>1, EventTyped DEF ContainerTable
<1>5. born \in Seq(EventType)
  BY EventTyped
<1> HIDE DEF died, born
<1>6. died \o born \in Seq(EventType)
  BY <1>4, <1>5
<1>7. Deliver(died \o born)
  BY <1>2 DEF died, born
<1> QED
  BY <1>3, <1>6, <1>7, DockerInv DEF DockerChange

LEMMA SignalInv ==
    ASSUME AgentInv, NEW c \in Containers, Signal(c)
    PROVE  AgentInv'
<1>1. pods \in ContainerTable
  BY DEF AgentInv, StoreInv, StoreTypeOK
<1>2. <<Event("die", c, pods[c])>> \in Seq(EventType)
  BY <1>1, EventTyped DEF Signal, ContainerTable
<1>3. pods' \in ContainerTable
  BY <1>1 DEF Signal
<1> QED
  BY <1>2, <1>3, DockerInv DEF Signal

-----------------------------------------------------------------------------
(* The lists *)

\* A step of list l: what becomes of its listing, and of the watcher when it is
\* the watcher's own.
LEMMA ListingInv ==
    ASSUME WatcherInv, NEW l \in Listers, MayList(l), NEW new \in ListingType,
           new.pc = "inspect" \/ new = NoListing,
           listing' = [listing EXCEPT ![l] = new],
           \/ UNCHANGED watcher
           \/ new = NoListing /\ watcher' = IF l = "watcher" THEN "closed" ELSE watcher,
           UNCHANGED <<startup, events>>
    PROVE  WatcherInv'
<1>1. listing' \in [Listers -> ListingType]
  BY DEF WatcherInv
<1>2. listing'["watcher"] = IF l = "watcher" THEN new ELSE listing["watcher"]
  BY DEF WatcherInv, Listers
<1>3. watcher' # "sync" => listing'["watcher"] = NoListing
  BY <1>2 DEF WatcherInv, MayList
<1>4. watcher' \in {"sync", "open", "closed"} /\ (watcher' # "open" => events' = <<>>)
  BY DEF WatcherInv, MayList
<1>5. \A k \in Listers : listing'[k].pc = "idle" => listing'[k] = NoListing
  BY DEF WatcherInv
<1> QED
  BY <1>1, <1>3, <1>4, <1>5 DEF WatcherInv, startup

\* Docker does not answer the watcher's list: it goes on with the stream.
LEMMA ListFailsInv ==
    ASSUME WatcherInv, NEW l \in Listers, MayList(l), listing[l].pc = "idle",
           UNCHANGED <<startup, events, listing>>,
           watcher' = IF l = "watcher" THEN "closed" ELSE watcher
    PROVE  WatcherInv'
BY DEF WatcherInv, MayList, startup

LEMMA ContainerListInv ==
    ASSUME AgentInv, NEW l \in Listers, ContainerList(l)
    PROVE  AgentInv'
<1>1. StoreInv /\ WatcherInv
  BY DEF AgentInv
<1>2. StoreInv'
  BY <1>1, StoreFault DEF ContainerList
<1>3. pods \in ContainerTable
  BY <1>1 DEF StoreInv, StoreTypeOK
<1>4. CASE UNCHANGED watcher /\ listing' = [listing EXCEPT ![l] = [pc |-> "inspect", todo |-> pods, found |-> Nothing]]
  <2>1. [pc |-> "inspect", todo |-> pods, found |-> Nothing] \in ListingType
    BY <1>3, NothingIsTable DEF ListingType
  <2> QED
    BY <1>1, <1>2, <1>4, <2>1, ListingInv DEF ContainerList, AgentInv
<1>5. CASE watcher' = (IF l = "watcher" THEN "closed" ELSE watcher) /\ UNCHANGED listing
  BY <1>1, <1>2, <1>5, ListFailsInv DEF ContainerList, AgentInv
<1> QED
  BY <1>4, <1>5 DEF ContainerList

\* One container more is inspected, or skipped.
LEMMA ExtractContainerInv ==
    ASSUME AgentInv, NEW l \in Listers, NEW c \in Containers, ExtractContainer(l, c)
    PROVE  AgentInv'
<1> USE DEF AgentInv
<1>1. StoreInv'
  BY StoreFault DEF ExtractContainer
<1>2. /\ pods \in ContainerTable
      /\ listing \in [Listers -> ListingType]
      /\ listing[l] \in ListingType
  BY DEF WatcherInv, StoreInv, StoreTypeOK
<1>3. listing[l].pc = "inspect"
  BY <1>2 DEF WatcherInv, ExtractContainer, NoListing, Nothing, ListingType
<1>4. MayList(l)
  BY <1>3 DEF WatcherInv, MayList, NoListing
<1>5. /\ listing[l].todo \in ContainerTable
      /\ listing[l].found \in ContainerTable
  BY <1>2 DEF ListingType
<1>6. Inspected(c, listing[l].todo[c]) \subseteq Digests \cup {NoDigest}
  BY <1>2, <1>5 DEF Inspected, ContainerTable
<1>7. [listing[l].todo EXCEPT ![c] = NoDigest] \in ContainerTable
  BY <1>5 DEF ContainerTable
<1>8. ASSUME NEW d \in Digests \cup {NoDigest},
             listing' = [listing EXCEPT ![l].todo[c] = NoDigest, ![l].found[c] = d]
      PROVE  WatcherInv'
  <2> DEFINE new == [listing[l] EXCEPT !.todo[c] = NoDigest, !.found[c] = d]
  <2>1. [listing[l].found EXCEPT ![c] = d] \in ContainerTable
    BY <1>5 DEF ContainerTable
  <2>2. new \in ListingType /\ new.pc = "inspect"
    BY <1>2, <1>3, <1>7, <2>1 DEF ListingType
  <2>3. listing' = [listing EXCEPT ![l] = new]
    BY <1>2, <1>8
  <2> HIDE DEF new
  <2> QED
    BY <1>4, <2>2, <2>3, ListingInv DEF ExtractContainer
<1>9. ASSUME listing' = [listing EXCEPT ![l].todo[c] = NoDigest]
      PROVE  WatcherInv'
  <2> DEFINE new == [listing[l] EXCEPT !.todo[c] = NoDigest]
  <2>1. new \in ListingType /\ new.pc = "inspect"
    BY <1>2, <1>3, <1>5, <1>7 DEF ListingType
  <2>2. listing' = [listing EXCEPT ![l] = new]
    BY <1>2, <1>9
  <2> HIDE DEF new
  <2> QED
    BY <1>4, <2>1, <2>2, ListingInv DEF ExtractContainer
<1>10. WatcherInv'
  BY <1>6, <1>8, <1>9 DEF ExtractContainer
<1> QED
  BY <1>1, <1>10

\* Manager.SetContainers replaces the manager's set and the table.
LEMMA SetContainersInv ==
    ASSUME AgentInv, NEW l \in Listers, SetContainers(l)
    PROVE  AgentInv'
<1> USE DEF AgentInv
<1> DEFINE new == listing[l].found
<1>1. listing[l].pc = "inspect" /\ new \in ContainerTable
  BY DEF WatcherInv, SetContainers, ListingType
<1>2. mem' = new
  BY DEF SetContainers, Replace
<1>3. /\ \/ /\ containers' = new
            /\ GetOrCreate(Used(new))
            /\ UNCHANGED faults
         \/ Fails("write") /\ UNCHANGED tables
      /\ adding = NoContainer
      /\ UNCHANGED <<cluster, adding, startup, cleanup>>
  BY DEF SetContainers, Replace
<1> HIDE DEF new
<1>4. ASSUME containers' = new, GetOrCreate(Used(new)), UNCHANGED faults
      PROVE  StoreInv'
  <2>1. /\ ids' \in [Digests -> Nat]
        /\ lastId' \in [Digests -> Nat]
        /\ IdsBounded'
        /\ ContainersHaveImages'
    BY <1>1, <1>4, TableReplaced
  <2>2. StoreTypeOK'
    BY <1>1, <1>2, <1>3, <1>4, <2>1 DEF StoreInv, StoreTypeOK, cluster, startup
  <2> QED
    BY <2>1, <2>2 DEF StoreInv
<1>5. ASSUME Fails("write"), UNCHANGED tables
      PROVE  StoreInv'
  <2>1. faults' \in 0 .. MaxFaults
    BY <1>5, FaultsTyped DEF StoreInv, StoreTypeOK
  <2>2. StoreTypeOK'
    BY <1>1, <1>2, <1>3, <1>5, <2>1 DEF StoreInv, StoreTypeOK, cluster, startup, tables
  <2> QED
    BY <1>5, <2>2, TablesUnchangedInv
<1>6. StoreInv'
  BY <1>3, <1>4, <1>5
<1>7. MayList(l)
  BY <1>1 DEF WatcherInv, MayList, NoListing
<1>8. WatcherInv'
  BY <1>7, NoListingTyped, ListingInv DEF SetContainers
<1> QED
  BY <1>6, <1>8

-----------------------------------------------------------------------------
(* The event stream *)

\* One event is handled.
LEMMA TailTyped ==
    ASSUME WatcherInv, events # <<>>, events' = Tail(events), UNCHANGED <<startup, watcher, listing>>
    PROVE  WatcherInv'
<1>1. events' \in Seq(EventType)
  BY DEF WatcherInv
<1> QED
  BY <1>1 DEF WatcherInv, startup

LEMMA OpenStreamInv ==
    ASSUME AgentInv, OpenStream
    PROVE  AgentInv'
<1>1. StoreInv'
  BY StoreNextInv DEF AgentInv, OpenStream
<1>2. WatcherInv'
  BY DEF AgentInv, OpenStream, WatcherInv, storeVars, startup
<1> QED
  BY <1>1, <1>2 DEF AgentInv

LEMMA StreamBreaksInv ==
    ASSUME AgentInv, StreamBreaks
    PROVE  AgentInv'
<1>1. StoreInv'
  BY StoreFault DEF AgentInv, StreamBreaks
<1>2. <<>> \in Seq(EventType)
  OBVIOUS
<1>3. WatcherInv'
  BY <1>2 DEF AgentInv, StreamBreaks, WatcherInv, startup
<1> QED
  BY <1>1, <1>3 DEF AgentInv

\* The event handled first names a container and an image.
LEMMA HeadTyped ==
    ASSUME events \in Seq(EventType), events # <<>>
    PROVE  Head(events).container \in Containers /\ Head(events).image \in Digests
<1>1. Head(events) \in EventType
  OBVIOUS
<1> QED
  BY <1>1 DEF EventType

LEMMA HandleStartInv ==
    ASSUME AgentInv, HandleStart
    PROVE  AgentInv'
<1>1. StoreInv /\ WatcherInv /\ events \in Seq(EventType) /\ pods \in ContainerTable
  BY DEF AgentInv, WatcherInv, StoreInv, StoreTypeOK
<1> DEFINE c == Head(events).container
           d == Head(events).image
<1>2. c \in Containers /\ d \in Digests
  BY <1>1, HeadTyped DEF HandleStart
<1>3. UNCHANGED startup
  BY DEF HandleStart, Add, storeVars
<1>4. WatcherInv'
  BY <1>1, <1>3, TailTyped DEF HandleStart
<1>5. \/ \E i \in Inspected(c, d) \ {NoDigest} : Add(c, i)
      \/ UNCHANGED storeVars
      \/ Fails("docker") /\ UNCHANGED <<cluster, manager, tables, startup, cleanup>>
  BY DEF HandleStart
<1> HIDE DEF c, d
<1>6. Inspected(c, d) \ {NoDigest} \subseteq Digests
  BY <1>1, <1>2 DEF Inspected, ContainerTable
<1>7. StoreInv'
  BY <1>1, <1>2, <1>5, <1>6, AddInv, StoreFault, StoreNextInv
<1> QED
  BY <1>4, <1>7 DEF AgentInv

LEMMA HandleDieInv ==
    ASSUME AgentInv, HandleDie
    PROVE  AgentInv'
<1>1. StoreInv /\ WatcherInv /\ events \in Seq(EventType)
  BY DEF AgentInv, WatcherInv
<1>2. Head(events).container \in Containers
  BY <1>1, HeadTyped DEF HandleDie
<1>3. StoreInv'
  BY <1>1, <1>2, RemoveInv DEF HandleDie
<1>4. WatcherInv'
  BY <1>1, TailTyped DEF HandleDie, Remove
<1> QED
  BY <1>3, <1>4 DEF AgentInv

-----------------------------------------------------------------------------
(* The agent's cleanup job, its restart, and the theorems *)

LEMMA AgentCleanupStartInv ==
    ASSUME StoreInv, AgentCleanupStart
    PROVE  StoreInv'
<1>1. StoreTypeOK'
  BY DEF StoreInv, StoreTypeOK, AgentCleanupStart, cluster, manager, tables, startup
<1> QED
  BY <1>1, TablesUnchangedInv DEF AgentCleanupStart

LEMMA AgentCrashInv ==
    ASSUME AgentInv, AgentCrash
    PROVE  AgentInv'
<1>1. StoreInv'
  BY CrashInv DEF AgentInv, AgentCrash
<1>2. /\ listing' \in [Listers -> ListingType]
      /\ listing'["watcher"] = NoListing
      /\ \A l \in Listers : listing'[l] = NoListing
  BY NoListingTyped DEF AgentCrash, Listers
<1>3. boot' = "syncing" /\ snapshot' = Nothing /\ watcher' = "sync" /\ events' = <<>>
  BY DEF AgentCrash, Crash
<1>4. <<>> \in Seq(EventType)
  OBVIOUS
<1>5. WatcherInv'
  BY <1>2, <1>3, <1>4 DEF WatcherInv
<1> QED
  BY <1>1, <1>5 DEF AgentInv

LEMMA AgentNextInv == AgentInv /\ [AgentNext]_agentVars => AgentInv'
<1> SUFFICES ASSUME AgentInv, [AgentNext]_agentVars PROVE AgentInv'
  OBVIOUS
<1>1. ASSUME NEW c \in Containers, DockerChange(c) \/ Signal(c)
      PROVE  AgentInv'
  BY <1>1, DockerChangeInv, SignalInv
<1>2. ASSUME NEW l \in Listers, Listing(l)
      PROVE  AgentInv'
  BY <1>2, ContainerListInv, ExtractContainerInv, SetContainersInv DEF Listing
<1>3. CASE Watch \/ StreamBreaks
  BY <1>3, OpenStreamInv, HandleStartInv, HandleDieInv, StreamBreaksInv DEF Watch
<1>4. CASE Locked
  <2>1. StoreInv'
    BY <1>4, FinishAddInv DEF AgentInv, Locked
  <2>2. WatcherInv'
    BY <1>4, WatcherUnchanged DEF AgentInv, Locked, FinishAdd
  <2> QED
    BY <2>1, <2>2 DEF AgentInv
<1>5. CASE Cleanup
  <2>1. StoreInv'
    BY <1>5, AgentCleanupStartInv, CleanupOrphanedImagesInv DEF AgentInv, Cleanup
  <2>2. WatcherInv'
    BY <1>5, WatcherUnchanged
       DEF AgentInv, Cleanup, AgentCleanupStart, CleanupOrphanedImages
  <2> QED
    BY <2>1, <2>2 DEF AgentInv
<1>6. CASE AgentCrash
  BY <1>6, AgentCrashInv
<1>7. CASE UNCHANGED agentVars
  <2>1. StoreInv'
    BY <1>7, StoreNextInv DEF AgentInv, agentVars
  <2>2. WatcherInv'
    BY <1>7, WatcherUnchanged DEF AgentInv, agentVars, storeVars
  <2> QED
    BY <2>1, <2>2 DEF AgentInv
<1> QED
  BY <1>1, <1>2, <1>3, <1>4, <1>5, <1>6, <1>7 DEF AgentNext

LEMMA AgentInvariant == AgentSpec => []AgentInv
<1> QED
  BY AgentInitInv, AgentNextInv, PTL DEF AgentSpec

\* Whatever Docker tells, forgets to tell or refuses to tell, the manager, the
\* tables, the lists and the stream stay well-typed; the watcher holds no event
\* while its stream is broken and never returns to its first list (watcher.go).
THEOREM AgentTypeCorrect == AgentSpec => []AgentTypeOK
<1>1. AgentInv => AgentTypeOK
  BY DEF AgentInv, StoreInv, WatcherInv, AgentTypeOK, ListingType, EventType
<1> QED
  BY <1>1, AgentInvariant, PTL

\* On the agent too a container always has its image: neither an event handled
\* between a refresh's list and its SetContainers nor the cleanup job leaves a
\* row of containers without its row of images (watcher.go, refresh_trigger.go).
THEOREM AgentContainersHaveImages == AgentSpec => []ContainersHaveImages
<1>1. AgentInv => ContainersHaveImages
  BY DEF AgentInv, StoreInv
<1> QED
  BY <1>1, AgentInvariant, PTL

(***************************************************************************)
(* The life of an image scan, for every set of containers and images, any  *)
(* queue and any number of faults.  The store's invariant is carried       *)
(* along, one lemma per action.                                            *)
(***************************************************************************)

\* A deleted row leaves nothing behind.
AbsentRows == \A d \in Digests : ids[d] = 0 => rows[d] = NewRow

Opened == At("readBuilt")
StoringVulns == At("storeVulns") \/ At("storeVulnsStatus")
Claimed == At("storeVulnsRows") \/ At("storeVulnsBlob")

\* The worker is on an image unless it is idle, and the id it keeps is one the
\* image has had.
OnJob ==
    /\ At("idle") <=> worker.digest = NoDigest
    /\ worker.digest # NoDigest => worker.id <= lastId[worker.digest]
    /\ (At("storeSBOMStatus") \/ At("storeSBOMBlob") \/ At("storeVulnsStatus") \/ Claimed)
          => worker.id # 0

\* A report under way is at least as new as the results of the row; its timestamp
\* is no older than the report, if it could be read; and once the row claims the
\* timestamp, it claims exactly that, if it is still that row.
ReportFresh ==
    /\ Opened \/ StoringVulns \/ Claimed =>
          /\ worker.ver <= grypeDB
          /\ rows[worker.digest].found <= worker.ver
          /\ rows[worker.digest].vulns <= worker.ver
    /\ StoringVulns \/ Claimed =>
          /\ worker.claim <= grypeDB
          /\ ("stamp" \notin config.faults) => worker.ver <= worker.claim
    /\ Claimed => (ids[worker.digest] = worker.id => rows[worker.digest].built = worker.claim)

\* No result is newer than the database on disk, or than the row claims.
Sound(r) == /\ r.built <= grypeDB /\ r.found <= grypeDB /\ r.vulns <= grypeDB
            /\ ("stamp" \notin config.faults) => r.vulns <= r.built /\ r.found <= r.built
NeverAhead == \A d \in Digests : Sound(rows[d])

\* While every write succeeds the status is settled before the data is written.
Settled ==
    ("write" \notin config.faults) => (Claimed => ~Transient(rows[worker.digest].status))

ScanTypeOK ==
    /\ rows \in [Digests -> Row]
    /\ queue \in Seq(ScanJob)
    /\ worker \in [pc : Steps, digest : Digests \cup {NoDigest}, force : BOOLEAN, id : Nat,
                    sbom : BOOLEAN, ver : Versions, claim : Versions]
    /\ rescan \in [pc : {"idle", "check", "select", "enqueue"}, left : SUBSET Digests]
    /\ grypeDB \in Versions
    /\ dbReady \in BOOLEAN

ScanInv ==
    /\ StoreInv /\ ScanTypeOK
    /\ AbsentRows /\ OnJob
    /\ ReportFresh /\ NeverAhead
    /\ TransientOwned /\ Settled

-----------------------------------------------------------------------------
(* What the operators do *)

\* A table of rows that says of every image's results what rows says.
SameResults(t) ==
    /\ t \in [Digests -> Row]
    /\ \A d \in Digests : /\ t[d].sbom = rows[d].sbom /\ t[d].built = rows[d].built
                          /\ t[d].found = rows[d].found /\ t[d].vulns = rows[d].vulns
                          /\ ids[d] = 0 => t[d] = rows[d]

\* ResultsKept of one step.
Kept ==
    \A d \in Digests :
        ids'[d] = ids[d] =>
            /\ rows[d].sbom => rows'[d].sbom
            /\ rows'[d].found >= rows[d].found
            /\ rows'[d].vulns >= rows[d].vulns

LEMMA NewRowTyped == NewRow \in Row
BY ScanBoundsAssumption DEF NewRow, Row, Status, Versions

LEMMA IdleTyped ==
    Idle \in [pc : Steps, digest : Digests \cup {NoDigest}, force : BOOLEAN, id : Nat,
              sbom : BOOLEAN, ver : Versions, claim : Versions]
BY ScanBoundsAssumption DEF Idle, Steps, Versions

\* Empty memory: no job queued, the rescan job at rest.
LEMMA RestTyped ==
    /\ <<>> \in Seq(ScanJob)
    /\ RescanRest \in [pc : {"idle", "check", "select", "enqueue"}, left : SUBSET Digests]
<1>1. <<>> \in Seq(ScanJob)
  OBVIOUS
<1>2. RescanRest \in [pc : {"idle", "check", "select", "enqueue"}, left : SUBSET Digests]
  BY DEF RescanRest
<1> QED
  BY <1>1, <1>2

\* A status write touches the status and the age of one existing row.
LEMMA WithStatusEffect ==
    ASSUME ScanTypeOK, AbsentRows, NEW d \in Digests, NEW s \in Status
    PROVE  /\ SameResults(WithStatus(d, s))
           /\ \A e \in Digests \ {d} : WithStatus(d, s)[e] = rows[e]
           /\ WithStatus(d, s)[d].status = s \/ WithStatus(d, s)[d] = NewRow
BY DEF ScanTypeOK, AbsentRows, SameResults, WithStatus, Present, Row

LEMMA SameRows ==
    ASSUME ScanTypeOK
    PROVE  SameResults(rows)
BY DEF ScanTypeOK, SameResults

\* Appending jobs keeps the queue typed.
LEMMA EnqueueTyped ==
    ASSUME queue \in Seq(ScanJob), NEW js \in Seq(ScanJob), Enqueue(js)
    PROVE  queue' \in Seq(ScanJob)
BY DEF Enqueue

\* A step of the worker or of the rescan job that leaves the results alone.
LEMMA QuietStep ==
    ASSUME ScanInv, UNCHANGED offScan, faults' \in 0 .. MaxFaults,
           SameResults(rows'), grypeDB' \in Versions, grypeDB <= grypeDB'
    PROVE  /\ StoreInv' /\ AbsentRows' /\ NeverAhead'
           /\ Kept
<1>1. StoreTypeOK'
  BY DEF ScanInv, StoreInv, StoreTypeOK, offScan, cluster, manager, tables, startup
<1>2. StoreInv'
  BY <1>1, TablesUnchangedInv DEF ScanInv, offScan
<1>3. ids' = ids
  BY DEF offScan, tables
<1>4. AbsentRows'
  BY <1>3 DEF ScanInv, AbsentRows, SameResults
<1>5. NeverAhead'
  <2>1. config' = config
    BY DEF offScan, cluster
  <2>2. grypeDB \in Nat /\ grypeDB' \in Nat
    BY ScanBoundsAssumption DEF ScanInv, ScanTypeOK, Versions
  <2>3. ASSUME NEW d \in Digests
        PROVE  rows[d].built \in Nat /\ rows[d].found \in Nat /\ rows[d].vulns \in Nat
    BY ScanBoundsAssumption DEF ScanInv, ScanTypeOK, Row, Versions
  <2> QED
    BY <2>1, <2>2, <2>3 DEF ScanInv, NeverAhead, Sound, SameResults
<1>6. Kept
  <2> SUFFICES ASSUME NEW d \in Digests
               PROVE  /\ rows[d].sbom => rows'[d].sbom
                      /\ rows'[d].found >= rows[d].found
                      /\ rows'[d].vulns >= rows[d].vulns
    BY DEF Kept
  <2>1. rows[d] \in Row
    BY DEF ScanInv, ScanTypeOK
  <2> QED
    BY <2>1, ScanBoundsAssumption DEF SameResults, Row, Versions
<1> QED
  BY <1>2, <1>4, <1>5, <1>6

-----------------------------------------------------------------------------
(* The worker.  Two shapes of step: it goes on with its image, or it ends  *)
(* the job and may only do so with the row settled.                        *)

LEMMA WorkerGoesOn ==
    ASSUME ScanInv, UNCHANGED offWorker, faults' \in 0 .. MaxFaults,
           queue' \in Seq(ScanJob), SameResults(rows'),
           \A d \in Digests : d # worker'.digest => rows'[d] = rows[d],
           worker' \in [pc : Steps, digest : Digests, force : BOOLEAN, id : Nat,
                        sbom : BOOLEAN, ver : Versions, claim : Versions],
           worker.digest \in {NoDigest, worker'.digest},
           OnJob', ReportFresh', Settled'
    PROVE  ScanInv' /\ Kept
<1>1. /\ StoreInv' /\ AbsentRows' /\ NeverAhead' /\ Kept
  BY QuietStep, ScanBoundsAssumption DEF offWorker, grype, ScanInv, ScanTypeOK, Versions
<1>2. ScanTypeOK'
  BY DEF ScanInv, ScanTypeOK, SameResults, offWorker, grype
<1>3. TransientOwned'
  BY NoneAssumption DEF ScanInv, TransientOwned, offWorker, offScan, cluster
<1> QED
  BY <1>1, <1>2, <1>3 DEF ScanInv

LEMMA WorkerEnds ==
    ASSUME ScanInv, UNCHANGED offWorker, faults' \in 0 .. MaxFaults,
           queue' \in Seq(ScanJob), SameResults(rows'),
           \A d \in Digests : d # worker.digest => rows'[d] = rows[d],
           worker' = Idle,
           "write" \notin config.faults /\ worker.digest \in Digests
               => ~Transient(rows'[worker.digest].status)
    PROVE  ScanInv' /\ Kept
<1>1. /\ StoreInv' /\ AbsentRows' /\ NeverAhead' /\ Kept
  BY QuietStep, ScanBoundsAssumption DEF offWorker, grype, ScanInv, ScanTypeOK, Versions
<1>2. ScanTypeOK'
  BY IdleTyped DEF ScanInv, ScanTypeOK, SameResults, offWorker, grype
<1>3. TransientOwned'
  BY DEF ScanInv, TransientOwned, offWorker, offScan, cluster
<1>4. OnJob' /\ ReportFresh' /\ Settled'
  BY DEF Idle, OnJob, ReportFresh, Settled, At, Opened, Claimed, StoringVulns
<1> QED
  BY <1>1, <1>2, <1>3, <1>4 DEF ScanInv

LEMMA FaultsStayTyped ==
    ASSUME ScanInv, NEW kind, Fails(kind) \/ UNCHANGED faults
    PROVE  faults' \in 0 .. MaxFaults
BY FaultsTyped DEF ScanInv, StoreInv, StoreTypeOK

\* A busy worker is on a digest.
LEMMA BusyOnDigest ==
    ASSUME ScanInv, ~At("idle")
    PROVE  worker.digest \in Digests
BY DEF ScanInv, ScanTypeOK, OnJob

\* Going on without touching a row.
LEMMA WorkerTurns ==
    ASSUME ScanInv, UNCHANGED offWorker, ~At("idle"), UNCHANGED <<rows, queue>>,
           faults' \in 0 .. MaxFaults,
           NEW step \in Steps \ {"idle", "storeSBOMStatus", "storeSBOMBlob", "readBuilt",
                                 "storeVulns", "storeVulnsStatus", "storeVulnsRows", "storeVulnsBlob"},
           worker' = [worker EXCEPT !.pc = step]
    PROVE  ScanInv' /\ Kept
<1>1. worker.digest \in Digests
  BY BusyOnDigest
<1>2. worker' \in [pc : Steps, digest : Digests, force : BOOLEAN, id : Nat,
                   sbom : BOOLEAN, ver : Versions, claim : Versions]
  BY <1>1 DEF ScanInv, ScanTypeOK
<1>3. worker'.digest = worker.digest /\ worker'.id = worker.id /\ worker'.pc = step
  BY DEF ScanInv, ScanTypeOK
<1>4. OnJob' /\ ReportFresh' /\ Settled'
  BY <1>1, <1>3, NoneAssumption
     DEF ScanInv, OnJob, ReportFresh, Settled, At, Opened, Claimed, StoringVulns, offWorker, offScan, tables
<1> QED
  BY <1>2, <1>3, <1>4, SameRows, WorkerGoesOn DEF ScanInv, ScanTypeOK

-----------------------------------------------------------------------------
LEMMA ProcessJobInv ==
    ASSUME ScanInv, ProcessJob
    PROVE  ScanInv' /\ Kept
<1> DEFINE j == Head(queue)
<1>1. j \in ScanJob /\ queue' \in Seq(ScanJob)
  BY DEF ScanInv, ScanTypeOK, ProcessJob
<1>2. faults' \in 0 .. MaxFaults
  BY DEF ScanInv, StoreInv, StoreTypeOK, ProcessJob
<1>3. worker.digest = NoDigest
  BY DEF ScanInv, OnJob, ProcessJob
<1>4. CASE FirstStep(j) = "idle"
  <2>1. worker' = Idle
    BY <1>4 DEF ProcessJob
  <2> QED
    BY <1>1, <1>2, <1>3, <2>1, NoneAssumption, SameRows, WorkerEnds DEF ScanInv, ScanTypeOK, ProcessJob
<1>5. CASE FirstStep(j) # "idle"
  <2>1. worker' = [Idle EXCEPT !.pc = FirstStep(j), !.digest = j.digest, !.force = j.force]
    BY <1>5 DEF ProcessJob
  <2>2. FirstStep(j) \in {"markGenerating", "waitForReady"}
    BY <1>5 DEF FirstStep
  <2>3. worker' \in [pc : Steps, digest : Digests, force : BOOLEAN, id : Nat,
                     sbom : BOOLEAN, ver : Versions, claim : Versions]
    BY <1>1, <2>1, <2>2, IdleTyped DEF Steps, ScanJob
  <2>4. OnJob' /\ ReportFresh' /\ Settled'
    <3>1. worker'.digest \in Digests /\ worker'.id = 0 /\ worker'.pc \in {"markGenerating", "waitForReady"}
      BY <1>1, <2>1, <2>2 DEF Idle, ScanJob
    <3>2. lastId' \in [Digests -> Nat]
      BY DEF ScanInv, StoreInv, StoreTypeOK, ProcessJob, offWorker, offScan, tables
    <3> QED
      BY <3>1, <3>2, NoneAssumption DEF OnJob, ReportFresh, Settled, At, Opened, Claimed, StoringVulns
  <2> QED
    BY <1>1, <1>2, <1>3, <2>3, <2>4, SameRows, WorkerGoesOn DEF ScanInv, ScanTypeOK, ProcessJob
<1> QED
  BY <1>4, <1>5

\* UpdateStatus: to another step, or to the end of the job with a settled status.
LEMMA StatusWriteGoesOn ==
    ASSUME ScanInv, ~At("idle"), UNCHANGED offWorker, UNCHANGED queue,
           UNCHANGED faults \/ Fails("write"),
           NEW s \in Status, rows' = WithStatus(worker.digest, s),
           NEW step \in {"retrieveSBOM", "storeSBOMBlob"},
           worker' = [worker EXCEPT !.pc = step],
           step = "storeSBOMBlob" => At("storeSBOMStatus")
    PROVE  ScanInv' /\ Kept
<1>1. worker.digest \in Digests
  BY BusyOnDigest
<1>2. worker' \in [pc : Steps, digest : Digests, force : BOOLEAN, id : Nat,
                   sbom : BOOLEAN, ver : Versions, claim : Versions]
  BY <1>1 DEF ScanInv, ScanTypeOK, Steps
<1>3. worker'.digest = worker.digest /\ worker'.id = worker.id /\ worker'.pc = step
  BY DEF ScanInv, ScanTypeOK
<1>4. OnJob' /\ ReportFresh' /\ Settled'
  BY <1>1, <1>3, NoneAssumption
     DEF ScanInv, OnJob, ReportFresh, Settled, At, Opened, Claimed, StoringVulns, offWorker, offScan, tables
<1>5. SameResults(rows') /\ \A d \in Digests \ {worker.digest} : rows'[d] = rows[d]
  BY <1>1, WithStatusEffect DEF ScanInv
<1>6. queue' \in Seq(ScanJob) /\ faults' \in 0 .. MaxFaults
  BY FaultsStayTyped DEF ScanInv, ScanTypeOK
<1> QED
  BY <1>2, <1>3, <1>4, <1>5, <1>6, WorkerGoesOn

LEMMA StatusWriteEnds ==
    ASSUME ScanInv, ~At("idle"), UNCHANGED offWorker, UNCHANGED queue,
           NEW s \in Status, ~Transient(s),
           \/ rows' = WithStatus(worker.digest, s) /\ UNCHANGED faults
           \/ UNCHANGED rows /\ Fails("write"),
           worker' = Idle
    PROVE  ScanInv' /\ Kept
<1>1. worker.digest \in Digests
  BY BusyOnDigest
<1>2. queue' \in Seq(ScanJob) /\ faults' \in 0 .. MaxFaults
  BY FaultsStayTyped DEF ScanInv, ScanTypeOK
<1>3. CASE rows' = WithStatus(worker.digest, s) /\ UNCHANGED faults
  <2>1. /\ SameResults(rows')
        /\ \A d \in Digests \ {worker.digest} : rows'[d] = rows[d]
        /\ rows'[worker.digest].status = s \/ rows'[worker.digest] = NewRow
    BY <1>1, <1>3, WithStatusEffect DEF ScanInv
  <2>2. ~Transient(rows'[worker.digest].status)
    BY <2>1 DEF NewRow, Transient
  <2> QED
    BY <1>1, <1>2, <2>1, <2>2, WorkerEnds
<1>4. CASE UNCHANGED rows /\ Fails("write")
  BY <1>1, <1>2, <1>4, SameRows, WorkerEnds DEF ScanInv, Fails
<1> QED
  BY <1>3, <1>4

\* Storing a result: one existing row gets results at least as new.
LEMMA ResultWrite ==
    ASSUME ScanInv, UNCHANGED offWorker, UNCHANGED queue, faults' \in 0 .. MaxFaults,
           NEW d \in Digests, worker.digest = d, ids[d] # 0,
           NEW r \in Row, rows' = [rows EXCEPT ![d] = r],
           rows[d].sbom => r.sbom,
           rows[d].found <= r.found, rows[d].vulns <= r.vulns,
           Sound(r),
           worker' \in [pc : Steps, digest : Digests \cup {NoDigest}, force : BOOLEAN, id : Nat,
                        sbom : BOOLEAN, ver : Versions, claim : Versions],
           OnJob', ReportFresh', Settled',
           worker'.digest # d => "write" \in config.faults \/ ~Transient(r.status)
    PROVE  ScanInv' /\ Kept
<1>1. StoreTypeOK'
  BY DEF ScanInv, StoreInv, StoreTypeOK, offWorker, offScan, cluster, manager, tables, startup
<1>2. StoreInv'
  BY <1>1, TablesUnchangedInv DEF ScanInv, offWorker, offScan
<1>3. ids' = ids /\ config' = config /\ grypeDB' = grypeDB
  BY DEF offWorker, offScan, tables, cluster, grype
<1>4. ScanTypeOK'
  BY DEF ScanInv, ScanTypeOK, offWorker, grype
<1>5. rows'[d] = r /\ \A e \in Digests : e # d => rows'[e] = rows[e]
  BY DEF ScanInv, ScanTypeOK
<1>6. AbsentRows'
  BY <1>3, <1>5 DEF ScanInv, AbsentRows
<1>7. NeverAhead'
  BY <1>3, <1>5 DEF ScanInv, NeverAhead, Sound
<1>8. TransientOwned'
  BY <1>3, <1>5 DEF ScanInv, TransientOwned
<1>9. Kept
  <2> SUFFICES ASSUME NEW e \in Digests
               PROVE  /\ rows[e].sbom => rows'[e].sbom
                      /\ rows'[e].found >= rows[e].found
                      /\ rows'[e].vulns >= rows[e].vulns
    BY DEF Kept
  <2>1. rows[e] \in Row
    BY DEF ScanInv, ScanTypeOK
  <2>2. CASE e = d
    BY <1>5, <2>1, <2>2, ScanBoundsAssumption DEF Row, Versions
  <2>3. CASE e # d
    BY <1>5, <2>1, <2>3, ScanBoundsAssumption DEF Row, Versions
  <2> QED
    BY <2>2, <2>3
<1> QED
  BY <1>2, <1>4, <1>6, <1>7, <1>8, <1>9 DEF ScanInv

LEMMA MarkGeneratingInv ==
    ASSUME ScanInv, MarkGenerating
    PROVE  ScanInv' /\ Kept
<1>1. ~At("idle") /\ UNCHANGED offWorker /\ UNCHANGED queue
  BY DEF MarkGenerating, At
<1>2. CASE /\ rows' = WithStatus(worker.digest, "generating_sbom")
           /\ Goto("retrieveSBOM")
           /\ UNCHANGED faults
  BY <1>1, <1>2, StatusWriteGoesOn DEF Goto, Status
<1>3. CASE Fails("write") /\ worker' = Idle /\ UNCHANGED rows
  BY <1>1, <1>3, StatusWriteEnds DEF Status, Transient
<1> QED
  BY <1>2, <1>3 DEF MarkGenerating, Write

LEMMA RetrieveSBOMInv ==
    ASSUME ScanInv, RetrieveSBOM
    PROVE  ScanInv' /\ Kept
<1>1. faults' \in 0 .. MaxFaults
  BY FaultsStayTyped DEF RetrieveSBOM
<1> QED
  BY <1>1, WorkerTurns DEF RetrieveSBOM, Goto, At, Steps

LEMMA SBOMFailedInv ==
    ASSUME ScanInv, SBOMFailed
    PROVE  ScanInv' /\ Kept
BY StatusWriteEnds DEF SBOMFailed, Write, At, Status, Transient

LEMMA StoreSBOMInv ==
    ASSUME ScanInv, StoreSBOM
    PROVE  ScanInv' /\ Kept
<1>1. worker.digest \in Digests
  BY BusyOnDigest DEF StoreSBOM, At
<1>2. faults' \in 0 .. MaxFaults
  BY FaultsStayTyped DEF StoreSBOM
<1>3. CASE ~Present(worker.digest)
  BY <1>2, <1>3, WorkerTurns DEF StoreSBOM, At, Steps
<1>4. CASE Present(worker.digest)
  <2>1. worker' = [worker EXCEPT !.pc = "storeSBOMStatus", !.id = ids[worker.digest]]
    BY <1>4 DEF StoreSBOM
  <2>2. ids[worker.digest] \in Nat /\ ids[worker.digest] # 0
        /\ ids[worker.digest] <= lastId[worker.digest]
    BY <1>1, <1>4 DEF Present, ScanInv, StoreInv, StoreTypeOK, IdsBounded
  <2>3. worker' \in [pc : Steps, digest : Digests, force : BOOLEAN, id : Nat,
                     sbom : BOOLEAN, ver : Versions, claim : Versions]
    BY <1>1, <2>1, <2>2 DEF ScanInv, ScanTypeOK, Steps
  <2>4. worker'.digest = worker.digest /\ worker'.id = ids[worker.digest] /\ worker'.pc = "storeSBOMStatus"
    BY <2>1 DEF ScanInv, ScanTypeOK
  <2>5. OnJob' /\ ReportFresh' /\ Settled'
    BY <1>1, <2>2, <2>4, NoneAssumption
       DEF OnJob, ReportFresh, Settled, At, Opened, Claimed, StoringVulns, StoreSBOM, offWorker, offScan, tables
  <2> QED
    BY <1>2, <2>3, <2>4, <2>5, SameRows, WorkerGoesOn DEF ScanInv, ScanTypeOK, StoreSBOM
<1> QED
  BY <1>3, <1>4

LEMMA StoreSBOMStatusInv ==
    ASSUME ScanInv, StoreSBOMStatus
    PROVE  ScanInv' /\ Kept
<1>1. ~At("idle") /\ UNCHANGED offWorker /\ UNCHANGED queue
  BY DEF StoreSBOMStatus, At
<1>2. CASE /\ rows' = WithStatus(worker.digest, "scanning_vulnerabilities")
           /\ Goto("storeSBOMBlob")
           /\ UNCHANGED faults
  BY <1>1, <1>2, StatusWriteGoesOn DEF StoreSBOMStatus, Goto, Status
<1>3. CASE Fails("write") /\ Goto("sbomFailed") /\ UNCHANGED rows
  BY <1>1, <1>3, FaultsStayTyped, WorkerTurns DEF Goto, Steps
<1> QED
  BY <1>2, <1>3 DEF StoreSBOMStatus, Write

LEMMA StoreSBOMBlobInv ==
    ASSUME ScanInv, StoreSBOMBlob
    PROVE  ScanInv' /\ Kept
<1> DEFINE d == worker.digest
<1>1. d \in Digests /\ ~At("idle")
  BY BusyOnDigest DEF StoreSBOMBlob, At
<1>2. faults' \in 0 .. MaxFaults
  BY FaultsStayTyped DEF StoreSBOMBlob, Write
<1>3. CASE Fails("write") /\ Goto("sbomFailed") /\ UNCHANGED rows
  BY <1>1, <1>2, <1>3, WorkerTurns DEF Goto, Steps, StoreSBOMBlob
<1>4. CASE /\ rows' = ById([rows EXCEPT ![d].sbom = TRUE])
           /\ worker' = [worker EXCEPT !.pc = "waitForReady", !.sbom = TRUE, !.id = 0]
  <2>1. worker' \in [pc : Steps, digest : Digests, force : BOOLEAN, id : Nat,
                     sbom : BOOLEAN, ver : Versions, claim : Versions]
    BY <1>1, <1>4 DEF ScanInv, ScanTypeOK, Steps
  <2>2. worker'.digest = d /\ worker'.id = 0 /\ worker'.pc = "waitForReady"
    BY <1>4 DEF ScanInv, ScanTypeOK
  <2>3. lastId' \in [Digests -> Nat]
    BY DEF ScanInv, StoreInv, StoreTypeOK, StoreSBOMBlob, offWorker, offScan, tables
  <2>4. OnJob' /\ ReportFresh' /\ Settled'
    BY <1>1, <2>2, <2>3, NoneAssumption DEF OnJob, ReportFresh, Settled, At, Opened, Claimed, StoringVulns
  <2>5. CASE ids[d] = worker.id
    <3> DEFINE r == [rows[d] EXCEPT !.sbom = TRUE]
    <3>1. rows[d] \in Row /\ grypeDB \in Versions
      BY <1>1 DEF ScanInv, ScanTypeOK
    <3>2. r \in Row /\ r.sbom /\ r.built = rows[d].built /\ r.found = rows[d].found /\ r.vulns = rows[d].vulns
      BY <3>1 DEF Row
    <3>3. ids[d] # 0
      BY <2>5 DEF ScanInv, OnJob, StoreSBOMBlob, At
    <3>4. rows' = [rows EXCEPT ![d] = r]
      BY <1>4, <2>5 DEF ById
    <3>5. Sound(rows[d])
      BY <1>1 DEF ScanInv, NeverAhead
    <3>6. rows[d].built \in Nat /\ rows[d].found \in Nat /\ rows[d].vulns \in Nat
      BY <3>1, ScanBoundsAssumption DEF Row, Versions
    <3>7. /\ worker' \in [pc : Steps, digest : Digests \cup {NoDigest}, force : BOOLEAN, id : Nat,
                          sbom : BOOLEAN, ver : Versions, claim : Versions]
          /\ UNCHANGED offWorker /\ UNCHANGED queue
      BY <2>1 DEF StoreSBOMBlob
    <3>8. rows[d].found <= r.found /\ rows[d].vulns <= r.vulns /\ Sound(r)
      BY <3>2, <3>5, <3>6 DEF Sound
    <3> HIDE DEF r
    <3> QED
      BY <1>1, <1>2, <2>2, <2>4, <3>2, <3>3, <3>4, <3>7, <3>8, ResultWrite
  <2>6. CASE ids[d] # worker.id
    <3>1. UNCHANGED rows
      BY <1>4, <2>6 DEF ById
    <3> QED
      BY <1>2, <2>1, <2>2, <2>4, <3>1, SameRows, WorkerGoesOn DEF ScanInv, ScanTypeOK, StoreSBOMBlob
  <2> QED
    BY <2>5, <2>6
<1> QED
  BY <1>3, <1>4 DEF StoreSBOMBlob, Write

LEMMA WaitForReadyInv ==
    ASSUME ScanInv, WaitForReady
    PROVE  ScanInv' /\ Kept
<1>1. worker.digest \in Digests /\ ~At("idle") /\ UNCHANGED offWorker /\ UNCHANGED <<rows, queue>>
  BY BusyOnDigest DEF WaitForReady, At
<1>2. faults' \in 0 .. MaxFaults
  BY FaultsStayTyped DEF WaitForReady
<1>3. CASE worker' = Idle /\ HasVulnerabilities(rows[worker.digest].status)
  <2>1. ~Transient(rows'[worker.digest].status)
    BY <1>1, <1>3 DEF HasVulnerabilities, Transient
  <2> QED
    BY <1>1, <1>2, <1>3, <2>1, SameRows, WorkerEnds DEF ScanInv, ScanTypeOK
<1>4. CASE Goto("scan") \/ Goto("getSBOM")
  BY <1>1, <1>2, <1>4, WorkerTurns DEF Goto, Steps
<1> QED
  BY <1>3, <1>4 DEF WaitForReady

LEMMA GetSBOMInv ==
    ASSUME ScanInv, GetSBOM
    PROVE  ScanInv' /\ Kept
<1>1. faults' \in 0 .. MaxFaults
  BY FaultsStayTyped DEF GetSBOM
<1>2. Goto("scan") \/ Goto("vulnScanFailed")
  BY DEF GetSBOM
<1> QED
  BY <1>1, <1>2, WorkerTurns DEF GetSBOM, Goto, At, Steps

LEMMA OpenDatabaseInv ==
    ASSUME ScanInv, OpenDatabase
    PROVE  ScanInv' /\ Kept
<1>1. worker.digest \in Digests /\ ~At("idle") /\ UNCHANGED offWorker /\ UNCHANGED <<rows, queue>>
  BY BusyOnDigest DEF OpenDatabase, At
<1>2. faults' \in 0 .. MaxFaults
  BY FaultsStayTyped DEF OpenDatabase
<1>3. CASE Fails("grype") /\ Goto("vulnScanFailed")
  BY <1>1, <1>2, <1>3, WorkerTurns DEF Goto, Steps
<1>4. CASE worker' = [worker EXCEPT !.pc = "readBuilt", !.ver = grypeDB]
  <2>1. worker' \in [pc : Steps, digest : Digests, force : BOOLEAN, id : Nat,
                     sbom : BOOLEAN, ver : Versions, claim : Versions]
    BY <1>1, <1>4 DEF ScanInv, ScanTypeOK, Steps
  <2>2. /\ worker'.digest = worker.digest /\ worker'.id = worker.id
        /\ worker'.pc = "readBuilt" /\ worker'.ver = grypeDB
    BY <1>4 DEF ScanInv, ScanTypeOK
  <2>3. rows[worker.digest].found <= grypeDB /\ rows[worker.digest].vulns <= grypeDB /\ grypeDB \in Nat
    BY <1>1, ScanBoundsAssumption DEF ScanInv, ScanTypeOK, NeverAhead, Sound, Versions
  <2>4. OnJob' /\ ReportFresh' /\ Settled'
    BY <1>1, <2>2, <2>3, NoneAssumption
       DEF ScanInv, OnJob, ReportFresh, Settled, At, Opened, Claimed, StoringVulns,
           offWorker, offScan, tables, grype
  <2> QED
    BY <1>1, <1>2, <2>1, <2>2, <2>4, SameRows, WorkerGoesOn DEF ScanInv, ScanTypeOK
<1> QED
  BY <1>3, <1>4 DEF OpenDatabase

LEMMA ScanVulnerabilitiesInv ==
    ASSUME ScanInv, ScanVulnerabilities
    PROVE  ScanInv' /\ Kept
<1>1. worker.digest \in Digests /\ ~At("idle") /\ UNCHANGED offWorker /\ UNCHANGED <<rows, queue>>
  BY BusyOnDigest DEF ScanVulnerabilities, At
<1>2. faults' \in 0 .. MaxFaults
  BY FaultsStayTyped DEF ScanVulnerabilities
<1>3. CASE Fails("grype") /\ Goto("vulnScanFailed")
  BY <1>1, <1>2, <1>3, WorkerTurns DEF Goto, Steps
<1>4. ASSUME NEW claim \in Versions, worker' = [worker EXCEPT !.pc = "storeVulns", !.claim = claim],
             claim <= grypeDB, ("stamp" \notin config.faults) => claim = grypeDB
      PROVE  ScanInv' /\ Kept
  <2>1. worker' \in [pc : Steps, digest : Digests, force : BOOLEAN, id : Nat,
                     sbom : BOOLEAN, ver : Versions, claim : Versions]
    BY <1>1, <1>4 DEF ScanInv, ScanTypeOK, Steps
  <2>2. /\ worker'.digest = worker.digest /\ worker'.id = worker.id /\ worker'.ver = worker.ver
        /\ worker'.pc = "storeVulns" /\ worker'.claim = claim
    BY <1>4 DEF ScanInv, ScanTypeOK
  <2>3. Opened
    BY DEF ScanVulnerabilities, Opened
  <2>4. /\ UNCHANGED <<ids, lastId, grypeDB, config>>
    BY <1>1 DEF offWorker, offScan, tables, grype, cluster
  <2>5. OnJob'
    BY <1>1, <2>2, <2>4, NoneAssumption DEF ScanInv, OnJob, At, Claimed
  <2>6. ReportFresh' /\ Settled'
    BY <1>1, <1>4, <2>2, <2>3, <2>4
       DEF ScanInv, ReportFresh, Settled, At, Opened, Claimed, StoringVulns
  <2> QED
    BY <1>1, <1>2, <2>1, <2>2, <2>5, <2>6, SameRows, WorkerGoesOn DEF ScanInv, ScanTypeOK
<1>5. CASE worker' = [worker EXCEPT !.pc = "storeVulns", !.claim = grypeDB]
  <2>1. grypeDB \in Versions /\ grypeDB <= grypeDB
    BY ScanBoundsAssumption DEF ScanInv, ScanTypeOK, Versions
  <2> QED
    BY <1>4, <1>5, <2>1
<1>6. CASE Fails("stamp") /\ worker' = [worker EXCEPT !.pc = "storeVulns", !.claim = 0]
  <2>1. 0 \in Versions /\ 0 <= grypeDB /\ "stamp" \in config.faults
    BY <1>6, ScanBoundsAssumption DEF ScanInv, ScanTypeOK, Versions, Fails
  <2> QED
    BY <1>4, <1>6, <2>1
<1> QED
  BY <1>3, <1>5, <1>6 DEF ScanVulnerabilities

LEMMA VulnScanFailedInv ==
    ASSUME ScanInv, VulnScanFailed
    PROVE  ScanInv' /\ Kept
BY StatusWriteEnds DEF VulnScanFailed, Write, At, Status, Transient

LEMMA StoreVulnsInv ==
    ASSUME ScanInv, StoreVulns
    PROVE  ScanInv' /\ Kept
<1>1. worker.digest \in Digests
  BY BusyOnDigest DEF StoreVulns, At
<1>2. faults' \in 0 .. MaxFaults
  BY FaultsStayTyped DEF StoreVulns
<1>3. CASE ~Present(worker.digest)
  BY <1>2, <1>3, WorkerTurns DEF StoreVulns, At, Steps
<1>4. CASE Present(worker.digest)
  <2>1. worker' = [worker EXCEPT !.pc = "storeVulnsStatus", !.id = ids[worker.digest]]
    BY <1>4 DEF StoreVulns
  <2>2. ids[worker.digest] \in Nat /\ ids[worker.digest] # 0
        /\ ids[worker.digest] <= lastId[worker.digest]
    BY <1>1, <1>4 DEF Present, ScanInv, StoreInv, StoreTypeOK, IdsBounded
  <2>3. worker' \in [pc : Steps, digest : Digests, force : BOOLEAN, id : Nat,
                     sbom : BOOLEAN, ver : Versions, claim : Versions]
    BY <1>1, <2>1, <2>2 DEF ScanInv, ScanTypeOK, Steps
  <2>4. /\ worker'.digest = worker.digest /\ worker'.id = ids[worker.digest]
        /\ worker'.pc = "storeVulnsStatus" /\ worker'.ver = worker.ver /\ worker'.claim = worker.claim
    BY <2>1 DEF ScanInv, ScanTypeOK
  <2>5. OnJob' /\ ReportFresh' /\ Settled'
    BY <1>1, <2>2, <2>4, NoneAssumption
       DEF ScanInv, OnJob, ReportFresh, Settled, At, Opened, Claimed, StoringVulns,
           StoreVulns, offWorker, offScan, tables, grype, cluster
  <2> QED
    BY <1>2, <2>3, <2>4, <2>5, SameRows, WorkerGoesOn DEF ScanInv, ScanTypeOK, StoreVulns
<1> QED
  BY <1>3, <1>4

LEMMA StoreVulnsStatusInv ==
    ASSUME ScanInv, StoreVulnsStatus
    PROVE  ScanInv' /\ Kept
<1> DEFINE d == worker.digest
<1>1. d \in Digests /\ ~At("idle") /\ UNCHANGED offWorker /\ UNCHANGED queue
  BY BusyOnDigest DEF StoreVulnsStatus, At
<1>2. faults' \in 0 .. MaxFaults
  BY FaultsStayTyped DEF StoreVulnsStatus, Write
<1>3. CASE Fails("write") /\ Goto("vulnScanFailed") /\ UNCHANGED rows
  BY <1>1, <1>2, <1>3, WorkerTurns DEF Goto, Steps
<1>4. CASE /\ rows' = IF Present(d)
                      THEN [rows EXCEPT ![d].status = "completed", ![d].old = FALSE, ![d].built = worker.claim]
                      ELSE rows
           /\ Goto("storeVulnsRows")
  <2>1. worker' \in [pc : Steps, digest : Digests, force : BOOLEAN, id : Nat,
                     sbom : BOOLEAN, ver : Versions, claim : Versions]
    BY <1>1, <1>4 DEF ScanInv, ScanTypeOK, Steps, Goto
  <2>2. worker'.digest = d /\ worker'.id = worker.id /\ worker'.pc = "storeVulnsRows"
        /\ worker'.ver = worker.ver /\ worker'.claim = worker.claim
    BY <1>4 DEF ScanInv, ScanTypeOK, Goto
  <2>3. /\ worker.ver <= grypeDB /\ worker.claim <= grypeDB
        /\ rows[d].found <= worker.ver /\ rows[d].vulns <= worker.ver
        /\ ("stamp" \notin config.faults) => worker.ver <= worker.claim
        /\ worker.id # 0 /\ worker.id <= lastId[d]
    BY <1>1, NoneAssumption
       DEF ScanInv, ReportFresh, StoringVulns, Claimed, OnJob, StoreVulnsStatus, At
  <2>4. rows[d] \in Row /\ worker.ver \in Versions /\ worker.claim \in Versions
    BY <1>1 DEF ScanInv, ScanTypeOK
  <2>5. ids' = ids /\ lastId' = lastId /\ grypeDB' = grypeDB /\ config' = config
    BY <1>1 DEF offWorker, offScan, tables, grype, cluster
  <2>6. CASE Present(d)
    <3> DEFINE r == [rows[d] EXCEPT !.status = "completed", !.old = FALSE, !.built = worker.claim]
    <3>1. /\ r \in Row /\ r.sbom = rows[d].sbom /\ r.built = worker.claim
          /\ r.found = rows[d].found /\ r.vulns = rows[d].vulns /\ r.status = "completed"
      BY <2>4 DEF Row, Status
    <3>2. rows' = [rows EXCEPT ![d] = r]
      BY <1>4, <2>6
    <3>3. rows'[d] = r
      BY <1>1, <3>2 DEF ScanInv, ScanTypeOK
    <3>4. OnJob' /\ ReportFresh' /\ Settled'
      BY <1>1, <2>2, <2>3, <2>5, <3>1, <3>3, NoneAssumption
         DEF OnJob, ReportFresh, Settled, At, Opened, Claimed, StoringVulns, Transient
    <3>5. /\ rows[d].found \in Nat /\ rows[d].vulns \in Nat
          /\ worker.ver \in Nat /\ worker.claim \in Nat /\ grypeDB \in Nat
      BY <2>4, ScanBoundsAssumption DEF ScanInv, ScanTypeOK, Row, Versions
    <3>6. rows[d].found <= r.found /\ rows[d].vulns <= r.vulns /\ Sound(r)
      BY <2>3, <3>1, <3>5 DEF Sound
    <3>7. worker' \in [pc : Steps, digest : Digests \cup {NoDigest}, force : BOOLEAN, id : Nat,
                       sbom : BOOLEAN, ver : Versions, claim : Versions]
      BY <2>1
    <3>8. ids[d] # 0
      BY <2>6 DEF Present
    <3> HIDE DEF r
    <3> QED
      BY <1>1, <1>2, <2>2, <3>1, <3>2, <3>4, <3>6, <3>7, <3>8, ResultWrite
  <2>7. CASE ~Present(d)
    <3>1. UNCHANGED rows
      BY <1>4, <2>7
    <3>2. rows[d] = NewRow /\ ids[d] = 0
      BY <1>1, <2>7 DEF ScanInv, AbsentRows, Present
    <3>3. OnJob' /\ ReportFresh' /\ Settled'
      BY <1>1, <2>2, <2>3, <2>5, <3>1, <3>2, NoneAssumption
         DEF OnJob, ReportFresh, Settled, At, Opened, Claimed, StoringVulns, Transient, NewRow
    <3> QED
      BY <1>1, <1>2, <2>1, <2>2, <3>1, <3>3, SameRows, WorkerGoesOn DEF ScanInv, ScanTypeOK
  <2> QED
    BY <2>6, <2>7
<1> QED
  BY <1>3, <1>4 DEF StoreVulnsStatus, Write

LEMMA StoreVulnsRowsInv ==
    ASSUME ScanInv, StoreVulnsRows
    PROVE  ScanInv' /\ Kept
<1> DEFINE d == worker.digest
<1>1. d \in Digests /\ ~At("idle") /\ UNCHANGED offWorker /\ UNCHANGED queue
  BY BusyOnDigest DEF StoreVulnsRows, At
<1>2. faults' \in 0 .. MaxFaults
  BY FaultsStayTyped DEF StoreVulnsRows, Write
<1>3. Goto("storeVulnsBlob")
  BY DEF StoreVulnsRows, Write
<1>4. worker' \in [pc : Steps, digest : Digests, force : BOOLEAN, id : Nat,
                   sbom : BOOLEAN, ver : Versions, claim : Versions]
  BY <1>1, <1>3 DEF ScanInv, ScanTypeOK, Steps, Goto
<1>5. worker'.digest = d /\ worker'.id = worker.id /\ worker'.pc = "storeVulnsBlob"
      /\ worker'.ver = worker.ver /\ worker'.claim = worker.claim
  BY <1>3 DEF ScanInv, ScanTypeOK, Goto
<1>6. ids' = ids /\ lastId' = lastId /\ grypeDB' = grypeDB /\ config' = config
  BY <1>1 DEF offWorker, offScan, tables, grype, cluster
<1>7. Claimed
  BY DEF StoreVulnsRows, Claimed
<1>8. OnJob'
  BY <1>1, <1>5, <1>6, <1>7, NoneAssumption DEF ScanInv, OnJob, At, Claimed
<1>9. CASE UNCHANGED rows
  <2>1. ReportFresh' /\ Settled'
    BY <1>5, <1>6, <1>7, <1>9 DEF ScanInv, ReportFresh, Settled, At, Opened, Claimed, StoringVulns
  <2> QED
    BY <1>1, <1>2, <1>4, <1>5, <1>8, <1>9, <2>1, SameRows, WorkerGoesOn DEF ScanInv, ScanTypeOK
<1>10. CASE rows' = ById([rows EXCEPT ![d].found = worker.ver]) /\ ids[d] = worker.id
  <2> DEFINE r == [rows[d] EXCEPT !.found = worker.ver]
  <2>1. rows[d] \in Row /\ worker.ver \in Versions
    BY <1>1 DEF ScanInv, ScanTypeOK
  <2>2. /\ r \in Row /\ r.sbom = rows[d].sbom /\ r.built = rows[d].built
        /\ r.found = worker.ver /\ r.vulns = rows[d].vulns /\ r.status = rows[d].status
    BY <2>1 DEF Row
  <2>3. rows' = [rows EXCEPT ![d] = r]
    BY <1>10 DEF ById
  <2>4. rows'[d] = r
    BY <1>1, <2>3 DEF ScanInv, ScanTypeOK
  <2>5. rows[d].built = worker.claim /\ ids[d] # 0
    BY <1>7, <1>10 DEF ScanInv, ReportFresh, OnJob
  <2>6. /\ rows[d].found \in Nat /\ rows[d].vulns \in Nat /\ worker.ver \in Nat
        /\ Sound(rows[d])
    BY <1>1, <2>1, ScanBoundsAssumption DEF ScanInv, NeverAhead, Row, Versions
  <2>7. ReportFresh' /\ Settled'
    BY <1>5, <1>6, <1>7, <2>2, <2>4, <2>5, <2>6
       DEF ScanInv, ReportFresh, Settled, At, Opened, Claimed, StoringVulns
  <2>8. rows[d].found <= r.found /\ rows[d].vulns <= r.vulns /\ Sound(r)
    BY <1>7, <2>2, <2>5, <2>6 DEF ScanInv, ReportFresh, Sound
  <2>9. worker' \in [pc : Steps, digest : Digests \cup {NoDigest}, force : BOOLEAN, id : Nat,
                     sbom : BOOLEAN, ver : Versions, claim : Versions]
    BY <1>4
  <2> HIDE DEF r
  <2> QED
    BY <1>1, <1>2, <1>5, <1>8, <2>2, <2>3, <2>5, <2>7, <2>8, <2>9, ResultWrite
<1> QED
  BY <1>9, <1>10 DEF StoreVulnsRows, Write, ById

LEMMA StoreVulnsBlobInv ==
    ASSUME ScanInv, StoreVulnsBlob
    PROVE  ScanInv' /\ Kept
<1> DEFINE d == worker.digest
<1>1. d \in Digests /\ ~At("idle") /\ UNCHANGED offWorker /\ UNCHANGED queue
  BY BusyOnDigest DEF StoreVulnsBlob, At
<1>2. faults' \in 0 .. MaxFaults
  BY FaultsStayTyped DEF StoreVulnsBlob, Write
<1>3. CASE Fails("write") /\ Goto("vulnScanFailed") /\ UNCHANGED rows
  BY <1>1, <1>2, <1>3, WorkerTurns DEF Goto, Steps
<1>4. Claimed
  BY DEF StoreVulnsBlob, Claimed
<1>5. "write" \in config.faults \/ ~Transient(rows[d].status)
  BY <1>4 DEF ScanInv, Settled
<1>6. CASE worker' = Idle /\ UNCHANGED rows
  BY <1>1, <1>2, <1>5, <1>6, SameRows, WorkerEnds DEF ScanInv, ScanTypeOK
<1>7. CASE worker' = Idle /\ ids[d] = worker.id
           /\ rows' = ById([rows EXCEPT ![d].vulns = worker.ver, ![d].stamp = worker.claim])
  <2> DEFINE r == [rows[d] EXCEPT !.vulns = worker.ver, !.stamp = worker.claim]
  <2>1. rows[d] \in Row /\ worker.ver \in Versions /\ worker.claim \in Versions
    BY <1>1 DEF ScanInv, ScanTypeOK
  <2>2. /\ r \in Row /\ r.sbom = rows[d].sbom /\ r.built = rows[d].built
        /\ r.found = rows[d].found /\ r.vulns = worker.ver /\ r.status = rows[d].status
    BY <2>1 DEF Row
  <2>3. rows' = [rows EXCEPT ![d] = r]
    BY <1>7 DEF ById
  <2>4. rows[d].built = worker.claim /\ ids[d] # 0
    BY <1>4, <1>7 DEF ScanInv, ReportFresh, OnJob
  <2>5. OnJob' /\ ReportFresh' /\ Settled'
    BY <1>7 DEF Idle, OnJob, ReportFresh, Settled, At, Opened, Claimed, StoringVulns
  <2>6. /\ rows[d].found \in Nat /\ rows[d].vulns \in Nat /\ worker.ver \in Nat
        /\ Sound(rows[d])
    BY <1>1, <2>1, ScanBoundsAssumption DEF ScanInv, NeverAhead, Row, Versions
  <2>7. rows[d].found <= r.found /\ rows[d].vulns <= r.vulns /\ Sound(r)
    BY <1>4, <2>2, <2>4, <2>6 DEF ScanInv, ReportFresh, Sound
  <2>8. worker' \in [pc : Steps, digest : Digests \cup {NoDigest}, force : BOOLEAN, id : Nat,
                     sbom : BOOLEAN, ver : Versions, claim : Versions]
    BY <1>7, IdleTyped
  <2> HIDE DEF r
  <2> QED
    BY <1>1, <1>2, <1>5, <2>2, <2>3, <2>4, <2>5, <2>7, <2>8, ResultWrite
<1> QED
  BY <1>3, <1>6, <1>7 DEF StoreVulnsBlob, Write, ById

LEMMA WorkerStepInv ==
    ASSUME ScanInv, WorkerStep
    PROVE  ScanInv' /\ Kept
BY ProcessJobInv, MarkGeneratingInv, RetrieveSBOMInv, SBOMFailedInv, StoreSBOMInv,
   StoreSBOMStatusInv, StoreSBOMBlobInv, WaitForReadyInv, GetSBOMInv, OpenDatabaseInv, ScanVulnerabilitiesInv,
   VulnScanFailedInv, StoreVulnsInv, StoreVulnsStatusInv, StoreVulnsRowsInv, StoreVulnsBlobInv
   DEF WorkerStep

-----------------------------------------------------------------------------
(* The rescan job, the reaper and the clock: none touches the worker, none *)
(* makes a row transient, none lowers the database version.                *)

LEMMA BesideWorker ==
    ASSUME ScanInv, UNCHANGED offScan, UNCHANGED worker, faults' \in 0 .. MaxFaults,
           SameResults(rows'),
           \A d \in Digests : Transient(rows'[d].status) => Transient(rows[d].status),
           queue' \in Seq(ScanJob), dbReady' \in BOOLEAN,
           rescan' \in [pc : {"idle", "check", "select", "enqueue"}, left : SUBSET Digests],
           grypeDB' \in Versions, grypeDB <= grypeDB'
    PROVE  ScanInv' /\ Kept
<1>1. /\ StoreInv' /\ AbsentRows' /\ NeverAhead' /\ Kept
  BY QuietStep
<1>2. ScanTypeOK'
  BY DEF ScanInv, ScanTypeOK, SameResults
<1>3. ids' = ids /\ lastId' = lastId /\ config' = config
  BY DEF offScan, tables, cluster
<1>4. TransientOwned'
  BY <1>3 DEF ScanInv, TransientOwned
<1>5. OnJob'
  BY <1>3 DEF ScanInv, OnJob, At, Claimed
<1>6. Opened \/ Claimed \/ StoringVulns => worker.digest \in Digests
  BY BusyOnDigest DEF Opened, Claimed, StoringVulns, At
<1>7. Settled'
  BY <1>3, <1>6 DEF ScanInv, Settled, At, Claimed
<1>8. ReportFresh'
  <2>1. grypeDB \in Nat /\ grypeDB' \in Nat /\ worker.ver \in Nat /\ worker.claim \in Nat
    BY ScanBoundsAssumption DEF ScanInv, ScanTypeOK, Versions
  <2> QED
    BY <1>3, <1>6, <2>1 DEF ScanInv, ReportFresh, At, Opened, Claimed, StoringVulns, SameResults
<1> QED
  BY <1>1, <1>2, <1>4, <1>5, <1>7, <1>8 DEF ScanInv

LEMMA AgeInv ==
    ASSUME ScanInv, NEW d \in Digests, Age(d)
    PROVE  ScanInv' /\ Kept
<1>1. /\ SameResults(rows')
      /\ \A e \in Digests : rows'[e].status = rows[e].status
  <2>1. ids[d] # 0
    BY DEF Age, ScanInv, AbsentRows, NewRow, Transient
  <2>2. rows' = [rows EXCEPT ![d] = [rows[d] EXCEPT !.old = TRUE]]
    BY DEF Age, ScanInv, ScanTypeOK
  <2>3. rows[d] \in Row
    BY DEF ScanInv, ScanTypeOK
  <2> QED
    BY <2>1, <2>2, <2>3 DEF ScanInv, ScanTypeOK, SameResults, Row
<1>2. grypeDB \in Versions /\ grypeDB <= grypeDB
  BY ScanBoundsAssumption DEF ScanInv, ScanTypeOK, Versions
<1> QED
  BY <1>1, <1>2, BesideWorker, FaultsStayTyped DEF Age, offWorker, grype, ScanInv, ScanTypeOK

LEMMA ReapStuckScansInv ==
    ASSUME ScanInv, ReapStuckScans
    PROVE  ScanInv' /\ Kept
<1>1. SameResults(rows') /\ \A d \in Digests : Transient(rows'[d].status) => Transient(rows[d].status)
  <2>1. CASE UNCHANGED rows
    BY <2>1, SameRows DEF ScanInv
  <2>2. CASE rows' = [d \in Digests |-> IF Transient(rows[d].status) /\ rows[d].old
                                        THEN [rows[d] EXCEPT !.status = "vuln_scan_failed", !.old = FALSE]
                                        ELSE rows[d]]
    <3> DEFINE Reaped(d) == Transient(rows[d].status) /\ rows[d].old
               r(d) == [rows[d] EXCEPT !.status = "vuln_scan_failed", !.old = FALSE]
    <3>1. \A d \in Digests : Reaped(d) => ids[d] # 0
      BY DEF ScanInv, AbsentRows, NewRow, Transient
    <3>2. \A d \in Digests : rows[d] \in Row
      BY DEF ScanInv, ScanTypeOK
    <3>3. \A d \in Digests : /\ r(d) \in Row /\ r(d).sbom = rows[d].sbom /\ r(d).built = rows[d].built
                             /\ r(d).found = rows[d].found /\ r(d).vulns = rows[d].vulns
                             /\ ~Transient(r(d).status)
      BY <3>2 DEF Row, Status, Transient
    <3>4. rows' = [d \in Digests |-> IF Reaped(d) THEN r(d) ELSE rows[d]]
      BY <2>2
    <3> HIDE DEF r, Reaped
    <3> QED
      BY <3>1, <3>2, <3>3, <3>4 DEF SameResults
  <2> QED
    BY <2>1, <2>2 DEF ReapStuckScans
<1>2. grypeDB \in Versions /\ grypeDB <= grypeDB
  BY ScanBoundsAssumption DEF ScanInv, ScanTypeOK, Versions
<1>3. rescan' \in [pc : {"idle", "check", "select", "enqueue"}, left : SUBSET Digests]
  BY DEF ReapStuckScans, ScanInv, ScanTypeOK
<1>4. faults' \in 0 .. MaxFaults
  BY FaultsStayTyped DEF ReapStuckScans
<1> QED
  BY <1>1, <1>2, <1>3, <1>4, BesideWorker DEF ReapStuckScans, grype, ScanInv, ScanTypeOK

LEMMA CheckForUpdatesInv ==
    ASSUME ScanInv, CheckForUpdates
    PROVE  ScanInv' /\ Kept
<1>1. SameResults(rows) /\ rows' = rows
  BY SameRows DEF CheckForUpdates, ScanInv
<1>2. grypeDB' \in Versions /\ grypeDB <= grypeDB' /\ dbReady' \in BOOLEAN
  <2>1. grypeDB \in Versions /\ grypeDB \in Nat /\ dbReady \in BOOLEAN
    BY ScanBoundsAssumption DEF ScanInv, ScanTypeOK, Versions
  <2>2. CASE grypeDB' \in {grypeDB, grypeDB + 1} \cap Versions /\ dbReady' = TRUE
    BY <2>1, <2>2
  <2>3. CASE UNCHANGED grype
    BY <2>1, <2>3 DEF grype
  <2> QED
    BY <2>2, <2>3 DEF CheckForUpdates
<1>3. rescan' \in [pc : {"idle", "check", "select", "enqueue"}, left : SUBSET Digests]
  BY DEF CheckForUpdates, RescanRest, ScanInv, ScanTypeOK
<1>4. faults' \in 0 .. MaxFaults
  BY FaultsStayTyped DEF CheckForUpdates
<1> QED
  BY <1>1, <1>2, <1>3, <1>4, BesideWorker DEF CheckForUpdates, ScanInv, ScanTypeOK

LEMMA SelectForRescanInv ==
    ASSUME ScanInv, SelectForRescan
    PROVE  ScanInv' /\ Kept
<1>1. SameResults(rows) /\ rows' = rows
  BY SameRows DEF SelectForRescan, ScanInv
<1>2. grypeDB \in Versions /\ grypeDB <= grypeDB
  BY ScanBoundsAssumption DEF ScanInv, ScanTypeOK, Versions
<1>3. rescan' \in [pc : {"idle", "check", "select", "enqueue"}, left : SUBSET Digests]
  BY DEF SelectForRescan, RescanRest
<1> QED
  BY <1>1, <1>2, <1>3, BesideWorker, FaultsStayTyped DEF SelectForRescan, grype, ScanInv, ScanTypeOK

LEMMA EnqueueRescanInv ==
    ASSUME ScanInv, NEW d \in Digests, EnqueueRescan(d)
    PROVE  ScanInv' /\ Kept
<1>1. SameResults(rows) /\ rows' = rows
  BY SameRows DEF EnqueueRescan, ScanInv
<1>2. grypeDB \in Versions /\ grypeDB <= grypeDB
  BY ScanBoundsAssumption DEF ScanInv, ScanTypeOK, Versions
<1>3. rescan' \in [pc : {"idle", "check", "select", "enqueue"}, left : SUBSET Digests]
  BY DEF EnqueueRescan, RescanRest, ScanInv, ScanTypeOK
<1>4. queue' \in Seq(ScanJob)
  <2> DEFINE job == [digest |-> d, force |-> TRUE]
  <2>1. job \in ScanJob
    BY DEF ScanJob
  <2> HIDE DEF job
  <2>2. <<job>> \in Seq(ScanJob) /\ <<>> \in Seq(ScanJob)
    BY <2>1
  <2>3. Enqueue(<<job>>) \/ Enqueue(<<>>)
    BY DEF EnqueueRescan, job
  <2> QED
    BY <2>2, <2>3, EnqueueTyped DEF ScanInv, ScanTypeOK
<1> QED
  BY <1>1, <1>2, <1>3, <1>4, BesideWorker, FaultsStayTyped DEF EnqueueRescan, grype, ScanInv, ScanTypeOK

LEMMA RescanStepInv ==
    ASSUME ScanInv, RescanStep
    PROVE  ScanInv' /\ Kept
BY ReapStuckScansInv, CheckForUpdatesInv, SelectForRescanInv, EnqueueRescanInv DEF RescanStep

-----------------------------------------------------------------------------
(* The steps of ContainerStore.  The worker's id is at most lastId, so no  *)
(* row born while the worker is under way can have it.                     *)

LEMMA StoreStepConfig == ASSUME StoreStep PROVE config' = config
BY DEF StoreStep, ChangePod, AddContainer, Add, RemoveContainer, Remove, ReconcileSnapshot, ReconcileDB,
       CleanupStep, CleanupStart, CleanupQuery, CleanupStaleContainers, CleanupOrphanedImages, cluster

LEMMA StoreStepInv ==
    ASSUME ScanInv, StoreStep
    PROVE  ScanInv' /\ Kept
<1>1. StoreNext /\ CarryRows /\ UNCHANGED <<queue, worker, rescan, grype>>
  BY DEF StoreStep, StoreNext
<1>2. StoreInv'
  BY <1>1, StoreNextInv DEF ScanInv
<1>3. /\ \A d \in Digests : \/ ids'[d] = ids[d]
                            \/ ids'[d] = 0
                            \/ ids[d] = 0 /\ ids'[d] = lastId[d] + 1
      /\ \A d \in Digests : lastId[d] <= lastId'[d]
  BY <1>1, IdsEffect DEF ScanInv, IdsStep
<1>4. config' = config
  BY StoreStepConfig
<1>5. /\ rows' \in [Digests -> Row]
      /\ \A d \in Digests : rows'[d] = IF ids'[d] = ids[d] THEN rows[d] ELSE NewRow
  BY <1>1, NewRowTyped DEF CarryRows, ScanInv, ScanTypeOK
<1>6. ScanTypeOK'
  BY <1>1, <1>5 DEF ScanInv, ScanTypeOK, grype
<1>7. AbsentRows'
  BY <1>5 DEF ScanInv, AbsentRows
<1>8. NeverAhead'
  <2>1. grypeDB' = grypeDB /\ grypeDB \in Nat
    BY <1>1, ScanBoundsAssumption DEF grype, ScanInv, ScanTypeOK, Versions
  <2> QED
    BY <1>4, <1>5, <2>1 DEF ScanInv, NeverAhead, Sound, NewRow
<1>9. TransientOwned'
  BY <1>1, <1>4, <1>5 DEF ScanInv, TransientOwned, Transient, NewRow
<1>10. Opened \/ Claimed \/ StoringVulns => worker.digest \in Digests
  BY BusyOnDigest DEF Opened, Claimed, StoringVulns, At
<1>11. Settled'
  BY <1>1, <1>4, <1>5, <1>10 DEF ScanInv, Settled, Claimed, At, Transient, NewRow
<1>12. worker.id \in Nat /\ lastId \in [Digests -> Nat] /\ lastId' \in [Digests -> Nat]
  BY <1>2 DEF ScanInv, ScanTypeOK, StoreInv, StoreTypeOK
<1>13. OnJob'
  <2>1. worker.digest \in Digests \cup {NoDigest}
    BY DEF ScanInv, ScanTypeOK
  <2> QED
    BY <1>1, <1>3, <1>12, <2>1 DEF ScanInv, OnJob, At, Claimed
<1>14. ReportFresh'
  <2>1. worker' = worker /\ grypeDB' = grypeDB /\ config' = config
    BY <1>1, <1>4 DEF grype
  <2>2. ASSUME Opened \/ StoringVulns \/ Claimed
        PROVE  rows'[worker.digest].found <= worker.ver /\ rows'[worker.digest].vulns <= worker.ver
    <3>1. /\ worker.ver \in Nat
          /\ rows[worker.digest].found <= worker.ver /\ rows[worker.digest].vulns <= worker.ver
      BY <2>2, ScanBoundsAssumption DEF ScanInv, ScanTypeOK, ReportFresh, Versions
    <3> QED
      BY <1>5, <1>10, <2>2, <3>1 DEF NewRow
  <2>3. ASSUME Claimed, ids'[worker.digest] = worker.id PROVE rows'[worker.digest].built = worker.claim
    <3>1. worker.digest \in Digests /\ worker.id # 0 /\ worker.id <= lastId[worker.digest]
      BY <1>10, <2>3, NoneAssumption DEF ScanInv, OnJob
    <3>2. ids'[worker.digest] = ids[worker.digest]
      BY <1>3, <1>12, <2>3, <3>1
    <3> QED
      BY <1>5, <2>3, <3>1, <3>2 DEF ScanInv, ReportFresh
  <2> QED
    BY <2>1, <2>2, <2>3 DEF ScanInv, ReportFresh, Opened, Claimed, StoringVulns, At
<1>15. Kept
  <2> SUFFICES ASSUME NEW d \in Digests, ids'[d] = ids[d]
               PROVE  /\ rows[d].sbom => rows'[d].sbom
                      /\ rows'[d].found >= rows[d].found
                      /\ rows'[d].vulns >= rows[d].vulns
    BY DEF Kept
  <2>1. rows'[d] = rows[d] /\ rows[d] \in Row
    BY <1>5 DEF ScanInv, ScanTypeOK
  <2> QED
    BY <2>1, ScanBoundsAssumption DEF Row, Versions
<1> QED
  BY <1>2, <1>4, <1>6, <1>7, <1>8, <1>9, <1>11, <1>13, <1>14, <1>15 DEF ScanInv

\* A step of the store that leaves the images table alone and enqueues scans.
LEMMA EnqueueStepInv ==
    ASSUME ScanInv, StoreInv', UNCHANGED <<config, ids, lastId>>,
           UNCHANGED <<rows, worker, rescan, grype>>, queue' \in Seq(ScanJob)
    PROVE  ScanInv' /\ Kept
<1>1. ScanTypeOK'
  BY DEF ScanInv, ScanTypeOK, grype
<1>2. AbsentRows' /\ NeverAhead' /\ TransientOwned'
  BY DEF ScanInv, AbsentRows, NeverAhead, Sound, TransientOwned, grype
<1>3. OnJob' /\ ReportFresh' /\ Settled'
  BY DEF ScanInv, OnJob, ReportFresh, Settled, At, Opened, Claimed, StoringVulns, grype
<1>4. Kept
  <2>1. \A d \in Digests : rows[d] \in Row
    BY DEF ScanInv, ScanTypeOK
  <2> QED
    BY <2>1, ScanBoundsAssumption DEF Kept, Row, Versions
<1> QED
  BY <1>1, <1>2, <1>3, <1>4 DEF ScanInv

\* What JobsFor enqueues for a digest is a queue of scan jobs.
LEMMA JobsForTyped ==
    ASSUME NEW d \in Digests
    PROVE  JobsFor(d) \in Seq(ScanJob)
<1> DEFINE job == [digest |-> d, force |-> ScanStatus(rows[d].status) # "pending"]
<1>1. job \in ScanJob
  BY DEF ScanJob
<1>2. JobsFor(d) \in {<<>>, <<job>>}
  BY DEF JobsFor
<1> HIDE DEF job
<1>3. <<>> \in Seq(ScanJob) /\ <<job>> \in Seq(ScanJob)
  BY <1>1
<1> QED
  BY <1>2, <1>3

LEMMA CheckAndEnqueueScanInv ==
    ASSUME ScanInv, CheckAndEnqueueScan
    PROVE  ScanInv' /\ Kept
<1>1. FinishAdd /\ StoreInv'
  BY FinishAddInv DEF CheckAndEnqueueScan, ScanInv
<1>2. mem[adding] \in Digests
  BY <1>1 DEF FinishAdd, ScanInv, StoreInv, StoreTypeOK, ContainerTable
<1>3. queue' \in Seq(ScanJob)
  BY <1>2, JobsForTyped, EnqueueTyped DEF CheckAndEnqueueScan, ScanInv, ScanTypeOK
<1>4. UNCHANGED <<config, ids, lastId>>
  BY <1>1 DEF FinishAdd, cluster, tables
<1> QED
  BY <1>1, <1>3, <1>4, EnqueueStepInv DEF CheckAndEnqueueScan

LEMMA CatchUpScansInv ==
    ASSUME ScanInv, CatchUpScans
    PROVE  ScanInv' /\ Kept
<1>1. CatchUp /\ StoreInv'
  BY CatchUpInv DEF CatchUpScans, ScanInv
<1>2. UNCHANGED <<config, ids, lastId>>
  BY <1>1 DEF CatchUp, cluster, tables
<1>3. queue' \in Seq(ScanJob)
  <2> DEFINE todo == {d \in Used(mem) : JobsFor(d) # <<>>}
             jobs(f) == [i \in DOMAIN f |-> [digest |-> f[i], force |-> TRUE]]
  <2>1. todo \subseteq Digests
    BY UsedAreDigests DEF ScanInv, StoreInv, StoreTypeOK
  <2>2. Cardinality(todo) \in Nat
    BY <2>1, FiniteAssumption, FS_Subset, FS_CardinalityType
  <2>3. PICK f \in [1 .. Cardinality(todo) -> todo] : Enqueue(jobs(f))
    BY DEF CatchUpScans
  <2> HIDE DEF todo
  <2>4. jobs(f) \in [1 .. Cardinality(todo) -> ScanJob]
    BY <2>1 DEF ScanJob
  <2> HIDE DEF jobs
  <2>5. jobs(f) \in Seq(ScanJob)
    BY <2>2, <2>4
  <2> QED
    BY <2>3, <2>5, EnqueueTyped DEF ScanInv, ScanTypeOK
<1> QED
  BY <1>1, <1>2, <1>3, EnqueueStepInv DEF CatchUpScans

-----------------------------------------------------------------------------
LEMMA RestartInv ==
    ASSUME ScanInv, Restart
    PROVE  ScanInv' /\ Kept
<1>1. StoreInv'
  BY CrashInv DEF Restart, ScanInv
<1>2. /\ ids' = ids /\ grypeDB' = grypeDB /\ config' = config
      /\ worker' = Idle /\ adding' = NoContainer
  BY DEF Restart, Crash, tables, cluster
<1>3. SameResults(rows') /\ \A d \in Digests : ~Transient(rows'[d].status)
  <2> DEFINE r(d) == [rows[d] EXCEPT !.status = "pending", !.old = FALSE]
             Interrupted(d) == Transient(rows[d].status)
  <2>1. \A d \in Digests : Interrupted(d) => ids[d] # 0
    BY DEF ScanInv, AbsentRows, NewRow, Transient
  <2>2. \A d \in Digests : rows[d] \in Row
    BY DEF ScanInv, ScanTypeOK
  <2>3. \A d \in Digests : /\ r(d) \in Row /\ r(d).sbom = rows[d].sbom /\ r(d).built = rows[d].built
                           /\ r(d).found = rows[d].found /\ r(d).vulns = rows[d].vulns
                           /\ ~Transient(r(d).status)
    BY <2>2 DEF Row, Status, Transient
  <2>4. rows' = [d \in Digests |-> IF Interrupted(d) THEN r(d) ELSE rows[d]]
    BY DEF Restart, ResetInterruptedScans
  <2> HIDE DEF r
  <2>5. SameResults(rows')
    BY <2>1, <2>2, <2>3, <2>4 DEF SameResults
  <2> QED
    BY <2>3, <2>4, <2>5
<1>4. ScanTypeOK'
  BY <1>2, <1>3, IdleTyped, RestTyped DEF ScanInv, ScanTypeOK, SameResults, Restart
<1>5. OnJob' /\ ReportFresh' /\ Settled'
  BY <1>2 DEF Idle, OnJob, ReportFresh, Settled, At, Opened, Claimed, StoringVulns
<1>6. AbsentRows'
  BY <1>2, <1>3 DEF ScanInv, AbsentRows, SameResults
<1>7. NeverAhead'
  BY <1>2, <1>3 DEF ScanInv, NeverAhead, Sound, SameResults
<1>8. TransientOwned'
  BY <1>3 DEF TransientOwned
<1>9. Kept
  <2>1. \A d \in Digests : rows[d] \in Row
    BY DEF ScanInv, ScanTypeOK
  <2> QED
    BY <1>3, <2>1, ScanBoundsAssumption DEF Kept, SameResults, Row, Versions
<1> QED
  BY <1>1, <1>4, <1>5, <1>6, <1>7, <1>8, <1>9 DEF ScanInv

-----------------------------------------------------------------------------
(* The theorems *)

LEMMA ScanInitInv == Init => ScanInv
<1> SUFFICES ASSUME Init PROVE ScanInv
  OBVIOUS
<1>1. StoreInv
  BY StoreInitInv DEF Init
<1>2. ScanTypeOK
  <2>1. 1 \in Versions
    BY ScanBoundsAssumption DEF Versions
  <2> QED
    BY <2>1, NewRowTyped, IdleTyped, RestTyped DEF Init, ScanTypeOK
<1>3. AbsentRows /\ OnJob /\ ReportFresh /\ Settled
  BY DEF Init, StoreInit, AbsentRows, Idle, OnJob, ReportFresh, Settled,
         At, Opened, Claimed, StoringVulns
<1>4. NeverAhead /\ TransientOwned
  BY DEF Init, NewRow, NeverAhead, Sound, TransientOwned, Transient
<1> QED
  BY <1>1, <1>2, <1>3, <1>4 DEF ScanInv

LEMMA ScanNextInv == ScanInv /\ [Next]_vars => ScanInv' /\ [Kept]_vars
<1> SUFFICES ASSUME ScanInv, [Next]_vars PROVE ScanInv' /\ [Kept]_vars
  OBVIOUS
<1>1. ASSUME Next PROVE ScanInv' /\ Kept
  <2>1. CASE StoreStep
    BY <2>1, StoreStepInv
  <2>2. CASE CheckAndEnqueueScan \/ CatchUpScans
    BY <2>2, CheckAndEnqueueScanInv, CatchUpScansInv
  <2>3. CASE WorkerStep
    BY <2>3, WorkerStepInv
  <2>4. ASSUME NEW d \in Digests, Age(d) PROVE ScanInv' /\ Kept
    BY <2>4, AgeInv
  <2>5. CASE RescanStep
    BY <2>5, RescanStepInv
  <2>6. CASE Restart
    BY <2>6, RestartInv
  <2> QED
    BY <1>1, <2>1, <2>2, <2>3, <2>4, <2>5, <2>6 DEF Next
<1>2. CASE UNCHANGED vars
  <2>1. StoreInv'
    BY <1>2, StoreNextInv DEF vars, ScanInv
  <2>2. UNCHANGED <<config, ids, lastId>> /\ UNCHANGED <<rows, worker, rescan, grype>>
        /\ queue' \in Seq(ScanJob)
    BY <1>2 DEF vars, storeVars, scanVars, cluster, tables, ScanInv, ScanTypeOK
  <2> QED
    BY <1>2, <2>1, <2>2, EnqueueStepInv
<1> QED
  BY <1>1, <1>2

LEMMA ScanInvariant == Spec => []ScanInv
<1>1. ScanInv /\ [Next]_vars => ScanInv'
  BY ScanNextInv
<1> QED
  BY <1>1, ScanInitInv, PTL DEF Spec

\* The scan columns, the queue, the worker and the rescan job stay well-typed
\* beside the store.
THEOREM ScanTypeCorrect == Spec => []TypeOK
<1>1. ScanInv => TypeOK
  BY DEF ScanInv, ScanTypeOK, StoreInv, TypeOK
<1> QED
  BY <1>1, ScanInvariant, PTL

\* Scans do not disturb the container store: no container loses its image row.
THEOREM ImagesStayWithScans == Spec => []ContainersHaveImages
<1>1. ScanInv => ContainersHaveImages
  BY DEF ScanInv, StoreInv
<1> QED
  BY <1>1, ScanInvariant, PTL

\* StoreVulnerabilities never leaves a report or matches newer than the row's
\* grype_db_built, even when the row was deleted and created again half-way.
THEOREM ReportsNeverNewerThanClaimed == Spec => []NeverNewerThanClaimed
<1>1. ScanInv => NeverNewerThanClaimed
  BY DEF ScanInv, NeverAhead, Sound, NeverNewerThanClaimed
<1> QED
  BY <1>1, ScanInvariant, PTL

\* Without a failed write, a transient status is that of the image the worker is
\* on: crashes, failed retrievals and failed scans orphan nothing.
THEOREM TransientAlwaysOwned == Spec => []TransientOwned
<1>1. ScanInv => TransientOwned
  BY DEF ScanInv
<1> QED
  BY <1>1, ScanInvariant, PTL

\* No step, not even the restart or a failed rescan, loses a stored result or
\* replaces it by an older one while the row lives.
THEOREM ResultsAlwaysKept == Spec => ResultsKept
<1>1. ScanInv /\ [Next]_vars => [Kept]_vars
  BY ScanNextInv
<1>2. [][Kept]_vars => ResultsKept
  BY PTL DEF ResultsKept, Kept
<1> QED
  BY <1>1, <1>2, ScanInvariant, PTL DEF Spec
=============================================================================
