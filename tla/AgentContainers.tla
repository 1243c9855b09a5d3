--------------------------- MODULE AgentContainers ---------------------------
(***************************************************************************)
(* How the agent learns which containers run (src/bjorn2scan-agent/        *)
(* docker/): WatchContainers lists them once, then follows Docker's event  *)
(* stream, and opens it again when it breaks; the refresh-images job lists *)
(* them from time to time (refresh_trigger.go).  Both feed the manager and *)
(* the tables of ContainerStore, where pods are now Docker's containers,   *)
(* and run side by side; the cleanup job of the agent has no lister and    *)
(* removes only orphaned images.                                           *)
(*                                                                         *)
(* A list is a list of names; each container is then inspected by itself,  *)
(* and one that cannot be inspected is left out.  Events that happen while *)
(* the stream is not open are never delivered.                             *)
(***************************************************************************)
EXTENDS ContainerStore

CONSTANT MaxEvents    \* events under way  (model bound)

ASSUME EventsAssumption == MaxEvents \in Nat

VARIABLES
    watcher,   \* "sync" until the first list, then "open" or "closed", as the stream is
    events,    \* what the stream holds and the watcher has not handled
    listing    \* of the watcher's first list and of the refresh job

watcherVars == <<watcher, events, listing>>
agentVars == <<storeVars, watcherVars>>

Listers == {"watcher", "refresh"}
\* The names listed and not inspected yet, with what the list was made from,
\* and the containers extracted.
NoListing == [pc |-> "idle", todo |-> Nothing, found |-> Nothing]

AgentTypeOK ==
    /\ StoreTypeOK
    /\ boot = "syncing" /\ snapshot = Nothing
    /\ watcher \in {"sync", "open", "closed"}
    /\ listing \in [Listers -> [pc : {"idle", "inspect"}, todo : ContainerTable, found : ContainerTable]]
    /\ events \in Seq([action : {"start", "die"}, container : Containers, image : Digests])
    \* the watcher handles events only after its first list and while the
    \* stream is open, and lists only before
    /\ watcher # "open" => events = <<>>
    /\ watcher # "sync" => listing["watcher"] = NoListing

AgentInit ==
    /\ StoreInit
    /\ watcher = "sync"
    /\ events = <<>>
    /\ listing = [l \in Listers |-> NoListing]

-----------------------------------------------------------------------------
(* Docker *)

Event(a, c, d) == [action |-> a, container |-> c, image |-> d]
Deliver(es) == events' = IF watcher = "open" THEN events \o es ELSE events

\* A container starts, stops, or is replaced by one of the same name.
DockerChange(c) ==
    /\ churn < MaxChurn
    /\ Len(events) < MaxEvents
    /\ churn' = churn + 1
    /\ \E d \in (PodImages[c] \cup {NoDigest}) \ {pods[c]} :
        /\ pods' = [pods EXCEPT ![c] = d]
        /\ Deliver((IF pods[c] = NoDigest THEN <<>> ELSE <<Event("die", c, pods[c])>>)
                   \o (IF d = NoDigest THEN <<>> ELSE <<Event("start", c, d)>>))
    /\ UNCHANGED <<config, faults, manager, tables, startup, cleanup, watcher, listing>>

\* Any signal is a "kill" event, which the watcher takes for an end.
Signal(c) ==
    /\ churn < MaxChurn
    /\ Len(events) < MaxEvents
    /\ churn' = churn + 1
    /\ pods[c] # NoDigest
    /\ Deliver(<<Event("die", c, pods[c])>>)
    /\ UNCHANGED <<config, pods, faults, manager, tables, startup, cleanup, watcher, listing>>

\* What inspecting a container tells that ran image d when it was named, and is
\* asked for by its id: d as long as Docker keeps it, or an error when it has
\* been removed since, whatever has taken its name.
Inspected(c, d) == IF pods[c] = d THEN {d} ELSE {d, NoDigest}

-----------------------------------------------------------------------------
(* A list of all running containers: syncInitialContainers, TriggerRefresh *)

MayList(l) == IF l = "watcher" THEN watcher = "sync" ELSE TRUE

\* Nothing happens when Docker does not answer; the watcher goes on to the
\* events, the job waits for its next time.
ContainerList(l) ==
    /\ MayList(l)
    /\ listing[l].pc = "idle"
    /\ \/ /\ listing' = [listing EXCEPT ![l] = [pc |-> "inspect", todo |-> pods, found |-> Nothing]]
          /\ UNCHANGED <<faults, watcher>>
       \/ /\ Fails("docker")
          /\ watcher' = IF l = "watcher" THEN "closed" ELSE watcher
          /\ UNCHANGED listing
    /\ UNCHANGED <<cluster, manager, tables, startup, cleanup, events>>

\* extractContainer: one that cannot be inspected is skipped.
ExtractContainer(l, c) ==
    /\ listing[l].todo[c] # NoDigest
    /\ \/ /\ \E d \in Inspected(c, listing[l].todo[c]) :
                listing' = [listing EXCEPT ![l].todo[c] = NoDigest, ![l].found[c] = d]
          /\ UNCHANGED faults
       \/ Fails("docker") /\ listing' = [listing EXCEPT ![l].todo[c] = NoDigest]
    /\ UNCHANGED <<cluster, manager, tables, startup, cleanup, watcher, events>>

\* Mutant: the set is added to what is there.
MutReplace(found) == [c \in Containers |-> IF found[c] = NoDigest THEN mem[c] ELSE found[c]]
Replace(found) == found

\* Manager.SetContainers, under Manager.mu; db.SetContainers is one transaction.
SetContainers(l) ==
    /\ listing[l].pc = "inspect" /\ listing[l].todo = Nothing
    /\ adding = NoContainer
    /\ LET new == Replace(listing[l].found)
       IN  /\ mem' = new
           /\ \/ /\ containers' = new
                 /\ GetOrCreate(Used(new))
                 /\ UNCHANGED faults
              \/ Fails("write") /\ UNCHANGED tables
    /\ listing' = [listing EXCEPT ![l] = NoListing]
    /\ watcher' = IF l = "watcher" THEN "closed" ELSE watcher
    /\ UNCHANGED <<cluster, adding, startup, cleanup, events>>

-----------------------------------------------------------------------------
(* The event stream *)

\* cli.Events, the first time or a second after a break.
OpenStream ==
    /\ watcher = "closed"
    /\ watcher' = "open"
    /\ UNCHANGED <<storeVars, events, listing>>

\* Mutant: the events of the broken stream are handled all the same.
MutStreamBreaks ==
    /\ watcher = "open"
    /\ Fails("docker")
    /\ watcher' = "closed"
    /\ UNCHANGED <<cluster, manager, tables, startup, cleanup, listing, events>>

StreamBreaks ==
    /\ watcher = "open"
    /\ Fails("docker")
    /\ watcher' = "closed"
    /\ events' = <<>>
    /\ UNCHANGED <<cluster, manager, tables, startup, cleanup, listing>>

\* "start": the container is inspected and added; if it cannot be, it is not.
HandleStart ==
    /\ events # <<>>
    /\ LET e == Head(events)
       IN  /\ e.action = "start"
           /\ \/ \E d \in Inspected(e.container, e.image) \ {NoDigest} : Add(e.container, d)
              \/ /\ NoDigest \in Inspected(e.container, e.image)
                 /\ UNCHANGED storeVars
              \/ /\ Fails("docker")
                 /\ UNCHANGED <<cluster, manager, tables, startup, cleanup>>
    /\ events' = Tail(events)
    /\ UNCHANGED <<watcher, listing>>

\* "die", "kill", "stop": the name is that of the container inspected, or the
\* one the event gives.
HandleDie ==
    /\ events # <<>>
    /\ LET e == Head(events) IN e.action = "die" /\ Remove(e.container)
    /\ events' = Tail(events)
    /\ UNCHANGED <<watcher, listing>>

-----------------------------------------------------------------------------
\* CleanupOrphanedImagesJob without a lister.
AgentCleanupStart ==
    /\ config.cleanup
    /\ cleanup.pc = "idle"
    /\ cleanup' = [pc |-> "orphans", ids |-> {}]
    /\ UNCHANGED <<cluster, faults, manager, tables, startup>>

\* The agent dies and starts again.
AgentCrash ==
    /\ Crash
    /\ watcher' = "sync"
    /\ events' = <<>>
    /\ listing' = [l \in Listers |-> NoListing]

Listing(l) == ContainerList(l) \/ SetContainers(l) \/ \E c \in Containers : ExtractContainer(l, c)
Watch == OpenStream \/ HandleStart \/ HandleDie
Locked == FinishAdd /\ UNCHANGED watcherVars
Cleanup == (AgentCleanupStart \/ CleanupOrphanedImages) /\ UNCHANGED watcherVars

AgentNext ==
    \/ \E c \in Containers : DockerChange(c) \/ Signal(c)
    \/ \E l \in Listers : Listing(l)
    \/ Watch \/ StreamBreaks
    \/ Locked
    \/ Cleanup
    \/ AgentCrash

AgentSpec == AgentInit /\ [][AgentNext]_agentVars

\* The watcher and the jobs go on; Manager.mu is a Go mutex, which a waiting
\* goroutine gets in the end; Docker answers again.
AgentFairSpec ==
    /\ AgentSpec
    /\ SF_agentVars(Watch) /\ WF_agentVars(Locked) /\ WF_agentVars(Cleanup)
    /\ \A l \in Listers : SF_agentVars(Listing(l))

-----------------------------------------------------------------------------
(* Properties *)

\* Once containers no longer change, the manager and the table come to hold
\* exactly those that run: an event missed between the list and the stream or
\* while it was broken, a signal taken for an end, an event older than the last
\* refresh, a container that could not be inspected or a failed write last no
\* longer than to the next refresh.  With the cleanup job on, the images table
\* follows.
AgentConverges ==
    <>[](/\ containers = pods /\ mem = pods
         /\ config.cleanup => \A d \in Digests : Present(d) <=> d \in Used(pods))

=============================================================================
