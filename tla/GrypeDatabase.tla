---------------------------- MODULE GrypeDatabase -----------------------------
(***************************************************************************)
(* How a process keeps its vulnerability database: the rescan-database job *)
(* (src/scanner-core/jobs/rescan_database_job.go), run by the scheduler,   *)
(* the updater that loads and downloads the database                       *)
(* (vulndb/database_updater.go), the readiness the scan queue waits for    *)
(* (handlers/database_handlers.go) and the debug endpoint that deletes the *)
(* database and downloads it again (grype/grype.go).                       *)
(*                                                                         *)
(* A database is its version, 0 for none.  grype's loader is external: it  *)
(* keeps the file, replaces it by the newest one, or fails, and it removes *)
(* the old file before it moves the new one in.  What is reaped and        *)
(* which images are scanned again is module ImageScan; here the job asks   *)
(* for what was scanned with anything older than a version.                *)
(***************************************************************************)
EXTENDS Scheduler

CONSTANTS
    MaxVersion,    \* versions the feed publishes      (model bound)
    MaxUpsets      \* crashes of the process and re-initialisations over HTTP, the
                   \* latter one at a time             (model bound)

ASSUME GrypeAssumption == MaxVersion \in Nat \ {0} /\ MaxUpsets \in Nat
ASSUME RescanIsAJob == "rescan-database" \in Jobs

VARIABLES
    feed,       \* the newest version published
    disk,       \* the version in 6/vulnerability.db
    saved,      \* grype_db_timestamp in app_state
    current,    \* DatabaseUpdater.currentVersion
    holder,     \* the goroutine that holds DatabaseUpdater.mu
    local,      \* each run's step and variables
    ready,      \* DatabaseReadinessState.ready
    closes,     \* how often its waitCh has been closed
    asked,      \* the version images were last compared with
    handler,    \* the re-initialisation endpoint
    up,         \* the process runs
    upsets

updater == <<saved, current, holder>>
readiness == <<ready, closes>>
grypeVars == <<feed, disk, updater, local, readiness, asked, handler, up, upsets>>
vars == <<schedVars, grypeVars>>

Versions == 0 .. MaxVersion
NoOne == 0
Rest == [step |-> "begin", known |-> 0, changed |-> FALSE, built |-> 0]
Locals == [step : {"begin", "load", "save", "current", "setReady", "ask", "done"},
           known : Versions, changed : BOOLEAN, built : Versions]

TypeOK ==
    /\ SchedTypeOK
    /\ feed \in 1 .. MaxVersion
    /\ {disk, saved, current, asked} \subseteq Versions
    /\ holder \in Goroutines \cup {NoOne}
    /\ local \in [Goroutines -> Locals]
    /\ ready \in BOOLEAN /\ up \in BOOLEAN
    /\ closes \in 0 .. 2
    /\ handler \in {"idle", "delete", "init", "setReady"}
    /\ upsets \in 0 .. MaxUpsets
    \* the lock is held by a run in the middle of CheckForUpdates
    /\ \A g \in Goroutines : local[g].step \in {"load", "save"} <=> holder = g

Init ==
    /\ SchedInit
    /\ feed = 1 /\ disk = 0 /\ saved = 0 /\ current = 0 /\ asked = 0
    /\ holder = NoOne
    /\ local = [g \in Goroutines |-> Rest]
    /\ ready = FALSE /\ closes = 0
    /\ handler = "idle"
    /\ up = TRUE
    /\ upsets = 0

-----------------------------------------------------------------------------
(* RescanDatabaseJob.Run *)

InRun(g, step) == up /\ At(g, "running") /\ thread[g].job = "rescan-database" /\ local[g].step = step
Goto(g, step) == local' = [local EXCEPT ![g].step = step]
offRun == <<schedVars, feed, asked, handler, up, upsets>>

\* CheckForUpdates takes the lock and loads the timestamp.  Whether there is a
\* file before the load only decides what is logged.
CheckForUpdates(g) ==
    /\ InRun(g, "begin")
    /\ holder = NoOne
    /\ holder' = g
    /\ local' = [local EXCEPT ![g].step = "load", ![g].known = saved]
    /\ UNCHANGED <<offRun, disk, saved, current, readiness>>

\* Whether the database on disk is another than the last one recorded.
HasChanged(known, built) == known # 0 /\ built # known

\* What a usable file is taken for.
Accepted(g, built) ==
    /\ current' = built
    /\ local' = [local EXCEPT ![g].step = "save", ![g].built = built, ![g].known = 0,
                              ![g].changed = HasChanged(local[g].known, built)]
    /\ UNCHANGED <<saved, holder>>

\* The loader kept the file or replaced it, or it failed and left a file that
\* can be read: the disk is trusted either way.
LoadAccepted(g) ==
    /\ InRun(g, "load")
    /\ disk' \in {disk, feed} \ {0}
    /\ Accepted(g, disk')
    /\ UNCHANGED <<offRun, readiness>>

\* Mutant: the early return keeps the lock.
MutLoadFailed(g) ==
    /\ InRun(g, "load")
    /\ disk' = 0
    /\ Goto(g, "done")
    /\ UNCHANGED <<offRun, updater, readiness>>

\* The loader failed and there is no file, or no file any more.
LoadFailed(g) ==
    /\ InRun(g, "load")
    /\ disk' = 0
    /\ holder' = NoOne
    /\ Goto(g, "done")
    /\ UNCHANGED <<offRun, saved, current, readiness>>

\* SaveGrypeDBTimestamp, whose failure is only logged; then the unlock.
SaveTimestamp(g) ==
    /\ InRun(g, "save")
    /\ saved' \in {saved, local[g].built}
    /\ holder' = NoOne
    /\ Goto(g, "current")
    /\ UNCHANGED <<offRun, disk, current, readiness>>

\* Mutant: only a change is followed up.
MutGetCurrentVersion(g) ==
    /\ InRun(g, "current")
    /\ holder = NoOne
    /\ local' = [local EXCEPT ![g].built = current,
                              ![g].step = IF local[g].changed \/ ~ready THEN "setReady" ELSE "done"]
    /\ UNCHANGED <<offRun, disk, updater, readiness>>

\* GetCurrentVersion waits for the lock, and may find a later run's version.
GetCurrentVersion(g) ==
    /\ InRun(g, "current")
    /\ holder = NoOne
    /\ local' = [local EXCEPT ![g].step = IF current = 0 THEN "done" ELSE "setReady",
                              ![g].built = current]
    /\ UNCHANGED <<offRun, disk, updater, readiness>>

\* DatabaseReadinessState.SetReady: becoming ready closes the channel, and
\* closing it again panics, after ready has been set.
SetReady(available) ==
    /\ ready' = available
    /\ closes' = IF ~available \/ ready THEN closes ELSE IF closes = 0 THEN 1 ELSE 2
PanicsIfReady == ~ready /\ closes # 0

\* A panic in a job's goroutine ends the process.
JobSetReady(g) ==
    /\ InRun(g, "setReady")
    /\ SetReady(TRUE)
    /\ up' = ~PanicsIfReady
    /\ Goto(g, "ask")
    /\ UNCHANGED <<schedVars, feed, asked, handler, upsets, disk, updater>>

\* GetImagesNeedingRescan and the scans it leads to.
Ask(g) ==
    /\ InRun(g, "ask")
    /\ asked' = local[g].built
    /\ local' = [local EXCEPT ![g] = [Rest EXCEPT !.step = "done"]]
    /\ UNCHANGED <<schedVars, feed, handler, up, upsets, disk, updater, readiness>>

\* The run of any job ends; what the others do does not matter here.
Finish(g) ==
    /\ up
    /\ thread[g].job = "rescan-database" => local[g].step = "done"
    /\ Return(g)
    /\ local' = [local EXCEPT ![g] = Rest]
    /\ UNCHANGED <<feed, disk, updater, readiness, asked, handler, up, upsets>>

RunStep(g) ==
    \/ CheckForUpdates(g) \/ LoadAccepted(g) \/ LoadFailed(g) \/ SaveTimestamp(g)
    \/ GetCurrentVersion(g) \/ JobSetReady(g) \/ Ask(g) \/ Finish(g)

-----------------------------------------------------------------------------
(* DatabaseReinitHandler, with debug mode on; it takes no lock *)

offHandler == <<schedVars, feed, updater, local, asked, up>>

ReinitRequest ==
    /\ up /\ ctx # "nil" /\ handler = "idle"
    /\ upsets < MaxUpsets
    /\ upsets' = upsets + 1
    /\ SetReady(FALSE)
    /\ handler' = "delete"
    /\ UNCHANGED <<offHandler, disk>>

\* DeleteDatabase; an error leaves the state not ready.
ReinitDelete ==
    /\ up /\ handler = "delete"
    /\ \/ disk' = 0 /\ handler' = "init"
       \/ disk' = disk /\ handler' = "idle"
    /\ UNCHANGED <<offHandler, readiness, upsets>>

\* InitializeDatabase: the loader again, beside the updater's.
ReinitLoad ==
    /\ up /\ handler = "init"
    /\ \/ disk' \in {disk, feed} \ {0} /\ handler' = "setReady"
       \/ disk' = 0 /\ handler' = "idle"
    /\ UNCHANGED <<offHandler, readiness, upsets>>

\* A panic here is recovered by net/http, with the state already set.
ReinitSetReady ==
    /\ up /\ handler = "setReady"
    /\ SetReady(TRUE)
    /\ handler' = "idle"
    /\ UNCHANGED <<offHandler, disk, upsets>>

Reinit == ReinitRequest \/ ReinitDelete \/ ReinitLoad \/ ReinitSetReady

-----------------------------------------------------------------------------
(* The environment *)

Publish ==
    /\ feed < MaxVersion
    /\ feed' = feed + 1
    /\ UNCHANGED <<schedVars, disk, updater, local, readiness, asked, handler, up, upsets>>

\* The process dies; in the middle of a load it may leave no file.
Crash ==
    /\ up
    /\ upsets < MaxUpsets
    /\ upsets' = upsets + 1
    /\ up' = FALSE
    /\ disk' \in {disk} \cup IF holder # NoOne THEN {0} ELSE {}
    /\ UNCHANGED <<schedVars, feed, updater, local, readiness, asked, handler>>

\* A new process: its memory is empty, the file and app_state are kept.
Restart ==
    /\ ~up
    /\ up' = TRUE
    /\ jobs' = {} /\ ctx' = "nil" /\ timers' = [j \in Jobs |-> 0]
    /\ thread' = [g \in Goroutines |-> Free]
    /\ current' = 0 /\ holder' = NoOne
    /\ local' = [g \in Goroutines |-> Rest]
    /\ ready' = FALSE /\ closes' = 0
    /\ handler' = "idle"
    /\ UNCHANGED <<manual, feed, disk, saved, asked, upsets>>

\* The agent's main asks for the database on disk before it adds a job, without
\* loading another one.
GetCurrentStatus ==
    /\ up /\ ctx = "nil" /\ jobs = {}
    /\ disk # 0
    /\ current' = disk
    /\ UNCHANGED <<schedVars, feed, disk, saved, holder, local, readiness, asked, handler, up, upsets>>

Next ==
    \/ GetCurrentStatus
    \/ up /\ SchedStep /\ UNCHANGED grypeVars
    \/ up /\ (\E g \in Goroutines, j \in Jobs : RunJobNow(g, j)) /\ UNCHANGED grypeVars
    \/ up /\ (\E g \in Goroutines : Begin(g)) /\ UNCHANGED grypeVars
    \/ \E g \in Goroutines : RunStep(g)
    \/ Reinit
    \/ Publish
    \/ Crash
    \/ Restart

\* The runtime runs every goroutine and its mutexes starve none, a timer that
\* is armed fires, a process that died is restarted, and a download that can
\* be tried again and again succeeds at some point.  Nobody has to trigger,
\* stop, publish or crash.
Fairness ==
    /\ WF_vars(Restart)
    /\ WF_vars(up /\ (Start \/ \E j \in Jobs : AddJob(j)) /\ UNCHANGED grypeVars)
    /\ \A g \in Goroutines :
        /\ WF_vars(up /\ (CheckContext(g) \/ Begin(g)) /\ UNCHANGED grypeVars)
        /\ SF_vars(RunStep(g))
    /\ \A j \in Jobs : WF_vars(up /\ (\E g \in Goroutines : Fire(g, j)) /\ UNCHANGED grypeVars)
    /\ SF_vars(\E g \in Goroutines : LoadAccepted(g) /\ disk' = feed)
    /\ WF_vars(ReinitDelete \/ ReinitLoad \/ ReinitSetReady)

Spec == Init /\ [][Next]_vars
LiveSpec == Spec /\ Fairness

-----------------------------------------------------------------------------
(* Properties *)

\* A process that was told to stop comes to rest, whatever run was between
\* the look at the context and the WaitGroup when Stop came.
StopQuiesces == (up /\ ctx = "cancelled") ~> (~up \/ Quiet)

\* In the end the process is ready and has asked for everything scanned with
\* anything older than the newest version, or it has been stopped: whatever
\* crashed, between the download, the saved timestamp and the question too,
\* whichever timestamp could not be saved, and however runs overlapped.
SettlesOnLatest == <>[](ctx = "cancelled" \/ (ready /\ asked = feed))

\* The comment on closing the wait channel: "Signal waiters when becoming
\* ready for the first time".
ClosedOnce == closes <= 1

=============================================================================
