------------------------- MODULE GrypeDatabaseProofs -------------------------
(***************************************************************************)
(* Type correctness of GrypeDatabase and the safety of the scheduler it is *)
(* composed with, for every set of jobs, number of goroutines, of manual   *)
(* runs, versions, crashes and re-initialisations.                         *)
(*                                                                         *)
(* That a job has one timer is not inductive: that a run arms the next one *)
(* is sound because no other run of the job is timed and no timer of it is *)
(* armed (SingleTimer); Start may arm them because nothing was under way   *)
(* (Unstarted), and a goroutine that rests leaves no claim (FreeRests).    *)
(* The lock of the updater is held by one run only because a goroutine     *)
(* that is not on the rescan job has no step of it (OnJob).                *)
(***************************************************************************)
EXTENDS GrypeDatabase, FiniteSetTheorems, TLAPS

Timed(g, j) == thread[g].timer /\ thread[g].job = j

SingleTimer ==
    \A j \in Jobs :
        /\ timers[j] \in 0 .. 1
        /\ \A g \in Goroutines :
            Timed(g, j) => timers[j] = 0 /\ \A h \in Goroutines : Timed(h, j) => h = g

Unstarted == ctx = "nil" => /\ \A j \in Jobs : timers[j] = 0
                            /\ \A g \in Goroutines : At(g, "none")

FreeRests == \A g \in Goroutines : IF At(g, "none") THEN ~thread[g].timer
                                  ELSE thread[g].job \in Jobs

OnJob == \A g \in Goroutines :
            local[g].step # "begin" => At(g, "running") /\ thread[g].job = "rescan-database"

SchedInv == SchedTypeOK /\ SingleTimer /\ Unstarted /\ FreeRests

UpdaterTypeOK ==
    /\ feed \in 1 .. MaxVersion
    /\ {disk, saved, current, asked} \subseteq Versions
    /\ holder \in Goroutines \cup {NoOne}
    /\ local \in [Goroutines -> Locals]
    /\ ready \in BOOLEAN /\ up \in BOOLEAN
    /\ closes \in 0 .. 2
    /\ handler \in {"idle", "delete", "init", "setReady"}
    /\ upsets \in 0 .. MaxUpsets

LockOK == \A g \in Goroutines : local[g].step \in {"load", "save"} <=> holder = g

IInv == SchedInv /\ UpdaterTypeOK /\ LockOK /\ OnJob

LEMMA Goroutine == Goroutines \subseteq Nat \ {0} /\ NoOne \notin Goroutines
BY SchedulerAssumption DEF Goroutines, NoOne

LEMMA IInvType == IInv => TypeOK
BY DEF IInv, SchedInv, UpdaterTypeOK, LockOK, TypeOK

-----------------------------------------------------------------------------
(* The scheduler *)

LEMMA SchedInitInv == SchedInit => SchedInv
BY SchedulerAssumption DEF SchedInit, SchedInv, SchedTypeOK, SingleTimer, Unstarted, FreeRests,
    Timed, At, Free, Threads

LEMMA AddJobInv == ASSUME SchedInv, NEW j \in Jobs, AddJob(j) PROVE SchedInv'
BY DEF AddJob, SchedInv, SchedTypeOK, SingleTimer, Unstarted, FreeRests, Timed, At

LEMMA StartInv == ASSUME SchedInv, Start PROVE SchedInv'
BY DEF Start, SchedInv, SchedTypeOK, SingleTimer, Unstarted, FreeRests, Timed, At

LEMMA FireInv ==
    ASSUME SchedInv, NEW g \in Goroutines, NEW j \in Jobs, Fire(g, j) PROVE SchedInv'
<1> USE DEF SchedInv
<1>1. SchedTypeOK'
    BY DEF Fire, SchedTypeOK, SingleTimer, Threads
<1>2. timers[j] = 1 /\ timers'[j] = 0 /\ \A i \in Jobs \ {j} : timers'[i] = timers[i]
    BY DEF Fire, SchedTypeOK, SingleTimer
<1>3. /\ thread'[g] = [pc |-> "fired", job |-> j, timer |-> TRUE]
      /\ \A h \in Goroutines \ {g} : thread'[h] = thread[h]
    BY DEF Fire, SchedTypeOK
<1>4. ~thread[g].timer
    BY DEF Fire, Fresh, FreeRests
<1>5. SingleTimer'
    BY <1>2, <1>3, <1>4 DEF SingleTimer, Timed
<1>6. Unstarted' /\ FreeRests'
    BY <1>2, <1>3 DEF Unstarted, FreeRests, At, Fire
<1> QED BY <1>1, <1>5, <1>6

LEMMA CheckContextInv ==
    ASSUME SchedInv, NEW g \in Goroutines, CheckContext(g) PROVE SchedInv'
<1> USE DEF SchedInv
<1>1. SchedTypeOK'
    BY DEF CheckContext, SchedTypeOK, Threads, Free
<1>2. /\ \A h \in Goroutines \ {g} : thread'[h] = thread[h]
      /\ \/ thread'[g] = Free
         \/ /\ thread'[g].timer = thread[g].timer /\ thread'[g].job = thread[g].job
            /\ thread'[g].pc = "checked"
    BY DEF CheckContext, SchedTypeOK, Threads
<1>3. SingleTimer'
    BY <1>2 DEF CheckContext, SingleTimer, Timed, Free
<1>4. Unstarted' /\ FreeRests'
    BY <1>2 DEF CheckContext, Unstarted, FreeRests, At, Free
<1> QED BY <1>1, <1>3, <1>4

LEMMA BeginInv == ASSUME SchedInv, NEW g \in Goroutines, Begin(g) PROVE SchedInv'
<1> USE DEF SchedInv
<1>1. SchedTypeOK'
    BY DEF Begin, SchedTypeOK, Threads
<1>2. /\ \A h \in Goroutines \ {g} : thread'[h] = thread[h]
      /\ thread'[g].timer = thread[g].timer /\ thread'[g].job = thread[g].job
      /\ thread'[g].pc = "running"
    BY DEF Begin, SchedTypeOK, Threads
<1>3. SingleTimer' /\ Unstarted' /\ FreeRests'
    BY <1>2 DEF Begin, SingleTimer, Timed, Unstarted, FreeRests, At
<1> QED BY <1>1, <1>3

\* The run that a timer started arms the next, in its own place.
LEMMA ReturnInv ==
    ASSUME SchedInv, NEW g \in Goroutines, Return(g) PROVE SchedInv'
<1> USE DEF SchedInv
<1>1. /\ thread'[g] = Free
      /\ \A h \in Goroutines \ {g} : thread'[h] = thread[h]
    BY DEF Return, SchedTypeOK
<1>2. \A j \in Jobs : timers'[j] = IF Timed(g, j) THEN timers[j] + 1 ELSE timers[j]
    BY DEF Return, SchedTypeOK, Timed
<1>3. SingleTimer'
    BY <1>1, <1>2 DEF SingleTimer, Timed, Free
<1>4. timers' \in [Jobs -> 0 .. 2]
  <2>1. DOMAIN timers' = Jobs /\ timers' = [j \in Jobs |-> timers'[j]]
      BY DEF Return, SchedTypeOK
  <2>2. \A j \in Jobs : timers'[j] \in 0 .. 2
      BY <1>3 DEF SingleTimer
  <2> QED BY <2>1, <2>2
<1>5. SchedTypeOK'
    BY <1>4 DEF Return, SchedTypeOK, Threads, Free
<1>6. Unstarted' /\ FreeRests'
    BY <1>1, <1>2 DEF Return, Unstarted, FreeRests, At, Free
<1> QED BY <1>3, <1>5, <1>6

LEMMA RunJobNowInv ==
    ASSUME SchedInv, NEW g \in Goroutines, NEW j \in Jobs, RunJobNow(g, j) PROVE SchedInv'
<1> USE DEF SchedInv
<1>1. SchedTypeOK'
    BY SchedulerAssumption DEF RunJobNow, SchedTypeOK, Threads
<1>2. /\ thread'[g] = [pc |-> "running", job |-> j, timer |-> FALSE]
      /\ \A h \in Goroutines \ {g} : thread'[h] = thread[h]
    BY DEF RunJobNow, SchedTypeOK
<1>3. SingleTimer' /\ Unstarted' /\ FreeRests'
    BY <1>2 DEF RunJobNow, SingleTimer, Timed, Unstarted, FreeRests, At
<1> QED BY <1>1, <1>3

LEMMA StopInv == ASSUME SchedInv, Stop PROVE SchedInv'
BY DEF Stop, SchedInv, SchedTypeOK, SingleTimer, Unstarted, FreeRests, Timed, At

LEMMA SchedInvStutters == ASSUME SchedInv, UNCHANGED schedVars PROVE SchedInv'
BY DEF schedVars, SchedInv, SchedTypeOK, SingleTimer, Unstarted, FreeRests, Timed, At

-----------------------------------------------------------------------------
(* The updater: CheckForUpdates takes the lock for one run, and its three  *)
(* ways out give it back.                                                  *)

LEMMA RestOK == 0 \in Versions /\ Rest \in Locals /\ [Rest EXCEPT !.step = "done"] \in Locals
<1>1. 0 \in Versions
    BY GrypeAssumption DEF Versions
<1> QED BY <1>1 DEF Rest, Locals

LEMMA InitInv == Init => IInv
<1> SUFFICES ASSUME Init PROVE IInv
    OBVIOUS
<1>1. SchedInv
    BY SchedInitInv DEF Init
<1>2. UpdaterTypeOK
  <2>1. feed \in 1 .. MaxVersion /\ upsets \in 0 .. MaxUpsets /\ closes \in 0 .. 2
      BY GrypeAssumption DEF Init
  <2>2. {disk, saved, current, asked} \subseteq Versions
      BY RestOK DEF Init
  <2>3. local \in [Goroutines -> Locals]
      BY RestOK DEF Init
  <2> QED BY <2>1, <2>2, <2>3 DEF Init, UpdaterTypeOK
<1>3. LockOK /\ OnJob
    BY Goroutine DEF Init, LockOK, OnJob, Rest
<1> QED BY <1>1, <1>2, <1>3 DEF IInv

\* A goroutine that changes its step, and holds the lock before and after just
\* when its step says so, leaves the others' claims alone.
LEMMA Step ==
    ASSUME IInv, NEW g \in Goroutines, InRun(g, local[g].step), NEW l \in Locals,
           UNCHANGED thread, local' = [local EXCEPT ![g] = l],
           \/ local[g].step \in {"load", "save"} /\ l.step \in {"load", "save"} /\ holder' = holder
           \/ local[g].step \in {"load", "save"} /\ l.step \notin {"load", "save"} /\ holder' = NoOne
           \/ local[g].step \notin {"load", "save"} /\ l.step \notin {"load", "save"} /\ holder' = holder
           \/ holder = NoOne /\ l.step \in {"load", "save"} /\ holder' = g
    PROVE  LockOK' /\ OnJob' /\ local' \in [Goroutines -> Locals]
                   /\ holder' \in Goroutines \cup {NoOne}
<1>1. local \in [Goroutines -> Locals]
    BY DEF IInv, UpdaterTypeOK
<1>2. local'[g] = l /\ \A h \in Goroutines \ {g} : local'[h] = local[h]
    BY <1>1
<1>3. LockOK'
    BY <1>2, Goroutine DEF IInv, LockOK
<1>4. OnJob'
    BY <1>2 DEF IInv, OnJob, InRun, At
<1>5. local' \in [Goroutines -> Locals]
    BY <1>1
<1>6. holder' \in Goroutines \cup {NoOne}
    BY DEF IInv, UpdaterTypeOK
<1> QED BY <1>3, <1>4, <1>5, <1>6

LEMMA CheckForUpdatesInv ==
    ASSUME IInv, NEW g \in Goroutines, CheckForUpdates(g) PROVE IInv'
<1> DEFINE l == [local[g] EXCEPT !.step = "load", !.known = saved]
<1>1. local[g] \in Locals /\ saved \in Versions
    BY DEF IInv, UpdaterTypeOK
<1>2. l \in Locals /\ l.step = "load"
    BY <1>1 DEF Locals
<1>3. /\ local' = [local EXCEPT ![g] = l] /\ InRun(g, local[g].step)
      /\ holder = NoOne /\ holder' = g /\ UNCHANGED <<schedVars, thread>>
    BY DEF CheckForUpdates, offRun, schedVars, InRun
<1> HIDE DEF l
<1>4. LockOK' /\ OnJob' /\ local' \in [Goroutines -> Locals] /\ holder' \in Goroutines \cup {NoOne}
    BY <1>2, <1>3, Step
<1>5. UpdaterTypeOK'
    BY <1>4 DEF IInv, UpdaterTypeOK, CheckForUpdates, offRun, readiness
<1> QED BY <1>3, <1>4, <1>5, SchedInvStutters DEF IInv

LEMMA LoadAcceptedInv ==
    ASSUME IInv, NEW g \in Goroutines, LoadAccepted(g) PROVE IInv'
<1> DEFINE l == [local[g] EXCEPT !.step = "save", !.built = disk', !.known = 0,
                                 !.changed = HasChanged(local[g].known, disk')]
<1>1. local[g] \in Locals /\ disk' \in Versions
    BY DEF IInv, UpdaterTypeOK, LoadAccepted, Versions
<1>2. l \in Locals /\ l.step = "save"
    BY <1>1, RestOK DEF Locals, HasChanged
<1>3. /\ local' = [local EXCEPT ![g] = l] /\ InRun(g, local[g].step) /\ local[g].step = "load"
      /\ holder' = holder /\ UNCHANGED <<schedVars, thread>>
    BY DEF LoadAccepted, Accepted, offRun, schedVars, InRun
<1> HIDE DEF l
<1>4. LockOK' /\ OnJob' /\ local' \in [Goroutines -> Locals] /\ holder' \in Goroutines \cup {NoOne}
    BY <1>2, <1>3, Step
<1>5. UpdaterTypeOK'
    BY <1>1, <1>4 DEF IInv, UpdaterTypeOK, LoadAccepted, Accepted, offRun, readiness
<1> QED BY <1>3, <1>4, <1>5, SchedInvStutters DEF IInv

LEMMA LoadFailedInv ==
    ASSUME IInv, NEW g \in Goroutines, LoadFailed(g) PROVE IInv'
<1> DEFINE l == [local[g] EXCEPT !.step = "done"]
<1>1. local[g] \in Locals
    BY DEF IInv, UpdaterTypeOK
<1>2. l \in Locals /\ l.step = "done"
    BY <1>1 DEF Locals
<1>3. /\ local' = [local EXCEPT ![g] = l] /\ InRun(g, local[g].step) /\ local[g].step = "load"
      /\ holder' = NoOne /\ UNCHANGED <<schedVars, thread>>
    BY DEF LoadFailed, Goto, offRun, schedVars, InRun
<1> HIDE DEF l
<1>4. LockOK' /\ OnJob' /\ local' \in [Goroutines -> Locals] /\ holder' \in Goroutines \cup {NoOne}
    BY <1>2, <1>3, Step
<1>5. UpdaterTypeOK'
    BY <1>4, RestOK DEF IInv, UpdaterTypeOK, LoadFailed, offRun, readiness
<1> QED BY <1>3, <1>4, <1>5, SchedInvStutters DEF IInv

LEMMA SaveTimestampInv ==
    ASSUME IInv, NEW g \in Goroutines, SaveTimestamp(g) PROVE IInv'
<1> DEFINE l == [local[g] EXCEPT !.step = "current"]
<1>1. local[g] \in Locals /\ local[g].built \in Versions
    BY DEF IInv, UpdaterTypeOK, Locals
<1>2. l \in Locals /\ l.step = "current"
    BY <1>1 DEF Locals
<1>3. /\ local' = [local EXCEPT ![g] = l] /\ InRun(g, local[g].step) /\ local[g].step = "save"
      /\ holder' = NoOne /\ UNCHANGED <<schedVars, thread>>
    BY DEF SaveTimestamp, Goto, offRun, schedVars, InRun
<1> HIDE DEF l
<1>4. LockOK' /\ OnJob' /\ local' \in [Goroutines -> Locals] /\ holder' \in Goroutines \cup {NoOne}
    BY <1>2, <1>3, Step
<1>5. UpdaterTypeOK'
    BY <1>1, <1>4 DEF IInv, UpdaterTypeOK, SaveTimestamp, offRun, readiness
<1> QED BY <1>3, <1>4, <1>5, SchedInvStutters DEF IInv

LEMMA GetCurrentVersionInv ==
    ASSUME IInv, NEW g \in Goroutines, GetCurrentVersion(g) PROVE IInv'
<1> DEFINE l == [local[g] EXCEPT !.step = IF current = 0 THEN "done" ELSE "setReady",
                                 !.built = current]
<1>1. local[g] \in Locals /\ current \in Versions
    BY DEF IInv, UpdaterTypeOK
<1>2. l \in Locals /\ l.step \in {"done", "setReady"}
    BY <1>1 DEF Locals
<1>3. /\ local' = [local EXCEPT ![g] = l] /\ InRun(g, local[g].step) /\ local[g].step = "current"
      /\ holder' = holder /\ UNCHANGED <<schedVars, thread>>
    BY DEF GetCurrentVersion, offRun, updater, schedVars, InRun
<1> HIDE DEF l
<1>4. LockOK' /\ OnJob' /\ local' \in [Goroutines -> Locals] /\ holder' \in Goroutines \cup {NoOne}
    BY <1>2, <1>3, Step
<1>5. UpdaterTypeOK'
    BY <1>4 DEF IInv, UpdaterTypeOK, GetCurrentVersion, offRun, updater, readiness
<1> QED BY <1>3, <1>4, <1>5, SchedInvStutters DEF IInv

LEMMA SetReadyType ==
    ASSUME UpdaterTypeOK, NEW b \in BOOLEAN, SetReady(b) PROVE ready' \in BOOLEAN /\ closes' \in 0 .. 2
BY DEF UpdaterTypeOK, SetReady

LEMMA JobSetReadyInv ==
    ASSUME IInv, NEW g \in Goroutines, JobSetReady(g) PROVE IInv'
<1> DEFINE l == [local[g] EXCEPT !.step = "ask"]
<1>1. local[g] \in Locals
    BY DEF IInv, UpdaterTypeOK
<1>2. l \in Locals /\ l.step = "ask"
    BY <1>1 DEF Locals
<1>3. /\ local' = [local EXCEPT ![g] = l] /\ InRun(g, local[g].step) /\ local[g].step = "setReady"
      /\ holder' = holder /\ UNCHANGED <<schedVars, thread>>
    BY DEF JobSetReady, Goto, updater, schedVars, InRun
<1> HIDE DEF l
<1>4. LockOK' /\ OnJob' /\ local' \in [Goroutines -> Locals] /\ holder' \in Goroutines \cup {NoOne}
    BY <1>2, <1>3, Step
<1>5. ready' \in BOOLEAN /\ closes' \in 0 .. 2 /\ up' \in BOOLEAN
    BY SetReadyType DEF IInv, JobSetReady
<1>6. UpdaterTypeOK'
    BY <1>4, <1>5 DEF IInv, UpdaterTypeOK, JobSetReady, updater
<1> QED BY <1>3, <1>4, <1>6, SchedInvStutters DEF IInv

LEMMA AskInv == ASSUME IInv, NEW g \in Goroutines, Ask(g) PROVE IInv'
<1> DEFINE l == [Rest EXCEPT !.step = "done"]
<1>1. local[g].built \in Versions
    BY DEF IInv, UpdaterTypeOK, Locals
<1>2. l \in Locals /\ l.step = "done"
    BY RestOK DEF Rest
<1>3. /\ local' = [local EXCEPT ![g] = l] /\ InRun(g, local[g].step) /\ local[g].step = "ask"
      /\ holder' = holder /\ UNCHANGED <<schedVars, thread>>
    BY DEF Ask, updater, schedVars, InRun
<1> HIDE DEF l
<1>4. LockOK' /\ OnJob' /\ local' \in [Goroutines -> Locals] /\ holder' \in Goroutines \cup {NoOne}
    BY <1>2, <1>3, Step
<1>5. UpdaterTypeOK'
    BY <1>1, <1>4 DEF IInv, UpdaterTypeOK, Ask, updater, readiness
<1> QED BY <1>3, <1>4, <1>5, SchedInvStutters DEF IInv

\* A run that ends is not in the middle of CheckForUpdates.
LEMMA FinishInv == ASSUME IInv, NEW g \in Goroutines, Finish(g) PROVE IInv'
<1>1. SchedInv'
    BY ReturnInv DEF IInv, Finish
<1>2. /\ thread'[g] = Free /\ \A h \in Goroutines \ {g} : thread'[h] = thread[h]
      /\ local'[g] = Rest /\ \A h \in Goroutines \ {g} : local'[h] = local[h]
    BY DEF IInv, SchedInv, SchedTypeOK, UpdaterTypeOK, Finish, Return
<1>3. local[g].step \notin {"load", "save"} /\ holder' = holder
    BY DEF Finish, IInv, OnJob, updater
<1>4. LockOK' /\ OnJob'
    BY <1>2, <1>3 DEF IInv, LockOK, OnJob, Rest, At
<1>5. UpdaterTypeOK'
    BY RestOK DEF IInv, UpdaterTypeOK, Finish, updater, readiness
<1> QED BY <1>1, <1>4, <1>5 DEF IInv

LEMMA RunStepInv == ASSUME IInv, NEW g \in Goroutines, RunStep(g) PROVE IInv'
BY CheckForUpdatesInv, LoadAcceptedInv, LoadFailedInv, SaveTimestampInv, GetCurrentVersionInv,
    JobSetReadyInv, AskInv, FinishInv DEF RunStep

-----------------------------------------------------------------------------
(* The endpoint, the environment, and the scheduler beside the updater     *)

\* What neither touches the scheduler, nor the lock, nor a run.
LEMMA Aside == ASSUME IInv, UNCHANGED <<schedVars, local, holder>>, UpdaterTypeOK' PROVE IInv'
<1>1. LockOK' /\ OnJob'
    BY DEF IInv, LockOK, OnJob, schedVars, At
<1> QED BY <1>1, SchedInvStutters DEF IInv

LEMMA ReinitInv == ASSUME IInv, Reinit PROVE IInv'
<1>1. CASE ReinitRequest
  <2>1. ready' \in BOOLEAN /\ closes' \in 0 .. 2
      BY <1>1, SetReadyType DEF IInv, ReinitRequest
  <2>2. upsets' \in 0 .. MaxUpsets
      BY <1>1, GrypeAssumption DEF IInv, UpdaterTypeOK, ReinitRequest
  <2>3. UpdaterTypeOK'
      BY <1>1, <2>1, <2>2 DEF IInv, UpdaterTypeOK, ReinitRequest, offHandler, updater
  <2> QED BY <1>1, <2>3, Aside DEF ReinitRequest, offHandler, updater
<1>2. CASE ReinitDelete
  <2>1. UpdaterTypeOK'
      BY <1>2, RestOK DEF IInv, UpdaterTypeOK, ReinitDelete, offHandler, updater, readiness
  <2> QED BY <1>2, <2>1, Aside DEF ReinitDelete, offHandler, updater
<1>3. CASE ReinitLoad
  <2>1. disk' \in Versions
      BY <1>3, RestOK DEF IInv, UpdaterTypeOK, ReinitLoad, Versions
  <2>2. UpdaterTypeOK'
      BY <1>3, <2>1 DEF IInv, UpdaterTypeOK, ReinitLoad, offHandler, updater, readiness
  <2> QED BY <1>3, <2>2, Aside DEF ReinitLoad, offHandler, updater
<1>4. CASE ReinitSetReady
  <2>1. ready' \in BOOLEAN /\ closes' \in 0 .. 2
      BY <1>4, SetReadyType DEF IInv, ReinitSetReady
  <2>2. UpdaterTypeOK'
      BY <1>4, <2>1 DEF IInv, UpdaterTypeOK, ReinitSetReady, offHandler, updater
  <2> QED BY <1>4, <2>2, Aside DEF ReinitSetReady, offHandler, updater
<1> QED BY <1>1, <1>2, <1>3, <1>4 DEF Reinit

LEMMA PublishInv == ASSUME IInv, Publish PROVE IInv'
<1>1. UpdaterTypeOK'
    BY GrypeAssumption DEF IInv, UpdaterTypeOK, Publish, updater, readiness
<1> QED BY <1>1, Aside DEF Publish, updater

LEMMA GetCurrentStatusInv == ASSUME IInv, GetCurrentStatus PROVE IInv'
<1>1. UpdaterTypeOK'
    BY DEF IInv, UpdaterTypeOK, GetCurrentStatus, readiness
<1> QED BY <1>1, Aside DEF GetCurrentStatus

LEMMA CrashInv == ASSUME IInv, Crash PROVE IInv'
<1>1. disk' \in Versions
    BY RestOK DEF IInv, UpdaterTypeOK, Crash
<1>2. upsets' \in 0 .. MaxUpsets
    BY GrypeAssumption DEF IInv, UpdaterTypeOK, Crash
<1>3. up' \in BOOLEAN
    BY DEF Crash
<1>4. UpdaterTypeOK'
    BY <1>1, <1>2, <1>3 DEF IInv, UpdaterTypeOK, Crash, updater, readiness
<1> QED BY <1>4, Aside DEF Crash, updater

LEMMA RestartInv == ASSUME IInv, Restart PROVE IInv'
<1>1. SchedInv'
    BY SchedulerAssumption DEF IInv, Restart, SchedInv, SchedTypeOK, SingleTimer, Unstarted, FreeRests,
        Timed, At, Free, Threads
<1>2. local' \in [Goroutines -> Locals] /\ holder' \in Goroutines \cup {NoOne}
    BY RestOK DEF Restart
<1>3. {disk', saved', current', asked'} \subseteq Versions
    BY RestOK DEF IInv, UpdaterTypeOK, Restart
<1>4. up' \in BOOLEAN /\ ready' \in BOOLEAN
    BY DEF Restart
<1>5. closes' \in 0 .. 2 /\ handler' \in {"idle", "delete", "init", "setReady"}
    BY DEF Restart
<1>6. feed' \in 1 .. MaxVersion /\ upsets' \in 0 .. MaxUpsets
    BY DEF IInv, UpdaterTypeOK, Restart
<1>7. UpdaterTypeOK'
    BY <1>2, <1>3, <1>4, <1>5, <1>6 DEF UpdaterTypeOK
<1>8. LockOK' /\ OnJob'
    BY Goroutine DEF Restart, LockOK, OnJob, Rest
<1> QED BY <1>1, <1>7, <1>8 DEF IInv

\* Only a goroutine that rests, or has yet to begin, is changed from outside.
LEMMA SchedStepInv ==
    ASSUME IInv, UNCHANGED grypeVars,
           \/ SchedStep
           \/ \E g \in Goroutines, j \in Jobs : RunJobNow(g, j)
           \/ \E g \in Goroutines : Begin(g)
    PROVE  IInv'
<1>1. SchedInv'
    BY AddJobInv, StartInv, FireInv, CheckContextInv, BeginInv, RunJobNowInv, StopInv
        DEF IInv, SchedStep
<1>2. LockOK' /\ UpdaterTypeOK'
    BY DEF IInv, LockOK, UpdaterTypeOK, grypeVars, updater, readiness
<1>3. \A h \in Goroutines : At(h, "running") => thread'[h] = thread[h]
    BY DEF IInv, SchedInv, SchedTypeOK, SchedStep, AddJob, Start, Fire, Fresh, CheckContext, Stop,
        RunJobNow, Begin, At
<1>4. OnJob'
    BY <1>3 DEF IInv, OnJob, grypeVars, At
<1> QED BY <1>1, <1>2, <1>4 DEF IInv

LEMMA NextInv == ASSUME IInv, [Next]_vars PROVE IInv'
<1>1. CASE UNCHANGED vars
    BY <1>1, Aside DEF IInv, UpdaterTypeOK, vars, grypeVars, updater, readiness
<1>2. CASE Next
    BY <1>2, SchedStepInv, RunStepInv, ReinitInv, PublishInv, CrashInv, RestartInv,
        GetCurrentStatusInv DEF Next
<1> QED BY <1>1, <1>2

-----------------------------------------------------------------------------
(* Theorems *)

\* Every value stays in its type, and the updater's lock is held by the run
\* that is between its load and its save, and by no other.
THEOREM GrypeTypeCorrect == Spec => []TypeOK
<1>1. Spec => []IInv
    BY InitInv, NextInv, PTL DEF Spec
<1> QED BY <1>1, IInvType, PTL

LEMMA OneTimer == IInv => OneTimerPerJob
<1> SUFFICES ASSUME IInv, NEW j \in Jobs
             PROVE  timers[j] + Cardinality({g \in Goroutines : Timed(g, j)}) <= 1
    BY DEF OneTimerPerJob, Timed
<1>1. timers[j] \in 0 .. 1
    BY DEF IInv, SchedInv, SingleTimer
<1>2. CASE \A g \in Goroutines : ~Timed(g, j)
  <2>1. {g \in Goroutines : Timed(g, j)} = {}
      BY <1>2
  <2> QED BY <1>1, <2>1, FS_EmptySet
<1>3. CASE \E g \in Goroutines : Timed(g, j)
  <2>1. PICK g \in Goroutines : Timed(g, j)
      BY <1>3
  <2>2. {h \in Goroutines : Timed(h, j)} = {g} /\ timers[j] = 0
      BY <2>1 DEF IInv, SchedInv, SingleTimer
  <2> QED BY <2>2, FS_Singleton
<1> QED BY <1>2, <1>3

\* However many goroutines, manual runs, crashes and re-initialisations there
\* are, and whenever Stop comes, no job ever has two timers.
THEOREM NeverTwoTimers == Spec => []OneTimerPerJob
<1>1. Spec => []IInv
    BY InitInv, NextInv, PTL DEF Spec
<1> QED BY <1>1, OneTimer, PTL

=============================================================================
