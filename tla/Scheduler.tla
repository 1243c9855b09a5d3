------------------------------ MODULE Scheduler -------------------------------
(***************************************************************************)
(* The job scheduler (src/scanner-core/scheduler/scheduler.go): one timer  *)
(* per job, armed again when the run it started has ended; runs triggered  *)
(* by hand beside it; and Stop, which cancels the context, stops the       *)
(* timers and waits for the WaitGroup or for 30 seconds.                   *)
(*                                                                         *)
(* A timer that has fired is a goroutine: it looks at the context under    *)
(* the read lock, joins the WaitGroup after releasing it, runs the job and *)
(* arms the next timer without looking at the context again.  What a job   *)
(* does is left to the module that extends this one: a run is over when it *)
(* says so.  When a timer is due is left out: it may fire at any time.     *)
(***************************************************************************)
EXTENDS Integers, FiniteSets

CONSTANTS
    Jobs,          \* the jobs main registers
    MaxGoroutines, \* goroutines of timers and manual runs at one time (model bound)
    MaxManual      \* runs triggered by hand                           (model bound)

ASSUME SchedulerAssumption == MaxGoroutines \in Nat \ {0} /\ MaxManual \in Nat

VARIABLES
    jobs,      \* Scheduler.jobs
    ctx,       \* Scheduler.ctx: nil, live or cancelled
    timers,    \* how many timers are armed for a job
    thread,    \* what each goroutine is doing, for which job, and whether a timer started it
    manual     \* runs triggered by hand so far

Goroutines == 1 .. MaxGoroutines
schedVars == <<jobs, ctx, timers, thread, manual>>

Free == [pc |-> "none", job |-> "none", timer |-> FALSE]
Threads == [pc : {"none", "fired", "checked", "running"}, job : Jobs \cup {"none"}, timer : BOOLEAN]

SchedTypeOK ==
    /\ jobs \subseteq Jobs
    /\ ctx \in {"nil", "live", "cancelled"}
    /\ timers \in [Jobs -> 0 .. 2]
    /\ thread \in [Goroutines -> Threads]
    /\ manual \in 0 .. MaxManual

\* A new process.
SchedInit ==
    /\ jobs = {}
    /\ ctx = "nil"
    /\ timers = [j \in Jobs |-> 0]
    /\ thread = [g \in Goroutines |-> Free]
    /\ manual = 0

At(g, pc) == thread[g].pc = pc
\* Goroutines are interchangeable: a new one is the first that is free.
Fresh(g) == At(g, "none") /\ \A h \in 1 .. g - 1 : ~At(h, "none")

AddJob(j) ==
    /\ ctx = "nil"
    /\ j \notin jobs
    /\ jobs' = jobs \cup {j}
    /\ UNCHANGED <<ctx, timers, thread, manual>>

\* main starts the scheduler after it has registered its jobs.
Start ==
    /\ ctx = "nil"
    /\ jobs = Jobs
    /\ ctx' = "live"
    /\ timers' = [j \in Jobs |-> 1]
    /\ UNCHANGED <<jobs, thread, manual>>

\* The timer is due: executeJob starts.
Fire(g, j) ==
    /\ timers[j] > 0
    /\ Fresh(g)
    /\ timers' = [timers EXCEPT ![j] = @ - 1]
    /\ thread' = [thread EXCEPT ![g] = [pc |-> "fired", job |-> j, timer |-> TRUE]]
    /\ UNCHANGED <<jobs, ctx, manual>>

\* Mutant: the context is not looked at.
MutCheckContext(g) ==
    /\ At(g, "fired")
    /\ thread' = [thread EXCEPT ![g].pc = "checked"]
    /\ UNCHANGED <<jobs, ctx, timers, manual>>

CheckContext(g) ==
    /\ At(g, "fired")
    /\ thread' = [thread EXCEPT ![g] = IF ctx = "cancelled" THEN Free ELSE [@ EXCEPT !.pc = "checked"]]
    /\ UNCHANGED <<jobs, ctx, timers, manual>>

\* wg.Add: Stop may have seen the WaitGroup empty since the check.
Begin(g) ==
    /\ At(g, "checked")
    /\ thread' = [thread EXCEPT ![g].pc = "running"]
    /\ UNCHANGED <<jobs, ctx, timers, manual>>

\* The run is over; one that a timer started arms the next.
Return(g) ==
    /\ At(g, "running")
    /\ timers' = [timers EXCEPT ![thread[g].job] = IF thread[g].timer THEN @ + 1 ELSE @]
    /\ thread' = [thread EXCEPT ![g] = Free]
    /\ UNCHANGED <<jobs, ctx, manual>>

\* Mutant: the manual run goes through executeJob.
MutRunJobNow(g, j) ==
    /\ ctx # "nil"
    /\ j \in jobs
    /\ Fresh(g)
    /\ manual < MaxManual
    /\ manual' = manual + 1
    /\ thread' = [thread EXCEPT ![g] = [pc |-> "fired", job |-> j, timer |-> TRUE]]
    /\ UNCHANGED <<jobs, ctx, timers>>

\* The trigger endpoint, which serves once the scheduler runs: no look at
\* the context, and no regard for a run that is under way.
RunJobNow(g, j) ==
    /\ ctx # "nil"
    /\ j \in jobs
    /\ Fresh(g)
    /\ manual < MaxManual
    /\ manual' = manual + 1
    /\ thread' = [thread EXCEPT ![g] = [pc |-> "running", job |-> j, timer |-> FALSE]]
    /\ UNCHANGED <<jobs, ctx, timers>>

\* Stop.  What it waits for afterwards, and for 30 seconds at most, changes
\* nothing.  (main itself only cancels the context, and exits.)
Stop ==
    /\ ctx # "nil"
    /\ ctx' = "cancelled"
    /\ timers' = [j \in Jobs |-> 0]
    /\ UNCHANGED <<jobs, thread, manual>>

SchedStep ==
    \/ \E j \in Jobs : AddJob(j)
    \/ Start
    \/ \E g \in Goroutines, j \in Jobs : Fire(g, j)
    \/ \E g \in Goroutines : CheckContext(g)
    \/ Stop

-----------------------------------------------------------------------------
(* Properties *)

\* A job has one timer: armed, or turned into the run it started, whatever
\* is triggered by hand meanwhile and whenever Stop comes.  A second one
\* would run the job twice per interval for as long as the process lives.
OneTimerPerJob ==
    \A j \in Jobs :
        timers[j] + Cardinality({g \in Goroutines : thread[g].timer /\ thread[g].job = j}) <= 1

\* After Stop everything comes to rest: the run that had passed the check
\* starts all the same and even arms another timer, but that one finds the
\* context cancelled.
Quiet == (\A j \in Jobs : timers[j] = 0) /\ (\A g \in Goroutines : At(g, "none"))

=============================================================================
