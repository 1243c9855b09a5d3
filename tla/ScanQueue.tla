----------------------------- MODULE ScanQueue -----------------------------
(***************************************************************************)
(* scanning.JobQueue (src/scanner-core/scanning/queue.go): two FIFO lanes  *)
(* (image scans, host scans) under one mutex jobsMu, one worker goroutine, *)
(* any number of callers of Enqueue / enqueueHostJob, and Shutdown.        *)
(*                                                                         *)
(* The worker and the producers that block on a full queue share ONE       *)
(* condition variable, jobsAvailable.  Its notify list is FIFO, so waiters *)
(* is a sequence.  A critical section that does not wait is one action; a  *)
(* section that calls Wait is cut between the last test and the            *)
(* registration, because Shutdown cancels the context and broadcasts       *)
(* without taking jobsMu and may run exactly there.                        *)
(*                                                                         *)
(* What a job does to the database is in module ImageScan (and its         *)
(* siblings); here a job is only the image or the node it names.           *)
(***************************************************************************)
EXTENDS Naturals, Sequences, FiniteSets

CONSTANTS
    Images,        \* digests an image job can name
    Nodes,         \* node names a host job can name
    Producers,     \* goroutines that call Enqueue / enqueueHostJob
    Worker,        \* the worker goroutine started by NewJobQueue
    Closer,        \* the goroutine that calls Shutdown
    Nobody,        \* no goroutine: jobsMu is free
    Configs,       \* the QueueConfig values a queue is created with
    MaxCalls       \* bound on the number of enqueue calls (model bound)

ASSUME ThreadAssumption ==
    /\ Worker \notin Producers
    /\ Closer \notin Producers
    /\ Worker # Closer
    /\ Nobody \notin Producers \cup {Worker, Closer}
ASSUME ConfigAssumption ==
    Configs \subseteq [maxDepth : Nat, fullBehavior : {"drop", "dropOldest", "block"}]
ASSUME CallsAssumption == MaxCalls \in Nat

Threads == Producers \cup {Worker, Closer}

ImageJob(i) == [kind |-> "image", name |-> i]
HostJob(n)  == [kind |-> "host", name |-> n]
Job == [kind : {"image"}, name : Images] \cup [kind : {"host"}, name : Nodes]
NoJob == [kind |-> "none"]

VARIABLES
    config,     \* q.config, set once by NewJobQueue; maxDepth 0 = unbounded
    jobs,       \* q.jobs
    hostJobs,   \* q.hostJobs
    lock,       \* holder of q.jobsMu between two actions, or Nobody
    waiters,    \* notify list of q.jobsAvailable, oldest ticket first
    cancelled,  \* q.ctx is done
    pc,         \* where each goroutine is
    request,    \* the job each producer is enqueuing
    running,    \* the job the worker has taken, or NoJob
    metrics,    \* q.metrics
    calls       \* enqueue calls made so far

vars == <<config, jobs, hostJobs, lock, waiters, cancelled, pc, request, running, metrics, calls>>

Depth == Len(jobs) + Len(hostJobs)
Bounded == config.maxDepth > 0
ImagesFull == Bounded /\ Len(jobs) >= config.maxDepth

\* Mutant of AllFull: only the image lane is counted.
MutAllFull == Bounded /\ Len(jobs) >= config.maxDepth

AllFull == Bounded /\ Depth >= config.maxDepth
Empty == jobs = <<>> /\ hostJobs = <<>>

HostQueued(n) == \E k \in DOMAIN hostJobs : hostJobs[k] = n

Init ==
    /\ config \in Configs
    /\ jobs = <<>> /\ hostJobs = <<>>
    /\ lock = Nobody /\ waiters = <<>> /\ cancelled = FALSE
    /\ pc = [t \in Threads |-> IF t = Worker THEN "enter" ELSE "idle"]
    /\ request = [p \in Producers |-> NoJob]
    /\ running = NoJob
    /\ metrics = [current |-> 0, peak |-> 0, enqueued |-> 0, dropped |-> 0, processed |-> 0]
    /\ calls = 0

-----------------------------------------------------------------------------
(* The condition variable and the metrics.                                 *)


\* Mutant of SignalAndGo: nobody is signalled.
MutSignalAndGo(t, next) == waiters' = waiters /\ pc' = [pc EXCEPT ![t] = next]

\* Signal by t, which then goes on at `next`: the oldest waiter is released.
SignalAndGo(t, next) ==
    IF waiters = <<>>
      THEN waiters' = waiters /\ pc' = [pc EXCEPT ![t] = next]
      ELSE /\ waiters' = Tail(waiters)
           /\ pc' = [pc EXCEPT ![Head(waiters)] = "woken", ![t] = next]

\* Wait by t: join the notify list, then release jobsMu.
WaitOn(t) ==
    /\ waiters' = Append(waiters, t)
    /\ pc' = [pc EXCEPT ![t] = "waiting"]
    /\ lock' = Nobody


\* Mutant of UpdateMetrics: a dropped job is subtracted.
MutUpdateMetricsSign(depth, enq, drop) ==
    metrics' = [metrics EXCEPT
        !.current  = IF depth > 0 THEN depth ELSE @,
        !.peak     = IF depth > @ THEN depth ELSE @,
        !.enqueued = @ + enq,
        !.dropped  = @ - drop]

\* Mutant of UpdateMetrics: an eviction is not counted.
MutUpdateMetrics(depth, enq, drop) ==
    metrics' = [metrics EXCEPT
        !.current  = IF depth > 0 THEN depth ELSE @,
        !.peak     = IF depth > @ THEN depth ELSE @,
        !.enqueued = @ + enq,
        !.dropped  = IF enq > 0 THEN @ ELSE @ + drop]

\* updateMetrics(currentDepth, enqueued, dropped): a zero depth is ignored.
UpdateMetrics(depth, enq, drop) ==
    metrics' = [metrics EXCEPT
        !.current  = IF depth > 0 THEN depth ELSE @,
        !.peak     = IF depth > @ THEN depth ELSE @,
        !.enqueued = @ + enq,
        !.dropped  = @ + drop]

-----------------------------------------------------------------------------
(* Producers.                                                              *)

CallEnqueue(p) ==
    /\ pc[p] = "idle" /\ calls < MaxCalls
    /\ \E j \in Job : request' = [request EXCEPT ![p] = j]
    /\ pc' = [pc EXCEPT ![p] = "enter"]
    /\ calls' = calls + 1
    /\ UNCHANGED <<config, jobs, hostJobs, lock, waiters, cancelled, running, metrics>>

\* Return from the call, releasing jobsMu, with nothing enqueued.
Reject(p) ==
    /\ pc' = [pc EXCEPT ![p] = "idle"]
    /\ lock' = Nobody
    /\ UNCHANGED <<jobs, hostJobs, waiters>>


\* Mutant of ProducerLock: the context is not tested.
MutProducerLock(p) ==
    /\ pc[p] \in {"enter", "woken"} /\ lock = Nobody
    /\ lock' = p /\ pc' = [pc EXCEPT ![p] = "locked"]
    /\ UNCHANGED <<config, jobs, hostJobs, waiters, cancelled, request, running, metrics, calls>>

\* jobsMu.Lock() at the top of the call or at the end of Wait, then the test
\* of q.ctx that follows both.
ProducerLock(p) ==
    /\ pc[p] \in {"enter", "woken"} /\ lock = Nobody
    /\ IF cancelled
         THEN Reject(p)
         ELSE /\ lock' = p /\ pc' = [pc EXCEPT ![p] = "locked"]
              /\ UNCHANGED <<jobs, hostJobs, waiters>>
    /\ UNCHANGED <<config, cancelled, request, running, metrics, calls>>

Locked(p, kind) == pc[p] = "locked" /\ lock = p /\ request[p].kind = kind

\* append, updateMetrics(len(q.jobs), 1, dropped), Signal, unlock
AppendImage(p, rest, dropped) ==
    /\ jobs' = Append(rest, request[p].name)
    /\ UpdateMetrics(Len(rest) + 1, 1, dropped)
    /\ SignalAndGo(p, "idle")
    /\ lock' = Nobody
    /\ UNCHANGED hostJobs

EnqueueImage(p) ==
    /\ Locked(p, "image")
    /\ \/ /\ ~ImagesFull
          /\ AppendImage(p, jobs, 0)
       \/ /\ ImagesFull /\ config.fullBehavior = "drop"
          /\ Reject(p) /\ UpdateMetrics(0, 0, 1)
       \/ /\ ImagesFull /\ config.fullBehavior = "dropOldest"
          /\ AppendImage(p, Tail(jobs), 1)
       \/ /\ ImagesFull /\ config.fullBehavior = "block"
          /\ WaitOn(p)
          /\ UNCHANGED <<jobs, hostJobs, metrics>>
    /\ UNCHANGED <<config, cancelled, request, running, calls>>

\* append, updateMetrics(total depth, 1, dropped), Signal, unlock
AppendHost(p, restJobs, restHosts, dropped) ==
    /\ jobs' = restJobs
    /\ hostJobs' = Append(restHosts, request[p].name)
    /\ UpdateMetrics(Len(restJobs) + Len(restHosts) + 1, 1, dropped)
    /\ SignalAndGo(p, "idle")
    /\ lock' = Nobody

\* With "block" a host job that does not fit is dropped, as with "drop".
EnqueueHost(p) ==
    /\ Locked(p, "host")
    /\ LET n == request[p].name IN
       \/ /\ HostQueued(n)
          /\ Reject(p) /\ UNCHANGED metrics
       \/ /\ ~HostQueued(n) /\ ~AllFull
          /\ AppendHost(p, jobs, hostJobs, 0)
       \/ /\ ~HostQueued(n) /\ AllFull /\ config.fullBehavior # "dropOldest"
          /\ Reject(p) /\ UpdateMetrics(0, 0, 1)
       \/ /\ ~HostQueued(n) /\ AllFull /\ config.fullBehavior = "dropOldest"
          /\ IF hostJobs # <<>> THEN AppendHost(p, jobs, Tail(hostJobs), 1)
                                ELSE AppendHost(p, Tail(jobs), hostJobs, 1)
    /\ UNCHANGED <<config, cancelled, request, running, calls>>

-----------------------------------------------------------------------------
(* The worker.                                                             *)


\* Mutant of Take: the host lane is forgotten.
MutTake ==
    /\ jobs # <<>>
    /\ running' = ImageJob(Head(jobs)) /\ jobs' = Tail(jobs)
    /\ UpdateMetrics(Depth - 1, 0, 0)
    /\ SignalAndGo(Worker, "processing")
    /\ lock' = Nobody /\ UNCHANGED hostJobs

\* Take the head of the image lane, else of the host lane; report the depth
\* left; signal that there is room; unlock.
Take ==
    /\ ~Empty
    /\ IF jobs # <<>>
         THEN /\ running' = ImageJob(Head(jobs)) /\ jobs' = Tail(jobs)
              /\ UNCHANGED hostJobs
         ELSE /\ running' = HostJob(Head(hostJobs)) /\ hostJobs' = Tail(hostJobs)
              /\ UNCHANGED jobs
    /\ UpdateMetrics(Depth - 1, 0, 0)
    /\ SignalAndGo(Worker, "processing")
    /\ lock' = Nobody

\* The context is done: unlock and return, which releases wg.
WorkerExit ==
    /\ pc' = [pc EXCEPT ![Worker] = "exited"]
    /\ UNCHANGED <<jobs, hostJobs, lock, waiters, running, metrics>>

\* Nothing to do and not cancelled: keep jobsMu, on the way into Wait.
GoIdle ==
    /\ lock' = Worker /\ pc' = [pc EXCEPT ![Worker] = "locked"]
    /\ UNCHANGED <<jobs, hostJobs, waiters, running, metrics>>


\* Mutant of WorkerLock: the context is tested only after Wait.
MutWorkerLock ==
    /\ pc[Worker] = "enter" /\ lock = Nobody
    /\ Take \/ (Empty /\ GoIdle)
    /\ UNCHANGED <<config, cancelled, request, calls>>

\* jobsMu.Lock() at the top of the loop: the context is looked at only when
\* both lanes are empty.
WorkerLock ==
    /\ pc[Worker] = "enter" /\ lock = Nobody
    /\ \/ Take
       \/ Empty /\ cancelled /\ WorkerExit
       \/ Empty /\ ~cancelled /\ GoIdle
    /\ UNCHANGED <<config, cancelled, request, calls>>

\* Wait has re-acquired jobsMu: here the context is looked at first.
WorkerWake ==
    /\ pc[Worker] = "woken" /\ lock = Nobody
    /\ \/ cancelled /\ WorkerExit
       \/ ~cancelled /\ Take
       \/ ~cancelled /\ Empty /\ GoIdle
    /\ UNCHANGED <<config, cancelled, request, calls>>

WorkerWait ==
    /\ pc[Worker] = "locked" /\ lock = Worker
    /\ WaitOn(Worker)
    /\ UNCHANGED <<config, jobs, hostJobs, cancelled, request, running, metrics, calls>>

\* processJob / processHostJob has returned.
WorkerFinish ==
    /\ pc[Worker] = "processing"
    /\ running' = NoJob
    /\ metrics' = [metrics EXCEPT !.processed = @ + 1]
    /\ pc' = [pc EXCEPT ![Worker] = "enter"]
    /\ UNCHANGED <<config, jobs, hostJobs, lock, waiters, cancelled, request, calls>>

-----------------------------------------------------------------------------
(* Shutdown: cancel and Broadcast, neither under jobsMu, then wg.Wait.     *)

Cancel ==
    /\ pc[Closer] = "idle"
    /\ cancelled' = TRUE
    /\ pc' = [pc EXCEPT ![Closer] = "broadcast"]
    /\ UNCHANGED <<config, jobs, hostJobs, lock, waiters, request, running, metrics, calls>>

Broadcast ==
    /\ pc[Closer] = "broadcast"
    /\ waiters' = <<>>
    /\ pc' = [t \in Threads |-> CASE t = Closer -> "joining"
                                  [] pc[t] = "waiting" -> "woken"
                                  [] OTHER -> pc[t]]
    /\ UNCHANGED <<config, jobs, hostJobs, lock, cancelled, request, running, metrics, calls>>

Join ==
    /\ pc[Closer] = "joining" /\ pc[Worker] = "exited"
    /\ pc' = [pc EXCEPT ![Closer] = "done"]
    /\ UNCHANGED <<config, jobs, hostJobs, lock, waiters, cancelled, request, running, metrics, calls>>

-----------------------------------------------------------------------------
ProducerStep(p) == ProducerLock(p) \/ EnqueueImage(p) \/ EnqueueHost(p)
WorkerStep == WorkerLock \/ WorkerWake \/ WorkerWait \/ WorkerFinish
CloserStep == Broadcast \/ Join

Next ==
    \/ \E p \in Producers : CallEnqueue(p) \/ ProducerStep(p)
    \/ WorkerStep
    \/ Cancel
    \/ CloserStep

Spec == Init /\ [][Next]_vars

\* The Go scheduler runs every runnable goroutine, and every scan has a
\* timeout (5 to 15 minutes), so a started call, the worker and a started
\* Shutdown go on.  Nobody has to call Enqueue or Shutdown.
FairSpec ==
    /\ Spec
    /\ \A p \in Producers : WF_vars(ProducerStep(p))
    /\ WF_vars(WorkerStep)
    /\ WF_vars(CloserStep)

-----------------------------------------------------------------------------
TypeOK ==
    /\ config \in Configs
    /\ jobs \in Seq(Images) /\ hostJobs \in Seq(Nodes)
    /\ lock \in Threads \cup {Nobody}
    /\ waiters \in Seq(Threads \ {Closer})
    /\ cancelled \in BOOLEAN
    /\ pc \in [Threads -> {"idle", "enter", "locked", "waiting", "woken", "processing",
                           "exited", "broadcast", "joining", "done"}]
    /\ request \in [Producers -> Job \cup {NoJob}]
    /\ running \in Job \cup {NoJob}
    /\ metrics \in [current : Nat, peak : Nat, enqueued : Nat, dropped : Nat, processed : Nat]
    /\ calls \in Nat

\* A call that finds its lane full may have to wait for room.
MayBlock == Bounded /\ config.fullBehavior = "block"

\* Each lane on its own stays within MaxDepth, whatever the interleaving of
\* callers, evictions and the worker.  (The lanes together do not: a host job
\* that found room may be followed by a full lane of image jobs.)
LanesBounded == Bounded => Len(jobs) <= config.maxDepth /\ Len(hostJobs) <= config.maxDepth

\* The in-queue duplicate test of enqueueHostJob: a node is never twice in the
\* host lane, so two host scans of a node are never queued behind each other.
HostJobsDistinct ==
    \A a, b \in DOMAIN hostJobs : hostJobs[a] = hostJobs[b] => a = b

\* Every job counted in totalEnqueued is processed, evicted, still queued, or in
\* the worker's hands: none is lost or run twice.  (With "dropOldest" each
\* count in totalDropped is an eviction; otherwise it is a refusal.)
InHand == IF running = NoJob THEN 0 ELSE 1
Evicted == IF config.fullBehavior = "dropOldest" THEN metrics.dropped ELSE 0
JobsConserved == metrics.enqueued = metrics.processed + Depth + InHand + Evicted

\* No lost wakeup: unless producers can block on the same condition variable,
\* the worker sleeps in the notify list only while both lanes are empty.
SleepsOnlyWhenEmpty == ~MayBlock /\ pc[Worker] = "waiting" => Empty

\* Once callers stop, the worker empties both lanes: no job is forgotten, and a
\* host job is not starved by the priority of image jobs.
EventuallyDrained == (~MayBlock /\ ~Empty) ~> (Empty \/ cancelled)

\* Shutdown called while a job runs returns: "gracefully shuts down the queue,
\* waiting for current job to complete".
BusyShutdownReturns ==
    (pc[Closer] = "joining" /\ pc[Worker] = "processing") ~> pc[Closer] = "done"

-----------------------------------------------------------------------------
(* The inductive invariant of ScanQueueProofs: what holds of the lock, the *)
(* notify list and the program counters between any two actions.           *)

\* Each kind of goroutine is at a place of its own code.
PlacesOK ==
    /\ \A p \in Producers : pc[p] \in {"idle", "enter", "locked", "waiting", "woken"}
    /\ pc[Worker] \in {"enter", "locked", "waiting", "woken", "processing", "exited"}
    /\ pc[Closer] \in {"idle", "broadcast", "joining", "done"}

\* Mutual exclusion: jobsMu is held by the one goroutine inside a section.
LockOK == \A t \in Threads : pc[t] = "locked" <=> lock = t

\* The notify list holds sleeping goroutines, each once.
NotifyOK ==
    \A k \in DOMAIN waiters :
        /\ pc[waiters[k]] = "waiting"
        /\ \A j \in DOMAIN waiters : waiters[j] = waiters[k] => j = k

\* A call in progress has a job; the worker has one exactly while it processes.
JobsOK ==
    /\ \A p \in Producers : pc[p] # "idle" => request[p] \in Job
    /\ pc[Worker] = "processing" <=> running # NoJob

\* The worker goes to sleep on empty lanes, and returns only once cancelled,
\* with nobody inside a section that could still append.
WorkerOK ==
    /\ pc[Worker] = "locked" => Empty
    /\ pc[Worker] = "exited" => cancelled /\ \A p \in Producers : pc[p] # "locked"

\* If no producer can block, only the worker is ever in the notify list.
AloneOK ==
    ~MayBlock =>
        /\ \A p \in Producers : pc[p] \notin {"waiting", "woken"}
        /\ waiters = IF pc[Worker] = "waiting" THEN <<Worker>> ELSE <<>>

IndInv ==
    /\ TypeOK /\ PlacesOK /\ LockOK /\ NotifyOK /\ JobsOK /\ WorkerOK /\ AloneOK
    /\ LanesBounded /\ HostJobsDistinct /\ JobsConserved /\ SleepsOnlyWhenEmpty

-----------------------------------------------------------------------------
(* What callers may rely on.                                               *)

Lanes == INSTANCE TwoLaneQueue WITH
    maxDepth  <- config.maxDepth,
    evicts    <- config.fullBehavior = "dropOldest",
    imageLane <- jobs,
    hostLane  <- hostJobs,
    running   <- IF running = NoJob THEN <<>> ELSE <<running.kind, running.name>>,
    open      <- pc[Worker] # "exited"

\* The locked, waiting, cancellable queue is a two-lane FIFO queue to its callers:
\* every critical section takes effect as one step of TwoLaneQueue, and nothing
\* is accepted once the worker has returned.
TwoLanes == Lanes!Spec

-----------------------------------------------------------------------------
(* What the sources say of Shutdown and of a blocked producer, and the code *)
(* does not keep: see the violation runs.                                   *)

\* queue.go:722 "Wake up the worker so it can see the shutdown signal": the call
\* returns, wherever the worker was when it was made.
ShutdownReturns == pc[Closer] = "joining" ~> pc[Closer] = "done"

\* queue.go:64 "blocks until space is available", queue.go:411 "Signal that space
\* is available (for QueueFullBlock behavior)": a sleeping worker with a job
\* queued is woken, so that space becomes available.
WorkerWokenForJob == (pc[Worker] = "waiting" /\ ~Empty) ~> pc[Worker] # "waiting"
=============================================================================
