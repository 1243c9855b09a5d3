-------------------------- MODULE ScanQueueProofs --------------------------
(***************************************************************************)
(* Machine-checked theorems about ScanQueue, for every set of images,      *)
(* nodes and producers and every queue configuration.                      *)
(***************************************************************************)
EXTENDS ScanQueue, TLAPS

Places == {"idle", "enter", "locked", "waiting", "woken", "processing",
           "exited", "broadcast", "joining", "done"}

\* What one goroutine's leaving a section does to the program counters and the
\* notify list: t goes to next, and at most the oldest sleeper is woken.
LEMMA SignalEffect ==
    ASSUME TypeOK, NotifyOK,
           NEW t \in Threads, pc[t] # "waiting",
           NEW next \in Places \ {"waiting"},
           SignalAndGo(t, next)
    PROVE  /\ pc' \in [Threads -> Places]
           /\ waiters' \in Seq(Threads \ {Closer})
           /\ NotifyOK'
           /\ pc'[t] = next
           /\ \A u \in Threads \ {t} :
                 \/ pc'[u] = pc[u]
                 \/ pc[u] = "waiting" /\ pc'[u] = "woken"
<1>1. CASE waiters = <<>>
  BY <1>1 DEF SignalAndGo, TypeOK, NotifyOK, Places
<1>2. CASE waiters # <<>>
  <2> DEFINE h == Head(waiters)
  <2>1. /\ h \in Threads \ {Closer}
        /\ 1 \in DOMAIN waiters
        /\ h = waiters[1]
        /\ Tail(waiters) \in Seq(Threads \ {Closer})
    BY <1>2 DEF TypeOK
  <2>2. pc[h] = "waiting" /\ h # t
    BY <2>1 DEF NotifyOK
  <2>3. pc' = [pc EXCEPT ![h] = "woken", ![t] = next] /\ waiters' = Tail(waiters)
    BY <1>2 DEF SignalAndGo
  <2>4. /\ pc' \in [Threads -> Places]
        /\ pc'[t] = next
        /\ pc'[h] = "woken"
        /\ \A u \in Threads \ {t, h} : pc'[u] = pc[u]
    BY <2>1, <2>2, <2>3 DEF TypeOK, Places
  <2>5. NotifyOK'
    <3> SUFFICES ASSUME NEW k \in DOMAIN waiters'
                 PROVE  /\ pc'[waiters'[k]] = "waiting"
                        /\ \A j \in DOMAIN waiters' : waiters'[j] = waiters'[k] => j = k
      BY DEF NotifyOK
    <3>1. \A i \in DOMAIN waiters' : /\ i \in 1..Len(waiters')
                                     /\ i + 1 \in DOMAIN waiters
                                     /\ waiters'[i] = waiters[i + 1]
      BY <1>2, <2>3 DEF TypeOK
    <3>2. waiters'[k] # h /\ waiters'[k] # t /\ waiters'[k] \in Threads
      BY <2>1, <3>1 DEF NotifyOK, TypeOK
    <3>3. pc[waiters'[k]] = "waiting"
      BY <3>1 DEF NotifyOK
    <3>4. pc'[waiters'[k]] = "waiting"
      BY <3>2, <3>3, <2>4
    <3>5. ASSUME NEW j \in DOMAIN waiters', waiters'[j] = waiters'[k]
          PROVE  j = k
      <4>1. j + 1 = k + 1
        BY <3>1, <3>5 DEF NotifyOK
      <4>2. QED
        BY <4>1, <3>1
    <3>6. QED
      BY <3>4, <3>5
  <2>6. QED
    BY <2>1, <2>2, <2>3, <2>4, <2>5
<1>3. QED
  BY <1>1, <1>2

\* What joining the notify list does.
LEMMA WaitEffect ==
    ASSUME TypeOK, NotifyOK,
           NEW t \in Threads \ {Closer}, pc[t] # "waiting",
           WaitOn(t)
    PROVE  /\ pc' \in [Threads -> Places]
           /\ waiters' \in Seq(Threads \ {Closer})
           /\ NotifyOK'
           /\ lock' = Nobody
           /\ pc'[t] = "waiting"
           /\ \A u \in Threads \ {t} : pc'[u] = pc[u]
<1>1. /\ waiters' = Append(waiters, t)
      /\ pc' = [pc EXCEPT ![t] = "waiting"]
      /\ lock' = Nobody
  BY DEF WaitOn
<1>2. /\ pc' \in [Threads -> Places]
      /\ waiters' \in Seq(Threads \ {Closer})
      /\ pc'[t] = "waiting"
      /\ \A u \in Threads \ {t} : pc'[u] = pc[u]
  BY <1>1 DEF TypeOK, Places
<1>3. \A k \in DOMAIN waiters' :
         \/ k \in DOMAIN waiters /\ waiters'[k] = waiters[k] /\ waiters'[k] # t
         \/ k = Len(waiters) + 1 /\ waiters'[k] = t
  BY <1>1 DEF TypeOK, NotifyOK
<1>4. NotifyOK'
  <2> SUFFICES ASSUME NEW k \in DOMAIN waiters'
               PROVE  /\ pc'[waiters'[k]] = "waiting"
                      /\ \A j \in DOMAIN waiters' : waiters'[j] = waiters'[k] => j = k
    BY DEF NotifyOK
  <2>1. CASE k \in DOMAIN waiters /\ waiters'[k] = waiters[k] /\ waiters'[k] # t
    <3>1. pc[waiters'[k]] = "waiting" /\ waiters'[k] \in Threads
      BY <2>1 DEF NotifyOK, TypeOK
    <3>2. QED
      BY <2>1, <3>1, <1>2, <1>3 DEF NotifyOK
  <2>2. CASE k = Len(waiters) + 1 /\ waiters'[k] = t
    BY <2>2, <1>2, <1>3
  <2>3. QED
    BY <1>3, <2>1, <2>2
<1>5. QED
  BY <1>1, <1>2, <1>4

-----------------------------------------------------------------------------
\* A fresh queue.
LEMMA InitInv == Init => IndInv
<1> SUFFICES ASSUME Init PROVE IndInv
  OBVIOUS
<1>1. TypeOK
  <2>1. request \in [Producers -> Job \cup {NoJob}] /\ running \in Job \cup {NoJob}
    BY DEF Init
  <2>2. pc \in [Threads -> Places] /\ lock \in Threads \cup {Nobody}
    BY DEF Init, Places
  <2>3. metrics \in [current : Nat, peak : Nat, enqueued : Nat, dropped : Nat, processed : Nat]
    BY DEF Init
  <2>4. jobs \in Seq(Images) /\ hostJobs \in Seq(Nodes) /\ waiters \in Seq(Threads \ {Closer})
    BY DEF Init
  <2>5. QED
    BY <2>1, <2>2, <2>3, <2>4 DEF Init, TypeOK, Places
<1>2. PlacesOK /\ LockOK /\ NotifyOK /\ WorkerOK /\ AloneOK
  BY ThreadAssumption DEF Init, PlacesOK, LockOK, NotifyOK, WorkerOK, AloneOK, Threads
<1>3. JobsOK
  BY ThreadAssumption DEF Init, JobsOK, Threads
<1>4. LanesBounded /\ HostJobsDistinct /\ JobsConserved /\ SleepsOnlyWhenEmpty
  BY ConfigAssumption DEF Init, LanesBounded, HostJobsDistinct, JobsConserved, InHand, Evicted,
     SleepsOnlyWhenEmpty, Bounded, Depth, Empty
<1>5. QED
  BY <1>1, <1>2, <1>3, <1>4 DEF IndInv

\* A caller picks a job.
LEMMA CallEnqueueInv ==
    ASSUME IndInv, NEW p \in Producers, CallEnqueue(p) PROVE IndInv'
<1> USE DEF CallEnqueue
<1>1. TypeOK'
  BY DEF IndInv, TypeOK, Threads
<1>2. PlacesOK' /\ LockOK' /\ WorkerOK' /\ AloneOK'
  BY ThreadAssumption DEF IndInv, TypeOK, PlacesOK, LockOK, WorkerOK, AloneOK, Threads, Empty, MayBlock, Bounded
<1>3. NotifyOK'
  BY DEF IndInv, TypeOK, NotifyOK, Threads
<1>4. JobsOK'
  BY ThreadAssumption DEF IndInv, TypeOK, JobsOK, Threads
<1>5. LanesBounded' /\ HostJobsDistinct' /\ JobsConserved' /\ SleepsOnlyWhenEmpty'
  BY ThreadAssumption DEF IndInv, TypeOK, Threads, LanesBounded, HostJobsDistinct, JobsConserved, InHand, Evicted,
     SleepsOnlyWhenEmpty, MayBlock, Bounded, Depth, Empty
<1>6. QED
  BY <1>1, <1>2, <1>3, <1>4, <1>5 DEF IndInv

\* Leaving a section without having enqueued anything.
LEMMA RejectEffect ==
    ASSUME IndInv, NEW p \in Producers, pc[p] # "waiting", lock \in {p, Nobody}, Reject(p),
           UNCHANGED <<config, cancelled, request, running, calls>>
    PROVE  /\ PlacesOK' /\ LockOK' /\ NotifyOK' /\ JobsOK' /\ WorkerOK' /\ AloneOK'
           /\ LanesBounded' /\ HostJobsDistinct' /\ SleepsOnlyWhenEmpty'
           /\ pc' \in [Threads -> Places]
<1> USE DEF Reject
<1>1. PlacesOK' /\ LockOK' /\ WorkerOK' /\ AloneOK' /\ pc' \in [Threads -> Places]
  BY ThreadAssumption DEF IndInv, TypeOK, PlacesOK, LockOK, WorkerOK, AloneOK, Threads, Empty, MayBlock, Bounded, Places
<1>2. NotifyOK'
  BY DEF IndInv, TypeOK, NotifyOK, Threads
<1>3. JobsOK'
  BY ThreadAssumption DEF IndInv, TypeOK, JobsOK, Threads
<1>4. LanesBounded' /\ HostJobsDistinct' /\ SleepsOnlyWhenEmpty'
  BY ThreadAssumption DEF IndInv, TypeOK, Threads, LanesBounded, HostJobsDistinct,
     SleepsOnlyWhenEmpty, MayBlock, Bounded, Empty
<1>5. QED
  BY <1>1, <1>2, <1>3, <1>4

\* A producer acquires jobsMu and tests the context.
LEMMA ProducerLockInv ==
    ASSUME IndInv, NEW p \in Producers, ProducerLock(p) PROVE IndInv'
<1>1. /\ pc[p] \in {"enter", "woken"} /\ lock = Nobody
      /\ UNCHANGED <<config, cancelled, request, running, metrics, calls>>
      /\ UNCHANGED <<jobs, hostJobs, waiters>>
  BY DEF ProducerLock, Reject
<1>2. CASE cancelled
  <2>1. Reject(p)
    BY <1>2 DEF ProducerLock
  <2>2. /\ PlacesOK' /\ LockOK' /\ NotifyOK' /\ JobsOK' /\ WorkerOK' /\ AloneOK'
        /\ LanesBounded' /\ HostJobsDistinct' /\ SleepsOnlyWhenEmpty'
        /\ pc' \in [Threads -> Places]
    BY <1>1, <2>1, RejectEffect
  <2>3. TypeOK'
    BY <1>1, <2>1, <2>2 DEF IndInv, TypeOK, Places, Reject
  <2>4. JobsConserved'
    BY <1>1 DEF IndInv, JobsConserved, InHand, Evicted, Depth
  <2>5. QED
    BY <2>2, <2>3, <2>4 DEF IndInv
<1>3. CASE ~cancelled
  <2>1. lock' = p /\ pc' = [pc EXCEPT ![p] = "locked"]
    BY <1>3 DEF ProducerLock
  <2>2. TypeOK'
    BY <1>1, <2>1 DEF IndInv, TypeOK, Threads
  <2>3. PlacesOK' /\ LockOK' /\ WorkerOK' /\ AloneOK'
    BY <1>1, <1>3, <2>1, ThreadAssumption
    DEF IndInv, TypeOK, PlacesOK, LockOK, WorkerOK, AloneOK, Threads, Empty, MayBlock, Bounded
  <2>4. NotifyOK'
    BY <1>1, <2>1 DEF IndInv, TypeOK, NotifyOK, Threads
  <2>5. JobsOK'
    BY <1>1, <2>1, ThreadAssumption DEF IndInv, TypeOK, JobsOK, Threads
  <2>6. LanesBounded' /\ HostJobsDistinct' /\ JobsConserved' /\ SleepsOnlyWhenEmpty'
    BY <1>1, <2>1, ThreadAssumption DEF IndInv, TypeOK, Threads, LanesBounded, HostJobsDistinct,
       JobsConserved, InHand, Evicted, SleepsOnlyWhenEmpty, MayBlock, Bounded, Depth, Empty
  <2>7. QED
    BY <2>2, <2>3, <2>4, <2>5, <2>6 DEF IndInv
<1>4. QED
  BY <1>2, <1>3

\* The control part of an append: a producer inside its section signals and
\* leaves.  The worker is not inside its own section (mutual exclusion), has not
\* returned, and, if it alone can sleep, is the one the signal wakes.
LEMMA AppendControl ==
    ASSUME IndInv, NEW p \in Producers, pc[p] = "locked", lock = p,
           SignalAndGo(p, "idle"), lock' = Nobody,
           UNCHANGED <<config, cancelled, request, running, calls>>
    PROVE  /\ pc' \in [Threads -> Places]
           /\ waiters' \in Seq(Threads \ {Closer})
           /\ PlacesOK' /\ LockOK' /\ NotifyOK' /\ JobsOK' /\ WorkerOK' /\ AloneOK'
           /\ SleepsOnlyWhenEmpty'
<1>1. p \in Threads /\ p # Worker /\ p # Closer /\ Worker \in Threads /\ Closer \in Threads
      /\ Producers \subseteq Threads /\ Worker \notin Producers /\ Closer \notin Producers
      /\ Worker # Closer /\ \A u \in Threads : u # Nobody
  BY ThreadAssumption DEF Threads
<1>2. /\ pc' \in [Threads -> Places]
      /\ waiters' \in Seq(Threads \ {Closer})
      /\ NotifyOK'
      /\ pc'[p] = "idle"
      /\ \A u \in Threads \ {p} :
            \/ pc'[u] = pc[u]
            \/ pc[u] = "waiting" /\ pc'[u] = "woken"
  BY <1>1, SignalEffect DEF IndInv, Places
<1>3. \A u \in Threads \ {p} : pc[u] # "locked"
  BY DEF IndInv, LockOK
<1>4. PlacesOK' /\ LockOK'
  BY <1>1, <1>2, <1>3 DEF IndInv, PlacesOK, LockOK
<1>5. JobsOK'
  BY <1>1, <1>2 DEF IndInv, JobsOK, PlacesOK
<1>6. WorkerOK'
  BY <1>1, <1>2, <1>3 DEF IndInv, WorkerOK
<1>7. AloneOK' /\ SleepsOnlyWhenEmpty'
  <2>1. CASE MayBlock
    BY <2>1 DEF AloneOK, SleepsOnlyWhenEmpty, MayBlock, Bounded
  <2>2. CASE ~MayBlock
    <3>1. ~MayBlock'
      BY <2>2 DEF MayBlock, Bounded
    <3>2. \A q \in Producers : pc'[q] \notin {"waiting", "woken"}
      BY <1>1, <1>2, <2>2 DEF IndInv, AloneOK
    <3>3. waiters' = <<>> /\ pc'[Worker] # "waiting"
      <4>1. CASE pc[Worker] = "waiting"
        <5>1. waiters = <<Worker>>
          BY <2>2, <4>1 DEF IndInv, AloneOK
        <5>2. Head(waiters) = Worker /\ Tail(waiters) = <<>> /\ waiters # <<>>
          BY <5>1
        <5>3. waiters' = <<>> /\ pc' = [pc EXCEPT ![Worker] = "woken", ![p] = "idle"]
          BY <5>2 DEF SignalAndGo
        <5>4. pc'[Worker] = "woken"
          BY <5>3, <1>1 DEF IndInv, TypeOK
        <5>5. QED
          BY <5>3, <5>4
      <4>2. CASE pc[Worker] # "waiting"
        <5>1. waiters = <<>>
          BY <2>2, <4>2 DEF IndInv, AloneOK
        <5>2. waiters' = <<>> /\ pc'[Worker] = pc[Worker]
          BY <5>1, <1>1 DEF SignalAndGo, IndInv, TypeOK
        <5>3. QED
          BY <5>2, <4>2
      <4>3. QED
        BY <4>1, <4>2
    <3>4. QED
      BY <3>1, <3>2, <3>3 DEF AloneOK, SleepsOnlyWhenEmpty
  <2>3. QED
    BY <2>1, <2>2
<1>8. QED
  BY <1>2, <1>4, <1>5, <1>6, <1>7

\* Metrics after a change of the queue stay natural numbers and count it.
LEMMA MetricsEffect ==
    ASSUME TypeOK, NEW depth \in Nat, NEW enq \in Nat, NEW drop \in Nat,
           UpdateMetrics(depth, enq, drop)
    PROVE  /\ metrics' \in [current : Nat, peak : Nat, enqueued : Nat, dropped : Nat, processed : Nat]
           /\ metrics'.enqueued = metrics.enqueued + enq
           /\ metrics'.dropped = metrics.dropped + drop
           /\ metrics'.processed = metrics.processed
<1> DEFINE cur == IF depth > 0 THEN depth ELSE metrics.current
           peak == IF depth > metrics.peak THEN depth ELSE metrics.peak
<1>1. metrics \in [current : Nat, peak : Nat, enqueued : Nat, dropped : Nat, processed : Nat]
  BY DEF TypeOK
<1>2. cur \in Nat /\ peak \in Nat /\ metrics.enqueued + enq \in Nat /\ metrics.dropped + drop \in Nat
  BY <1>1
<1>3. metrics' = [metrics EXCEPT !.current = cur, !.peak = peak,
                                !.enqueued = metrics.enqueued + enq,
                                !.dropped = metrics.dropped + drop]
  BY DEF UpdateMetrics
<1> HIDE DEF cur, peak
<1>4. QED
  BY <1>1, <1>2, <1>3

\* One job in, k jobs evicted.
LEMMA CountShift ==
    ASSUME NEW e \in Nat, NEW p \in Nat, NEW d \in Nat, NEW h \in Nat, NEW v \in Nat, NEW k \in Nat,
           NEW d2 \in Nat,
           e = p + d + h + v, d2 = d - k + 1
    PROVE  e + 1 = p + d2 + h + (v + k)
  OBVIOUS

\* A producer of an image job inside its section.
LEMMA EnqueueImageInv ==
    ASSUME IndInv, NEW p \in Producers, EnqueueImage(p) PROVE IndInv'
<1>1. /\ pc[p] = "locked" /\ lock = p /\ request[p].kind = "image"
      /\ UNCHANGED <<config, cancelled, request, running, calls>>
  BY DEF EnqueueImage, Locked
<1>2. request[p].name \in Images
  BY <1>1 DEF IndInv, JobsOK, Job
<1>3. TypeOK /\ config.maxDepth \in Nat
  BY ConfigAssumption DEF IndInv, TypeOK
<1>4. ASSUME NEW rest \in Seq(Images), NEW dropped \in Nat,
             AppendImage(p, rest, dropped),
             Bounded => Len(rest) < config.maxDepth,
             Len(rest) = Len(jobs) - (IF config.fullBehavior = "dropOldest" THEN dropped ELSE 0)
      PROVE  IndInv'
  <2>1. /\ jobs' = Append(rest, request[p].name) /\ hostJobs' = hostJobs
        /\ UpdateMetrics(Len(rest) + 1, 1, dropped)
        /\ SignalAndGo(p, "idle") /\ lock' = Nobody
    BY <1>4 DEF AppendImage
  <2>2. /\ pc' \in [Threads -> Places]
        /\ waiters' \in Seq(Threads \ {Closer})
        /\ PlacesOK' /\ LockOK' /\ NotifyOK' /\ JobsOK' /\ WorkerOK' /\ AloneOK'
        /\ SleepsOnlyWhenEmpty'
    BY <1>1, <2>1, AppendControl
  <2>3. jobs' \in Seq(Images) /\ Len(jobs') = Len(rest) + 1
    BY <1>2, <2>1
  <2>4. /\ metrics' \in [current : Nat, peak : Nat, enqueued : Nat, dropped : Nat, processed : Nat]
        /\ metrics'.enqueued = metrics.enqueued + 1
        /\ metrics'.dropped = metrics.dropped + dropped
        /\ metrics'.processed = metrics.processed
    BY <1>3, <2>1, MetricsEffect
  <2>5. TypeOK'
    BY <1>1, <2>1, <2>2, <2>3, <2>4 DEF IndInv, TypeOK, Places
  <2>6. LanesBounded' /\ HostJobsDistinct'
    BY <1>1, <1>3, <1>4, <2>1, <2>3 DEF IndInv, TypeOK, LanesBounded, HostJobsDistinct, Bounded
  <2>7. JobsConserved'
    <3>1. /\ metrics.enqueued \in Nat /\ metrics.dropped \in Nat /\ metrics.processed \in Nat
          /\ Len(jobs) \in Nat /\ Len(hostJobs) \in Nat /\ Len(rest) \in Nat /\ dropped \in Nat
          /\ InHand \in Nat
      BY <1>3 DEF TypeOK, InHand
    <3>2. Depth' = Len(rest) + 1 + Len(hostJobs) /\ InHand' = InHand
      BY <1>1, <2>1, <2>3 DEF Depth, InHand
    <3>3. Depth \in Nat /\ Depth' \in Nat /\ metrics.enqueued = metrics.processed + Depth + InHand + Evicted
      BY <3>1, <3>2 DEF IndInv, JobsConserved, Depth
    <3>4. \E k \in Nat : /\ Len(rest) = Len(jobs) - k
                          /\ Evicted' = Evicted + k
                          /\ Evicted \in Nat
      <4>1. CASE config.fullBehavior = "dropOldest"
        BY <1>1, <1>4, <2>4, <3>1, <4>1 DEF Evicted
      <4>2. CASE config.fullBehavior # "dropOldest"
        <5>1. Evicted = 0 /\ Evicted' = 0 /\ Len(rest) = Len(jobs) - 0
          BY <1>1, <1>4, <4>2 DEF Evicted
        <5>2. QED
          BY <5>1
      <4>3. QED
        BY <4>1, <4>2
    <3>5. PICK k \in Nat : /\ Len(rest) = Len(jobs) - k
                           /\ Evicted' = Evicted + k
                           /\ Evicted \in Nat
      BY <3>4
    <3>6. Depth' = Depth - k + 1
      BY <3>1, <3>2, <3>5 DEF Depth
    <3>7. metrics.enqueued + 1 = metrics.processed + Depth' + InHand + (Evicted + k)
      BY <3>1, <3>3, <3>5, <3>6, CountShift
    <3>8. QED
      BY <2>4, <3>2, <3>5, <3>7 DEF JobsConserved
  <2>8. QED
    BY <2>2, <2>5, <2>6, <2>7 DEF IndInv
<1>5. CASE ~ImagesFull /\ AppendImage(p, jobs, 0)
  BY <1>3, <1>4, <1>5 DEF ImagesFull, TypeOK
<1>6. CASE ImagesFull /\ config.fullBehavior = "dropOldest" /\ AppendImage(p, Tail(jobs), 1)
  <2>1. Len(jobs) = config.maxDepth /\ Len(jobs) > 0 /\ jobs # <<>>
    BY <1>3, <1>6 DEF ImagesFull, IndInv, LanesBounded, Bounded, TypeOK
  <2>2. Tail(jobs) \in Seq(Images) /\ Len(Tail(jobs)) = Len(jobs) - 1
    BY <1>3, <2>1 DEF TypeOK
  <2>3. Len(Tail(jobs)) < config.maxDepth /\ 1 \in Nat /\ Len(Tail(jobs)) = Len(jobs) - 1
    BY <1>3, <2>1, <2>2
  <2>4. QED
    BY <1>4, <1>6, <2>2, <2>3
<1>7. CASE /\ ImagesFull /\ config.fullBehavior = "drop"
           /\ Reject(p) /\ UpdateMetrics(0, 0, 1)
  <2>1. /\ PlacesOK' /\ LockOK' /\ NotifyOK' /\ JobsOK' /\ WorkerOK' /\ AloneOK'
        /\ LanesBounded' /\ HostJobsDistinct' /\ SleepsOnlyWhenEmpty'
        /\ pc' \in [Threads -> Places]
    BY <1>1, <1>7, RejectEffect
  <2>2. /\ metrics' \in [current : Nat, peak : Nat, enqueued : Nat, dropped : Nat, processed : Nat]
        /\ metrics'.enqueued = metrics.enqueued
        /\ metrics'.processed = metrics.processed
    BY <1>3, <1>7, MetricsEffect DEF TypeOK
  <2>3. TypeOK'
    BY <1>1, <1>7, <2>1, <2>2 DEF IndInv, TypeOK, Places, Reject
  <2>4. JobsConserved'
    BY <1>1, <1>7, <2>2 DEF IndInv, JobsConserved, InHand, Evicted, Depth, Reject
  <2>5. QED
    BY <2>1, <2>3, <2>4 DEF IndInv
<1>8. CASE /\ ImagesFull /\ config.fullBehavior = "block"
           /\ WaitOn(p) /\ UNCHANGED <<jobs, hostJobs, metrics>>
  <2>1. p \in Threads \ {Closer} /\ p # Worker /\ Worker \in Threads /\ Closer \in Threads
        /\ Producers \subseteq Threads /\ Worker \notin Producers /\ Closer \notin Producers
        /\ Worker # Closer /\ \A u \in Threads : u # Nobody
    BY ThreadAssumption DEF Threads
  <2>2. /\ pc' \in [Threads -> Places]
        /\ waiters' \in Seq(Threads \ {Closer})
        /\ NotifyOK'
        /\ lock' = Nobody
        /\ pc'[p] = "waiting"
        /\ \A u \in Threads \ {p} : pc'[u] = pc[u]
    BY <1>1, <1>8, <2>1, WaitEffect DEF IndInv
  <2>3. MayBlock'
    BY <1>1, <1>8 DEF MayBlock, ImagesFull, Bounded
  <2>4. \A u \in Threads \ {p} : pc[u] # "locked"
    BY <1>1 DEF IndInv, LockOK
  <2>5. PlacesOK' /\ LockOK'
    BY <2>1, <2>2, <2>4 DEF IndInv, PlacesOK, LockOK
  <2>6. JobsOK'
    BY <1>1, <2>1, <2>2 DEF IndInv, JobsOK
  <2>7. WorkerOK'
    BY <1>1, <1>8, <2>1, <2>2 DEF IndInv, WorkerOK, Empty
  <2>8. TypeOK'
    BY <1>1, <1>8, <2>2 DEF IndInv, TypeOK, Places
  <2>9. AloneOK' /\ SleepsOnlyWhenEmpty' /\ LanesBounded' /\ HostJobsDistinct' /\ JobsConserved'
    BY <1>1, <1>8, <2>3 DEF IndInv, AloneOK, SleepsOnlyWhenEmpty, LanesBounded, Bounded,
       HostJobsDistinct, JobsConserved, InHand, Evicted, Depth
  <2>10. QED
    BY <2>2, <2>5, <2>6, <2>7, <2>8, <2>9 DEF IndInv
<1>9. QED
  BY <1>5, <1>6, <1>7, <1>8 DEF EnqueueImage

\* A node appended to a host lane without it, some of whose oldest jobs may have
\* been evicted first, is still there only once.
LEMMA AppendDistinct ==
    ASSUME NEW s \in Seq(Nodes), NEW n \in Nodes,
           \A a, b \in DOMAIN s : s[a] = s[b] => a = b,
           \A k \in DOMAIN s : s[k] # n
    PROVE  \A a, b \in DOMAIN Append(s, n) : Append(s, n)[a] = Append(s, n)[b] => a = b
<1>1. \A k \in DOMAIN Append(s, n) :
         \/ k \in DOMAIN s /\ Append(s, n)[k] = s[k]
         \/ k = Len(s) + 1 /\ Append(s, n)[k] = n
  OBVIOUS
<1>2. QED
  BY <1>1

LEMMA TailElements ==
    ASSUME NEW S, NEW s \in Seq(S), s # <<>>
    PROVE  /\ Tail(s) \in Seq(S) /\ Len(Tail(s)) = Len(s) - 1
           /\ Head(s) \in S
           /\ \A k \in DOMAIN Tail(s) : k + 1 \in DOMAIN s /\ Tail(s)[k] = s[k + 1] /\ k \in Nat
  OBVIOUS

LEMMA TailDistinct ==
    ASSUME NEW s \in Seq(Nodes), s # <<>>,
           \A a, b \in DOMAIN s : s[a] = s[b] => a = b
    PROVE  \A a, b \in DOMAIN Tail(s) : Tail(s)[a] = Tail(s)[b] => a = b
<1> SUFFICES ASSUME NEW a \in DOMAIN Tail(s), NEW b \in DOMAIN Tail(s), Tail(s)[a] = Tail(s)[b]
             PROVE  a = b
  OBVIOUS
<1>1. a + 1 = b + 1
  BY TailElements
<1>2. QED
  BY <1>1, TailElements

\* A producer of a host job inside its section.
LEMMA EnqueueHostInv ==
    ASSUME IndInv, NEW p \in Producers, EnqueueHost(p) PROVE IndInv'
<1> DEFINE n == request[p].name
<1>1. /\ pc[p] = "locked" /\ lock = p /\ request[p].kind = "host"
      /\ UNCHANGED <<config, cancelled, request, running, calls>>
  BY DEF EnqueueHost, Locked
<1>2. n \in Nodes
  BY <1>1 DEF IndInv, JobsOK, Job
<1>3. /\ TypeOK /\ config.maxDepth \in Nat
      /\ jobs \in Seq(Images) /\ hostJobs \in Seq(Nodes)
      /\ Len(jobs) \in Nat /\ Len(hostJobs) \in Nat
  BY ConfigAssumption DEF IndInv, TypeOK
<1>4. ASSUME NEW restJobs \in Seq(Images), NEW restHosts \in Seq(Nodes), NEW dropped \in Nat,
             AppendHost(p, restJobs, restHosts, dropped),
             Len(restJobs) <= Len(jobs),
             Bounded => Len(restHosts) < config.maxDepth,
             \A a, b \in DOMAIN restHosts : restHosts[a] = restHosts[b] => a = b,
             \A k \in DOMAIN restHosts : restHosts[k] # n,
             Len(restJobs) + Len(restHosts) = Depth - dropped,
             config.fullBehavior # "dropOldest" => dropped = 0
      PROVE  IndInv'
  <2>1. /\ jobs' = restJobs /\ hostJobs' = Append(restHosts, n)
        /\ UpdateMetrics(Len(restJobs) + Len(restHosts) + 1, 1, dropped)
        /\ SignalAndGo(p, "idle") /\ lock' = Nobody
    BY <1>4 DEF AppendHost
  <2>2. /\ pc' \in [Threads -> Places]
        /\ waiters' \in Seq(Threads \ {Closer})
        /\ PlacesOK' /\ LockOK' /\ NotifyOK' /\ JobsOK' /\ WorkerOK' /\ AloneOK'
        /\ SleepsOnlyWhenEmpty'
    BY <1>1, <2>1, AppendControl
  <2>3. /\ hostJobs' \in Seq(Nodes) /\ Len(hostJobs') = Len(restHosts) + 1
        /\ Len(restJobs) \in Nat /\ Len(restHosts) \in Nat
    BY <1>2, <2>1
  <2>4. /\ metrics' \in [current : Nat, peak : Nat, enqueued : Nat, dropped : Nat, processed : Nat]
        /\ metrics'.enqueued = metrics.enqueued + 1
        /\ metrics'.dropped = metrics.dropped + dropped
        /\ metrics'.processed = metrics.processed
    BY <1>3, <2>1, <2>3, MetricsEffect
  <2>5. TypeOK'
    BY <1>1, <1>4, <2>1, <2>2, <2>3, <2>4 DEF IndInv, TypeOK, Places
  <2>6. LanesBounded'
    BY <1>1, <1>3, <1>4, <2>1, <2>3 DEF IndInv, LanesBounded, Bounded
  <2>7. HostJobsDistinct'
    BY <1>2, <1>4, <2>1, AppendDistinct DEF HostJobsDistinct
  <2>8. JobsConserved'
    <3>1. /\ metrics.enqueued \in Nat /\ metrics.dropped \in Nat /\ metrics.processed \in Nat
          /\ dropped \in Nat /\ InHand \in Nat
      BY <1>3, <1>4 DEF TypeOK, InHand
    <3>2. Depth' = Len(restJobs) + Len(restHosts) + 1 /\ InHand' = InHand
      BY <1>1, <2>1, <2>3 DEF Depth, InHand
    <3>3. Depth \in Nat /\ Depth' \in Nat /\ metrics.enqueued = metrics.processed + Depth + InHand + Evicted
      BY <1>3, <2>3, <3>2 DEF IndInv, JobsConserved, Depth
    <3>4. Evicted' = Evicted + dropped /\ Evicted \in Nat
      <4>1. CASE config.fullBehavior = "dropOldest"
        BY <1>1, <2>4, <3>1, <4>1 DEF Evicted
      <4>2. CASE config.fullBehavior # "dropOldest"
        <5>1. Evicted = 0 /\ Evicted' = 0 /\ dropped = 0
          BY <1>1, <1>4, <4>2 DEF Evicted
        <5>2. QED
          BY <5>1
      <4>3. QED
        BY <4>1, <4>2
    <3>5. Depth' = Depth - dropped + 1
      BY <1>4, <3>1, <3>2, <3>3
    <3>6. metrics.enqueued + 1 = metrics.processed + Depth' + InHand + (Evicted + dropped)
      BY <3>1, <3>3, <3>4, <3>5, CountShift
    <3>7. QED
      BY <2>4, <3>2, <3>4, <3>6 DEF JobsConserved
  <2>9. QED
    BY <2>2, <2>5, <2>6, <2>7, <2>8 DEF IndInv
<1>5. ASSUME Reject(p), UNCHANGED metrics \/ UpdateMetrics(0, 0, 1),
             UpdateMetrics(0, 0, 1) => config.fullBehavior # "dropOldest" \/ UNCHANGED metrics
      PROVE  IndInv'
  <2>1. /\ PlacesOK' /\ LockOK' /\ NotifyOK' /\ JobsOK' /\ WorkerOK' /\ AloneOK'
        /\ LanesBounded' /\ HostJobsDistinct' /\ SleepsOnlyWhenEmpty'
        /\ pc' \in [Threads -> Places]
    BY <1>1, <1>5, RejectEffect
  <2>2. /\ metrics' \in [current : Nat, peak : Nat, enqueued : Nat, dropped : Nat, processed : Nat]
        /\ metrics'.enqueued = metrics.enqueued
        /\ metrics'.processed = metrics.processed
    <3>1. CASE UNCHANGED metrics
      BY <1>3, <3>1 DEF TypeOK
    <3>2. CASE UpdateMetrics(0, 0, 1)
      BY <1>3, <3>2, MetricsEffect DEF TypeOK
    <3>3. QED
      BY <1>5, <3>1, <3>2
  <2>3. TypeOK'
    BY <1>1, <1>5, <2>1, <2>2 DEF IndInv, TypeOK, Places, Reject
  <2>4. Evicted' = Evicted
    BY <1>1, <1>5 DEF Evicted
  <2>5. Depth' = Depth /\ InHand' = InHand
    BY <1>1, <1>5 DEF Depth, InHand, Reject
  <2>6. JobsConserved'
    BY <2>2, <2>4, <2>5 DEF IndInv, JobsConserved
  <2>7. QED
    BY <2>1, <2>3, <2>6 DEF IndInv
<1>6. CASE HostQueued(n) /\ Reject(p) /\ UNCHANGED metrics
  BY <1>5, <1>6
<1>7. CASE ~HostQueued(n) /\ AllFull /\ config.fullBehavior # "dropOldest" /\ Reject(p) /\ UpdateMetrics(0, 0, 1)
  BY <1>5, <1>7
<1>8. CASE ~HostQueued(n) /\ ~AllFull /\ AppendHost(p, jobs, hostJobs, 0)
  <2>1. /\ Bounded => Len(hostJobs) < config.maxDepth
        /\ Len(jobs) <= Len(jobs)
        /\ Len(jobs) + Len(hostJobs) = Depth - 0
    BY <1>3, <1>8 DEF AllFull, Depth
  <2>2. /\ \A a, b \in DOMAIN hostJobs : hostJobs[a] = hostJobs[b] => a = b
        /\ \A k \in DOMAIN hostJobs : hostJobs[k] # n
    BY <1>8 DEF IndInv, HostJobsDistinct, HostQueued
  <2>3. QED
    BY <1>3, <1>4, <1>8, <2>1, <2>2
<1>9. CASE ~HostQueued(n) /\ AllFull /\ config.fullBehavior = "dropOldest" /\ hostJobs # <<>>
           /\ AppendHost(p, jobs, Tail(hostJobs), 1)
  <2>1. Tail(hostJobs) \in Seq(Nodes) /\ Len(Tail(hostJobs)) = Len(hostJobs) - 1
    BY <1>3, <1>9, TailElements
  <2>2. /\ Bounded => Len(Tail(hostJobs)) < config.maxDepth
        /\ Len(jobs) <= Len(jobs)
        /\ Len(jobs) + Len(Tail(hostJobs)) = Depth - 1
    BY <1>3, <2>1 DEF IndInv, LanesBounded, Depth
  <2>3. /\ \A a, b \in DOMAIN Tail(hostJobs) : Tail(hostJobs)[a] = Tail(hostJobs)[b] => a = b
        /\ \A k \in DOMAIN Tail(hostJobs) : Tail(hostJobs)[k] # n
    BY <1>3, <1>9, TailElements, TailDistinct DEF IndInv, HostJobsDistinct, HostQueued
  <2>4. QED
    BY <1>3, <1>4, <1>9, <2>1, <2>2, <2>3
<1>10. CASE ~HostQueued(n) /\ AllFull /\ config.fullBehavior = "dropOldest" /\ hostJobs = <<>>
            /\ AppendHost(p, Tail(jobs), hostJobs, 1)
  <2>1. Len(hostJobs) = 0 /\ Len(jobs) > 0 /\ jobs # <<>>
    BY <1>3, <1>10 DEF AllFull, Bounded, Depth
  <2>2. Tail(jobs) \in Seq(Images) /\ Len(Tail(jobs)) = Len(jobs) - 1
    BY <1>3, <2>1, TailElements
  <2>3. /\ Bounded => Len(hostJobs) < config.maxDepth
        /\ Len(Tail(jobs)) <= Len(jobs)
        /\ Len(Tail(jobs)) + Len(hostJobs) = Depth - 1
    BY <1>3, <2>1, <2>2 DEF Bounded, Depth
  <2>4. /\ \A a, b \in DOMAIN hostJobs : hostJobs[a] = hostJobs[b] => a = b
        /\ \A k \in DOMAIN hostJobs : hostJobs[k] # n
    BY <1>10 DEF IndInv, HostJobsDistinct, HostQueued
  <2>5. QED
    BY <1>3, <1>4, <1>10, <2>2, <2>3, <2>4
<1>11. QED
  BY <1>6, <1>7, <1>8, <1>9, <1>10 DEF EnqueueHost

-----------------------------------------------------------------------------
\* The worker takes a job: from "enter" or "woken", with jobsMu free.
LEMMA TakeInv ==
    ASSUME IndInv, pc[Worker] \in {"enter", "woken"}, lock = Nobody, Take,
           UNCHANGED <<config, cancelled, request, calls>>
    PROVE  IndInv'
<1>1. /\ Worker \in Threads /\ Closer \in Threads /\ Worker # Closer
      /\ Producers \subseteq Threads /\ Worker \notin Producers /\ Closer \notin Producers
      /\ \A u \in Threads : u # Nobody
  BY ThreadAssumption DEF Threads
<1>2. /\ TypeOK /\ config.maxDepth \in Nat
      /\ jobs \in Seq(Images) /\ hostJobs \in Seq(Nodes)
      /\ Len(jobs) \in Nat /\ Len(hostJobs) \in Nat
  BY ConfigAssumption DEF IndInv, TypeOK
<1>3. /\ ~Empty /\ UpdateMetrics(Depth - 1, 0, 0)
      /\ SignalAndGo(Worker, "processing") /\ lock' = Nobody
  BY DEF Take
<1>4. /\ pc' \in [Threads -> Places]
      /\ waiters' \in Seq(Threads \ {Closer})
      /\ NotifyOK'
      /\ pc'[Worker] = "processing"
      /\ \A u \in Threads \ {Worker} :
            \/ pc'[u] = pc[u]
            \/ pc[u] = "waiting" /\ pc'[u] = "woken"
  BY <1>1, <1>3, SignalEffect DEF IndInv, Places
<1>5. PlacesOK' /\ LockOK' /\ WorkerOK'
  <2>1. \A u \in Threads : pc[u] # "locked"
    BY <1>1 DEF IndInv, LockOK
  <2>2. QED
    BY <1>1, <1>3, <1>4, <2>1 DEF IndInv, PlacesOK, LockOK, WorkerOK
<1>6. /\ running' \in Job /\ running' # NoJob
      /\ jobs' \in Seq(Images) /\ hostJobs' \in Seq(Nodes)
      /\ Len(jobs') <= Len(jobs) /\ Len(hostJobs') <= Len(hostJobs)
      /\ Len(jobs') + Len(hostJobs') = Depth - 1
      /\ hostJobs' = hostJobs \/ (hostJobs # <<>> /\ hostJobs' = Tail(hostJobs))
  <2>1. CASE jobs # <<>>
    <3>1. running' = ImageJob(Head(jobs)) /\ jobs' = Tail(jobs) /\ hostJobs' = hostJobs
      BY <2>1 DEF Take
    <3>2. Head(jobs) \in Images /\ Tail(jobs) \in Seq(Images) /\ Len(Tail(jobs)) = Len(jobs) - 1
      BY <1>2, <2>1, TailElements
    <3>3. running' \in Job /\ running'.kind # "none"
      BY <3>1, <3>2 DEF ImageJob, Job
    <3>4. QED
      BY <1>2, <3>1, <3>2, <3>3 DEF Depth, NoJob
  <2>2. CASE jobs = <<>>
    <3>1. running' = HostJob(Head(hostJobs)) /\ hostJobs' = Tail(hostJobs) /\ jobs' = jobs /\ hostJobs # <<>>
      BY <2>2 DEF Take, Empty
    <3>2. Head(hostJobs) \in Nodes /\ Tail(hostJobs) \in Seq(Nodes) /\ Len(Tail(hostJobs)) = Len(hostJobs) - 1
      BY <1>2, <3>1, TailElements
    <3>3. running' \in Job /\ running'.kind # "none"
      BY <3>1, <3>2 DEF HostJob, Job
    <3>4. running' # NoJob
      BY <3>3 DEF NoJob
    <3>5. Len(jobs') <= Len(jobs) /\ Len(hostJobs') <= Len(hostJobs) /\ Len(jobs') + Len(hostJobs') = Depth - 1
      BY <1>2, <3>1, <3>2 DEF Depth
    <3>6. QED
      BY <1>2, <3>1, <3>2, <3>3, <3>4, <3>5
  <2>3. QED
    BY <2>1, <2>2
<1>7. Depth \in Nat /\ Depth' \in Nat /\ Depth' = Depth - 1 /\ Depth - 1 \in Nat
  BY <1>2, <1>6 DEF Depth
<1>8. /\ metrics' \in [current : Nat, peak : Nat, enqueued : Nat, dropped : Nat, processed : Nat]
      /\ metrics'.enqueued = metrics.enqueued
      /\ metrics'.dropped = metrics.dropped
      /\ metrics'.processed = metrics.processed
  BY <1>2, <1>3, <1>7, MetricsEffect DEF TypeOK
<1>9. TypeOK'
  BY <1>3, <1>4, <1>6, <1>8 DEF IndInv, TypeOK, Places
<1>10. JobsOK'
  BY <1>1, <1>4, <1>6 DEF IndInv, JobsOK, PlacesOK
<1>11. AloneOK' /\ SleepsOnlyWhenEmpty'
  <2>1. CASE MayBlock
    BY <2>1 DEF AloneOK, SleepsOnlyWhenEmpty, MayBlock, Bounded
  <2>2. CASE ~MayBlock
    <3>1. waiters = <<>>
      BY <2>2 DEF IndInv, AloneOK
    <3>2. waiters' = <<>> /\ \A q \in Producers : pc'[q] = pc[q]
      BY <1>1, <1>3, <3>1 DEF SignalAndGo, IndInv, TypeOK
    <3>3. QED
      BY <1>4, <2>2, <3>2 DEF IndInv, AloneOK, SleepsOnlyWhenEmpty, MayBlock, Bounded
  <2>3. QED
    BY <2>1, <2>2
<1>12. LanesBounded'
  BY <1>2, <1>6 DEF IndInv, LanesBounded, Bounded
<1>13. HostJobsDistinct'
  BY <1>2, <1>6, TailDistinct DEF IndInv, HostJobsDistinct
<1>14. JobsConserved'
  <2>1. InHand = 0 /\ InHand' = 1 /\ Evicted' = Evicted
    BY <1>6, <1>8 DEF IndInv, JobsOK, InHand, Evicted
  <2>2. metrics.enqueued \in Nat /\ metrics.processed \in Nat /\ Evicted \in Nat
    BY <1>2 DEF TypeOK, Evicted
  <2>3. metrics.enqueued = metrics.processed + Depth + 0 + Evicted
    BY <2>1 DEF IndInv, JobsConserved
  <2>4. metrics.enqueued = metrics.processed + Depth' + 1 + Evicted
    BY <1>7, <2>2, <2>3
  <2>5. QED
    BY <1>8, <2>1, <2>4 DEF JobsConserved
<1>15. QED
  BY <1>4, <1>5, <1>9, <1>10, <1>11, <1>12, <1>13, <1>14 DEF IndInv

\* Steps that leave the queue and its metrics alone keep the data part of IndInv.
LEMMA QueueUntouched ==
    ASSUME IndInv, UNCHANGED <<config, jobs, hostJobs, running, metrics>>
    PROVE  LanesBounded' /\ HostJobsDistinct' /\ JobsConserved'
<1>1. LanesBounded' /\ HostJobsDistinct'
  BY DEF IndInv, LanesBounded, HostJobsDistinct, Bounded
<1>2. JobsConserved'
  BY DEF IndInv, JobsConserved, Depth, InHand, Evicted
<1>3. QED
  BY <1>1, <1>2

\* The worker returns.
LEMMA WorkerExitInv ==
    ASSUME IndInv, pc[Worker] \in {"enter", "woken"}, lock = Nobody, cancelled, WorkerExit,
           UNCHANGED <<config, cancelled, request, calls>>
    PROVE  IndInv'
<1> USE DEF WorkerExit
<1>1. TypeOK' /\ PlacesOK' /\ LockOK' /\ AloneOK' /\ SleepsOnlyWhenEmpty'
  BY ThreadAssumption DEF IndInv, TypeOK, PlacesOK, LockOK, AloneOK, SleepsOnlyWhenEmpty, Threads, MayBlock,
     Bounded, Empty
<1>2. \A p \in Producers : pc[p] # "locked"
  BY ThreadAssumption DEF IndInv, LockOK, Threads
<1>3. WorkerOK'
  BY <1>2, ThreadAssumption DEF IndInv, TypeOK, WorkerOK, Threads
<1>4. NotifyOK'
  BY DEF IndInv, TypeOK, NotifyOK, Threads
<1>5. JobsOK'
  BY ThreadAssumption DEF IndInv, TypeOK, JobsOK, Threads
<1>6. QED
  BY <1>1, <1>3, <1>4, <1>5, QueueUntouched DEF IndInv

\* The worker finds nothing to do and heads for Wait.
LEMMA GoIdleInv ==
    ASSUME IndInv, pc[Worker] \in {"enter", "woken"}, lock = Nobody, Empty, GoIdle,
           UNCHANGED <<config, cancelled, request, calls>>
    PROVE  IndInv'
<1> USE DEF GoIdle
<1>1. TypeOK' /\ PlacesOK' /\ LockOK' /\ AloneOK' /\ SleepsOnlyWhenEmpty'
  BY ThreadAssumption DEF IndInv, TypeOK, PlacesOK, LockOK, AloneOK, SleepsOnlyWhenEmpty, Threads, MayBlock,
     Bounded, Empty
<1>2. WorkerOK'
  BY ThreadAssumption DEF IndInv, TypeOK, WorkerOK, Threads, Empty
<1>3. NotifyOK'
  BY DEF IndInv, TypeOK, NotifyOK, Threads
<1>4. JobsOK'
  BY ThreadAssumption DEF IndInv, TypeOK, JobsOK, Threads
<1>5. QED
  BY <1>1, <1>2, <1>3, <1>4, QueueUntouched DEF IndInv

LEMMA WorkerLockInv == ASSUME IndInv, WorkerLock PROVE IndInv'
  BY TakeInv, WorkerExitInv, GoIdleInv DEF WorkerLock

LEMMA WorkerWakeInv == ASSUME IndInv, WorkerWake PROVE IndInv'
  BY TakeInv, WorkerExitInv, GoIdleInv DEF WorkerWake

\* The worker goes to sleep: the lanes are empty, because nobody else can have
\* been inside a section since it looked.
LEMMA WorkerWaitInv == ASSUME IndInv, WorkerWait PROVE IndInv'
<1>1. /\ pc[Worker] = "locked" /\ lock = Worker /\ WaitOn(Worker)
      /\ UNCHANGED <<config, jobs, hostJobs, cancelled, request, running, metrics, calls>>
  BY DEF WorkerWait
<1>2. /\ Worker \in Threads \ {Closer}
      /\ Producers \subseteq Threads /\ Worker \notin Producers /\ Closer \in Threads
      /\ \A u \in Threads : u # Nobody
  BY ThreadAssumption DEF Threads
<1>3. /\ pc' \in [Threads -> Places]
      /\ waiters' \in Seq(Threads \ {Closer})
      /\ NotifyOK' /\ lock' = Nobody
      /\ pc'[Worker] = "waiting"
      /\ \A u \in Threads \ {Worker} : pc'[u] = pc[u]
  BY <1>1, <1>2, WaitEffect DEF IndInv
<1>4. TypeOK'
  BY <1>1, <1>3 DEF IndInv, TypeOK, Places
<1>5. PlacesOK' /\ LockOK' /\ WorkerOK'
  BY <1>1, <1>2, <1>3, ThreadAssumption DEF IndInv, PlacesOK, LockOK, WorkerOK
<1>6. JobsOK'
  BY <1>1, <1>2, <1>3 DEF IndInv, JobsOK
<1>7. SleepsOnlyWhenEmpty'
  BY <1>1 DEF IndInv, WorkerOK, SleepsOnlyWhenEmpty, Empty
<1>8. AloneOK'
  <2>1. ~MayBlock => waiters = <<>> /\ waiters' = <<Worker>>
    BY <1>1 DEF IndInv, AloneOK, WaitOn
  <2>2. QED
    BY <1>1, <1>2, <1>3, <2>1 DEF IndInv, AloneOK, MayBlock, Bounded
<1>9. QED
  BY <1>1, <1>3, <1>4, <1>5, <1>6, <1>7, <1>8, QueueUntouched DEF IndInv

\* A job is done.
LEMMA WorkerFinishInv == ASSUME IndInv, WorkerFinish PROVE IndInv'
<1> USE DEF WorkerFinish
<1>1. /\ metrics' \in [current : Nat, peak : Nat, enqueued : Nat, dropped : Nat, processed : Nat]
      /\ metrics'.enqueued = metrics.enqueued
      /\ metrics'.dropped = metrics.dropped
      /\ metrics'.processed = metrics.processed + 1
  BY DEF IndInv, TypeOK
<1>2. TypeOK'
  BY <1>1 DEF IndInv, TypeOK, Threads
<1>3. PlacesOK' /\ LockOK' /\ WorkerOK' /\ AloneOK' /\ SleepsOnlyWhenEmpty'
  BY ThreadAssumption DEF IndInv, TypeOK, PlacesOK, LockOK, WorkerOK, AloneOK, SleepsOnlyWhenEmpty, Threads,
     MayBlock, Bounded, Empty
<1>4. NotifyOK'
  BY DEF IndInv, TypeOK, NotifyOK, Threads
<1>5. JobsOK'
  BY ThreadAssumption DEF IndInv, TypeOK, JobsOK, Threads
<1>6. LanesBounded' /\ HostJobsDistinct'
  BY DEF IndInv, LanesBounded, HostJobsDistinct, Bounded
<1>7. JobsConserved'
  <2>1. /\ metrics.enqueued \in Nat /\ metrics.processed \in Nat /\ Evicted \in Nat
        /\ Depth \in Nat /\ Depth' = Depth
    BY DEF IndInv, TypeOK, Evicted, Depth
  <2>2. InHand = 1 /\ InHand' = 0 /\ Evicted' = Evicted
    BY <1>1 DEF IndInv, JobsOK, InHand, Evicted
  <2>3. metrics.enqueued = metrics.processed + Depth + 1 + Evicted
    BY <2>2 DEF IndInv, JobsConserved
  <2>4. metrics.enqueued = (metrics.processed + 1) + Depth + 0 + Evicted
    BY <2>1, <2>3
  <2>5. QED
    BY <1>1, <2>1, <2>2, <2>4 DEF JobsConserved
<1>8. QED
  BY <1>2, <1>3, <1>4, <1>5, <1>6, <1>7 DEF IndInv

-----------------------------------------------------------------------------
\* Shutdown: Cancel and Join move only the closer.
LEMMA CloserInv == ASSUME IndInv, Cancel \/ Join PROVE IndInv'
<1> USE DEF Cancel, Join
<1>1. TypeOK'
  BY DEF IndInv, TypeOK, Threads
<1>2. PlacesOK' /\ LockOK' /\ WorkerOK' /\ AloneOK' /\ SleepsOnlyWhenEmpty'
  BY ThreadAssumption DEF IndInv, TypeOK, PlacesOK, LockOK, WorkerOK, AloneOK, SleepsOnlyWhenEmpty, Threads,
     MayBlock, Bounded, Empty
<1>3. NotifyOK'
  BY DEF IndInv, TypeOK, NotifyOK, Threads
<1>4. JobsOK'
  BY ThreadAssumption DEF IndInv, TypeOK, JobsOK, Threads
<1>5. QED
  BY <1>1, <1>2, <1>3, <1>4, QueueUntouched DEF IndInv

\* Broadcast wakes every sleeper, with or without jobsMu free.
LEMMA BroadcastInv == ASSUME IndInv, Broadcast PROVE IndInv'
<1> USE DEF Broadcast
<1>1. /\ Worker \in Threads /\ Closer \in Threads /\ Worker # Closer
      /\ Producers \subseteq Threads /\ Worker \notin Producers /\ Closer \notin Producers
  BY ThreadAssumption DEF Threads
<1>2. /\ pc' \in [Threads -> Places]
      /\ pc'[Closer] = "joining"
      /\ \A u \in Threads \ {Closer} : pc'[u] = IF pc[u] = "waiting" THEN "woken" ELSE pc[u]
  BY <1>1 DEF IndInv, TypeOK, Places
<1>3. waiters' = <<>> /\ waiters' \in Seq(Threads \ {Closer})
  OBVIOUS
<1>4. TypeOK'
  BY <1>2, <1>3 DEF IndInv, TypeOK, Places
<1>5. PlacesOK' /\ LockOK' /\ WorkerOK'
  BY <1>1, <1>2 DEF IndInv, PlacesOK, LockOK, WorkerOK, Empty
<1>6. NotifyOK'
  BY <1>3 DEF NotifyOK
<1>7. JobsOK'
  BY <1>1, <1>2 DEF IndInv, JobsOK
<1>8. AloneOK' /\ SleepsOnlyWhenEmpty'
  BY <1>1, <1>2, <1>3 DEF IndInv, AloneOK, SleepsOnlyWhenEmpty, MayBlock, Bounded
<1>9. QED
  BY <1>4, <1>5, <1>6, <1>7, <1>8, QueueUntouched DEF IndInv

LEMMA StutterInv == ASSUME IndInv, UNCHANGED vars PROVE IndInv'
<1> USE DEF vars
<1>1. TypeOK' /\ PlacesOK' /\ LockOK' /\ NotifyOK'
  BY DEF IndInv, TypeOK, PlacesOK, LockOK, NotifyOK
<1>2. JobsOK' /\ WorkerOK' /\ AloneOK' /\ SleepsOnlyWhenEmpty'
  BY DEF IndInv, JobsOK, WorkerOK, AloneOK, SleepsOnlyWhenEmpty, MayBlock, Bounded, Empty
<1>3. QED
  BY <1>1, <1>2, QueueUntouched DEF IndInv

-----------------------------------------------------------------------------
\* IndInv is inductive, so every reachable state satisfies it.
THEOREM InductiveInvariant == Spec => []IndInv
<1>1. IndInv /\ [Next]_vars => IndInv'
  <2> SUFFICES ASSUME IndInv, [Next]_vars PROVE IndInv'
    OBVIOUS
  <2>1. ASSUME NEW p \in Producers, CallEnqueue(p) \/ ProducerStep(p) PROVE IndInv'
    BY <2>1, CallEnqueueInv, ProducerLockInv, EnqueueImageInv, EnqueueHostInv DEF ProducerStep
  <2>2. CASE WorkerStep
    BY <2>2, WorkerLockInv, WorkerWakeInv, WorkerWaitInv, WorkerFinishInv DEF WorkerStep
  <2>3. CASE Cancel \/ CloserStep
    BY <2>3, CloserInv, BroadcastInv DEF CloserStep
  <2>4. CASE UNCHANGED vars
    BY <2>4, StutterInv
  <2>5. QED
    BY <2>1, <2>2, <2>3, <2>4 DEF Next
<1>2. QED
  BY InitInv, <1>1, PTL DEF Spec

\* Every variable of the queue keeps its type.
THEOREM TypeCorrect == Spec => []TypeOK
  BY InductiveInvariant, PTL DEF IndInv

\* Whatever the callers do, neither lane ever holds more than MaxDepth jobs.
THEOREM LanesStayBounded == Spec => []LanesBounded
  BY InductiveInvariant, PTL DEF IndInv

\* A node is never queued twice, however many callers race to queue it.
THEOREM HostJobsStayDistinct == Spec => []HostJobsDistinct
  BY InductiveInvariant, PTL DEF IndInv

\* The counters account for every job: none is lost or counted twice.
THEOREM JobsAreConserved == Spec => []JobsConserved
  BY InductiveInvariant, PTL DEF IndInv

\* With an unbounded or a dropping queue (every deployed one) the shared condition
\* variable loses no wakeup: the worker never sleeps on a job.
THEOREM NoLostWakeup == Spec => []SleepsOnlyWhenEmpty
  BY InductiveInvariant, PTL DEF IndInv

-----------------------------------------------------------------------------
(* ScanQueue implements TwoLaneQueue.  The abstract state is the two lanes, *)
(* the job in hand and whether the worker is still there; a step of the     *)
(* queue is a step of TwoLaneQueue where it appends or takes a job, ends a  *)
(* job or returns, and a stutter everywhere else.                           *)

AbsRunning == IF running = NoJob THEN <<>> ELSE <<running.kind, running.name>>
AbsOpen == pc[Worker] # "exited"

\* The abstract state is untouched by a step that moves no job and leaves the
\* worker on the same side of "exited".
LEMMA AbstractStutter ==
    ASSUME UNCHANGED <<config, jobs, hostJobs, running>>,
           (pc'[Worker] = "exited") <=> (pc[Worker] = "exited")
    PROVE  UNCHANGED Lanes!laneVars
  BY DEF Lanes!laneVars

\* A section of a producer never moves the worker to or from "exited".
LEMMA ProducerKeepsOpen ==
    ASSUME IndInv, NEW p \in Producers, pc[p] # "waiting", SignalAndGo(p, "idle")
    PROVE  (pc'[Worker] = "exited") <=> (pc[Worker] = "exited")
<1>1. p \in Threads /\ Worker \in Threads \ {p}
  BY ThreadAssumption DEF Threads
<1>2. \/ pc'[Worker] = pc[Worker]
      \/ pc[Worker] = "waiting" /\ pc'[Worker] = "woken"
  BY <1>1, SignalEffect DEF IndInv, Places
<1>3. QED
  BY <1>2

LEMMA RefineEnqueueImage ==
    ASSUME IndInv, NEW p \in Producers, EnqueueImage(p)
    PROVE  [Lanes!Next]_(Lanes!laneVars)
<1>1. /\ pc[p] = "locked" /\ lock = p /\ request[p].kind = "image"
      /\ UNCHANGED <<config, cancelled, request, running, calls>>
  BY DEF EnqueueImage, Locked
<1>2. request[p].name \in Images
  BY <1>1 DEF IndInv, JobsOK, Job
<1>3. pc[Worker] # "exited"
  BY <1>1 DEF IndInv, WorkerOK
<1>4. p \in Threads /\ Worker \in Threads \ {p}
  BY ThreadAssumption DEF Threads
<1>5. CASE ~ImagesFull /\ AppendImage(p, jobs, 0)
  <2>1. jobs' = Append(jobs, request[p].name) /\ hostJobs' = hostJobs /\ pc'[Worker] # "exited"
    BY <1>1, <1>3, <1>5, ProducerKeepsOpen DEF AppendImage
  <2>2. Lanes!Accept
    BY <1>1, <1>2, <1>3, <1>5, <2>1 DEF Lanes!Accept, Lanes!Full, ImagesFull, Bounded
  <2>3. QED
    BY <1>1, <2>2 DEF Lanes!Next
<1>6. CASE ImagesFull /\ config.fullBehavior = "dropOldest" /\ AppendImage(p, Tail(jobs), 1)
  <2>1. jobs' = Append(Tail(jobs), request[p].name) /\ hostJobs' = hostJobs /\ pc'[Worker] # "exited"
    BY <1>1, <1>3, <1>6, ProducerKeepsOpen DEF AppendImage
  <2>2. Lanes!AcceptEvicting
    BY <1>1, <1>2, <1>3, <1>6, <2>1 DEF Lanes!AcceptEvicting, Lanes!Full, ImagesFull, Bounded
  <2>3. QED
    BY <1>1, <2>2 DEF Lanes!Next
<1>7. CASE Reject(p)
  BY <1>1, <1>4, <1>7, AbstractStutter DEF IndInv, TypeOK, Reject
<1>8. CASE WaitOn(p) /\ UNCHANGED <<jobs, hostJobs, metrics>>
  BY <1>1, <1>4, <1>8, AbstractStutter DEF IndInv, TypeOK, WaitOn
<1>9. QED
  BY <1>5, <1>6, <1>7, <1>8 DEF EnqueueImage

LEMMA RefineEnqueueHost ==
    ASSUME IndInv, NEW p \in Producers, EnqueueHost(p)
    PROVE  [Lanes!Next]_(Lanes!laneVars)
<1> DEFINE n == request[p].name
<1>1. /\ pc[p] = "locked" /\ lock = p /\ request[p].kind = "host"
      /\ UNCHANGED <<config, cancelled, request, running, calls>>
  BY DEF EnqueueHost, Locked
<1>2. n \in Nodes
  BY <1>1 DEF IndInv, JobsOK, Job
<1>3. pc[Worker] # "exited"
  BY <1>1 DEF IndInv, WorkerOK
<1>4. p \in Threads /\ Worker \in Threads \ {p}
  BY ThreadAssumption DEF Threads
<1>5. ~HostQueued(n) => n \in Nodes \ Lanes!Range(hostJobs)
  BY <1>2 DEF HostQueued, Lanes!Range
<1>6. AllFull <=> Lanes!Full(Lanes!Total)
  BY DEF AllFull, Bounded, Depth, Lanes!Full, Lanes!Total
<1>7. CASE Reject(p)
  BY <1>1, <1>4, <1>7, AbstractStutter DEF IndInv, TypeOK, Reject
<1>8. CASE ~HostQueued(n) /\ ~AllFull /\ AppendHost(p, jobs, hostJobs, 0)
  <2>1. jobs' = jobs /\ hostJobs' = Append(hostJobs, n) /\ pc'[Worker] # "exited"
    BY <1>1, <1>3, <1>8, ProducerKeepsOpen DEF AppendHost
  <2>2. Lanes!Accept
    BY <1>1, <1>3, <1>5, <1>6, <1>8, <2>1 DEF Lanes!Accept
  <2>3. QED
    BY <1>1, <2>2 DEF Lanes!Next
<1>9. CASE ~HostQueued(n) /\ AllFull /\ config.fullBehavior = "dropOldest" /\ hostJobs # <<>>
           /\ AppendHost(p, jobs, Tail(hostJobs), 1)
  <2>1. jobs' = jobs /\ hostJobs' = Append(Tail(hostJobs), n) /\ pc'[Worker] # "exited"
    BY <1>1, <1>3, <1>9, ProducerKeepsOpen DEF AppendHost
  <2>2. Lanes!AcceptEvicting
    BY <1>1, <1>3, <1>5, <1>6, <1>9, <2>1 DEF Lanes!AcceptEvicting
  <2>3. QED
    BY <1>1, <2>2 DEF Lanes!Next
<1>10. CASE ~HostQueued(n) /\ AllFull /\ config.fullBehavior = "dropOldest" /\ hostJobs = <<>>
            /\ AppendHost(p, Tail(jobs), hostJobs, 1)
  <2>1. jobs' = Tail(jobs) /\ hostJobs' = <<n>> /\ pc'[Worker] # "exited"
    BY <1>1, <1>3, <1>10, ProducerKeepsOpen DEF AppendHost
  <2>2. Lanes!AcceptEvicting
    BY <1>1, <1>3, <1>5, <1>6, <1>10, <2>1 DEF Lanes!AcceptEvicting
  <2>3. QED
    BY <1>1, <2>2 DEF Lanes!Next
<1>11. QED
  BY <1>7, <1>8, <1>9, <1>10 DEF EnqueueHost

LEMMA RefineTake ==
    ASSUME IndInv, pc[Worker] \in {"enter", "woken"}, lock = Nobody, Take, UNCHANGED config
    PROVE  Lanes!Next
<1>1. Worker \in Threads /\ pc[Worker] # "waiting" /\ running = NoJob
  BY DEF Threads, IndInv, JobsOK
<1>2. pc'[Worker] = "processing"
  BY <1>1, SignalEffect DEF IndInv, Places, Take
<1>3. ImageJob(Head(jobs)) # NoJob /\ HostJob(Head(hostJobs)) # NoJob
  <2>1. ImageJob(Head(jobs)).kind # NoJob.kind /\ HostJob(Head(hostJobs)).kind # NoJob.kind
    BY DEF ImageJob, HostJob, NoJob
  <2>2. QED
    BY <2>1
<1>4. CASE jobs # <<>>
  <2>1. running' = ImageJob(Head(jobs)) /\ jobs' = Tail(jobs) /\ hostJobs' = hostJobs
    BY <1>4 DEF Take
  <2>2. AbsRunning' = <<"image", Head(jobs)>>
    BY <2>1, <1>3 DEF AbsRunning, ImageJob
  <2>3. Lanes!Start
    BY <1>1, <1>2, <1>4, <2>1, <2>2 DEF Lanes!Start, AbsRunning
  <2>4. QED
    BY <2>3 DEF Lanes!Next
<1>5. CASE jobs = <<>>
  <2>1. running' = HostJob(Head(hostJobs)) /\ hostJobs' = Tail(hostJobs) /\ jobs' = jobs /\ hostJobs # <<>>
    BY <1>5 DEF Take, Empty
  <2>2. AbsRunning' = <<"host", Head(hostJobs)>>
    BY <2>1, <1>3 DEF AbsRunning, HostJob
  <2>3. Lanes!Start
    BY <1>1, <1>2, <1>5, <2>1, <2>2 DEF Lanes!Start, AbsRunning
  <2>4. QED
    BY <2>3 DEF Lanes!Next
<1>6. QED
  BY <1>4, <1>5

LEMMA RefineWorker ==
    ASSUME IndInv, WorkerStep PROVE [Lanes!Next]_(Lanes!laneVars)
<1>1. Worker \in Threads
  BY DEF Threads
<1>2. ASSUME pc[Worker] \in {"enter", "woken"}, WorkerExit, UNCHANGED config
      PROVE  Lanes!Next
  <2>1. running = NoJob /\ pc'[Worker] = "exited" /\ UNCHANGED <<jobs, hostJobs, running>>
    BY <1>1, <1>2 DEF IndInv, TypeOK, JobsOK, WorkerExit
  <2>2. Lanes!Close
    BY <1>2, <2>1 DEF Lanes!Close
  <2>3. QED
    BY <1>2, <2>2 DEF Lanes!Next
<1>3. ASSUME pc[Worker] \in {"enter", "woken"}, GoIdle, UNCHANGED config
      PROVE  UNCHANGED Lanes!laneVars
  BY <1>1, <1>3, AbstractStutter DEF IndInv, TypeOK, GoIdle
<1>4. CASE WorkerLock
  BY <1>2, <1>3, <1>4, RefineTake DEF WorkerLock
<1>5. CASE WorkerWake
  BY <1>2, <1>3, <1>5, RefineTake DEF WorkerWake
<1>6. CASE WorkerWait
  BY <1>1, <1>6, AbstractStutter DEF IndInv, TypeOK, WorkerWait, WaitOn
<1>7. CASE WorkerFinish
  <2>1. /\ running # NoJob /\ running' = NoJob
        /\ pc[Worker] # "exited" /\ pc'[Worker] # "exited"
        /\ UNCHANGED <<config, jobs, hostJobs>>
    BY <1>1, <1>7 DEF IndInv, TypeOK, JobsOK, WorkerFinish
  <2>2. AbsRunning # <<>> /\ AbsRunning' = <<>>
    BY <2>1 DEF AbsRunning
  <2>3. Lanes!Finish
    BY <2>1, <2>2 DEF Lanes!Finish, AbsRunning
  <2>4. QED
    BY <2>1, <2>3 DEF Lanes!Next
<1>8. QED
  BY <1>4, <1>5, <1>6, <1>7 DEF WorkerStep

LEMMA RefineOther ==
    ASSUME IndInv,
           \/ \E p \in Producers : CallEnqueue(p) \/ ProducerLock(p)
           \/ Cancel \/ CloserStep \/ UNCHANGED vars
    PROVE  UNCHANGED Lanes!laneVars
<1>1. /\ Worker \in Threads /\ Closer \in Threads /\ Worker # Closer
      /\ Producers \subseteq Threads /\ Worker \notin Producers
  BY ThreadAssumption DEF Threads
<1>2. ASSUME NEW p \in Producers, CallEnqueue(p) \/ ProducerLock(p)
      PROVE  UNCHANGED Lanes!laneVars
  <2>1. p \in Threads /\ p # Worker
    BY <1>1
  <2>2. pc'[Worker] = pc[Worker] /\ UNCHANGED <<config, jobs, hostJobs, running>>
    BY <1>1, <1>2, <2>1 DEF IndInv, TypeOK, CallEnqueue, ProducerLock, Reject
  <2>3. QED
    BY <2>2, AbstractStutter
<1>3. CASE Cancel \/ Join
  BY <1>1, <1>3, AbstractStutter DEF IndInv, TypeOK, Cancel, Join
<1>4. CASE Broadcast
  <2>1. /\ UNCHANGED <<config, jobs, hostJobs, running>>
        /\ pc'[Worker] = IF pc[Worker] = "waiting" THEN "woken" ELSE pc[Worker]
    BY <1>1, <1>4 DEF Broadcast
  <2>2. QED
    BY <2>1, AbstractStutter
<1>5. CASE UNCHANGED vars
  BY <1>5, AbstractStutter DEF vars
<1>6. QED
  BY <1>2, <1>3, <1>4, <1>5 DEF CloserStep

\* Whatever the interleaving of callers, worker and Shutdown, callers see a
\* two-lane FIFO queue with one consumer that accepts nothing after it closed.
THEOREM Refinement == Spec => TwoLanes
<1>1. Init => Lanes!Init
  BY ConfigAssumption, ThreadAssumption DEF Init, Lanes!Init, Threads
<1>2. IndInv /\ [Next]_vars => [Lanes!Next]_(Lanes!laneVars)
  <2> SUFFICES ASSUME IndInv, [Next]_vars PROVE [Lanes!Next]_(Lanes!laneVars)
    OBVIOUS
  <2>1. ASSUME NEW p \in Producers, EnqueueImage(p) \/ EnqueueHost(p)
        PROVE  [Lanes!Next]_(Lanes!laneVars)
    BY <2>1, RefineEnqueueImage, RefineEnqueueHost
  <2>2. CASE WorkerStep
    BY <2>2, RefineWorker
  <2>3. CASE \/ \E p \in Producers : CallEnqueue(p) \/ ProducerLock(p)
             \/ Cancel \/ CloserStep \/ UNCHANGED vars
    BY <2>3, RefineOther
  <2>4. QED
    BY <2>1, <2>2, <2>3 DEF Next, ProducerStep
<1>3. QED
  BY InductiveInvariant, <1>1, <1>2, PTL DEF Spec, TwoLanes, Lanes!Spec
=============================================================================
