------------------------------- MODULE Metrics --------------------------------
(***************************************************************************)
(* The export of metrics over the caches of VulnCache                      *)
(* (src/scanner-core/metrics/): a cycle asks the staleness table which     *)
(* series have ended, goes through the live ones and sends everything in   *)
(* batches over a bounded channel to sender goroutines (otel_direct.go).   *)
(* A goroutine of its own, its tail, then writes what has changed to the   *)
(* table and to the copy of it in memory (tracker.go), while the next      *)
(* cycle may go on.  A series that has ended is sent as NaN until its      *)
(* entry expires.                                                          *)
(*                                                                         *)
(* An entry is the number of ticks until it expires, or Active or Absent.  *)
(* A tick is a third of the staleness window of an hour; cycles are        *)
(* seconds to minutes apart, so in every tick one starts and gets through, *)
(* and no cycle with its tail meets more than one.                         *)
(***************************************************************************)
EXTENDS VulnCache

CONSTANTS
    MaxTails,        \* tails there can be at one time         (model bound)
    SendConcurrency, \* senders, and the capacity of the channel
    MaxFails         \* failed reads, writes and sends, and tails that are so
                     \* slow that the next one overlaps them   (model bound)

ASSUME MetricsAssumption ==
    MaxTails \in Nat \ {0} /\ SendConcurrency \in Nat \ {0} /\ MaxFails \in Nat

VARIABLES
    table,      \* metric_staleness
    mem,        \* StalenessStore.state
    hydrated,   \* NewStalenessStore could read the table
    crossed,    \* series last written to the table by a tail while another one
                \* had written it and not yet brought it to memory   (history)
    cycle,      \* the collection and its batches
    tail,       \* what goes on after earlier ones, in the order they ended
    received,   \* what the metrics backend has last got of a series
    told,       \* those marked as ended of which a point has arrived since
    through,    \* since the last tick a cycle has gone through from start to end
    fails

store == <<table, mem, hydrated, crossed>>
backend == <<received, told>>
metricsVars == <<store, cycle, tail, backend, through, fails>>
vars == <<cacheVars, metricsVars>>

Window == 3
Active == Window + 1
Absent == -2
Entries == Absent .. Active
Older(e) == IF e \in 0 .. Window THEN e - 1 ELSE e
\* QueryStaleness; needsPersist.
StaleRows == {s \in Series : table[s] \in 1 .. Window}
NeedsPersist(s) == mem[s] # Active

\* age: ticks since the cycle started; clean: nothing has failed in it.
Idle == [pc |-> "idle", age |-> 0, clean |-> TRUE, stale |-> {}, live |-> {}, write |-> {},
         todo |-> {}, channel |-> {}, sending |-> {}, err |-> FALSE]
Tails == 1 .. MaxTails
NoTail == [pc |-> "idle", age |-> 0, live |-> {}, write |-> {}, drop |-> {}]

TypeOK ==
    /\ CacheTypeOK
    /\ table \in [Series -> Entries] /\ mem \in [Series -> Entries] /\ hydrated \in BOOLEAN
    /\ crossed \subseteq Series
    /\ received \in [Series -> {"nothing", "value", "NaN"}] /\ told \subseteq Series
    /\ through \in BOOLEAN
    /\ fails \in 0 .. MaxFails
    /\ cycle \in [pc : {"idle", "collect", "observe", "send"}, age : 0 .. 1, clean : BOOLEAN,
                  stale : SUBSET Series, live : SUBSET Series, write : SUBSET Series,
                  todo : SUBSET Series, channel : SUBSET Series, sending : SUBSET Series,
                  err : BOOLEAN]
    /\ tail \in [Tails -> [pc : {"idle", "diff", "apply", "remember", "expire", "delete", "forget"},
                           age : 0 .. 1, live : SUBSET Series, write : SUBSET Series,
                           drop : SUBSET Series]]
    \* the channel and the senders have their limits, and nothing is left in
    \* them when the diff is applied
    /\ Cardinality(cycle.channel) <= SendConcurrency
    /\ Cardinality(cycle.sending) <= SendConcurrency
    /\ cycle.pc # "send" => cycle.channel \cup cycle.sending = {}

Init ==
    /\ CacheInit
    /\ table = [s \in Series |-> Absent] /\ mem = [s \in Series |-> Absent]
    /\ hydrated = TRUE /\ crossed = {}
    /\ cycle = Idle
    /\ tail = [t \in Tails |-> NoTail]
    /\ received = [s \in Series |-> "nothing"] /\ told = {}
    /\ through = FALSE
    /\ fails = 0

Fail == fails < MaxFails /\ fails' = fails + 1

-----------------------------------------------------------------------------
(* Collection *)

\* QueryStale; after an error the cycle goes on without NaN.
Start ==
    /\ cycle.pc = "idle"
    /\ \/ /\ cycle' = [cycle EXCEPT !.pc = "collect", !.stale = StaleRows]
          /\ UNCHANGED fails
       \/ cycle' = [cycle EXCEPT !.pc = "collect", !.clean = FALSE] /\ Fail
    /\ UNCHANGED <<cacheVars, store, tail, backend, through>>

\* collectMetrics reads the rows; if it cannot read them all it stops there.
Collect ==
    /\ cycle.pc = "collect"
    /\ \/ cycle' = [cycle EXCEPT !.pc = "observe", !.live = Rows] /\ UNCHANGED fails
       \/ /\ Fail
          /\ \E part \in SUBSET Rows :
                cycle' = [cycle EXCEPT !.pc = "observe", !.live = part, !.stale = {}, !.clean = FALSE]
    /\ ReadThrough
    /\ UNCHANGED <<store, tail, backend, through>>

\* Stale series that are not live are sent as NaN, after the live ones.
Emitted == cycle.live \cup cycle.stale
IsLive(s) == s \in cycle.live

\* The recorder sees every live series and keeps the rows to be written.
Observe ==
    /\ cycle.pc = "observe"
    /\ cycle' = [cycle EXCEPT !.pc = "send",
                              !.write = {s \in cycle.live : NeedsPersist(s)},
                              !.stale = {},
                              !.todo = Emitted]
    /\ UNCHANGED <<cacheVars, store, tail, backend, through, fails>>

-----------------------------------------------------------------------------
(* Sending: one point is one batch *)

\* flush: a batch is handed over when there is room for it.
HandOver(s) ==
    /\ Cardinality(cycle.channel) < SendConcurrency
    /\ cycle' = [cycle EXCEPT !.todo = @ \ {s}, !.channel = @ \cup {s}]

\* After an error the rest is not recorded.
Record(s) ==
    /\ cycle.pc = "send"
    /\ s \in cycle.todo
    /\ IsLive(s) \/ ~\E o \in cycle.todo : IsLive(o)
    /\ IF cycle.err THEN cycle' = [cycle EXCEPT !.todo = {}] ELSE HandOver(s)
    /\ UNCHANGED <<cacheVars, store, tail, backend, through, fails>>

\* sendLoop takes a batch; after an error it only drains the channel.
Take(s) ==
    /\ s \in cycle.channel
    /\ Cardinality(cycle.sending) < SendConcurrency
    /\ cycle' = [cycle EXCEPT !.channel = @ \ {s},
                              !.sending = IF cycle.err THEN @ ELSE @ \cup {s}]
    /\ UNCHANGED <<cacheVars, store, tail, backend, through, fails>>

Delivered(s) ==
    /\ received' = [received EXCEPT ![s] = IF IsLive(s) THEN "value" ELSE "NaN"]
    /\ told' = IF table[s] \in {Absent, Active} THEN told ELSE told \cup {s}

\* sender.Send with its retries: it arrives, or it fails, and then it may have
\* arrived all the same.
Send(s) ==
    /\ s \in cycle.sending
    /\ \/ /\ Delivered(s)
          /\ cycle' = [cycle EXCEPT !.sending = @ \ {s}]
          /\ UNCHANGED fails
       \/ /\ Fail
          /\ Delivered(s) \/ UNCHANGED backend
          /\ cycle' = [cycle EXCEPT !.sending = @ \ {s}, !.err = TRUE, !.clean = FALSE]
    /\ UNCHANGED <<cacheVars, store, tail, through>>

\* The cycle ends and leaves the rest to a goroutine.  That it finds an earlier
\* one still at work is counted: the earlier one is slow.
BeginTail(t) ==
    /\ tail[t].pc = "idle" /\ \A u \in 1 .. t - 1 : tail[u].pc # "idle"
    /\ tail' = [tail EXCEPT ![t] = [NoTail EXCEPT !.pc = "diff", !.age = cycle.age,
                                                  !.live = cycle.live, !.write = cycle.write]]
    /\ IF t = 1 THEN UNCHANGED fails ELSE Fail
EndCycle(t) ==
    /\ BeginTail(t)
    /\ cycle' = Idle
    /\ through' = (through \/ (cycle.clean /\ cycle.age = 0))
    /\ UNCHANGED <<cacheVars, store, backend>>

\* Mutant: the senders are not waited for, and the batches left behind are not
\* this cycle's any more.
MutFlush(t) ==
    /\ cycle.pc = "send" /\ cycle.todo = {}
    /\ BeginTail(t)
    /\ cycle' = [Idle EXCEPT !.channel = cycle.channel, !.sending = cycle.sending]
    /\ through' = (through \/ (cycle.clean /\ cycle.age = 0))
    /\ UNCHANGED <<cacheVars, store, backend>>

\* Flush: the channel is closed and the senders are waited for.
Flush(t) ==
    /\ cycle.pc = "send"
    /\ cycle.todo = {} /\ cycle.channel = {} /\ cycle.sending = {}
    /\ EndCycle(t)

-----------------------------------------------------------------------------
(* The tail: StalenessStore.Apply and DeleteExpired.  No tail waits for an *)
(* earlier one (otel.go:183).                                              *)

offTail == <<cacheVars, hydrated, cycle, received, through>>
Goto(t, pc) == tail' = [tail EXCEPT ![t].pc = pc]
ExpiresAt(t) == Window - tail[t].age
\* What the tail has written and marked is of no use to it any more.
GoExpire(t) == tail' = [tail EXCEPT ![t].pc = "expire", ![t].write = {}, ![t].drop = {}]
Upsert(old, t) == [s \in Series |-> IF s \in tail[t].write THEN Active ELSE old[s]]

\* Mutant: when there is nothing to write, what is gone is not marked either.
MutDiff(t) ==
    /\ tail[t].pc = "diff"
    /\ tail' = [tail EXCEPT ![t].pc = IF tail[t].write = {} THEN "expire" ELSE "apply",
                            ![t].drop = {s \in Series : mem[s] = Active} \ tail[t].live,
                            ![t].live = {}]
    /\ UNCHANGED <<offTail, told, crossed, fails, table, mem>>

\* What is tracked as active and was not seen; nothing to do, no write.
Diff(t) ==
    /\ tail[t].pc = "diff"
    /\ LET gone == {s \in Series : mem[s] = Active} \ tail[t].live
       IN  tail' = [tail EXCEPT ![t].pc = IF tail[t].write \cup gone = {} THEN "expire" ELSE "apply",
                                ![t].drop = gone, ![t].live = {}]
    /\ UNCHANGED <<offTail, told, crossed, fails, table, mem>>

Touched(t) == tail[t].write \cup tail[t].drop
Between(t, s) == \E u \in Tails \ {t} : tail[u].pc = "remember" /\ s \in Touched(u)

\* ApplyStalenessChanges, one transaction: the upserts, then an update of the
\* rows that are there.
ApplyStalenessChanges(t) ==
    /\ tail[t].pc = "apply"
    /\ \/ /\ LET upserted == Upsert(table, t)
             IN  table' = [s \in Series |-> IF s \in tail[t].drop /\ upserted[s] # Absent
                                            THEN ExpiresAt(t) ELSE upserted[s]]
          /\ told' = told \ Touched(t)
          /\ crossed' = (crossed \ Touched(t)) \cup {s \in Touched(t) : Between(t, s)}
          /\ Goto(t, "remember")
          /\ UNCHANGED fails
       \/ Fail /\ GoExpire(t) /\ UNCHANGED <<table, told, crossed>>
    /\ UNCHANGED <<offTail, mem>>

Remember(t) ==
    /\ tail[t].pc = "remember"
    /\ mem' = [s \in Series |-> IF s \in tail[t].drop THEN ExpiresAt(t) ELSE Upsert(mem, t)[s]]
    /\ GoExpire(t)
    /\ UNCHANGED <<offTail, told, crossed, fails, table>>

\* Mutant: an entry with an expiry has expired.
MutExpired(t, e) == e \notin {Absent, Active}
Expired(t, e) == e # Absent /\ e <= -tail[t].age
EndTail(t) == tail' = [u \in Tails |-> IF u < t THEN tail[u]
                                       ELSE IF u < MaxTails THEN tail[u + 1] ELSE NoTail]

\* DeleteExpired: nothing in memory has expired, or a delete follows.
Expire(t) ==
    /\ tail[t].pc = "expire"
    /\ LET over == {s \in Series : Expired(t, mem[s])}
       IN  IF over = {} THEN EndTail(t)
           ELSE tail' = [tail EXCEPT ![t].pc = "delete", ![t].drop = over]
    /\ UNCHANGED <<offTail, told, crossed, fails, table, mem>>

DeleteExpired(t) ==
    /\ tail[t].pc = "delete"
    /\ \/ /\ table' = [s \in Series |-> IF Expired(t, table[s]) THEN Absent ELSE table[s]]
          /\ Goto(t, "forget")
          /\ UNCHANGED fails
       \/ Fail /\ EndTail(t) /\ UNCHANGED table
    /\ UNCHANGED <<offTail, told, crossed, mem>>

\* The entries found expired go, unless they have come back meanwhile.
Forget(t) ==
    /\ tail[t].pc = "forget"
    /\ mem' = [s \in Series |-> IF s \in tail[t].drop /\ Expired(t, mem[s]) THEN Absent ELSE mem[s]]
    /\ EndTail(t)
    /\ UNCHANGED <<offTail, told, crossed, fails, table>>

-----------------------------------------------------------------------------
(* Time and the process *)

Tick ==
    /\ through
    /\ cycle.age = 0
    /\ \A t \in Tails : tail[t].age = 0
    /\ table' = [s \in Series |-> Older(table[s])]
    /\ mem' = [s \in Series |-> Older(mem[s])]
    /\ cycle' = IF cycle.pc = "idle" THEN cycle ELSE [cycle EXCEPT !.age = 1]
    /\ tail' = [t \in Tails |-> IF tail[t].pc = "idle" THEN tail[t]
                               ELSE [tail[t] EXCEPT !.age = 1]]
    /\ through' = FALSE
    /\ UNCHANGED <<cacheVars, hydrated, crossed, backend, fails>>

\* NewStalenessStore reads the table, or starts empty when it cannot.
Hydrate ==
    \/ mem' = table /\ hydrated' = TRUE /\ UNCHANGED fails
    \/ mem' = [s \in Series |-> Absent] /\ hydrated' = FALSE /\ Fail

\* The process dies and starts again.
Crash ==
    /\ Counted
    /\ Cold
    /\ Hydrate /\ crossed' = {}
    /\ cycle' = Idle
    /\ tail' = [t \in Tails |-> NoTail]
    /\ UNCHANGED <<findings, table, backend, through>>

CacheStep == Store \/ Untold \/ Tick30 \/ Rebuild \/ ReadRows \/ Publish
CycleStep ==
    \/ Start \/ Collect \/ Observe
    \/ \E s \in Series : Record(s) \/ Take(s) \/ Send(s)
    \/ \E t \in Tails : Flush(t)
TailStep(t) ==
    \/ Diff(t) \/ ApplyStalenessChanges(t) \/ Remember(t)
    \/ Expire(t) \/ DeleteExpired(t) \/ Forget(t)

Next ==
    \/ CacheStep /\ UNCHANGED metricsVars
    \/ Fail /\ ReadFails /\ UNCHANGED <<store, cycle, tail, backend, through>>
    \/ CycleStep
    \/ \E t \in Tails : TailStep(t)
    \/ Tick
    \/ Crash

\* Goroutines run, tickers tick, cycles follow one another and time passes.
Fairness ==
    /\ WF_vars((Tick30 \/ Rebuild) /\ UNCHANGED metricsVars)
    /\ WF_vars((ReadRows \/ Publish) /\ UNCHANGED metricsVars)
    /\ WF_vars(CycleStep)
    /\ WF_vars(TailStep(1))
    /\ WF_vars(Tick)

Spec == Init /\ [][Next]_vars
LiveSpec == Spec /\ Fairness

-----------------------------------------------------------------------------
(* Properties *)

\* Once the findings stay as they are, the backend comes to hold a value for
\* each of them and the memory to track it as active, and what is not found any
\* more leaves the memory: a rebuild that was dropped or failed, a crash, a lost
\* batch, a failed write of the table or a tail that overlaps another delays
\* that and no more.  The table comes to agree where the last tail that wrote a
\* series did so alone.  Tails do overlap (staleness_recorder.go:52, db.go:258),
\* and what two of them wrote at once may stay wrong in the table until the
\* series changes again or the process starts anew (ActiveInBoth); so may the
\* rows of a start that could not read the table.
SettlesOnFindings ==
    <>[](\A s \in Series :
            IF s \in findings
            THEN /\ received[s] = "value" /\ mem[s] = Active
                 /\ s \notin crossed => table[s] = Active
            ELSE /\ mem[s] = Absent
                 /\ hydrated /\ s \notin crossed => table[s] = Absent)

\* The row of a series is deleted only when, since it was marked as ended, the
\* backend has got the NaN, or a value again: no cycle that was lost, failed or
\* cut off meanwhile takes the whole grace period away.
EndsBeforeForgotten ==
    [][\A s \in Series : table[s] # Absent /\ table'[s] = Absent => s \in told]_vars

\* With no tail under way, the memory holds a series as active when the table
\* does: needsPersist and the next diff decide by the memory alone, and
\* staleness_recorder.go:52 calls that correct although tails overlap.  (A
\* start that could not read the table is left aside.)
ActiveInBoth ==
    hydrated /\ (\A t \in Tails : tail[t].pc = "idle")
        => \A s \in Series : mem[s] = Active <=> table[s] = Active

=============================================================================
