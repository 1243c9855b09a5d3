---------------------------- MODULE MetricsProofs ----------------------------
(***************************************************************************)
(* Type correctness of Metrics, and that no series is forgotten before its *)
(* end has been told, for any series, any number of tails at one time,     *)
(* senders and failures.                                                   *)
(*                                                                         *)
(* The second is an action property whose reason lies two ticks back.  An  *)
(* entry that was marked as ended is deleted at 0 or below.  It has been 1 *)
(* for a whole tick, and that tick ended because a cycle that began in it  *)
(* had gone through: the cycle found the entry among the stale ones, and   *)
(* the series was in its hands, from one stage to the next, until it was   *)
(* told (Going).  Whatever takes the mark away again, so that it is to be  *)
(* told anew, also lifts the entry to 2 or more (Marked).                  *)
(***************************************************************************)
EXTENDS Metrics, FiniteSetTheorems, TLAPS

Cycles == [pc : {"idle", "collect", "observe", "send"}, age : 0 .. 1, clean : BOOLEAN,
           stale : SUBSET Series, live : SUBSET Series, write : SUBSET Series,
           todo : SUBSET Series, channel : SUBSET Series, sending : SUBSET Series,
           err : BOOLEAN]

TailStates == [pc : {"idle", "diff", "apply", "remember", "expire", "delete", "forget"},
               age : 0 .. 1, live : SUBSET Series, write : SUBSET Series, drop : SUBSET Series]

\* The senders' limits.
CycleOK ==
    /\ cycle \in Cycles
    /\ Cardinality(cycle.channel) <= SendConcurrency
    /\ Cardinality(cycle.sending) <= SendConcurrency
    /\ cycle.pc # "send" => cycle.channel \cup cycle.sending = {}

StoreOK ==
    /\ table \in [Series -> Entries] /\ mem \in [Series -> Entries] /\ hydrated \in BOOLEAN
    /\ crossed \subseteq Series
    /\ tail \in [Tails -> TailStates]

BackendOK ==
    /\ received \in [Series -> {"nothing", "value", "NaN"}] /\ told \subseteq Series
    /\ through \in BOOLEAN
    /\ fails \in 0 .. MaxFails

TypeInv == CacheTypeOK /\ CycleOK /\ StoreOK /\ BackendOK

\* An error of a send is remembered by the cycle.
FailedOnce == cycle.err => ~cycle.clean

\* What has run out has been told.
RunOut(s) == table[s] \in {-1, 0} => s \in told

\* The cycle has the series in its hands.
Going(s) ==
    /\ cycle.pc = "collect" => s \in cycle.stale
    /\ cycle.pc = "observe" => s \in cycle.stale \cup cycle.live
    /\ cycle.pc = "send" => s \in cycle.todo \cup cycle.channel \cup cycle.sending

\* In its last tick a series is told, or a cycle that began in this tick and
\* has not failed is about to, and none has gone through.
LastTick(s) ==
    table[s] = 1 /\ s \notin told => /\ ~through
                                     /\ cycle.age = 0 /\ cycle.clean => Going(s)

IInv == TypeInv /\ FailedOnce /\ \A s \in Series : RunOut(s) /\ LastTick(s)

LEMMA IInvType == IInv => TypeOK
BY DEF IInv, TypeInv, CycleOK, StoreOK, BackendOK, Cycles, TailStates, TypeOK

-----------------------------------------------------------------------------
(* Small facts *)

LEMMA Limits ==
    /\ MaxTails \in Nat \ {0} /\ SendConcurrency \in Nat \ {0} /\ MaxFails \in Nat /\ MaxChanges \in Nat
    /\ IsFiniteSet({}) /\ Cardinality({}) = 0
BY MetricsAssumption, CacheAssumption, FS_EmptySet

LEMMA Fits ==
    ASSUME NEW A \in SUBSET Series, NEW s \in Series
    PROVE  /\ Cardinality(A) < SendConcurrency => Cardinality(A \cup {s}) <= SendConcurrency
           /\ Cardinality(A) <= SendConcurrency => Cardinality(A \ {s}) <= SendConcurrency
<1>1. IsFiniteSet(A)
    BY CacheAssumption, FS_Subset
<1>2. Cardinality(A \cup {s}) = IF s \in A THEN Cardinality(A) ELSE Cardinality(A) + 1
    BY <1>1, FS_AddElement
<1>3. Cardinality(A \ {s}) = IF s \in A THEN Cardinality(A) - 1 ELSE Cardinality(A)
    BY <1>1, FS_RemoveElement
<1>4. Cardinality(A) \in Nat /\ SendConcurrency \in Nat
    BY <1>1, FS_CardinalityType, Limits
<1> QED BY <1>2, <1>3, <1>4

LEMMA EntriesAre == Entries = -2 .. 4 /\ Active = 4 /\ Absent = -2 /\ Window = 3
BY DEF Entries, Active, Absent, Window

LEMMA RestIs == Idle \in Cycles /\ NoTail \in TailStates
BY DEF Idle, Cycles, NoTail, TailStates

LEMMA FailIs == ASSUME BackendOK, Fail PROVE fails' \in 0 .. MaxFails
BY Limits DEF BackendOK, Fail

LEMMA InitInv == Init => IInv
<1> SUFFICES ASSUME Init PROVE IInv
    OBVIOUS
<1>1. CacheTypeOK
  <2>1. NoRebuild \in [pc : {"none", "read", "publish"}, rows : SUBSET Series]
      BY DEF NoRebuild
  <2>2. 0 \in 0 .. MaxChanges /\ AtStart \subseteq Series
      BY Limits, CacheAssumption
  <2> QED BY <2>1, <2>2 DEF Init, CacheInit, CacheTypeOK
<1>2. CycleOK
    BY Limits, RestIs DEF Init, CycleOK, Idle
<1>3. StoreOK
    BY EntriesAre, RestIs DEF Init, StoreOK
<1>4. BackendOK
  <2>1. 0 \in 0 .. MaxFails
      BY Limits
  <2> QED BY <2>1 DEF Init, BackendOK
<1>5. FailedOnce
    BY DEF Init, FailedOnce, Idle
<1>6. \A s \in Series : RunOut(s) /\ LastTick(s)
    BY DEF Init, RunOut, LastTick, Absent
<1> QED BY <1>1, <1>2, <1>3, <1>4, <1>5, <1>6 DEF IInv, TypeInv

-----------------------------------------------------------------------------
(* The caches *)

LEMMA CacheStepType == ASSUME CacheTypeOK, CacheStep \/ ReadFails PROVE CacheTypeOK'
<1> USE DEF CacheTypeOK
<1>1. CASE Store
    BY <1>1, Limits DEF Store, Change, Counted
<1>2. CASE Untold
    BY <1>2, Limits DEF Untold, Change, Counted
<1>3. CASE Tick30
    BY <1>3 DEF Tick30
<1>4. CASE Rebuild
    BY <1>4 DEF Rebuild
<1>5. CASE ReadRows
    BY <1>5 DEF ReadRows, RowsInDB
<1>6. CASE Publish
    BY <1>6 DEF Publish, NoRebuild
<1>7. CASE ReadFails
    BY <1>7 DEF ReadFails, NoRebuild
<1> QED BY <1>1, <1>2, <1>3, <1>4, <1>5, <1>6, <1>7 DEF CacheStep

LEMMA CacheSame == ASSUME CacheTypeOK, UNCHANGED cacheVars PROVE CacheTypeOK'
BY DEF CacheTypeOK, cacheVars

LEMMA ReadThroughType == ASSUME CacheTypeOK, ReadThrough PROVE CacheTypeOK'
BY DEF CacheTypeOK, ReadThrough

\* A step that leaves the export alone.
LEMMA CachesAlone ==
    ASSUME IInv, CacheTypeOK', UNCHANGED <<store, cycle, tail, backend, through>>,
           fails' \in 0 .. MaxFails
    PROVE  IInv'
<1>1. TypeInv'
    BY DEF IInv, TypeInv, CycleOK, StoreOK, BackendOK, store, backend
<1>2. FailedOnce' /\ \A s \in Series : RunOut(s)' /\ LastTick(s)'
    BY DEF IInv, FailedOnce, RunOut, LastTick, Going, store, backend
<1> QED BY <1>1, <1>2 DEF IInv

-----------------------------------------------------------------------------
(* The cycle *)

\* What remains to be shown of a step of the cycle.
LEMMA OnCycle ==
    ASSUME IInv, UNCHANGED <<store, tail>>, CacheTypeOK', CycleOK', BackendOK',
           FailedOnce', told \subseteq told', \A s \in Series : LastTick(s)'
    PROVE  IInv'
<1>1. TypeInv'
    BY DEF IInv, TypeInv, StoreOK, store
<1>2. \A s \in Series : RunOut(s)'
    BY DEF IInv, RunOut, store
<1> QED BY <1>1, <1>2 DEF IInv

\* The same when the backend gets nothing and no cycle ends.
LEMMA CycleMoves ==
    ASSUME IInv, UNCHANGED <<store, tail, backend, through>>, CacheTypeOK', CycleOK',
           fails' \in 0 .. MaxFails, FailedOnce',
           cycle'.age = cycle.age, cycle'.clean => cycle.clean,
           \A s \in Series : table[s] = 1 /\ Going(s) /\ cycle'.clean => Going(s)'
    PROVE  IInv'
<1>1. BackendOK'
    BY DEF IInv, TypeInv, BackendOK, backend
<1>2. \A s \in Series : LastTick(s)'
    BY DEF IInv, LastTick, store, backend
<1> QED BY <1>1, <1>2, OnCycle DEF backend

LEMMA StartInv == ASSUME IInv, Start PROVE IInv'
<1>1. cycle \in Cycles /\ StaleRows \in SUBSET Series
    BY DEF IInv, TypeInv, CycleOK, StaleRows
<1>2. /\ cycle' \in Cycles /\ cycle'.pc = "collect" /\ cycle'.age = cycle.age
      /\ cycle'.channel = cycle.channel /\ cycle'.sending = cycle.sending /\ cycle'.err = cycle.err
      /\ \/ cycle'.stale = StaleRows /\ cycle'.clean = cycle.clean
         \/ ~cycle'.clean
    BY <1>1 DEF Start, Cycles
<1>3. CycleOK'
    BY <1>2 DEF IInv, TypeInv, CycleOK, Start
<1>4. fails' \in 0 .. MaxFails
    BY FailIs DEF IInv, TypeInv, BackendOK, Start
<1>5. CacheTypeOK'
    BY CacheSame DEF IInv, TypeInv, Start
<1>6. FailedOnce'
    BY <1>2 DEF IInv, FailedOnce
<1>7. \A s \in Series : table[s] = 1 => s \in StaleRows
    BY DEF StaleRows, Window
<1>8. \A s \in Series : table[s] = 1 /\ cycle'.clean => Going(s)'
    BY <1>2, <1>7 DEF Going
<1>9. \A s \in Series : LastTick(s)'
    BY <1>2, <1>8 DEF IInv, LastTick, Start, store, backend
<1> QED BY <1>3, <1>4, <1>5, <1>6, <1>9, OnCycle DEF IInv, TypeInv, BackendOK, Start, backend

LEMMA CollectInv == ASSUME IInv, Collect PROVE IInv'
<1>1. cycle \in Cycles /\ Rows \in SUBSET Series
    BY DEF IInv, TypeInv, CycleOK, CacheTypeOK, Rows, RowsInDB
<1>2. /\ cycle' \in Cycles /\ cycle'.pc = "observe" /\ cycle'.age = cycle.age
      /\ cycle'.channel = cycle.channel /\ cycle'.sending = cycle.sending /\ cycle'.err = cycle.err
      /\ \/ cycle'.stale = cycle.stale /\ cycle'.clean = cycle.clean
         \/ ~cycle'.clean
    <2>1. CASE cycle' = [cycle EXCEPT !.pc = "observe", !.live = Rows]
        BY <1>1, <2>1 DEF Cycles
    <2>2. ASSUME NEW part \in SUBSET Rows,
                 cycle' = [cycle EXCEPT !.pc = "observe", !.live = part, !.stale = {}, !.clean = FALSE]
          PROVE  /\ cycle' \in Cycles /\ cycle'.pc = "observe" /\ cycle'.age = cycle.age
                 /\ cycle'.channel = cycle.channel /\ cycle'.sending = cycle.sending
                 /\ cycle'.err = cycle.err /\ ~cycle'.clean
        BY <1>1, <2>2 DEF Cycles
    <2> QED BY <2>1, <2>2 DEF Collect
<1>3. CycleOK' /\ FailedOnce'
    BY <1>2 DEF IInv, TypeInv, CycleOK, FailedOnce, Collect
<1>4. fails' \in 0 .. MaxFails
    BY FailIs DEF IInv, TypeInv, BackendOK, Collect
<1>5. CacheTypeOK'
    BY ReadThroughType DEF IInv, TypeInv, Collect
<1>6. \A s \in Series : table[s] = 1 /\ Going(s) /\ cycle'.clean => Going(s)'
    BY <1>2 DEF Going, Collect
<1> QED BY <1>2, <1>3, <1>4, <1>5, <1>6, CycleMoves DEF Collect

LEMMA ObserveInv == ASSUME IInv, Observe PROVE IInv'
<1>1. cycle \in Cycles /\ Emitted \in SUBSET Series
      /\ {s \in cycle.live : NeedsPersist(s)} \in SUBSET Series
    BY DEF IInv, TypeInv, CycleOK, Cycles, Emitted
<1>2. /\ cycle' \in Cycles /\ cycle'.pc = "send" /\ cycle'.age = cycle.age
      /\ cycle'.channel = cycle.channel /\ cycle'.sending = cycle.sending /\ cycle'.err = cycle.err
      /\ cycle'.clean = cycle.clean /\ cycle'.todo = Emitted
    BY <1>1 DEF Observe, Cycles
<1>3. CycleOK' /\ FailedOnce'
    BY <1>2 DEF IInv, TypeInv, CycleOK, FailedOnce, Observe
<1>4. fails' \in 0 .. MaxFails
    BY DEF IInv, TypeInv, BackendOK, Observe
<1>5. CacheTypeOK'
    BY CacheSame DEF IInv, TypeInv, Observe
<1>6. \A s \in Series : table[s] = 1 /\ Going(s) /\ cycle'.clean => Going(s)'
    BY <1>2 DEF Going, Observe, Emitted
<1> QED BY <1>2, <1>3, <1>4, <1>5, <1>6, CycleMoves DEF Observe

LEMMA RecordInv == ASSUME IInv, NEW s \in Series, Record(s) PROVE IInv'
<1>1. /\ cycle \in Cycles /\ cycle.todo \in SUBSET Series /\ cycle.channel \in SUBSET Series
      /\ cycle.pc = "send"
    BY DEF IInv, TypeInv, CycleOK, Cycles, Record
<1>2. /\ cycle' \in Cycles /\ cycle'.pc = "send" /\ cycle'.age = cycle.age
      /\ cycle'.sending = cycle.sending /\ cycle'.err = cycle.err /\ cycle'.clean = cycle.clean
      /\ \/ cycle.err /\ cycle'.channel = cycle.channel
         \/ /\ cycle'.todo = cycle.todo \ {s} /\ cycle'.channel = cycle.channel \cup {s}
            /\ Cardinality(cycle.channel) < SendConcurrency
  <2>1. CASE cycle.err /\ cycle' = [cycle EXCEPT !.todo = {}]
      BY <1>1, <2>1 DEF Cycles
  <2>2. CASE HandOver(s)
    <3> DEFINE T == cycle.todo \ {s}
               C == cycle.channel \cup {s}
    <3>1. T \in SUBSET Series /\ C \in SUBSET Series
        BY <1>1
    <3>2. cycle' = [cycle EXCEPT !.todo = T, !.channel = C] /\ Cardinality(cycle.channel) < SendConcurrency
        BY <2>2 DEF HandOver
    <3> HIDE DEF T, C
    <3>3. /\ cycle' \in Cycles /\ cycle'.todo = T /\ cycle'.channel = C /\ cycle'.pc = cycle.pc
          /\ cycle'.age = cycle.age /\ cycle'.sending = cycle.sending /\ cycle'.err = cycle.err
          /\ cycle'.clean = cycle.clean
        BY <1>1, <3>1, <3>2 DEF Cycles
    <3> QED BY <1>1, <3>2, <3>3 DEF T, C
  <2> QED BY <2>1, <2>2 DEF Record
<1>3. CycleOK' /\ FailedOnce'
  <2>1. Cardinality(cycle'.channel) <= SendConcurrency
      BY <1>1, <1>2, Fits DEF IInv, TypeInv, CycleOK
  <2> QED BY <1>2, <2>1 DEF IInv, TypeInv, CycleOK, FailedOnce, Record
<1>4. fails' \in 0 .. MaxFails
    BY DEF IInv, TypeInv, BackendOK, Record
<1>5. CacheTypeOK'
    BY CacheSame DEF IInv, TypeInv, Record
<1>6. \A o \in Series : table[o] = 1 /\ Going(o) /\ cycle'.clean => Going(o)'
    BY <1>1, <1>2 DEF Going, IInv, FailedOnce
<1> QED BY <1>2, <1>3, <1>4, <1>5, <1>6, CycleMoves DEF Record

LEMMA TakeInv == ASSUME IInv, NEW s \in Series, Take(s) PROVE IInv'
<1>1. /\ cycle \in Cycles /\ cycle.sending \in SUBSET Series /\ cycle.channel \in SUBSET Series
      /\ cycle.pc = "send"
    BY DEF IInv, TypeInv, CycleOK, Cycles, Take
<1>2. /\ cycle' \in Cycles /\ cycle'.pc = "send" /\ cycle'.age = cycle.age
      /\ cycle'.todo = cycle.todo /\ cycle'.err = cycle.err /\ cycle'.clean = cycle.clean
      /\ cycle'.channel = cycle.channel \ {s}
      /\ \/ cycle.err /\ cycle'.sending = cycle.sending
         \/ cycle'.sending = cycle.sending \cup {s}
      /\ Cardinality(cycle.sending) < SendConcurrency
    BY <1>1 DEF Take, Cycles
<1>3. CycleOK' /\ FailedOnce'
  <2>1. Cardinality(cycle'.channel) <= SendConcurrency /\ Cardinality(cycle'.sending) <= SendConcurrency
      BY <1>1, <1>2, Fits DEF IInv, TypeInv, CycleOK
  <2> QED BY <1>2, <2>1 DEF IInv, TypeInv, CycleOK, FailedOnce, Take
<1>4. fails' \in 0 .. MaxFails
    BY DEF IInv, TypeInv, BackendOK, Take
<1>5. CacheTypeOK'
    BY CacheSame DEF IInv, TypeInv, Take
<1>6. \A o \in Series : table[o] = 1 /\ Going(o) /\ cycle'.clean => Going(o)'
    BY <1>1, <1>2 DEF Going, IInv, FailedOnce
<1> QED BY <1>2, <1>3, <1>4, <1>5, <1>6, CycleMoves DEF Take

\* A point that arrives tells, unless the entry is not marked.
LEMMA SendInv == ASSUME IInv, NEW s \in Series, Send(s) PROVE IInv'
<1>1. /\ cycle \in Cycles /\ cycle.sending \in SUBSET Series /\ cycle.pc = "send"
    BY DEF IInv, TypeInv, CycleOK, Cycles, Send
<1>2. /\ cycle' \in Cycles /\ cycle'.pc = "send" /\ cycle'.age = cycle.age
      /\ cycle'.todo = cycle.todo /\ cycle'.channel = cycle.channel
      /\ cycle'.sending = cycle.sending \ {s}
      /\ \/ cycle'.err = cycle.err /\ cycle'.clean = cycle.clean /\ Delivered(s)
         \/ ~cycle'.clean
    BY <1>1 DEF Send, Cycles
<1>3. CycleOK' /\ FailedOnce'
  <2>1. Cardinality(cycle'.sending) <= SendConcurrency
      BY <1>1, <1>2, Fits DEF IInv, TypeInv, CycleOK
  <2> QED BY <1>2, <2>1 DEF IInv, TypeInv, CycleOK, FailedOnce, Send
<1>4. Delivered(s) => /\ received' \in [Series -> {"nothing", "value", "NaN"}]
                      /\ told' \subseteq Series /\ told \subseteq told'
                      /\ table[s] = 1 => s \in told'
    BY DEF IInv, TypeInv, BackendOK, Delivered, Active, Absent, Window
<1>5. BackendOK' /\ told \subseteq told'
    BY <1>4, FailIs DEF IInv, TypeInv, BackendOK, Send, backend
<1>6. CacheTypeOK'
    BY CacheSame DEF IInv, TypeInv, Send
<1>7. \A o \in Series : LastTick(o)'
    BY <1>1, <1>2, <1>4, <1>5 DEF IInv, LastTick, Going, Send, store
<1> QED BY <1>3, <1>5, <1>6, <1>7, OnCycle DEF Send

\* A cycle that goes through has told every series in its last tick.
LEMMA FlushInv == ASSUME IInv, NEW t \in Tails, Flush(t) PROVE IInv'
<1>1. cycle \in Cycles /\ cycle.live \in SUBSET Series /\ cycle.write \in SUBSET Series /\ cycle.age \in 0 .. 1
    BY DEF IInv, TypeInv, CycleOK, Cycles
<1>2. tail' \in [Tails -> TailStates]
  <2>1. [NoTail EXCEPT !.pc = "diff", !.age = cycle.age, !.live = cycle.live, !.write = cycle.write] \in TailStates
      BY <1>1, RestIs DEF TailStates
  <2> QED BY <2>1 DEF IInv, TypeInv, StoreOK, Flush, EndCycle, BeginTail
<1>3. TypeInv'
  <2>1. CycleOK'
      BY Limits, RestIs DEF CycleOK, Flush, EndCycle, Idle
  <2>2. CacheTypeOK'
      BY CacheSame DEF IInv, TypeInv, Flush, EndCycle
  <2>3. through' \in BOOLEAN /\ fails' \in 0 .. MaxFails
      BY FailIs DEF IInv, TypeInv, BackendOK, Flush, EndCycle, BeginTail
  <2> QED BY <1>2, <2>1, <2>2, <2>3 DEF IInv, TypeInv, StoreOK, BackendOK, Flush, EndCycle, store, backend
<1>4. FailedOnce' /\ \A s \in Series : RunOut(s)'
    BY DEF IInv, FailedOnce, RunOut, Flush, EndCycle, store, backend, Idle
<1>5. ASSUME NEW s \in Series PROVE LastTick(s)'
  <2> SUFFICES ASSUME table[s] = 1, s \notin told PROVE ~through' /\ Going(s)'
      BY DEF LastTick, Flush, EndCycle, store, backend
  <2>1. ~through /\ ~Going(s)
      BY DEF IInv, LastTick, Going, Flush
  <2>2. ~(cycle.clean /\ cycle.age = 0)
      BY <2>1 DEF IInv, LastTick
  <2> QED BY <2>1, <2>2 DEF Flush, EndCycle, Going, Idle
<1> QED BY <1>3, <1>4, <1>5 DEF IInv

LEMMA CycleStepInv == ASSUME IInv, CycleStep PROVE IInv'
BY StartInv, CollectInv, ObserveInv, RecordInv, TakeInv, SendInv, FlushInv DEF CycleStep

-----------------------------------------------------------------------------
(* The tails *)

\* A tail takes the mark away only from an entry that it sets to 2 or more, or
\* that is none.
LEMMA Marked ==
    ASSUME IInv, UNCHANGED offTail, crossed' \subseteq Series, tail' \in [Tails -> TailStates],
           table' \in [Series -> Entries], mem' \in [Series -> Entries], told' \subseteq Series,
           fails' \in 0 .. MaxFails,
           \A s \in Series : \/ table'[s] \notin {-1, 0, 1}
                             \/ table'[s] = table[s] /\ (s \in told => s \in told')
    PROVE  IInv'
<1>1. CacheTypeOK'
    BY CacheSame DEF IInv, TypeInv, offTail
<1>2. TypeInv'
    BY <1>1 DEF IInv, TypeInv, CycleOK, StoreOK, BackendOK, offTail
<1>3. FailedOnce'
    BY DEF IInv, FailedOnce, offTail
<1>4. \A s \in Series : RunOut(s)' /\ LastTick(s)'
    BY DEF IInv, RunOut, LastTick, Going, offTail
<1> QED BY <1>2, <1>3, <1>4 DEF IInv

\* What a tail may be turned into.
LEMMA TailIs ==
    ASSUME IInv, NEW t \in Tails
    PROVE  /\ tail \in [Tails -> TailStates] /\ tail[t] \in TailStates
           /\ ExpiresAt(t) \in {2, 3} /\ -tail[t].age \in {-1, 0}
           /\ tail[t].write \in SUBSET Series /\ tail[t].drop \in SUBSET Series
           /\ \A pc \in {"apply", "remember", "expire", "delete", "forget"} :
                Goto(t, pc) => tail' \in [Tails -> TailStates]
           /\ GoExpire(t) => tail' \in [Tails -> TailStates]
           /\ EndTail(t) => tail' \in [Tails -> TailStates]
<1>1. tail \in [Tails -> TailStates] /\ tail[t] \in TailStates
    BY DEF IInv, TypeInv, StoreOK
<1>2. tail[t].age \in 0 .. 1 /\ tail[t].write \in SUBSET Series /\ tail[t].drop \in SUBSET Series
    BY <1>1 DEF TailStates
<1>3. ExpiresAt(t) \in {2, 3} /\ -tail[t].age \in {-1, 0}
    BY <1>2 DEF ExpiresAt, Window
<1>4. ASSUME NEW pc \in {"apply", "remember", "expire", "delete", "forget"}, Goto(t, pc)
      PROVE  tail' \in [Tails -> TailStates]
  <2>1. [tail[t] EXCEPT !.pc = pc] \in TailStates
      BY <1>1 DEF TailStates
  <2>2. tail' = [tail EXCEPT ![t] = [tail[t] EXCEPT !.pc = pc]]
      BY <1>1, <1>4 DEF Goto
  <2> QED BY <1>1, <2>1, <2>2
<1>5. ASSUME GoExpire(t) PROVE tail' \in [Tails -> TailStates]
  <2> DEFINE next == [tail[t] EXCEPT !.pc = "expire", !.write = {}, !.drop = {}]
  <2>1. next \in TailStates
      BY <1>1 DEF TailStates
  <2>2. tail' = [tail EXCEPT ![t] = next]
      BY <1>1, <1>5 DEF GoExpire
  <2> HIDE DEF next
  <2> QED BY <1>1, <2>1, <2>2
<1>6. ASSUME EndTail(t) PROVE tail' \in [Tails -> TailStates]
  <2>1. ASSUME NEW u \in Tails, u < MaxTails PROVE u + 1 \in Tails
      BY <2>1, Limits DEF Tails
  <2> QED BY <1>1, <1>6, <2>1, RestIs DEF EndTail
<1> QED BY <1>1, <1>2, <1>3, <1>4, <1>5, <1>6

\* The types a tail leaves alone.
LEMMA TailTypes ==
    ASSUME IInv
    PROVE  /\ table \in [Series -> Entries] /\ mem \in [Series -> Entries]
           /\ told \subseteq Series /\ crossed \subseteq Series /\ fails \in 0 .. MaxFails
           /\ Fail => fails' \in 0 .. MaxFails
BY FailIs DEF IInv, TypeInv, StoreOK, BackendOK

LEMMA DiffInv == ASSUME IInv, NEW t \in Tails, Diff(t) PROVE IInv'
<1> DEFINE gone == {s \in Series : mem[s] = Active} \ tail[t].live
           next == [tail[t] EXCEPT !.pc = IF tail[t].write \cup gone = {} THEN "expire" ELSE "apply",
                                   !.drop = gone, !.live = {}]
<1>1. tail' = [tail EXCEPT ![t] = next]
    BY TailIs DEF Diff
<1>2. next \in TailStates
    BY TailIs DEF TailStates
<1> HIDE DEF next
<1>3. tail' \in [Tails -> TailStates]
    BY <1>1, <1>2, TailIs
<1> QED BY <1>3, TailTypes, Marked DEF Diff

LEMMA ApplyStalenessChangesInv == ASSUME IInv, NEW t \in Tails, ApplyStalenessChanges(t) PROVE IInv'
<1>1. tail' \in [Tails -> TailStates] /\ fails' \in 0 .. MaxFails /\ crossed' \subseteq Series
  <2>1. Touched(t) \subseteq Series
      BY TailIs DEF Touched
  <2> QED BY <2>1, TailIs, TailTypes DEF ApplyStalenessChanges
<1>2. CASE UNCHANGED <<table, told>>
    BY <1>1, <1>2, TailTypes, Marked DEF ApplyStalenessChanges
<1>3. CASE /\ table' = [s \in Series |-> IF s \in tail[t].drop /\ Upsert(table, t)[s] # Absent
                                        THEN ExpiresAt(t) ELSE Upsert(table, t)[s]]
           /\ told' = told \ (tail[t].write \cup tail[t].drop)
  <2>1. \A s \in Series : Upsert(table, t)[s] = IF s \in tail[t].write THEN Active ELSE table[s]
      BY DEF Upsert
  <2>2. ASSUME NEW s \in Series
        PROVE  /\ table'[s] \in Entries
               /\ \/ table'[s] \in {2, 3, Active, Absent}
                  \/ table'[s] = table[s] /\ s \notin tail[t].drop \cup tail[t].write
    <3>1. table'[s] = IF s \in tail[t].drop /\ Upsert(table, t)[s] # Absent
                      THEN ExpiresAt(t) ELSE Upsert(table, t)[s]
        BY <1>3
    <3>2. ExpiresAt(t) \in {2, 3} /\ table[s] \in Entries
        BY TailIs, TailTypes
    <3> QED BY <2>1, <3>1, <3>2, EntriesAre
  <2>3. table' \in [Series -> Entries]
      BY <1>3, <2>2
  <2> QED BY <1>1, <1>3, <2>2, <2>3, TailTypes, EntriesAre, Marked DEF ApplyStalenessChanges
<1> QED BY <1>2, <1>3 DEF ApplyStalenessChanges, Touched

LEMMA RememberInv == ASSUME IInv, NEW t \in Tails, Remember(t) PROVE IInv'
<1>1. tail' \in [Tails -> TailStates]
    BY TailIs DEF Remember
<1>2. mem' \in [Series -> Entries]
    BY TailIs, TailTypes, EntriesAre DEF Remember, Upsert
<1> QED BY <1>1, <1>2, TailTypes, Marked DEF Remember

LEMMA ExpireInv == ASSUME IInv, NEW t \in Tails, Expire(t) PROVE IInv'
<1> DEFINE over == {s \in Series : Expired(t, mem[s])}
           next == [tail[t] EXCEPT !.pc = "delete", !.drop = over]
<1>1. EndTail(t) \/ tail' = [tail EXCEPT ![t] = next]
    BY TailIs DEF Expire
<1>2. next \in TailStates
    BY TailIs DEF TailStates
<1> HIDE DEF next
<1>3. tail' \in [Tails -> TailStates]
    BY <1>1, <1>2, TailIs
<1> QED BY <1>3, TailTypes, Marked DEF Expire

LEMMA DeleteExpiredInv == ASSUME IInv, NEW t \in Tails, DeleteExpired(t) PROVE IInv'
<1>1. tail' \in [Tails -> TailStates] /\ fails' \in 0 .. MaxFails
    BY TailIs, TailTypes DEF DeleteExpired
<1>2. table' \in [Series -> Entries] /\ \A s \in Series : table'[s] = Absent \/ table'[s] = table[s]
    BY TailTypes, EntriesAre DEF DeleteExpired
<1> QED BY <1>1, <1>2, TailTypes, EntriesAre, Marked DEF DeleteExpired

LEMMA ForgetInv == ASSUME IInv, NEW t \in Tails, Forget(t) PROVE IInv'
<1>1. tail' \in [Tails -> TailStates]
    BY TailIs DEF Forget
<1>2. mem' \in [Series -> Entries]
    BY TailTypes, EntriesAre DEF Forget
<1> QED BY <1>1, <1>2, TailTypes, Marked DEF Forget

LEMMA TailStepInv == ASSUME IInv, NEW t \in Tails, TailStep(t) PROVE IInv'
BY DiffInv, ApplyStalenessChangesInv, RememberInv, ExpireInv, DeleteExpiredInv, ForgetInv DEF TailStep

-----------------------------------------------------------------------------
(* Time and the process *)

\* An entry runs out at the end of its last tick only, and then a cycle has
\* gone through.
LEMMA TickInv == ASSUME IInv, Tick PROVE IInv'
<1>1. \A e \in Entries : Older(e) \in Entries
    BY EntriesAre DEF Older
<1>2. table' \in [Series -> Entries] /\ mem' \in [Series -> Entries] /\ tail' \in [Tails -> TailStates]
  <2>1. ASSUME NEW t \in Tails PROVE [tail[t] EXCEPT !.age = 1] \in TailStates /\ tail[t] \in TailStates
      BY TailIs DEF TailStates
  <2> QED BY <1>1, <2>1, TailTypes DEF Tick
<1>3. /\ cycle' \in Cycles /\ cycle'.pc = cycle.pc /\ cycle'.channel = cycle.channel
      /\ cycle'.sending = cycle.sending /\ cycle'.err = cycle.err /\ cycle'.clean = cycle.clean
      /\ cycle.pc # "idle" => cycle'.age = 1
  <2>1. cycle \in Cycles
      BY DEF IInv, TypeInv, CycleOK
  <2> QED BY <2>1 DEF Tick, Cycles
<1>4. TypeInv'
  <2>1. CacheTypeOK'
      BY CacheSame DEF IInv, TypeInv, Tick
  <2>2. CycleOK'
      BY <1>3 DEF IInv, TypeInv, CycleOK
  <2> QED BY <1>2, <2>1, <2>2 DEF IInv, TypeInv, StoreOK, BackendOK, Tick, backend
<1>5. FailedOnce'
    BY <1>3 DEF IInv, FailedOnce
<1>6. ASSUME NEW s \in Series PROVE RunOut(s)' /\ LastTick(s)'
  <2>1. table[s] \in -2 .. 4 /\ table'[s] = IF table[s] \in 0 .. 3 THEN table[s] - 1 ELSE table[s]
      BY TailTypes, EntriesAre DEF Tick, Older
  <2>2. table'[s] \in {-1, 0} => s \in told
      BY <2>1 DEF IInv, RunOut, LastTick, Tick
  <2>3. LastTick(s)'
      BY <1>3 DEF LastTick, Going, Tick
  <2> QED BY <2>2, <2>3 DEF RunOut, Tick, backend
<1> QED BY <1>4, <1>5, <1>6 DEF IInv

LEMMA CrashInv == ASSUME IInv, Crash PROVE IInv'
<1>1. TypeInv'
  <2>1. CacheTypeOK'
    <3>1. changes' \in 0 .. MaxChanges
        BY Limits DEF IInv, TypeInv, CacheTypeOK, Crash, Counted
    <3>2. findings' \subseteq Series
        BY DEF IInv, TypeInv, CacheTypeOK, Crash
    <3> QED BY <3>1, <3>2 DEF CacheTypeOK, Crash, Cold, NoRebuild
  <2>2. CycleOK'
      BY Limits, RestIs DEF CycleOK, Crash, Idle
  <2>3. StoreOK'
    <3>1. mem' = table \/ mem' = [s \in Series |-> Absent]
        BY DEF Crash, Hydrate
    <3>2. Absent \in Entries /\ table \in [Series -> Entries]
        BY TailTypes, EntriesAre
    <3>3. mem' \in [Series -> Entries]
        BY <3>1, <3>2
    <3>4. hydrated' \in BOOLEAN /\ crossed' \subseteq Series
        BY DEF Crash, Hydrate
    <3>5. tail' \in [Tails -> TailStates] /\ table' \in [Series -> Entries]
        BY RestIs, TailTypes DEF Crash
    <3> QED BY <3>3, <3>4, <3>5 DEF StoreOK
  <2>4. BackendOK'
      BY TailTypes DEF IInv, TypeInv, BackendOK, Crash, Hydrate, backend
  <2> QED BY <2>1, <2>2, <2>3, <2>4 DEF TypeInv
<1>2. FailedOnce'
    BY DEF FailedOnce, Crash, Idle
<1>3. \A s \in Series : RunOut(s)' /\ LastTick(s)'
    BY DEF IInv, RunOut, LastTick, Going, Crash, Idle, backend
<1> QED BY <1>1, <1>2, <1>3 DEF IInv

LEMMA NextInv == ASSUME IInv, [Next]_vars PROVE IInv'
<1>1. CASE CacheStep /\ UNCHANGED metricsVars
  <2>1. CacheTypeOK' /\ fails' \in 0 .. MaxFails
      BY <1>1, CacheStepType, TailTypes DEF IInv, TypeInv, metricsVars
  <2> QED BY <1>1, <2>1, CachesAlone DEF metricsVars
<1>2. CASE Fail /\ ReadFails /\ UNCHANGED <<store, cycle, tail, backend, through>>
  <2>1. CacheTypeOK' /\ fails' \in 0 .. MaxFails
      BY <1>2, CacheStepType, TailTypes DEF IInv, TypeInv
  <2> QED BY <1>2, <2>1, CachesAlone
<1>3. CASE UNCHANGED vars
  <2>1. CacheTypeOK' /\ fails' \in 0 .. MaxFails
      BY <1>3, CacheSame, TailTypes DEF IInv, TypeInv, vars, metricsVars
  <2> QED BY <1>3, <2>1, CachesAlone DEF vars, metricsVars
<1> QED BY <1>1, <1>2, <1>3, CycleStepInv, TailStepInv, TickInv, CrashInv DEF Next

LEMMA InvAlways == Spec => []IInv
BY InitInv, NextInv, PTL DEF Spec

-----------------------------------------------------------------------------
(* The theorems *)

\* Every variable keeps its type; in particular the channel and the senders of
\* otel_direct.go keep within sendConcurrency, and hold nothing of a cycle that
\* has handed its changes to a tail.
THEOREM MetricsTypeCorrect == Spec => []TypeOK
BY InvAlways, IInvType, PTL

\* Only a tail's DeleteExpired deletes rows, and only such as have run out.
LEMMA DeletesRunOut ==
    ASSUME IInv, [Next]_vars, NEW s \in Series, table[s] # Absent, table'[s] = Absent
    PROVE  s \in told
<1>1. table[s] \in -2 .. 4 /\ \A t \in Tails : ExpiresAt(t) \in {2, 3} /\ -tail[t].age \in {-1, 0}
    BY TailIs, TailTypes, EntriesAre
<1>2. PICK t \in Tails : DeleteExpired(t)
  <2>1. \A t \in Tails : ApplyStalenessChanges(t) => table'[s] # Absent
      BY <1>1, EntriesAre DEF ApplyStalenessChanges, Upsert
  <2>2. Tick => table'[s] # Absent
      BY <1>1, EntriesAre DEF Tick, Older
  <2>3. ~CacheStep \/ ~UNCHANGED metricsVars
      BY DEF metricsVars, store
  <2>4. ~CycleStep
      BY DEF CycleStep, Start, Collect, Observe, Record, Take, Send, Flush, EndCycle, store
  <2>5. \A t \in Tails : TailStep(t) => DeleteExpired(t)
      BY <2>1 DEF TailStep, Diff, Remember, Expire, Forget
  <2>6. ~Crash /\ ~UNCHANGED vars /\ ~UNCHANGED <<store, cycle, tail, backend, through>>
      BY DEF Crash, vars, metricsVars, store
  <2> QED BY <2>2, <2>3, <2>4, <2>5, <2>6 DEF Next
<1>3. table[s] <= -tail[t].age
    BY <1>2 DEF DeleteExpired, Expired
<1> QED BY <1>1, <1>3, EntriesAre DEF IInv, RunOut

\* When DeleteExpired (tracker.go) deletes the row of a series, the backend has
\* got a point of it since it was marked as ended: neither lost batches, failed
\* or crashed cycles nor tails that overlap let the grace period pass unused.
THEOREM EndsAreTold == Spec => EndsBeforeForgotten
<1>1. ASSUME IInv, [Next]_vars
      PROVE  [\A s \in Series : table[s] # Absent /\ table'[s] = Absent => s \in told]_vars
    BY <1>1, DeletesRunOut
<1> QED BY <1>1, InvAlways, PTL DEF Spec, EndsBeforeForgotten

=============================================================================
