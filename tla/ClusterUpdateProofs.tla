------------------------- MODULE ClusterUpdateProofs -------------------------
(***************************************************************************)
(* Type correctness of ClusterUpdate and that it is never silent, for      *)
(* every set of charts and policies, any length of the history that is     *)
(* read, and any number of failures and deaths.                            *)
(*                                                                         *)
(* That a run compares with what runs is not inductive: it needs that a    *)
(* deployed revision is unique and names the chart that runs               *)
(* (DeployedRuns), that only the last revision is under way (PendingLast), *)
(* and what the last revision is at each step between an upgrade and its   *)
(* end (StepOK).                                                           *)
(***************************************************************************)
EXTENDS ClusterUpdate, WellFoundedInduction, FiniteSetTheorems, TLAPS

HistoryType == history \in Seq(Revision) /\ history # << >>

PendingLast == \A i \in DOMAIN history : history[i].status = "pending" => i = Newest

DeployedRuns == \A i \in AllDeployed :
    history[i].version = running /\ \A k \in AllDeployed : k = i

StepOK ==
    /\ step = "list" /\ ~blind => current = running
    /\ step \in {"upgrading", "superseded", "rolling"} => Len(history) >= 2 /\ Last(history).status = "pending"
    /\ step = "upgrading" => Last(history).version = target
    /\ step = "superseded" => Last(history).version = running /\ AllDeployed = {}
    /\ step \in {"health", "rollback"} => Len(history) >= 2 /\ Last(history).status = "deployed"

RestTypeOK ==
    /\ policy \in Policies /\ rollback \in RollbackConfig
    /\ registry \subseteq Versions
    /\ running \in Versions /\ current \in Versions /\ target \in Versions
    /\ step \in Steps /\ blind \in BOOLEAN
    /\ outcome.result \in {"none", "current", "updated", "error", "died"}
    /\ outcome.offered \subseteq registry
    /\ faults \in 0..MaxFaults

HistoryOK == HistoryType /\ PendingLast /\ DeployedRuns

IInv == RestTypeOK /\ HistoryOK /\ StepOK /\ NeverSilent

-----------------------------------------------------------------------------
(* Greatest elements *)

LEMMA LeastOf ==
    ASSUME NEW T \in SUBSET Nat, T # {}
    PROVE  \E x \in T : \A y \in T : x <= y
<1>1. PICK x \in T : \A y \in T : ~ (<<y, x>> \in OpToRel(<, Nat))
    BY NatLessThanWellFounded, WFMin, Zenon
<1>2. ASSUME NEW y \in T PROVE ~(y < x)
  <2>1. y \in Nat /\ x \in Nat
      OBVIOUS
  <2>2. y < x => <<y, x>> \in OpToRel(<, Nat)
      BY <2>1, Zenon DEF OpToRel
  <2> QED BY <1>1, <2>2, Zenon
<1> QED BY <1>2

LEMMA MaxOf ==
    ASSUME NEW S, S \subseteq Nat, NEW n \in Nat, \A v \in S : v <= n, S # {}
    PROVE  Max(S) \in S /\ \A v \in S : Max(S) >= v
<1> DEFINE T == {n - v : v \in S}
<1>1. T \in SUBSET Nat /\ T # {}
  <2>1. \A v \in S : n - v \in Nat
      OBVIOUS
  <2> QED BY <2>1
<1>2. PICK x \in T : \A y \in T : x <= y
    BY <1>1, LeastOf
<1>3. PICK v \in S : x = n - v
    OBVIOUS
<1>4. \A w \in S : v >= w
  <2> SUFFICES ASSUME NEW w \in S PROVE v >= w
      OBVIOUS
  <2>1. n - v <= n - w
      BY <1>2, <1>3
  <2> QED BY <2>1
<1>5. \E u \in S : \A w \in S : u >= w
    BY <1>4
<1> QED BY <1>5, Zenon DEF Max

LEMMA MaxOfOne == ASSUME NEW i \in Nat PROVE Max({i}) = i
BY DEF Max

\* What FindLatestVersion finds is permitted, if anything is.
LEMMA Latest ==
    ASSUME NEW now \in Versions, NEW vs \in SUBSET Versions
    PROVE  /\ FindLatestVersion(now, vs) \in vs \cup {now}
           /\ ~ShouldUpdate(now, FindLatestVersion(now, vs))
                => \A v \in vs : ~(v > now /\ ShouldUpdate(now, v))
<1> DEFINE S == {v \in vs : v > now /\ ShouldUpdate(now, v)} \cup {now}
<1>1. S \subseteq Versions /\ S # {} /\ now \in S
    OBVIOUS
<1>2. S \subseteq Nat /\ (\A v \in S : v <= MaxVersion) /\ MaxVersion \in Nat
    BY <1>1, ClusterAssumption DEF Versions
<1>3. Max(S) \in S /\ \A v \in S : Max(S) >= v
    BY <1>1, <1>2, MaxOf
<1>4. FindLatestVersion(now, vs) = Max(S)
    BY DEF FindLatestVersion
<1>5. ASSUME NEW v \in vs, v > now, ShouldUpdate(now, v) PROVE ShouldUpdate(now, Max(S))
  <2>1. v \in S /\ Max(S) >= v
      BY <1>3, <1>5
  <2>2. Max(S) # now
      BY <1>2, <1>5, <2>1, <1>3
  <2> QED BY <1>3, <2>2
<1> QED BY <1>1, <1>3, <1>4, <1>5

-----------------------------------------------------------------------------
(* The history *)

LEMMA LastIs ==
    ASSUME HistoryType
    PROVE  /\ Newest \in Nat \ {0} /\ DOMAIN history = 1 .. Newest
           /\ Last(history) = history[Newest]
           /\ \A i \in 1 .. Newest : history[i] \in Revision
BY DEF HistoryType, Newest, Last

LEMMA MarkIs ==
    ASSUME HistoryType, NEW R, NEW s \in {"deployed", "superseded", "failed", "pending"},
           history' = Mark(R, s)
    PROVE  /\ HistoryType' /\ Newest' = Newest
           /\ \A i \in 1 .. Newest :
                /\ history'[i].version = history[i].version
                /\ history'[i].status = IF i \in R THEN s ELSE history[i].status
<1>1. Newest \in Nat \ {0} /\ DOMAIN history = 1 .. Newest /\ \A i \in 1 .. Newest : history[i] \in Revision
    BY LastIs
<1>2. ASSUME NEW i \in 1 .. Newest
      PROVE  /\ history'[i] \in Revision
             /\ history'[i].version = history[i].version
             /\ history'[i].status = IF i \in R THEN s ELSE history[i].status
    BY <1>1, <1>2 DEF Mark, Revision
<1>3. history' = [i \in 1 .. Newest |-> history'[i]]
    BY <1>1 DEF Mark
<1>4. history' \in Seq(Revision) /\ Len(history') = Newest
    BY <1>1, <1>2, <1>3
<1> QED BY <1>1, <1>2, <1>4 DEF HistoryType, Newest

LEMMA AppendIs ==
    ASSUME HistoryType, NEW v \in Versions, Append1(v)
    PROVE  /\ HistoryType' /\ Newest' = Newest + 1
           /\ history'[Newest'] = [version |-> v, status |-> "pending"]
           /\ \A i \in 1 .. Newest : history'[i] = history[i]
<1> DEFINE r == [version |-> v, status |-> "pending"]
<1>1. r \in Revision
    BY DEF Revision
<1> QED BY <1>1, LastIs DEF HistoryType, Append1, Newest

\* Only one revision can be the deployed one.
LEMMA DeployedIs ==
    ASSUME HistoryOK
    PROVE  /\ AllDeployed = {} \/ \E i \in DOMAIN history : AllDeployed = {i}
           /\ Cardinality(AllDeployed) <= 1
<1>1. CASE AllDeployed = {}
    BY <1>1, FS_EmptySet
<1>2. CASE AllDeployed # {}
  <2>1. PICK i \in AllDeployed : TRUE
      BY <1>2
  <2>2. (\A k \in AllDeployed : k = i) /\ i \in DOMAIN history
      BY <2>1 DEF HistoryOK, DeployedRuns, AllDeployed
  <2>3. AllDeployed = {i}
      BY <2>1, <2>2
  <2>4. Cardinality(AllDeployed) = 1
      BY <2>3, FS_Singleton
  <2> QED BY <2>2, <2>3, <2>4
<1> QED BY <1>1, <1>2

LEMMA IInvType == IInv => TypeOK
BY DeployedIs DEF IInv, RestTypeOK, HistoryOK, HistoryType, PendingLast, TypeOK

-----------------------------------------------------------------------------
(* Steps that leave the release alone, and the ends of a run *)

LEMMA InitInv == Init => IInv
<1> SUFFICES ASSUME Init PROVE IInv
    OBVIOUS
<1> DEFINE r == [version |-> 1, status |-> "deployed"]
<1>1. 1 \in Versions
    BY ClusterAssumption DEF Versions
<1>2. history = <<r>> /\ r \in Revision
    BY <1>1 DEF Init, Revision
<1>3. HistoryType /\ Newest = 1 /\ DOMAIN history = {1} /\ history[1] = r
    BY <1>2 DEF HistoryType, Newest
<1>4. HistoryOK
    BY <1>3 DEF HistoryOK, PendingLast, DeployedRuns, AllDeployed, Init
<1>5. RestTypeOK
  <2>1. faults \in 0 .. MaxFaults
      BY ClusterAssumption DEF Init
  <2>2. registry \subseteq Versions /\ {running, current, target} \subseteq Versions
      BY <1>1 DEF Init
  <2> QED BY <2>1, <2>2 DEF Init, RestTypeOK, Steps
<1>6. StepOK /\ NeverSilent
    BY DEF Init, StepOK, NeverSilent
<1> QED BY <1>4, <1>5, <1>6 DEF IInv

LEMMA HistoryStays ==
    ASSUME HistoryOK, UNCHANGED release
    PROVE  HistoryOK' /\ Last(history)' = Last(history) /\ Len(history)' = Len(history)
                      /\ AllDeployed' = AllDeployed
BY DEF release, HistoryOK, HistoryType, PendingLast, DeployedRuns, AllDeployed, Newest

LEMMA FaultType == ASSUME faults \in 0 .. MaxFaults, Fault PROVE faults' \in 0 .. MaxFaults
BY ClusterAssumption DEF Fault

LEMMA Ends ==
    ASSUME IInv, NEW result \in {"updated", "error"}, End(result), HistoryOK', UNCHANGED world,
           running' \in Versions, faults' = faults \/ Fault
    PROVE  IInv'
<1>1. RestTypeOK'
    BY FaultType DEF IInv, RestTypeOK, End, world, config, Steps
<1>2. StepOK' /\ NeverSilent'
    BY DEF End, StepOK, NeverSilent
<1> QED BY <1>1, <1>2 DEF IInv

LEMMA FailsInv == ASSUME IInv, Fails, UNCHANGED world PROVE IInv'
BY Ends, HistoryStays DEF Fails, IInv, RestTypeOK, release

\* A step inside a run, and a run does not end.
LEMMA Inside ==
    ASSUME IInv, step' \in Steps \ {"idle"}, HistoryOK', StepOK', UNCHANGED <<world, outcome>>,
           {running', current', target'} \subseteq Versions, blind' \in BOOLEAN,
           faults' = faults \/ Fault
    PROVE  IInv'
<1>1. RestTypeOK'
    BY FaultType DEF IInv, RestTypeOK, world, config
<1>2. NeverSilent'
    BY DEF NeverSilent
<1> QED BY <1>1, <1>2 DEF IInv

LEMMA PublishInv == ASSUME IInv, Publish PROVE IInv'
<1>1. HistoryOK' /\ StepOK'
    BY HistoryStays DEF Publish, IInv, StepOK, release, run
<1>2. RestTypeOK'
    BY DEF Publish, IInv, RestTypeOK, config, release, run
<1>3. NeverSilent'
    BY DEF Publish, IInv, NeverSilent, Permitted, ShouldUpdate, config, release, run
<1> QED BY <1>1, <1>2, <1>3 DEF IInv

LEMMA StartRunInv == ASSUME IInv, StartRun PROVE IInv'
<1>1. HistoryOK' /\ StepOK'
    BY HistoryStays DEF StartRun, IInv, StepOK
<1> QED BY <1>1, Inside DEF StartRun, IInv, RestTypeOK, release, Steps

LEMMA DieInv == ASSUME IInv, Die PROVE IInv'
<1>1. HistoryOK' /\ StepOK'
    BY HistoryStays DEF Die, IInv, StepOK
<1>2. RestTypeOK'
    BY FaultType DEF Die, IInv, RestTypeOK, world, config, release, Steps
<1>3. NeverSilent'
    BY DEF Die, NeverSilent, IInv, RestTypeOK
<1> QED BY <1>1, <1>2, <1>3 DEF IInv

LEMMA GetCurrentReleaseInv == ASSUME IInv, GetCurrentRelease PROVE IInv'
<1>1. CASE Fails
    BY <1>1, FailsInv DEF GetCurrentRelease
<1>2. CASE ~Fails
  <2>1. /\ current' = Last(history).version /\ UNCHANGED <<world, release, target, blind, outcome, faults>>
        /\ step' = IF Last(history).status = "deployed" THEN "list" ELSE "history"
      BY <1>2 DEF GetCurrentRelease, CurrentRelease
  <2>2. Last(history) = history[Newest] /\ Newest \in DOMAIN history /\ history[Newest] \in Revision
      BY LastIs DEF IInv, HistoryOK
  <2>3. Last(history).status = "deployed" => Last(history).version = running
      BY <2>2 DEF IInv, HistoryOK, DeployedRuns, AllDeployed
  <2>4. HistoryOK' /\ StepOK'
      BY <2>1, <2>3, HistoryStays DEF IInv, StepOK, release
  <2>5. current' \in Versions
      BY <2>1, <2>2 DEF Revision
  <2> QED BY <2>1, <2>4, <2>5, Inside DEF IInv, RestTypeOK, release, Steps
<1> QED BY <1>1, <1>2

LEMMA LastDeployedVersionInv == ASSUME IInv, LastDeployedVersion PROVE IInv'
<1>1. \/ blind' = TRUE /\ current' = current
      \/ Deployed # {} /\ current' = history[Max(Deployed)].version /\ blind' = blind
    BY DEF LastDeployedVersion
<1>2. ASSUME Deployed # {}
      PROVE  history[Max(Deployed)].version = running
  <2>1. Deployed \subseteq AllDeployed
      BY DEF Deployed, Retained, AllDeployed
  <2>2. PICK i \in DOMAIN history : AllDeployed = {i}
      BY <1>2, <2>1, DeployedIs DEF IInv
  <2>3. Deployed = {i}
      BY <1>2, <2>1, <2>2
  <2>4. i \in Nat
      BY <2>2, LastIs DEF IInv, HistoryOK
  <2>5. Max(Deployed) = i
      BY <2>3, <2>4, MaxOfOne
  <2> QED BY <2>2, <2>5 DEF IInv, HistoryOK, DeployedRuns
<1>3. HistoryOK'
    BY HistoryStays DEF LastDeployedVersion, IInv
<1>4. StepOK' /\ current' \in Versions /\ blind' \in BOOLEAN
    BY <1>1, <1>2 DEF LastDeployedVersion, IInv, RestTypeOK, StepOK, release
<1> QED BY <1>3, <1>4, Inside DEF LastDeployedVersion, IInv, RestTypeOK, release, Steps

\* The run that reports "current" has compared the newest chart that is
\* permitted with what runs.
LEMMA EvaluateInv == ASSUME IInv, Evaluate PROVE IInv'
<1> DEFINE latest == FindLatestVersion(current, registry)
<1>1. current \in Versions /\ registry \in SUBSET Versions
    BY DEF IInv, RestTypeOK
<1>2. latest \in registry \cup {current}
    BY <1>1, Latest
<1>3. ~ShouldUpdate(current, latest) => \A v \in registry : ~(v > current /\ ShouldUpdate(current, v))
    BY <1>1, Latest
<1> HIDE DEF latest
<1>4. HistoryOK' \/ Fails
    BY HistoryStays DEF Evaluate, IInv
<1>5. CASE Fails
    BY <1>5, FailsInv DEF Evaluate
<1>6. CASE ~Fails /\ ShouldUpdate(current, latest)
  <2>1. step' = "fetch" /\ target' = latest /\ UNCHANGED <<world, release, current, blind, outcome, faults>>
      BY <1>6 DEF Evaluate, latest
  <2>2. StepOK'
      BY <2>1 DEF StepOK
  <2>3. target' \in Versions
      BY <1>1, <1>2, <2>1
  <2> QED BY <1>4, <1>6, <2>1, <2>2, <2>3, Inside DEF IInv, RestTypeOK, release, Steps
<1>7. CASE ~Fails /\ ~ShouldUpdate(current, latest)
  <2>1. End("current") /\ UNCHANGED <<world, release, faults>>
      BY <1>7 DEF Evaluate, latest
  <2>2. RestTypeOK'
      BY <2>1 DEF IInv, RestTypeOK, End, world, config, release, Steps
  <2>3. StepOK'
      BY <2>1 DEF StepOK, End
  <2>4. ~blind => Permitted(registry) = {}
      BY <1>3, <1>7 DEF IInv, StepOK, Evaluate, Permitted
  <2>5. NeverSilent'
      BY <2>1, <2>4 DEF NeverSilent, End, Permitted, ShouldUpdate, world, config, release
  <2> QED BY <1>4, <1>7, <2>2, <2>3, <2>5 DEF IInv
<1> QED BY <1>5, <1>6, <1>7

LEMMA FetchInv == ASSUME IInv, Fetch PROVE IInv'
<1>1. CASE Fails
    BY <1>1, FailsInv DEF Fetch
<1>2. CASE ~Fails
  <2>1. HistoryOK' /\ StepOK'
      BY <1>2, HistoryStays DEF Fetch, IInv, StepOK
  <2> QED BY <1>2, <2>1, Inside DEF Fetch, IInv, RestTypeOK, release, Steps
<1> QED BY <1>1, <1>2

LEMMA HealthCheckInv == ASSUME IInv, HealthCheck PROVE IInv'
<1>1. HistoryOK' /\ Last(history)' = Last(history) /\ Len(history)' = Len(history)
    BY HistoryStays DEF HealthCheck, IInv
<1>2. CASE step' = "rollback"
  <2>1. StepOK'
      BY <1>1, <1>2 DEF HealthCheck, IInv, StepOK
  <2> QED BY <1>1, <1>2, <2>1, Inside DEF HealthCheck, End, IInv, RestTypeOK, release, Steps
<1>3. CASE step' # "rollback"
    BY <1>1, <1>3, Ends DEF HealthCheck, IInv, RestTypeOK, release
<1> QED BY <1>2, <1>3

-----------------------------------------------------------------------------
(* Steps that write the history *)

\* A revision that starts is pending, and the deployed one stays the last but
\* one or an older.
LEMMA Appended ==
    ASSUME IInv, NEW v \in Versions, Append1(v), Last(history).status # "pending", running' = running
    PROVE  HistoryOK' /\ Len(history') >= 2 /\ Last(history') = [version |-> v, status |-> "pending"]
<1>1. /\ HistoryType /\ HistoryType' /\ Newest' = Newest + 1
      /\ history'[Newest'] = [version |-> v, status |-> "pending"]
      /\ \A i \in 1 .. Newest : history'[i] = history[i]
    BY AppendIs DEF IInv, HistoryOK
<1>2. /\ Newest \in Nat \ {0} /\ DOMAIN history = 1 .. Newest /\ DOMAIN history' = 1 .. Newest + 1
      /\ Last(history) = history[Newest] /\ Last(history') = history'[Newest']
    BY <1>1, LastIs DEF HistoryType, Newest, Last
<1>3. PendingLast'
    BY <1>1, <1>2 DEF IInv, HistoryOK, PendingLast
<1>4. AllDeployed' = AllDeployed
    BY <1>1, <1>2 DEF AllDeployed
<1>5. \A i \in AllDeployed : history'[i] = history[i]
    BY <1>1, <1>2 DEF AllDeployed
<1>6. DeployedRuns'
    BY <1>4, <1>5 DEF IInv, HistoryOK, DeployedRuns
<1> QED BY <1>1, <1>2, <1>3, <1>6 DEF HistoryOK, Newest

LEMMA UpgradeReleaseInv == ASSUME IInv, UpgradeRelease PROVE IInv'
<1>1. CASE Fails
    BY <1>1, FailsInv DEF UpgradeRelease
<1>2. CASE ~Fails /\ Last(history).status = "pending"
    BY <1>2, Ends, HistoryStays DEF UpgradeRelease, IInv, RestTypeOK, release
<1>3. CASE ~Fails /\ Last(history).status # "pending"
  <2>1. HistoryOK' /\ Len(history') >= 2 /\ Last(history') = [version |-> target, status |-> "pending"]
      BY <1>3, Appended DEF UpgradeRelease, IInv, RestTypeOK
  <2>2. StepOK'
      BY <1>3, <2>1 DEF UpgradeRelease, StepOK
  <2> QED BY <1>3, <2>1, <2>2, Inside DEF UpgradeRelease, IInv, RestTypeOK, Steps
<1> QED BY <1>1, <1>2, <1>3

LEMMA RollbackReleaseInv == ASSUME IInv, RollbackRelease PROVE IInv'
<1>1. CASE Fails
    BY <1>1, FailsInv DEF RollbackRelease
<1>2. CASE ~Fails
  <2> DEFINE v == history[Newest - 1].version
  <2>1. Newest >= 2 /\ Last(history).status # "pending"
      BY DEF RollbackRelease, IInv, StepOK, Newest
  <2>2. v \in Versions
      BY <2>1, LastIs DEF IInv, HistoryOK, Revision
  <2>3. Append1(v) /\ step' = "rolling" /\ UNCHANGED <<world, running, current, target, blind, outcome, faults>>
      BY <1>2 DEF RollbackRelease
  <2> HIDE DEF v
  <2>4. HistoryOK' /\ Len(history') >= 2 /\ Last(history') = [version |-> v, status |-> "pending"]
      BY <2>1, <2>2, <2>3, Appended
  <2>5. StepOK'
      BY <2>3, <2>4 DEF StepOK
  <2> QED BY <2>3, <2>4, <2>5, Inside DEF IInv, RestTypeOK, Steps
<1> QED BY <1>1, <1>2

LEMMA UpgradeEndsInv == ASSUME IInv, UpgradeEnds PROVE IInv'
<1>1. HistoryType /\ Newest \in Nat \ {0} /\ Newest >= 2 /\ DOMAIN history = 1 .. Newest
      /\ Last(history) = history[Newest] /\ history[Newest].status = "pending"
      /\ history[Newest].version = target
    BY LastIs DEF IInv, HistoryOK, StepOK, UpgradeEnds, Newest
<1>2. CASE Fault /\ history' = Mark({Newest}, "failed") /\ UNCHANGED running /\ End("error")
  <2>1. /\ HistoryType' /\ Newest' = Newest
        /\ \A i \in 1 .. Newest :
             /\ history'[i].version = history[i].version
             /\ history'[i].status = IF i \in {Newest} THEN "failed" ELSE history[i].status
      BY <1>1, <1>2, MarkIs
  <2>2. DOMAIN history' = 1 .. Newest
      BY <2>1, LastIs DEF HistoryType, Newest
  <2>3. PendingLast'
      BY <1>1, <2>1, <2>2 DEF IInv, HistoryOK, PendingLast
  <2>4. AllDeployed' = AllDeployed
      BY <1>1, <2>1, <2>2 DEF AllDeployed
  <2>5. DeployedRuns'
      BY <1>1, <1>2, <2>1, <2>4 DEF IInv, HistoryOK, DeployedRuns, AllDeployed
  <2> QED BY <1>2, <2>1, <2>3, <2>5, Ends DEF UpgradeEnds, HistoryOK, IInv, RestTypeOK
<1>3. CASE step' = "superseded"
  <2> DEFINE old == IF AllDeployed = {} THEN {Newest - 1} ELSE {Max(AllDeployed)}
  <2>1. history' = Mark(old, "superseded") /\ running' = target
        /\ UNCHANGED <<world, current, target, blind, outcome, faults>>
      BY <1>3 DEF UpgradeEnds, End
  <2>2. AllDeployed \subseteq old /\ Newest \notin old
    <3>1. CASE AllDeployed = {}
        BY <1>1, <3>1
    <3>2. CASE AllDeployed # {}
      <4>1. PICK i \in DOMAIN history : AllDeployed = {i}
          BY <3>2, DeployedIs DEF IInv
      <4>2. Max(AllDeployed) = i
          BY <1>1, <4>1, MaxOfOne
      <4>3. i # Newest
          BY <1>1, <4>1 DEF AllDeployed
      <4> QED BY <3>2, <4>1, <4>2, <4>3
    <3> QED BY <3>1, <3>2
  <2> HIDE DEF old
  <2>3. /\ HistoryType' /\ Newest' = Newest
        /\ \A i \in 1 .. Newest :
             /\ history'[i].version = history[i].version
             /\ history'[i].status = IF i \in old THEN "superseded" ELSE history[i].status
      BY <1>1, <2>1, MarkIs
  <2>4. DOMAIN history' = 1 .. Newest /\ Last(history') = history'[Newest]
      BY <2>3, LastIs DEF HistoryType, Newest, Last
  <2>5. AllDeployed' = {}
      BY <1>1, <2>2, <2>3, <2>4 DEF AllDeployed
  <2>6. PendingLast'
      BY <1>1, <2>3, <2>4 DEF IInv, HistoryOK, PendingLast
  <2>7. HistoryOK'
      BY <2>3, <2>5, <2>6 DEF HistoryOK, DeployedRuns
  <2>8. Last(history').status = "pending" /\ Last(history').version = target /\ Len(history') >= 2
      BY <1>1, <2>2, <2>3, <2>4 DEF Newest
  <2>9. StepOK'
      BY <1>3, <2>1, <2>5, <2>8 DEF StepOK
  <2> QED BY <1>3, <2>1, <2>7, <2>9, Inside DEF IInv, RestTypeOK, Steps
<1> QED BY <1>2, <1>3 DEF UpgradeEnds

LEMMA UpgradeRecordedInv == ASSUME IInv, UpgradeRecorded PROVE IInv'
<1>1. /\ HistoryType /\ Newest \in Nat \ {0} /\ Newest >= 2 /\ DOMAIN history = 1 .. Newest
      /\ Last(history) = history[Newest] /\ history[Newest].version = running /\ AllDeployed = {}
    BY LastIs DEF IInv, HistoryOK, StepOK, UpgradeRecorded, Newest
<1>2. /\ HistoryType' /\ Newest' = Newest
      /\ \A i \in 1 .. Newest :
           /\ history'[i].version = history[i].version
           /\ history'[i].status = IF i \in {Newest} THEN "deployed" ELSE history[i].status
    BY <1>1, MarkIs DEF UpgradeRecorded
<1>3. DOMAIN history' = 1 .. Newest /\ Last(history') = history'[Newest]
    BY <1>2, LastIs DEF HistoryType, Newest, Last
<1>4. AllDeployed' = {Newest} /\ Newest \in 1 .. Newest
    BY <1>1, <1>2, <1>3 DEF AllDeployed
<1>5. PendingLast'
    BY <1>1, <1>2, <1>3 DEF IInv, HistoryOK, PendingLast
<1>6. HistoryOK'
  <2>1. running' = running
      BY DEF UpgradeRecorded
  <2>2. history'[Newest].version = running
      BY <1>1, <1>2, <1>4
  <2>3. DeployedRuns'
      BY <1>4, <2>1, <2>2 DEF DeployedRuns
  <2> QED BY <1>2, <1>5, <2>3 DEF HistoryOK
<1>7. Len(history') >= 2 /\ Last(history').status = "deployed"
  <2>1. Len(history') = Newest
      BY <1>2 DEF Newest
  <2> QED BY <1>1, <1>2, <1>3, <1>4, <2>1
<1>8. CASE step' = "health"
  <2>1. StepOK'
      BY <1>7, <1>8 DEF StepOK
  <2> QED BY <1>6, <1>8, <2>1, Inside DEF UpgradeRecorded, End, IInv, RestTypeOK, Steps
<1>9. CASE step' # "health"
    BY <1>6, <1>9, Ends DEF UpgradeRecorded, IInv, RestTypeOK
<1> QED BY <1>8, <1>9

\* A rollback leaves its revision as the deployed one, or as a failed one and
\* none deployed.
LEMMA RollbackEndsInv == ASSUME IInv, RollbackEnds PROVE IInv'
<1>1. /\ HistoryType /\ Newest \in Nat \ {0} /\ Newest >= 2 /\ DOMAIN history = 1 .. Newest
      /\ Last(history) = history[Newest] /\ \A i \in 1 .. Newest : history[i] \in Revision
    BY LastIs DEF IInv, HistoryOK, StepOK, RollbackEnds, Newest
<1>2. PICK R \in SUBSET (1 .. Newest), s \in {"deployed", "failed"} :
        /\ history' = [Mark(R, "superseded") EXCEPT ![Newest].status = s]
        /\ s = "deployed" => R = AllDeployed /\ running' = history[Newest].version
        /\ s = "failed" => R = {Newest - 1} /\ running' = running
  <2>1. AllDeployed \in SUBSET (1 .. Newest) /\ {Newest - 1} \in SUBSET (1 .. Newest)
      BY <1>1 DEF AllDeployed
  <2> QED BY <1>1, <2>1 DEF RollbackEnds
<1>3. ASSUME NEW i \in 1 .. Newest
      PROVE  /\ history'[i].version = history[i].version
             /\ history'[i].status = IF i = Newest THEN s
                                     ELSE IF i \in R THEN "superseded" ELSE history[i].status
             /\ history'[i] \in Revision
    BY <1>1, <1>2 DEF Mark, Revision
<1>4. HistoryType' /\ Newest' = Newest /\ DOMAIN history' = 1 .. Newest
  <2>1. history' = [i \in 1 .. Newest |-> history'[i]]
      BY <1>1, <1>2 DEF Mark
  <2>2. history' \in Seq(Revision) /\ Len(history') = Newest
      BY <1>1, <1>3, <2>1
  <2> QED BY <1>1, <2>2 DEF HistoryType, Newest
<1>5. PendingLast'
    BY <1>1, <1>3, <1>4 DEF IInv, HistoryOK, PendingLast
<1>6. DeployedRuns'
  <2>1. CASE s = "deployed"
    <3>1. \A i \in 1 .. Newest : history'[i].status = "deployed" <=> i = Newest
        BY <1>1, <1>2, <1>3, <2>1 DEF AllDeployed
    <3>2. AllDeployed' = {Newest}
        BY <1>1, <1>4, <3>1 DEF AllDeployed
    <3> QED BY <1>1, <1>2, <1>3, <2>1, <3>2 DEF DeployedRuns
  <2>2. CASE s = "failed"
    <3>1. AllDeployed' \subseteq AllDeployed
        BY <1>1, <1>3, <1>4, <2>2 DEF AllDeployed
    <3>2. \A i \in AllDeployed' : history'[i].version = history[i].version
        BY <1>3, <1>4 DEF AllDeployed
    <3> QED BY <1>2, <2>2, <3>1, <3>2 DEF IInv, HistoryOK, DeployedRuns
  <2> QED BY <2>1, <2>2
<1>7. running' \in Versions
    BY <1>1, <1>2 DEF Revision, IInv, RestTypeOK
<1> QED BY <1>4, <1>5, <1>6, <1>7, Ends DEF RollbackEnds, HistoryOK

LEMMA NextInv == ASSUME IInv, [Next]_vars PROVE IInv'
<1>1. CASE UNCHANGED vars
  <2>1. HistoryOK' /\ RestTypeOK' /\ StepOK'
      BY <1>1, HistoryStays DEF vars, world, config, release, run, IInv, RestTypeOK, StepOK
  <2>2. NeverSilent'
      BY <1>1 DEF vars, world, config, release, run, IInv, NeverSilent, Permitted, ShouldUpdate
  <2> QED BY <2>1, <2>2 DEF IInv
<1>2. CASE Next
    BY <1>2, PublishInv, StartRunInv, GetCurrentReleaseInv, LastDeployedVersionInv, EvaluateInv,
        FetchInv, UpgradeReleaseInv, UpgradeEndsInv, UpgradeRecordedInv, HealthCheckInv,
        RollbackReleaseInv, RollbackEndsInv, DieInv DEF Next, Run
<1> QED BY <1>1, <1>2

-----------------------------------------------------------------------------
(* Theorems *)

\* Whatever fails and wherever a run dies, the history is one Helm can work
\* with: only its last revision is under way and at most one is deployed; and a
\* run compares versions that exist.
THEOREM HistoryIsSound == Spec => []TypeOK
<1>1. Spec => []IInv
    BY InitInv, NextInv, PTL DEF Spec
<1> QED BY <1>1, IInvType, PTL

\* A run that reports "up to date" without having gone by the record of a
\* release that is not deployed is right about the chart that runs.
THEOREM UpToDateIsTrue == Spec => []NeverSilent
<1>1. Spec => []IInv
    BY InitInv, NextInv, PTL DEF Spec
<1>2. IInv => NeverSilent
    BY DEF IInv
<1> QED BY <1>1, <1>2, PTL

=============================================================================
