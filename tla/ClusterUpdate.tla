---------------------------- MODULE ClusterUpdate ----------------------------
(***************************************************************************)
(* The cluster update controller (src/k8s-update-controller): a CronJob    *)
(* whose every run compares the version of the Helm release with those of  *)
(* the registry, upgrades, waits and may roll back.  All it remembers from *)
(* one run to the next is the release history that Helm keeps, and a run   *)
(* may die at any step.                                                    *)
(*                                                                         *)
(* Helm is not part of the repository: an upgrade refuses to start behind  *)
(* a pending revision, writes its own revision as pending, and marks it    *)
(* deployed or failed at the end; the revision it replaces is superseded   *)
(* just before.  A rollback copies the revision before the last.           *)
(***************************************************************************)
EXTENDS Naturals, Sequences, SequencesExt, FiniteSets, FiniteSetsExt

CONSTANTS
    MaxVersion,     \* bound: charts that are ever published
    Major, Minor,   \* the semantic version of each
    Policies,       \* the version constraints a ConfigMap may hold
    Unpinned,       \* the value of "pinned" that pins nothing
    HistoryMax,     \* revisions GetReleaseHistory asks for (10 in the code)
    MaxFaults       \* bound: failed calls and runs that die

Versions == 1..MaxVersion
PolicyType == [minor : BOOLEAN, major : BOOLEAN, pinned : Versions \cup {Unpinned},
               min : Versions, max : Versions]
RollbackConfig == [enabled : BOOLEAN, auto : BOOLEAN]

ASSUME ClusterAssumption ==
    /\ MaxVersion \in Nat \ {0}
    /\ Major \in [Versions -> Nat] /\ Minor \in [Versions -> Nat]
    /\ Policies \subseteq PolicyType
    /\ Unpinned \notin Versions
    /\ HistoryMax \in Nat \ {0}
    /\ MaxFaults \in Nat

VARIABLES
    policy, rollback,   \* the configuration
    registry,   \* the versions published
    history,    \* the revisions of the release, oldest first
    running,    \* the chart whose resources last came up as a whole
    step,       \* where the run is
    current,    \* result.CurrentVersion
    target,     \* the version it upgrades to
    blind,      \* it goes by the recorded version of a release that is not deployed
    outcome,    \* how the last run ended, and the versions it was offered
    faults

config == <<policy, rollback>>
world == <<config, registry>>
release == <<history, running>>
run == <<step, current, target, blind>>
vars == <<world, release, run, outcome, faults>>

Revision == [version : Versions,
             status : {"deployed", "superseded", "failed", "pending"}]
Steps == {"idle", "get", "history", "list", "fetch", "upgrade", "upgrading",
          "superseded", "health", "rollback", "rolling"}

Init ==
    /\ policy \in Policies
    /\ rollback \in RollbackConfig
    /\ registry = {1}
    /\ history = << [version |-> 1, status |-> "deployed"] >>
    /\ running = 1
    /\ step = "idle" /\ current = 1 /\ target = 1 /\ blind = FALSE
    /\ outcome = [result |-> "none", offered |-> {}]
    /\ faults = 0

Fault == faults < MaxFaults /\ faults' = faults + 1

Publish ==
    /\ \E v \in Versions \ registry : registry' = registry \cup {v}
    /\ UNCHANGED <<config, release, run, outcome, faults>>

(***************************************************************************)
(* The version policy (version.go).                                        *)
(***************************************************************************)
ShouldUpdate(now, candidate) ==
    IF policy.pinned # Unpinned
    THEN candidate = policy.pinned /\ candidate # now
    ELSE /\ candidate > now
         /\ candidate >= policy.min /\ candidate <= policy.max
         /\ Major[candidate] > Major[now] => policy.major
         /\ Major[candidate] = Major[now] /\ Minor[candidate] > Minor[now] => policy.minor

FindLatestVersion(now, candidates) ==
    Max({v \in candidates : v > now /\ ShouldUpdate(now, v)} \cup {now})

(***************************************************************************)
(* The steps of CheckAndUpdate.                                            *)
(***************************************************************************)
End(result) ==
    /\ step' = "idle"
    /\ outcome' = [result |-> result, offered |-> registry]
    /\ UNCHANGED <<current, target, blind>>

Fails == Fault /\ End("error") /\ UNCHANGED release

StartRun ==
    /\ step = "idle" /\ step' = "get"
    /\ blind' = FALSE
    /\ UNCHANGED <<world, release, current, target, outcome, faults>>

\* The newest revision, whatever came of it.
CurrentRelease == Last(history)

\* Mutant: the recorded version is taken at face value.
MutGetCurrentRelease ==
    /\ step = "get"
    /\ current' = CurrentRelease.version /\ step' = "list"
    /\ UNCHANGED <<world, release, target, blind, outcome, faults>>

GetCurrentRelease ==
    /\ step = "get"
    /\ \/ Fails
       \/ /\ current' = CurrentRelease.version
          /\ step' = IF CurrentRelease.status = "deployed" THEN "list" ELSE "history"
          /\ UNCHANGED <<release, target, blind, outcome, faults>>
    /\ UNCHANGED world

\* The revisions GetReleaseHistory returns: the newest HistoryMax, as it asks
\* Helm's library, or all of them where HistoryMax is larger.
Retained == {i \in DOMAIN history : i > Len(history) - HistoryMax}
Deployed == {i \in Retained : history[i].status = "deployed"}

\* Mutant: the answer is used although no revision was found.
MutLastDeployedVersion ==
    /\ step = "history" /\ step' = "list"
    /\ current' = IF Deployed = {} THEN 0 ELSE history[Max(Deployed)].version
    /\ UNCHANGED <<world, release, target, blind, outcome, faults>>

\* Mutant: a history without a deployed revision is an error.
MutLastDeployedOnly ==
    /\ step = "history"
    /\ IF Deployed = {} THEN End("error")
       ELSE /\ current' = history[Max(Deployed)].version /\ step' = "list"
            /\ UNCHANGED <<target, blind, outcome>>
    /\ UNCHANGED <<world, release, faults>>

LastDeployedVersion ==
    /\ step = "history" /\ step' = "list"
    /\ \/ /\ \/ Fault
             \/ Deployed = {} /\ UNCHANGED faults
          /\ blind' = TRUE
          /\ UNCHANGED current
       \/ /\ Deployed # {}
          /\ current' = history[Max(Deployed)].version
          /\ UNCHANGED <<blind, faults>>
    /\ UNCHANGED <<world, release, target, outcome>>

Evaluate ==
    /\ step = "list"
    /\ \/ Fails
       \/ LET latest == FindLatestVersion(current, registry)
          IN /\ IF ShouldUpdate(current, latest)
                THEN step' = "fetch" /\ target' = latest /\ UNCHANGED <<current, blind, outcome>>
                ELSE End("current")
             /\ UNCHANGED <<release, faults>>
    /\ UNCHANGED world

\* DownloadChart and VerifySignature.
Fetch ==
    /\ step = "fetch"
    /\ \/ Fails
       \/ step' = "upgrade" /\ UNCHANGED <<release, current, target, blind, outcome, faults>>
    /\ UNCHANGED world

Append1(version) == history' = Append(history, [version |-> version, status |-> "pending"])

UpgradeRelease ==
    /\ step = "upgrade"
    /\ \/ Fails
       \/ /\ Last(history).status = "pending"
          /\ End("error") /\ UNCHANGED <<release, faults>>
       \/ /\ Last(history).status # "pending"
          /\ Append1(target) /\ step' = "upgrading"
          /\ UNCHANGED <<running, current, target, blind, outcome, faults>>
    /\ UNCHANGED world

\* The status of the revisions in the set becomes s.
Mark(revisions, s) ==
    [i \in DOMAIN history |-> IF i \in revisions THEN [history[i] EXCEPT !.status = s]
                              ELSE history[i]]
Newest == Len(history)
AllDeployed == {i \in DOMAIN history : history[i].status = "deployed"}

UpgradeEnds ==
    /\ step = "upgrading"
    /\ \/ Fault /\ history' = Mark({Newest}, "failed") /\ UNCHANGED running /\ End("error")
       \/ /\ history' = Mark(IF AllDeployed = {} THEN {Newest - 1} ELSE {Max(AllDeployed)},
                             "superseded")
          /\ running' = target /\ step' = "superseded"
          /\ UNCHANGED <<current, target, blind, outcome, faults>>
    /\ UNCHANGED world

UpgradeRecorded ==
    /\ step = "superseded"
    /\ history' = Mark({Newest}, "deployed")
    /\ IF rollback.enabled
       THEN step' = "health" /\ UNCHANGED <<current, target, blind, outcome>>
       ELSE End("updated")
    /\ UNCHANGED <<world, running, faults>>

\* What the health check looks at, which the upgrade has just recorded.
IsReleaseHealthy == CurrentRelease.status = "deployed"

HealthCheck ==
    /\ step = "health"
    /\ \/ /\ IsReleaseHealthy
          /\ End("updated") /\ UNCHANGED faults
       \/ /\ Fault
          /\ IF rollback.auto
             THEN step' = "rollback" /\ UNCHANGED <<current, target, blind, outcome>>
             ELSE End("error")
    /\ UNCHANGED <<world, release>>

RollbackRelease ==
    /\ step = "rollback"
    /\ \/ Fails
       \/ /\ Append1(history[Newest - 1].version) /\ step' = "rolling"
          /\ UNCHANGED <<running, current, target, blind, outcome, faults>>
    /\ UNCHANGED world

RollbackEnds ==
    /\ step = "rolling"
    /\ \/ /\ history' = [Mark(AllDeployed, "superseded") EXCEPT ![Newest].status = "deployed"]
          /\ running' = Last(history).version
          /\ UNCHANGED faults
       \/ /\ Fault
          /\ history' = [Mark({Newest - 1}, "superseded") EXCEPT ![Newest].status = "failed"]
          /\ UNCHANGED running
    /\ End("error")
    /\ UNCHANGED world

\* The pod is evicted or killed; what Helm has recorded stays.
Die ==
    /\ step # "idle" /\ Fault
    /\ step' = "idle" /\ outcome' = [outcome EXCEPT !.result = "died"]
    /\ UNCHANGED <<world, release, current, target, blind>>

Run == \/ StartRun \/ GetCurrentRelease \/ LastDeployedVersion \/ Evaluate \/ Fetch
       \/ UpgradeRelease \/ UpgradeEnds \/ UpgradeRecorded \/ HealthCheck
       \/ RollbackRelease \/ RollbackEnds

Next == Publish \/ Run \/ Die

\* The CronJob keeps its schedule, and every call of a run has a timeout.
Spec == Init /\ [][Next]_vars /\ WF_vars(Run)

(***************************************************************************)
(* Properties.                                                             *)
(***************************************************************************)

\* The history is one Helm can work with: only the last revision is ever under
\* way, and no two are deployed; the run compares versions that exist.
TypeOK ==
    /\ policy \in Policies /\ rollback \in RollbackConfig
    /\ registry \subseteq Versions
    /\ history \in Seq(Revision) /\ history # << >>
    /\ \A i \in DOMAIN history : history[i].status = "pending" => i = Newest
    /\ Cardinality(AllDeployed) <= 1
    /\ running \in Versions /\ current \in Versions /\ target \in Versions
    /\ step \in Steps /\ blind \in BOOLEAN
    /\ outcome.result \in {"none", "current", "updated", "error", "died"}
    /\ outcome.offered \subseteq registry
    /\ faults \in 0..MaxFaults

Permitted(versions) == {v \in versions : v > running /\ ShouldUpdate(running, v)}

\* A run that reports "up to date" is right about the chart that runs, whatever
\* failed upgrades, rollbacks or dead runs came before: one failure does not
\* turn into silence (controller.go:67).  Not so for a run that went by the
\* recorded version, which the code warns of.
NeverSilent == outcome.result = "current" /\ ~blind /\ step = "idle" =>
                   Permitted(outcome.offered) = {}

\* Silence that no later run breaks: nothing the controller reads is deployed,
\* and the version that is recorded leaves nothing to do.
Muted == Deployed = {} /\ ~\E v \in registry : v > Last(history).version
                                               /\ ShouldUpdate(Last(history).version, v)

\* A run that died inside an upgrade or a rollback: Helm refuses every other.
Wedged == Last(history).status = "pending" /\ step \notin {"upgrading", "superseded", "rolling"}

\* When failures end, the newest permitted chart is reached, except in these
\* two cases.
UpgradesSettle == <>[](Permitted(registry) = {} \/ Wedged \/ Muted)
=============================================================================
