------------------------------ MODULE VulnCache -------------------------------
(***************************************************************************)
(* The in-memory caches behind the metrics: all findings of containers, or *)
(* of nodes, read from the database at once (src/scanner-core/database/    *)
(* db.go; the two caches are the same code, this module is either).        *)
(*                                                                         *)
(* A store commits and starts a goroutine that rebuilds the cache; adding  *)
(* or removing a container starts none and is left to a 30-minute ticker.  *)
(* A rebuild asked for while one is running is dropped, although that one  *)
(* may have read the rows already.  A finding is one series of metrics.    *)
(***************************************************************************)
EXTENDS Integers, FiniteSets

CONSTANTS
    Series,        \* the findings there can be
    AtStart,       \* those the database already holds at the first start
    MaxChanges     \* changes of the findings and deaths of the process  (model bound)

ASSUME CacheAssumption == IsFiniteSet(Series) /\ AtStart \subseteq Series /\ MaxChanges \in Nat

VARIABLES
    findings,   \* what the database holds of completed scans
    cache,      \* nodeVulnRows or containerVulnRows, with warm FALSE for nil
    warm,
    asked,      \* a goroutine has not come to the CompareAndSwap yet (one stands for all)
    rebuild,    \* the rebuild under way, and the rows it has read
    changes

cacheVars == <<findings, cache, warm, asked, rebuild, changes>>

\* The rows of completed scans.
RowsInDB == findings
NoRebuild == [pc |-> "none", rows |-> {}]

CacheTypeOK ==
    /\ findings \subseteq Series
    /\ cache \subseteq Series
    /\ warm \in BOOLEAN
    /\ asked \in BOOLEAN
    /\ rebuild \in [pc : {"none", "read", "publish"}, rows : SUBSET Series]
    /\ changes \in 0 .. MaxChanges
    \* a cold cache is empty
    /\ ~warm => cache = {}

\* The process starts: the cache is cold, the refresh goroutine warms it.
Cold ==
    /\ cache' = {} /\ warm' = FALSE
    /\ asked' = TRUE
    /\ rebuild' = NoRebuild

CacheInit ==
    /\ findings = AtStart
    /\ cache = {} /\ warm = FALSE
    /\ asked = TRUE
    /\ rebuild = NoRebuild
    /\ changes = 0

Counted == changes < MaxChanges /\ changes' = changes + 1
Change == Counted /\ findings' \in SUBSET Series \ {findings}

\* StoreImageVulnerabilities, StoreNodeVulnerabilities, SetContainers,
\* CleanupOrphanedImages.
Store ==
    /\ Change
    /\ asked' = TRUE
    /\ UNCHANGED <<cache, warm, rebuild>>

\* Adding or removing a container, RemoveNode, a status that is no longer
\* 'completed', a store whose blob cannot be written after its commit.
Untold ==
    /\ Change
    /\ UNCHANGED <<cache, warm, asked, rebuild>>

\* The ticker of the refresh goroutine.
Tick30 ==
    /\ ~asked
    /\ asked' = TRUE
    /\ UNCHANGED <<findings, cache, warm, rebuild, changes>>

\* CompareAndSwap: go on, or leave it to the rebuild under way.
Rebuild ==
    /\ asked
    /\ asked' = FALSE
    /\ rebuild' = IF rebuild.pc = "none" THEN [rebuild EXCEPT !.pc = "read"] ELSE rebuild
    /\ UNCHANGED <<findings, cache, warm, changes>>

ReadRows ==
    /\ rebuild.pc = "read"
    /\ rebuild' = [pc |-> "publish", rows |-> RowsInDB]
    /\ UNCHANGED <<findings, cache, warm, asked, changes>>

ReadFails ==
    /\ rebuild.pc = "read"
    /\ rebuild' = NoRebuild
    /\ UNCHANGED <<findings, cache, warm, asked, changes>>

Publish ==
    /\ rebuild.pc = "publish"
    /\ cache' = rebuild.rows
    /\ warm' = TRUE
    /\ rebuild' = NoRebuild
    /\ UNCHANGED <<findings, asked, changes>>

\* What a reader gets, and what a cold read starts.
Rows == IF warm THEN cache ELSE RowsInDB
ReadThrough ==
    /\ asked' = (asked \/ ~warm)
    /\ UNCHANGED <<findings, cache, warm, rebuild, changes>>

=============================================================================
