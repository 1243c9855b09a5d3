# TLA+ models of bjorn2scan

bjorn2scan finds the software in a Kubernetes cluster, or on a single host, that has known
vulnerabilities. This directory holds TLA+ models of the parts of it in which order, concurrency and
failure matter, TLC configurations that check them on small instances, and TLAPS proofs of what matters
most for instances of any size.

Run a check with `tlc -config MCScanQueue.cfg MCScanQueue`, a proof with `tlapm ScanQueueProofs.tla`.

## 1. The system

Four programs share one library.

- **k8s-scan-server** runs once per cluster. Informers tell it which pods and nodes exist; it scans their
  images and hosts and serves the results.
- **bjorn2scan-agent** runs on a host without Kubernetes. It watches Docker, scans images and its own
  host, and updates itself.
- **pod-scanner** runs on every node. It makes the SBOM of an image or of the host on request.
- **k8s-update-controller** is a CronJob that upgrades the Helm release.
- **scanner-core** is the library of the first two: the container and node managers, the scan queue, the
  SQLite database, the scheduled jobs, metrics and the HTTP API.

```
 pod informer --> containers.Manager --+--> containers, images tables <--+-- HTTP API, metrics
 node informer -> nodes.Manager -------|--> nodes table                  |
 (agent: Docker events)                v                                 |
                             scan queue --> worker --> StoreSBOM, StoreVulnerabilities
                                       ^       |-> SBOM: pod-scanner (server), syft (agent)
 scheduler: rescan-database, ----------+       `-> matches: grype <-- grype database on disk
            cleanup, refresh-images, telemetry
```

### Inventory

| component | state | operations | hard behaviour | correct when |
|---|---|---|---|---|
| scan queue (`scanning/queue.go`) | two lanes, metrics, one mutex, one condition variable, a context | Enqueue, enqueueHostJob, worker, Shutdown | producers and the worker wait on one condition variable; Shutdown cancels outside the mutex | no job is lost, doubled or forgotten; the worker wakes; Shutdown returns |
| container manager, `containers` and `images` tables (`containers/manager.go`, `database/instances.go`, `images.go`) | a map in memory, two tables | AddContainer, RemoveContainer, SetContainers, ReconcileDB, cleanup job | events, startup reconciliation and cleanup interleave; a write fails; a crash between memory and table | every container has its image; what runs is recorded; the tables converge to the cluster |
| image scan (`scanning/queue.go`, `database/scanning.go`, `status.go`) | a row's status, SBOM, report, parsed rows, timestamp; the worker's place | processJob, StoreSBOM, StoreVulnerabilities | each is several transactions; rows vanish and return between them; grype's database is replaced under a scan | a row never claims more than it holds; no scan is orphaned; every image is scanned in the end |
| rescan job, reaper, startup reset (`jobs/rescan_database_job.go`, `database/db.go`) | readiness, row ages | Run, ReapStuckScans, ResetInterruptedScans | races with the worker over the same rows | stuck and stale rows are taken up again |
| node manager, `nodes` table, host scans (`nodes/manager.go`, `database/nodes.go`, `k8s/node_watcher.go`) | a map, a table, rescue sweep | AddNode, RemoveNode with retries, CatchUpScans, RescueStuckNodes, processHostJob | a node leaves and returns under its name during a scan; four readers of the status | status and matches agree; every ready node is scanned |
| agent self-update (`updater/`, `main.go`) | binary, backup, marker; two goroutines | check, install, health check, commit, rollback | crashes and disk errors between file operations; the two goroutines share the files | an unverified binary can always be replaced by a verified one |
| job scheduler (`scheduler/`) | jobs, timers, WaitGroup, context | AddJob, Start, executeJob, Stop, RunJobNow | Stop races with timers; runs by hand beside timed ones | a job has one timer; a stopped scheduler comes to rest |
| grype database, readiness (`vulndb/`, `handlers/database_handlers.go`) | timestamp, ready flag, wait channel | CheckForUpdates, SetReady, WaitForReady, reinitialise | a crash between download, timestamp and rescan; reset while others wait | a new database is noticed, and everything older is scanned again |
| Docker watcher, refresh (`docker/`) | subscription, list of containers | sync, events, reconnect, TriggerRefresh | missed events, stale list, failed inspection, a signal taken for an end | the manager converges to what runs |
| pod-scanner client (`podscanner/client.go`) | none | find, wait, request | pods move between two API calls; nested timeouts | a reachable scanner is used |
| cluster update controller (`controller/`) | the Helm history | CheckAndUpdate, rollback | dies with the release it upgrades; failed upgrades; a rollback goes to the revision before | the version it compares with is the one that runs; the newest permitted chart is reached |
| metrics export, staleness store, caches (`metrics/`, `database/db.go`) | a map and a table; cached rows; what the backend holds | collect, send, Apply, DeleteExpired, rebuild | batches are lost; tails overlap cycles; rebuild requests are dropped | the backend ends up with the findings there are; a series that ended is told to it before it is forgotten |
| database open, migrations, corruption recovery (`database/migrations.go`, `db.go`) | the schema, its version, the log | New, 51 migrations, record, delete and recreate | a crash between the statements of a migration, or before it is recorded; a damaged file | the schema that is served has what the queries name; rows survive; a start is refused only when it must be |
| the rest: API handlers, parsing, configuration, debug tools, web UI, chart | none of their own | read and format | - | - |

`PROJECT.json` lists every component with its sources, and under `hazards` the places in the code
where something can go wrong that a test would hardly reach, with the properties that watch them.

### How the components interact

The informers call the managers on their own goroutines. Each manager holds its mutex while it writes the
database and asks for the status of the image or node it has added; then it enqueues. The worker takes one
job at a time and talks to the managers only through the database. So do the scheduled jobs. SQLite
transactions are serialized by one write mutex, and nothing is held across two of them: **one database
write or transaction is one action**, and everything else interleaves. What survives a crash is the
database, and for the agent three files; the queue and the managers' maps do not.

## 2. What is modelled

### ScanQueue and TwoLaneQueue

`ScanQueue` is `JobQueue` at the granularity of its mutex and its condition variable. `pc` says where each
goroutine is, `lock` who holds `jobsMu`, `waiters` is the FIFO notify list of `jobsAvailable`. A critical
section that does not wait is one action (`EnqueueImage`, `EnqueueHost`, `WorkerLock`). A section that calls
`Wait` is cut between its last test and the registration (`WorkerWait`), because `Shutdown` runs `Cancel`
and `Broadcast` without the mutex and may come exactly there. `Configs` holds what `NewJobQueue` can be
given; production uses the unbounded one, the tests of the repository use all.

`TwoLaneQueue` says what callers may rely on: two FIFO lanes, image jobs first, a node at most once,
eviction of the oldest only to make room, nothing accepted after the consumer has gone. `ScanQueue`
implements it (`TwoLanes`); the mapping forgets lock, waiters and context.

### ContainerStore

The cluster (`pods`), `Manager.containers` (`mem`) and the tables (`containers`, `ids`). `AddContainer` ends
after its transaction with `Manager.mu` held (`adding`); `FinishAdd` is the check and enqueue that follow.
`ReconcileSnapshot`, `ReconcileDB` and `CatchUp` are the start-up order of `WatchPods`, the four `Cleanup`
actions the cleanup job, which reads the manager's list, the table, and writes twice without the mutex.
`Add` and `Remove` are the manager's calls for whoever makes them: the pod informer here, Docker's events in
`AgentContainers`. A pod's containers are read from its last status (watcher.go:246), which is taken to name them all. An
image is its row's id here: `lastId` is AUTOINCREMENT, kept per digest, since an id is only ever compared with another
of the same digest.

### ImageScan

Extends `ContainerStore`: each of its steps keeps or renews the scan columns of the rows (`CarryRows`). The
worker's program counter goes through `processJob` and `processVulnerabilityScan`; each write of `StoreSBOM`
and `StoreVulnerabilities` is an action of its own, addressed by digest or by the id read before, as in the
code. A report is the number of the grype database it was made with (`vulns`) and the one whose timestamp it
carries (`stamp`); `found` are the parsed rows and `built` what the row claims. `OpenDatabase`,
`ScanVulnerabilities` and the reading of the timestamp are apart, since the rescan job may replace the
database in between. `old` says that a row has kept its status longer than `stuckScanMaxAge`. The rescan
job is `ReapStuckScans`, `CheckForUpdates`, `SelectForRescan` and one `EnqueueRescan` per image, in the order
of `Run` and with its early returns. `Restart` is a crash followed by `ResetInterruptedScans`.

`ScanStatus` is `database.Status` with its predicates, shared with `NodeScan`.

### NodeScan

The same for hosts, where the code differs: one transaction stores matches, status and timestamp; every
host scan makes a new SBOM; a node is added again under the same name; `RemoveNode` retries; a sweep
(`CatchUpScans`, then `RescueStuckNodes`) reads statuses, completeness and then enqueues; the worker reads a
node's id and writes by id later. `AddNode`'s insert and enqueue are one action because `Manager.mu` is
held over both and the worker cannot see the row before. Foreign keys are not enforced by the code's
SQLite settings, so a store by the id of a deleted node changes no row of `nodes`. `Stop` is a graceful
shutdown, in which the worker drains its lanes with a cancelled context.

### AgentUpdate and SafeUpdate

The three files (`binary`, `backup`, `marker`), the process (`running`), the checking goroutine (`updater`)
and the health-check goroutine (`checker`). One action per file operation of `Install`, `CommitUpdate` and
`Rollback`; `Crash` may cut anywhere, `"disk"` may fail each of them, `"slow"` is a health check that gives
up on a good version. A release is a number in release order with a semantic version; how it behaves is
"ok", "sick" (never healthy) or "dead" (exits while starting). `ShouldUpdate` is the version policy with its
pinned, minimum and maximum versions. `SafeUpdate` is what docs/AUTO_UPDATE.md promises: only a version
that passed its health check is replaced by a new one, and one that did not is replaced only by one that
did. The mapping is `installed <- binary, trusted <- verified`.

The code does not keep a new install from overlapping a pending one. `Overlap` is that choice. With FALSE an
install starts only when the last one is settled: committed, rolled back, or, if it failed half-way and left
its marker, resolved by a restart. This is an assumption about how far apart releases are;
`MCAgentUpdateOverlap.cfg` shows what happens without it.

### Schema, MigrationSteps and DatabaseOpen

`Schema` is a SQLite database as far as a migration can tell: tables with columns, indexes on them, which tables
hold rows, which of them hold two rows that a later, narrower UNIQUE key takes for one (`twins`), and the rows of
`scan_status`. Each kind of statement is an operator that says when SQLite refuses it
and what it leaves. `MigrationSteps` is the fifty-one migrations as lists of such statements, in transactions or
one by one as in the code (the schema after each version was compared with what real SQLite makes of the SQL).
`DatabaseOpen` is `New`: the probe, the checkpoint, the integrity check and the deletions of a corrupt file, then
`ensureSchemaVersion`, one statement per action, with the version recorded afterwards. `Crash` may come between any
two statements and may damage the file; `Upgrade` installs a newer release on what the older one left. While a
release serves, `Serve` puts rows into every table it writes: `owed` is what must be there later. Matches of host
packages written by the releases 30 to 41 may be twins (`Twinned`): they name their package by its row, and V42 keys
them by its name and version, both empty when the row is gone. `CopyNarrower` is V42's copy, which SQLite then refuses.
`DatabaseInvariants` adds no behaviour: it is the schema of every version, the inductive invariants and the words they
are stated in, kept apart from the proofs so that they can be read, and checked, without them.

What the module says about the code, and no property repeats: the re-parses of V6 and V14 to V18 use today's
parsers, which write tables that are named so only since V29 and V43. They fail and are only logged, so the
details that V15 to V18 clear stay empty although the comments (migrations.go:1328 and following) say they are made
again; `RowsKept` does not count these tables for releases before 18. `currentSchemaVersion` is 50 (line 9) with 51
migrations. A file with a damaged header is not recognised by `isCorruptionError`, and every start is refused. A
second run of V33 resets its aggregates. Not modelled: a release rolled back onto a newer schema (TODO.md:56).

### ClusterUpdate

One run of the controller after another over the release history Helm keeps, which is all that a run knows of
earlier ones. The steps of `CheckAndUpdate`: the newest revision, the last deployed one if that is not deployed,
the registry, download and signature (`Fetch`), the upgrade, the health check, the rollback. `policy` is the
ConfigMap's version constraint, `running` the chart whose resources came up last, `blind` that a run went by the
recorded version of a release that is not deployed, which the code does with a warning. `Die` is the pod evicted
or killed, by its own upgrade as well. Helm is external: it refuses to start behind a pending revision, writes its
own as pending, supersedes the deployed one and then marks the new one, and a rollback copies the revision before
the last.

A run that dies inside Helm leaves a pending revision and every later run fails, loudly: `Wedged`. `Muted` is
silence without end: nothing deployed among the revisions read, and the recorded version leaves nothing to do.
`UpgradesSettle` excepts both, so it says that there is no third way. The health check reads only the status that
the upgrade has just written (helm_client.go:197), where docs/AUTO_UPDATE.md:656 speaks of pods; it never fails
except by an error of its call. A chart that installs and does not work is not in the model: nothing in the code
would notice.

### Scheduler and GrypeDatabase

`Scheduler` is timers, goroutines and `Stop`. A timer that fires is a goroutine that looks at the context
(`CheckContext`), joins the WaitGroup later (`Begin`), runs and arms the next timer without another look
(`Return`); `RunJobNow` runs beside it. `GrypeDatabase` extends it with the job that matters, `rescan-database`:
`CheckForUpdates` under the updater's mutex with the loader's outcomes, the timestamp saved by itself,
`GetCurrentVersion`, `SetReady`, and the question which images and nodes are older (`Ask`). `Reinit...` are the
steps of the debug endpoint, `GetCurrentStatus` the one other caller of the updater. A database is its version.

Seen here: neither main calls `Scheduler.Stop`; no job looks at its context; `hasChanged` is ignored by its only
caller, so a timestamp lost or saved too early does no harm (`SettlesOnLatest`); the doc comment of
`CheckForUpdates` (lines 248-251) is untrue when the timestamp is saved and the file is gone.

### VulnCache and Metrics

`VulnCache` is either of the two caches: a store starts a goroutine that rebuilds it under a compare-and-swap flag,
a request during a rebuild is dropped, adding and removing asks for nothing, and a ticker does the rest. `asked`
stands for all goroutines before the compare-and-swap. `Metrics` composes it with a cycle of the push exporter: the
entries that have ended are read, the live series gone through, batches sent over a bounded channel, and a tail
(`StalenessStore.Apply`, `DeleteExpired`) goes on beside the next cycle. `received` is what the backend has last got.
Time is ticks of a third of the staleness window. Assumed of time: in every tick a cycle starts and gets through
clean, and no cycle with its tail meets more than one end of a tick. A scrape is the same cycle over HTTP and loses no
batch.

No tail waits for an earlier one (otel.go:183), and a write of the table may take minutes (db.go:258), so there may be
`MaxTails` at one time; `tail` keeps them in the order they began. `crossed` is history: the series that a tail wrote to
the table while another had written them and not yet brought that to memory. For these the two may end in different
orders, and then the table says something else than the memory until the series changes again or the process starts
anew, since `needsPersist` and the next diff go by the memory alone. `SettlesOnFindings` therefore promises backend and
memory for every series, and the table for those that were not crossed; `MCMetricsOverlap.cfg` shows a crossed one.

Known gaps: a series that was sent but not recorded before a crash ends without a NaN; a start that cannot read the
table leaves rows active for ever (`hydrated` excepts it; comment at tracker.go:49); `StoreNodeVulnerabilities`
asks for no rebuild when its blob write fails after the commit, and the ticker must do it.

### AgentContainers

Extends `ContainerStore`: the pods are Docker's containers now. `ContainerList`, `ExtractContainer` and
`SetContainers` are the watcher's first list and the refresh job, which may run side by side; `OpenStream`,
`HandleStart`, `HandleDie` and `StreamBreaks` are the event loop. Docker's events are lost while the stream is not
open, and any signal is a "kill" event, which the watcher takes for an end: the row of a container that goes on
running is away until the next refresh, six hours by default. A failing first list is only logged; if the first
ping fails, `WatchContainers` gives up (not modelled). The ten seconds of `TriggerRefresh` cover the ping, the list
and all inspections, so any inspection may fail.

### Which code a definition stands for

`map` in `PROJECT.json` gives file, lines and symbol of every definition. Names follow the source.
Definitions called `Mut...` are plausible bugs of the definition after them; each property is checked to
fail with one of them.

## 3. What the runs show

| run | instance | distinct states | shows |
|---|---|---|---|
| scan_queue | 4 configurations, 2 producers, 1 image, 2 nodes, 4 calls, Shutdown at any moment | 217 000 | lanes bounded, accounting exact, no sleep over a job, lanes drained, Shutdown during a job returns, TwoLaneQueue implemented |
| container_store | 2 containers sharing an image, 2 images, 2 changes, 1 failure, cleanup on and off | 43 000 | containers keep their images, what runs ends up recorded, with the cleanup job both tables converge |
| image_scan | 1 container, 1 image, 2 grype databases, 2 changes, any 1 failure, cleanup on and off | 6 300 000 | a row never claims an older report than it has, transient statuses are owned, results are kept |
| image_live | the same with fairness, no failed write, no cleanup | 152 000 | every image in use ends up completed against the newest database |
| reap_wedge (violated) | failed retrieval and failed write | 41 000 | `FailedIsRetried`: a reaped row without SBOM fails for ever |
| node_scan | 1 node, 3 changes, 2 databases, any 1 failure | 767 000 | matches and claim agree, no orphaned scan, ready nodes are scanned |
| agent_update | 3 releases of any behaviour, 5 policies, 4 failures, no overlap | 75 000 | the fallback is always ready, SafeUpdate implemented, updates settle |
| database_open | databases of all 51 releases, any number of crashes, damages, failed statements, busy checkpoints | 404 000 | the schema serves every query, rows survive, a start is refused only by a torn migration of a listed kind or by V42's narrower key |
| cluster_update | 4 charts, 5 policies, all rollback settings, 3 failures or deaths, 3 revisions read | 296 000 | the history stays sound, no run is silent, the newest permitted chart is reached |
| grype_database | the rescan job, 2 goroutines, 1 run by hand, 2 database versions, 1 crash or re-initialisation | 142 000 | one timer per job, Stop brings rest, the newest database is used and asked about |
| metrics | 1 series, found at the start, 2 changes or deaths of the process, 1 sender, 2 tails, 1 failure or slow tail | 1 575 000 | backend and memory end up with the findings, and the table where no two tails crossed; an end is told before it is forgotten |
| agent_containers | 1 container, 2 images, 3 changes or signals, 2 failures | 312 000 | manager and tables end up equal to what runs |

The violated run states what a comment says of the code; `findings` quotes it.

### Divergences to reproduce by hand

These configurations check, each, one sentence of a comment or document that the code does not keep. They are no
part of the regular runs: TLC finds the counterexample in seconds with `tlc -config <cfg> <module>`.

| configuration | module | property | what the code does |
|---|---|---|---|
| MCScanQueueShutdown.cfg | MCScanQueue | `ShutdownReturns` | cancel and Broadcast come without the mutex (queue.go:720), between the worker's test (388) and its Wait (397): the worker sleeps and Shutdown waits for ever |
| MCImageScanClaim.cfg | MCImageScan | `ClaimMatchesReport` | the timestamp is written after the report in a statement of its own (scanning.go:511): after a crash an old report stands beside a new one's claim |
| MCImageScanStamp.cfg | MCImageScan | `ClaimMatchesDatabase` | the database's timestamp is read after the scan (grype.go:466), when the job may have replaced it: a report made with the old database claims the new one |
| MCNodeScanGhost.cfg | MCNodeScan | `RowsAreNodes` | a node deleted while the server is down keeps its row (node_watcher.go:142) |
| MCAgentUpdateOverlap.cfg | MCAgentUpdate | `WillBeVerified` | an install while another waits for its health check shares its files (main.go:551): an unverified binary without marker |
| MCDatabaseOpenUnclean.cfg | MCDatabaseOpen | `UncleanStartIsChecked` | the log's size is read after the checkpoint has emptied it (db.go:368): the integrity check never runs after an ordinary crash |
| MCDatabaseOpenRekey.cfg | MCDatabaseOpen | `GoneRowsRemainQueryable` | V42 copies the host matches with a plain INSERT into a table keyed by package name and version (migrations.go:2660): two matches of one CVE whose packages are gone, or whose packages differ only in type, collide, and no start succeeds any more, although the comments (2632, 2668) say that such rows survive |
| MCGrypeReinit.cfg | MCGrypeDatabase | `ClosedOnce` | a database made ready again closes the wait channel again (database_handlers.go:42), which panics |
| MCMetricsOverlap.cfg | MCMetrics | `ActiveInBoth` | two tails that overlap write memory and table in different orders (staleness_recorder.go:52): a live series is stale in one of them |

**Bounds.** Every bound is a constant marked "model bound" or "bound". Scans of different images share only
the queue and the worker, so one image reaches every interleaving of *its* writers: manager, worker, rescan
job, cleanup and crash; two changes of the cluster let its row disappear and return, two grype databases let
a row become stale. `ContainerStore` has a second container and image because sharing is what the orphan
cleanup could get wrong. One failure in `ImageScan` and `NodeScan` may hit any write or call; two failures
were tried for `NodeScan` with two changes and pass as well. In `ScanQueue` depth 1 with two producers fills
both lanes, evicts and blocks. In `AgentUpdate` four failures cover a failing install, its restart, a failing
rollback and its restart. A bounded queue (`MaxQueue`) in `ImageScan` delays the enqueueing action; it never
drops a job, as the production queue is unbounded.

`DatabaseOpen` has no bound: its states are finite without one, so the run covers every release a database may come
from and any number of failures. `ClusterUpdate` reads three revisions where the code asks Helm's library for ten:
three failures already leave none of those read deployed. Whether the library honours the limit is its own affair; the
run passes as well with the whole history read (301 000 states), and the theorems hold for any limit.
`AgentContainers` has one name, since containers share nothing but the table; two names with two images, three changes
and one failure were tried too (932 000 states) and pass.

One series in `Metrics`: series share only the batches, and with one sender a batch is lost or late as a whole. A
finding that is there at the start is found, goes and comes back within two changes; a death of the process counts as
a change. `MaxFails` counts a tail so slow that the next one begins beside it like a failure, so the run has the one
or the other; when it is used up, a cycle ends only after the last tail. Without that count, two tails at any time
pass as well, with two changes and no failure (2 074 000 states, 4 minutes), and with one change and one failure (2
942 000 states). One tail passes with three changes, a failure and a death (1 102 000).

**Deadlock** is checked where something can always go on (`database_open`, `cluster_update`, `metrics`,
`agent_containers`). The other systems rest when the bounded environment has nothing more to offer.

**Fairness.** Weak fairness of the worker, of a started call and of Shutdown: goroutines that can run do, and
every scan has a timeout. Strong fairness of adding, removing and reconciling containers and nodes: the
informers repeat all objects every five minutes, so an action that is disabled for a moment by another holder
of the mutex is offered again. Fairness of the rescan job, the cleanup job and the sweep: timers. `Age` in
`NodeScan`: time passes. `Start` in `AgentUpdate`: systemd's `Restart=always`. `Run` in `ClusterUpdate`: the CronJob
keeps its schedule and every call has a timeout. In `GrypeDatabase` strong fairness of each run, since a Go mutex
is given to a waiter in the end, and of a load that succeeds, since the feed answers again some time. In `Metrics` weak
fairness of goroutines, of cycles, of the oldest tail and of the tick. In `AgentContainers` strong fairness of the watcher and of
each list: `Manager.mu` is a Go mutex and Docker answers again. Nothing is assumed of the cluster, of callers of `Enqueue`
or `Shutdown`, of new releases or of failures; they are bounded, so that "eventually" means after the last of them.

What liveness depends on: `EventuallyDrained` excludes queues that block producers, `EventuallyScanned`
excludes failed writes (see `reap_wedge`) and the cleanup job (it may keep removing a running container until
the next resync), `UpdatesSettle` excludes versions that die before their health check (they are restarted for
ever: the rollback decision is taken by the new binary) and health checks the file system ends with an error.
If the rescan-database job is switched off in the configuration, nothing ever makes the grype database ready
and no scan completes; the models have the job on, as by default.

## 4. What is proved

All theorems hold for every value of the constants that satisfies the stated assumptions (`ThreadAssumption`:
goroutines are distinct; `NoneAssumption`: the "none" values are none of the others; `FiniteAssumption` and
`CacheAssumption`: finitely many digests, nodes and series; `ReleasesAssumption`: a release is one of those there have
been; types of the bounds). The bounds are in the theorems, but as any numbers.

**ScanQueueProofs** (`InductiveInvariant`). The safety properties are not inductive: that the worker does not
sleep over a job depends on who may be in the notify list. `IndInv` adds mutual exclusion as a relation of `pc`
and `lock` (`LockOK`), that the notify list holds sleeping goroutines, each once (`NotifyOK`), what is true where
the worker stands between test and Wait or has returned (`WorkerOK`), and that only the worker waits when
producers cannot block (`AloneOK`). `SignalEffect` and `WaitEffect` say what the two operations on the condition
variable do. From it follow `TypeCorrect`, `LanesStayBounded`, `HostJobsStayDistinct`, `JobsAreConserved`,
`NoLostWakeup` and the refinement `Spec => TwoLanes`, which needs `WorkerOK` to map an append after Shutdown to
an open queue.

**ContainerStoreProofs**. `StoreInv` adds to the type and to `ContainersHaveImages` that no id exceeds the last
one given (`IdsBounded`). The crux is that each transaction creates images before it refers to them and that the
orphan cleanup decides inside its transaction.
The type invariant also says that the container whose `AddContainer` holds the lock stays tracked, so that the check
after the write finds its image: every other writer of the map waits for the lock.

The module goes on with the two that extend the store, since both rest on its lemmas about adding, removing and
replacing rows.

*The agent.* `AgentInv` is `StoreInv` and what the watcher and the refresh job add to it (`WatcherInv`): nothing is left
of a list that is over, and events are queued only while the stream is open. The store's lemmas are stated for any
container and image, so that the agent's events use them as they are. What is new is `SetContainers`, which replaces the
whole table (`TableReplaced`). It gives `AgentTypeCorrect` and `AgentContainersHaveImages`.

*The image scan.* `ScanInv` adds to `StoreInv` what the worker knows at each of its steps: that it is on one
digest and holds an id that is the row's own or of a row that is gone (`OnJob`); that the database version it
carries is not newer than what it has claimed, or will claim, for the row (`ReportFresh`); that nothing is newer
than the disk (`NeverAhead`); that absent rows hold the defaults (`AbsentRows`). One lemma per action, one lemma
(`ResultWrite`) for the writes by id. It gives `ReportsNeverNewerThanClaimed`, `TransientAlwaysOwned`,
`ResultsAlwaysKept` and, through the composition, `ImagesStayWithScans`.

**NodeScanProofs** (`IInv`). The worker writes by an id it has read before, and the node may leave, return or be reaped
in between. What holds of the row it then meets, the one it knows or another, is `WorkerOK`: the version it carries is
not older than what the row claims, and a row it does not know is in no transient status. That needs ids that only grow
(`IdsBounded`), absent rows that are empty (`AbsentRows`) and claims not newer than the disk (`Backed`). `Beside` shows
it kept by every step that is not the worker's, from two ways a row may change (`Kept`, `Replaced`); `Turn` says what is
left to show of a step of the worker's. `ShortQueue` bounds the queue by the number of nodes (pigeonhole). It gives
`NodeTypeCorrect`, `CompletedAlwaysBacked` and `NodeTransientAlwaysOwned`, for finitely many nodes
(`FiniteAssumption`), any number of changes, failures and crashes.

**AgentUpdateProofs**. `UpdateInv` says what is on disk at each step of an install (`InstallInv`) and of a health
check (`CheckInv`), and that the running version is the installed one until the end of either (`RunningInv`).
All theorems assume `~Overlap`; `UpdatesAreSafe` is the refinement of `SafeUpdate`.

**GrypeDatabaseProofs** (`IInv`). That a job has one timer is not inductive: a run may arm the next because no other
run of the job is timed and no timer of it is armed (`SingleTimer`), `Start` may arm them because nothing was under way
before (`Unstarted`), and a goroutine that rests leaves no claim (`FreeRests`). The lock of the updater has one holder
because only a goroutine on the rescan job has a step of it (`OnJob`), which the lemma `Step` carries through its actions.

**ClusterUpdateProofs** (`IInv`). That a run compares with what runs needs that a deployed revision is unique and names
the chart that runs (`DeployedRuns`), that only the last revision is under way (`PendingLast`), and what the last revision is
at each step between an upgrade and its end (`StepOK`). `MaxOf` and `Latest` say what `FindLatestVersion` finds, by
well-founded induction on the naturals; `MarkIs` and `AppendIs` what a step does to the history. The theorems hold for
any number of charts, any policies, any number of failures and any length of the history that is read.

**MetricsProofs** (`IInv`). A tail deletes by time alone, so that a series is never forgotten untold has its reason two
ticks back. `RunOut`: what has run out has been told. It holds because an ended entry spends a whole tick at 1, and that
tick ends only after a cycle that began in it has gone through clean (`LastTick`); such a cycle found the entry among the
stale ones and has it in hand from stage to stage until it is sent (`Going`). A step that takes the mark away again lifts
the entry to 2 or more (`Marked`), a crash rewrites the memory from the table, and an error of a send makes its cycle
unclean (`FailedOnce`). It gives `MetricsTypeCorrect` and `EndsAreTold`, for any finitely many series and tails.
The proof rests on the model's timing: in every tick one cycle gets through, and no cycle with its tail meets the ends of
two ticks.

**DatabaseOpenProofs**, over the invariants of `DatabaseInvariants`. The run of TLC is complete here, since its states
are finite; the proofs add the reasons, migration by migration, for any set of `Releases` the file may come from. Four
invariants, of which the last two rest on the first two.

*Every statement leaves a database* (`OpenInv`). One lemma per kind of statement says that it leaves a database a
database (`IsDatabase`: indexes lie on columns that exist, rows in tables that exist, ranks belong to statuses), for
every database and not only those the migrations meet; `StatementKeeps` is all of them. `MigrationsSound` says that the
fifty-one migrations consist of such statements. `Progress` relates the statement a migration is at, what is on disk,
what only the transaction sees, and what is recorded. It gives `SchemaIsSchema` and `RecordsAreTrue`: a version is
recorded only when all of its migration is on disk, and none is skipped. `RanksInv` follows the lookup table of
statuses from V1, whose last statement fills it, to V51, which ranks it anew one statement at a time: no statement
takes a status away (`RanksGrow`), and a statement of V51 that runs again leaves what later ones need (`LastRanked`).
So `StatusesAlwaysListed`.

*The tables are what the recorded version says* (`LayoutInv`). `SchemaServes` speaks only of a database that the
current release serves, and says nothing of one in mid-migration, so it is far from inductive. `Columns(t, n)` and `Exists(t, n)` write
down the schema of every version once, table by table. `HereN(db, k)` says where the first k statements of migration N
have brought the tables it changes (`k = 0`: as version N - 1 left them, or as an earlier run of N that was cut short
may have left them), and `Around` that all others are as version N - 1 left them. Of each migration that changes tables
there is a lemma that one statement takes `HereN(db, k)` to `HereN(db, k + 1)`, unless it is refused, and that the last
leaves what the version wants; the seventeen others (`Plain`) consist of statements that change no columns. A
transaction that is rolled back leaves what was on disk, one that is cut short statement by statement leaves a case of
`HereN(db, 0)`. It gives `SchemaIsAsRecorded`: the tables and columns on disk are exactly those of the recorded version
unless a migration was cut short; and with `RanksInv`, `SchemaAlwaysServes`.

*Rows* (`RowsInv`). The rows of a table are followed through the names it has had (`Homes`): what is owed is held under
one of them. A rebuild creates, copies, drops and renames: that the drop loses nothing needs `Copied`, that the new
table has had the rows of the old one since the copy, and that what is dropped, renamed or made is the table meant
needs `LayoutInv`. The states of the exporters move from `metric_staleness` into `app_state` (V26), and the table that
later gets the old name has nothing to do with them. It gives `RowsAlwaysKept`.

*Refusals* (`TearInv`). A statement is refused when a column is there already, a table or index has its name already,
or what it names is missing. For the tables `LayoutInv` answers that, provided a migration that is running for the
first time starts from exactly what its predecessor left; for `CREATE INDEX` without `IF NOT EXISTS` one has to know
every index that could have the name: `Lies` says on which tables an index may lie (`On`), over the renames between, so
that the name is free when its table has just been made or its old one just dropped (`Ready`). `Due` collects what
holds when a statement is about to be executed; one lemma per migration (`ClearN`) shows that it is not refused then. What
remains are the migrations of `RunOnce`, run again after they were torn, and V42's copy, which is refused when the matches
collide: `TearInv` says too that the twins its copy meets are those on disk. It gives `WedgesExplained`:
no statement of any other migration is ever refused, cut short or not, and V42's only for that.

`HostJobsDistinct` is proved (`HostJobsStayDistinct`) and not among the properties of a run; `TwoLanes`, which is, implies it.
`RecordsAreTrue` is not either: its definition `VersionsAreEarned` stands beside the proof.

Only model-checked: liveness (all modules), which is out of the prover's reach, and what the violated run shows. Every
invariant that a run checks is also proved.

## 5. What is not modelled

- Content: SBOMs, matches, packages, severities. The parsed rows are one value per scan. A failing parse is
  only logged by the code and changes none of the modelled columns.
- The agent's scans: `ImageScan` is the server's; the agent's worker is the same code over other retrievers.
- Agent update: pause, resume, the debug-only TriggerCheck, download retries, checksum and signature (one step
  that succeeds or fails), the health check's fixed port, the loss of /tmp (the marker is kept, as with the
  modern systemd unit). `rollbackEnabled` is read nowhere in the code, whatever the sample configuration says.
- `QueueFullBlock`'s shared condition variable can lose a wakeup between producers; nothing in production uses
  it. `WorkerWokenForJob` states it; no run is spent on it.
- `peak_depth`: `Enqueue` reports the image lane only and depth 0 is ignored; nothing but the metrics reads it.
- Image jobs are not deduplicated: while the grype database is missing every resync enqueues every image again.
- Two collections of metrics at one time, labels, values and encodings; `RecoverFromCorruption`, which nothing calls;
  the job history, which nothing writes (`jobs.go` has no callers outside its tests) and only the API reads.
- The ConfigMap of the update controller and the registry's protocol: the model starts from a parsed configuration.
- The components marked `not_modelled` in `PROJECT.json`, each with its reason there.

Smaller hazards seen while reading: a pod-scanner that becomes ready between two lookups counts as not scheduled
(client.go:46); the host SBOM is streamed after its 200 status (host_sbom.go:159); a pod that ends with an empty list
of statuses removes nothing (watcher.go:246); the deployment id is written in place (uuid.go:56).

## 6. Plan

Written so far, in this order: ScanQueue with TwoLaneQueue and its proofs; ContainerStore, then ImageScan over it,
and their proofs; NodeScan and its proofs; AgentUpdate with SafeUpdate and its proofs; Schema, MigrationSteps and DatabaseOpen;
ClusterUpdate and its proofs; Scheduler and GrypeDatabase and their proofs; VulnCache and Metrics; AgentContainers; the
proofs of AgentContainers (in ContainerStoreProofs), Metrics and DatabaseOpen, of the last with `DatabaseInvariants`.

Next, by importance:

| work | composes | says |
|---|---|---|
| PodScannerClient | its outcomes are those ImageScan and NodeScan allow | a ready scanner is used; nested timeouts |
| mount and path exclusions of the host SBOM | - | the operator against a reference definition over bounded inputs |
