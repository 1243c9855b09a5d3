---------------------------- MODULE DatabaseOpen ----------------------------
(***************************************************************************)
(* Opening the database (New in scanner-core/database/db.go): the probes   *)
(* for corruption, the checkpoint of the write-ahead log, and the loop of  *)
(* ensureSchemaVersion that applies the missing migrations and records     *)
(* each in a statement of its own.  The process may die between any two    *)
(* statements, a statement may fail, and the file may come back damaged.   *)
(***************************************************************************)
EXTENDS MigrationSteps, ScanStatus

CONSTANTS
    Releases    \* how many migrations the first release installed has

ASSUME ReleasesAssumption == Releases \subseteq 1..Latest

VARIABLES
    release,    \* the migrations the installed binary knows
    phase,      \* where New and the process are
    disk,       \* the committed database
    work,       \* the database as the migrating connection sees it
    applied,    \* MAX(version) of schema_migrations
    cur,        \* the migration being applied
    at,         \* the statements of it executed so far
    torn,       \* a migration that is on disk, wholly or in part, and not recorded
    wal,        \* the write-ahead log holds frames
    damage,     \* what is wrong with the files
    boot,       \* how this start found the log, and whether quick_check ran
    why,        \* why the last start was refused
    owed        \* the tables, under today's names, whose rows must survive

vars == <<release, phase, disk, work, applied, cur, at, torn, wal, damage, boot, why,
          owed>>

Damages == {"none", "page", "shm", "header"}
Phases == {"down", "opening", "checkpoint", "migrating", "stepping", "committing",
           "recording", "up", "refused"}

Migration == migrations[cur]

Init ==
    /\ release \in Releases
    /\ phase = "down"
    /\ disk = EmptyDatabase /\ work = EmptyDatabase
    /\ applied = 0 /\ cur = 0 /\ at = 0 /\ torn = 0
    /\ wal = FALSE /\ damage = "none"
    /\ boot = [unclean |-> FALSE, checked |-> FALSE]
    /\ why = "none" /\ owed = {}

(***************************************************************************)
(* deleteDatabase: the files go, and what follows works on a new file.     *)
(***************************************************************************)
DeleteDatabase ==
    /\ disk' = EmptyDatabase /\ work' = EmptyDatabase
    /\ applied' = 0 /\ cur' = 0 /\ at' = 0 /\ torn' = 0
    /\ wal' = FALSE /\ damage' = "none" /\ owed' = {}
    /\ boot' = [boot EXCEPT !.unclean = FALSE]

Keep == UNCHANGED <<disk, work, applied, cur, at, torn, owed>>

\* The error is not one of corruption: New fails and main exits.
Refuse(reason) ==
    /\ phase' = "refused" /\ why' = reason
    /\ work' = disk /\ cur' = 0 /\ at' = 0
    /\ UNCHANGED <<disk, applied, torn, wal, damage, boot, owed>>

(***************************************************************************)
(* The actions of New.                                                     *)
(***************************************************************************)
Start ==
    /\ phase \in {"down", "refused"}
    /\ phase' = "opening" /\ why' = "none"
    /\ boot' = [unclean |-> wal, checked |-> FALSE]
    /\ Keep /\ UNCHANGED <<release, wal, damage>>

\* Ping, and PRAGMA journal_mode as the probe for corruption.  A stale -shm
\* file is an I/O error; after Ping New goes on, after the pragma it starts
\* over.  A header that is no database is an error isCorruptionError misses.
Probe ==
    /\ phase = "opening"
    /\ \/ /\ damage \in {"none", "page"}
          /\ phase' = "checkpoint"
          /\ Keep /\ UNCHANGED <<wal, damage, boot, why>>
       \/ /\ damage = "shm"
          /\ DeleteDatabase
          /\ phase' \in {"opening", "checkpoint"}
          /\ UNCHANGED why
       \/ /\ damage = "header"
          /\ Refuse("header")
    /\ UNCHANGED release

\* wal_checkpoint(TRUNCATE) that succeeds leaves an empty log and reports it
\* so: walLog is 0 however many frames there were.
CheckpointTruncates ==
    /\ phase = "checkpoint"
    /\ wal' = FALSE /\ phase' = "migrating"
    /\ Keep /\ UNCHANGED <<release, damage, boot, why>>

\* A reader still has the file open: the log stays, its frames are counted,
\* and quick_check reads every page.
CheckpointBusy ==
    /\ phase = "checkpoint" /\ wal
    /\ IF damage = "page"
       THEN /\ DeleteDatabase /\ phase' = "opening"
       ELSE /\ phase' = "migrating" /\ boot' = [boot EXCEPT !.checked = TRUE]
            /\ Keep /\ UNCHANGED <<wal, damage>>
    /\ UNCHANGED <<release, why>>

\* The checkpoint itself fails: logged, and walLog keeps its zero.
CheckpointFails ==
    /\ phase = "checkpoint"
    /\ phase' = "migrating"
    /\ Keep /\ UNCHANGED <<release, wal, damage, boot, why>>

(***************************************************************************)
(* ensureSchemaVersion.                                                    *)
(***************************************************************************)
\* Mutant: one migration too many.
MutNextMigration ==
    /\ phase = "migrating"
    /\ IF applied <= release
       THEN phase' = "stepping" /\ cur' = applied + 1
       ELSE phase' = "up" /\ cur' = 0
    /\ at' = 0
    /\ UNCHANGED <<release, disk, work, applied, torn, wal, damage, boot, why, owed>>

NextMigration ==
    /\ phase = "migrating"
    /\ IF applied < release
       THEN phase' = "stepping" /\ cur' = applied + 1
       ELSE phase' = "up" /\ cur' = 0
    /\ at' = 0
    /\ UNCHANGED <<release, disk, work, applied, torn, wal, damage, boot, why, owed>>

PhaseAfter(n) ==
    IF n = Len(Migration.tx) /\ n > 0 THEN "committing"
    ELSE IF n = Len(Statements(Migration)) THEN "recording" ELSE "stepping"

Statement ==
    /\ phase = "stepping"
    /\ LET s == Statements(Migration)[at + 1]
           inTx == at < Len(Migration.tx)
       IN IF Refused(work, s)
          THEN Refuse("statement")
          ELSE /\ work' = After(work, s)
               /\ at' = at + 1
               /\ phase' = PhaseAfter(at + 1)
               /\ IF inTx THEN UNCHANGED <<disk, torn, wal>>
                  ELSE disk' = work' /\ torn' = cur /\ wal' = TRUE
               /\ UNCHANGED <<applied, cur, damage, boot, why, owed>>
    /\ UNCHANGED release

Commit ==
    /\ phase = "committing"
    /\ disk' = work /\ torn' = cur /\ wal' = TRUE
    /\ phase' = IF at = Len(Statements(Migration)) THEN "recording" ELSE "stepping"
    /\ UNCHANGED <<release, work, applied, cur, at, damage, boot, why, owed>>

Record ==
    /\ phase = "recording"
    /\ applied' = cur /\ torn' = 0 /\ wal' = TRUE
    /\ phase' = "migrating"
    /\ UNCHANGED <<release, disk, work, cur, at, damage, boot, why, owed>>

\* Any of the three may fail: out of space or locked, and New returns the
\* error; an I/O error or a damaged page, and New deletes and starts over.
AccessFails ==
    /\ phase \in {"stepping", "committing", "recording"}
    /\ \/ Refuse("fault")
       \/ DeleteDatabase /\ phase' = "opening" /\ UNCHANGED why
    /\ UNCHANGED release

(***************************************************************************)
(* Today's name of a table, and the tables whose rows a later release      *)
(* must find again.  Three tables are dropped on purpose; what V15 to V18  *)
(* clear comes back only with the next scan.                               *)
(***************************************************************************)
Renamed == [container_images |-> "images", container_instances |-> "containers",
            packages |-> "image_packages", vulnerabilities |-> "image_vulnerabilities",
            package_details |-> "image_package_details",
            vulnerability_details |-> "image_vulnerability_details"]

Today(t) == IF t \in DOMAIN Renamed THEN Renamed[t]
            ELSE IF t = "metric_staleness" /\ release < 26 THEN "app_state" ELSE t

Owed(tables) ==
    {Today(t) : t \in tables \ {"image_summary"}}
        \ ({"metric_staleness", "scan_status"} \cup
           IF release < 18 THEN {"image_package_details", "image_vulnerability_details"}
           ELSE {})

(***************************************************************************)
(* The process around New.                                                 *)
(***************************************************************************)
\* The tables in which a release may store two rows that a later key takes for
\* one: as long as a host's match names its package by the row of it, two matches
\* of a CVE may be of packages that differ in type only, or whose rows are gone.
Twinned == IF release \in 30 .. 41 THEN {"node_vulnerabilities"} ELSE {}

Serve ==
    /\ phase = "up" /\ work.rows # DOMAIN work.tables
    /\ \E twins \in SUBSET (Twinned \cap DOMAIN work.tables) :
          work' = [work EXCEPT !.rows = DOMAIN work.tables, !.twins = twins]
    /\ disk' = work' /\ wal' = TRUE
    /\ owed' = Owed(DOMAIN work.tables)
    /\ UNCHANGED <<release, phase, applied, cur, at, torn, damage, boot, why>>

\* Close merges the log and empties it.
Close ==
    /\ phase = "up" /\ phase' = "down" /\ wal' = FALSE
    /\ Keep /\ UNCHANGED <<release, damage, boot, why>>

\* A write meets the damage: exitOnCorruption ends the process at once.
ExitOnCorruption ==
    /\ phase = "up" /\ damage = "page"
    /\ phase' = "down"
    /\ Keep /\ UNCHANGED <<release, wal, damage, boot, why>>

Upgrade ==
    /\ phase \in {"down", "refused"} /\ release < Latest
    /\ release' = Latest
    /\ Keep /\ UNCHANGED <<phase, wal, damage, boot, why>>

Crash ==
    /\ phase \notin {"down", "refused"}
    /\ phase' = "down" /\ work' = disk /\ cur' = 0 /\ at' = 0
    /\ damage' \in IF damage = "none" THEN Damages ELSE {damage}
    /\ UNCHANGED <<release, disk, applied, torn, wal, boot, why, owed>>

Next ==
    \/ Start \/ Probe
    \/ CheckpointTruncates \/ CheckpointBusy \/ CheckpointFails
    \/ NextMigration \/ Statement \/ Commit \/ Record \/ AccessFails
    \/ Serve \/ Close \/ ExitOnCorruption \/ Upgrade \/ Crash

Spec == Init /\ [][Next]_vars

(***************************************************************************)
(* The tables and columns today's code reads and writes, beside those of   *)
(* parseSBOMData and parseVulnerabilityData.                               *)
(***************************************************************************)
ImageTable ==
    [images |-> {"id", "digest", "status", "status_error", "sbom", "sbom_compressed",
        "vulnerabilities", "vulnerabilities_compressed", "sbom_scanned_at",
        "vulns_scanned_at", "grype_db_built"} \cup Stamps]

ContainerTable == [containers |-> {"namespace", "pod", "name", "reference", "image_id",
                                   "node_name", "container_runtime"}]

NodeTable ==
    [nodes |-> {"id", "name", "hostname", "os_release", "kernel_version", "architecture",
                "container_runtime", "kubelet_version", "status"}]

HostSBOMTables ==
    [node_packages |-> {"id", "node_id", "name", "version", "type", "language", "purl",
                        "number_of_instances"},
     node_package_details |-> {"node_package_id", "details"},
     nodes |-> {"id", "sbom_compressed"}]

HostReportTables ==
    [node_vulnerabilities |-> {"id", "node_id", "cve_id", "package_name", "package_version",
        "package_type", "severity", "risk", "epss_score", "epss_percentile", "fix_status",
        "fix_version", "known_exploited", "count"},
     node_vulnerability_details |-> {"node_vulnerability_id", "details"},
     nodes |-> {"id", "status", "vulns_scanned_at", "grype_db_built",
                "vulnerabilities_compressed"}]

JobTable == [job_executions |-> {"id", "job_name", "started_at", "completed_at", "status",
                                 "error_message", "duration_ms"}]

StateTable == [app_state |-> {"key", "data", "updated_at"}]

StalenessTable == [metric_staleness |-> {"key_hash", "metric_key", "family_name",
                                         "labels_json", "expires_at_unix"}]

Queried == {SBOMTables, ReportTables, ImageTable, ContainerTable, NodeTable, HostSBOMTables,
            HostReportTables, JobTable, StateTable, StalenessTable}

(***************************************************************************)
(* Properties.                                                             *)
(***************************************************************************)

\* The schema is a schema: every index lies on columns of a table that exists,
\* only tables hold rows, and what is recorded is never ahead of the release.
TypeOK ==
    /\ release \in 1..Latest /\ phase \in Phases /\ damage \in Damages
    /\ applied \in 0..release /\ cur \in 0..release /\ torn \in {0, applied + 1}
    /\ at \in Nat /\ wal \in BOOLEAN
    /\ boot \in [unclean : BOOLEAN, checked : BOOLEAN]
    /\ why \in {"none", "statement", "fault", "header"}
    /\ \A db \in {disk, work} :
        /\ db.rows \subseteq DOMAIN db.tables /\ db.twins \subseteq db.rows
        /\ DOMAIN db.ranks \subseteq Status
        /\ \A i \in DOMAIN db.indexes :
              HasColumns(db, db.indexes[i].table, db.indexes[i].columns)

\* Every table and column the queries of today's code name exists.
TablesServe == \A q \in Queried : \A t \in DOMAIN q : HasColumns(work, t, q[t])

\* Every scan status has its row in the lookup table, a scan under way before a
\* scan that waits (without a row an image is not listed: the listing joins
\* scan_status).
StatusesServe ==
    /\ Status = DOMAIN work.ranks
    /\ \A s \in Status : Transient(s) => work.ranks[s] < work.ranks["pending"]

\* Whatever release a database comes from, and however often its migration was
\* interrupted, once the current release serves, the schema and the lookup table
\* are as its queries need them.
SchemaServes == phase = "up" /\ release = Latest => TablesServe /\ StatusesServe

\* The migrations whose second run fails: they add a column, create a table or
\* rename one without asking whether that was done.
RunOnce == {1, 2, 3, 4, 6, 7, 8, 9, 13, 21, 22, 23, 24, 26, 27, 29, 30, 32, 34, 35, 37, 42,
            43, 44, 47}

\* Two matches of a CVE on a host that V42 would give the same key.
MatchesCollide == "node_vulnerabilities" \in disk.twins

\* The next migration is one of these, run again because the process died between
\* its statements or before its version was recorded (migrations.go:310), or it is
\* V42, run for the first time, and its new key finds two matches alike
\* (migrations.go:2660).
MayWedge ==
    \/ torn \in RunOnce
    \/ torn = 0 /\ applied = 41 /\ MatchesCollide

\* These are the only reasons for which a statement ends a start: whatever release
\* the database comes from, no other migration of the 51 refuses what those before
\* it left, run for the first time or again.
WedgeExplained == why = "statement" => MayWedge

\* What migrations.go:2631 says of V42: rows whose package is gone get empty
\* strings and remain queryable.  So V42, when it was not torn, is not refused.
GoneRowsRemainQueryable == why = "statement" /\ applied = 41 => torn # 0

\* Rows that an older release had stored are still there when the current one
\* serves, unless the files were damaged and deleted: no rebuild of a table
\* and no rename, interrupted or not, leaves one behind.
RowsKept == phase = "up" /\ release = Latest => owed \subseteq work.rows

\* A start that found an unmerged log, the sign of an unclean end, has run the
\* integrity check by the time it serves (db.go:363).
UncleanStartIsChecked == phase = "up" /\ boot.unclean => boot.checked
=============================================================================
