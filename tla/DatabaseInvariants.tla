-------------------------- MODULE DatabaseInvariants --------------------------
(***************************************************************************)
(* The inductive invariants of opening and migrating the database, and the *)
(* vocabulary they and their proofs are stated in: the columns every table *)
(* has at every version, where the statements of each migration have       *)
(* brought the tables it changes, which rows must survive and where they   *)
(* are held meanwhile, and which statements may be refused.                *)
(***************************************************************************)
EXTENDS DatabaseOpen

-----------------------------------------------------------------------------
(* Databases, statements and migrations that are what they should be *)

\* A database whose indexes lie on columns that exist and whose rows are in
\* tables that exist.
IsDatabase(db) ==
    /\ DOMAIN db = {"tables", "indexes", "rows", "twins", "ranks"}
    /\ db.rows \subseteq DOMAIN db.tables /\ db.twins \subseteq db.rows
    /\ DOMAIN db.ranks \subseteq Status
    /\ \A i \in DOMAIN db.indexes :
        /\ DOMAIN db.indexes[i] = {"table", "columns"}
        /\ HasColumns(db, db.indexes[i].table, db.indexes[i].columns)

Operations == {"create", "drop", "rename", "add", "index", "unindex", "use", "clear",
               "copy", "seed", "rank", "reparse"}

\* What a migration has to see to: it names no status that is none, and where
\* it stores documents again it writes only tables it has made sure are there.
Sound(s) ==
    /\ s.op \in Operations
    /\ s.op = "seed" => DOMAIN s.ranks \subseteq Status
    /\ s.op = "reparse" => s.fills \subseteq DOMAIN s.needs

\* A list of sound statements.
IsSound(list) ==
    /\ Len(list) \in Nat
    /\ list = [i \in 1 .. Len(list) |-> list[i]]
    /\ \A i \in 1 .. Len(list) : Sound(list[i])

IsList(s) == Len(s) \in Nat /\ s = [i \in 1 .. Len(s) |-> s[i]]

\* A migration has a statement, and all its statements are sound.
SoundMigration(m) ==
    /\ IsSound(m.tx) /\ IsSound(m.auto)
    /\ Len(m.tx) + Len(m.auto) > 0

\* The statements of migration n, in the order they are executed.
Steps(n) == Statements(migrations[n])

-----------------------------------------------------------------------------
(* How far a migration is *)

\* How far the migration under way is, and that what the connection sees is on
\* disk except inside a transaction.
Progress ==
    /\ phase \in {"stepping", "committing", "recording"} => cur = applied + 1
    /\ phase = "stepping" => at < Len(Statements(Migration))
    /\ phase = "committing" => at = Len(Migration.tx)
    /\ phase = "recording" => at = Len(Statements(Migration)) /\ torn = cur
    /\ work # disk => \/ phase = "stepping" /\ at < Len(Migration.tx)
                      \/ phase = "committing"

Types ==
    /\ release \in 1 .. Latest /\ phase \in Phases /\ damage \in Damages
    /\ applied \in 0 .. release /\ cur \in 0 .. release /\ torn \in {0, applied + 1}
    /\ at \in Nat /\ wal \in BOOLEAN
    /\ boot \in [unclean : BOOLEAN, checked : BOOLEAN]
    /\ why \in {"none", "statement", "fault", "header"}

OpenInv == Types /\ IsDatabase(disk) /\ IsDatabase(work) /\ Progress

-----------------------------------------------------------------------------
(* The lookup table of scan statuses *)

\* The statuses of the first version are there.
Listed(db) == DOMAIN FirstRanks \subseteq DOMAIN db.ranks

\* What the first k statements of V51 have done.
Ranked(db, k) ==
    /\ k >= 1 => "sbom_failed" \in DOMAIN db.ranks
    /\ k >= 3 => db.ranks["scanning_vulnerabilities"] = 2
    /\ k >= 4 => db.ranks["generating_sbom"] = 3
    /\ k >= 5 => db.ranks["pending"] = 4

RanksInv ==
    /\ phase = "up" => applied = release
    /\ applied >= 1 => Listed(disk) /\ Listed(work)
    /\ cur = 1 /\ at = 8 => Listed(work)
    /\ cur = 51 => Ranked(work, at)
    /\ applied = 51 => Ranked(disk, 8) /\ Ranked(work, 8)

-----------------------------------------------------------------------------
(* The schema each version stands for *)

\* The columns of the images, by the version that gave them to the table.
Images1 == {"id", "repository", "tag", "digest", "sbom_requested", "sbom_received"} \cup Stamps
Images2 == {"id", "digest", "sbom_requested", "sbom_received"} \cup Stamps
Images3 == Images2 \cup {"sbom", "scan_status", "scan_error", "scanned_at"}
Images4 == Images3 \cup {"vulnerabilities", "vulnerability_status", "vulnerability_error",
                         "vulnerabilities_scanned_at"}
Images5 == {"id", "digest", "sbom", "scan_status", "scan_error", "scanned_at",
            "vulnerabilities", "vulnerability_status", "vulnerability_error",
            "vulnerabilities_scanned_at"} \cup Stamps
Images8 == {"id", "digest", "status", "status_error", "sbom", "vulnerabilities",
            "sbom_scanned_at", "vulns_scanned_at"} \cup Stamps
Images9 == Images8 \cup {"os_name", "os_version"}
Images21 == Images9 \cup {"grype_db_built"}
Images24 == Images21 \cup {"architecture"}
Images47 == Images24 \cup {"vulnerabilities_compressed", "sbom_compressed"}

ImageColumns(n) ==
    CASE n = 1 -> Images1
      [] n = 2 -> Images2
      [] n = 3 -> Images3
      [] n = 4 -> Images4
      [] n \in 5 .. 7 -> Images5
      [] n = 8 -> Images8
      [] n \in 9 .. 20 -> Images9
      [] n \in 21 .. 23 -> Images21
      [] n \in 24 .. 46 -> Images24
      [] n > 46 -> Images47

\* Those of the containers.
Instances1 == {"id", "namespace", "pod", "container", "image_id", "created_at"}
Instances2 == {"id", "namespace", "pod", "container", "repository", "tag", "image_id",
               "created_at"}
Instances3 == Instances2 \cup {"node_name", "container_runtime"}
Instances27 == Instances3 \cup {"reference"}

InstanceColumnsAt(n) ==
    CASE n = 1 -> Instances1
      [] n = 2 -> Instances2
      [] n \in 3 .. 26 -> Instances3
      [] n = 27 -> Instances27
      [] n > 27 -> InstanceColumns("container")

\* Those of the packages and the vulnerabilities of the images.
Packages44 == PackageColumns \cup {"language", "purl"}
Scores == {"risk", "epss_score", "epss_percentile", "known_exploited"}
Vulnerabilities6 == VulnerabilityColumns \cup {"known_exploits"}
Vulnerabilities7 == Vulnerabilities6 \cup Scores
Vulnerabilities19 == VulnerabilityColumns \cup Scores

MatchColumnsAt(n) ==
    CASE n = 6 -> Vulnerabilities6
      [] n \in 7 .. 18 -> Vulnerabilities7
      [] n > 18 -> Vulnerabilities19

\* Those of the nodes and what is found on them.
Nodes30 == {"id", "name", "hostname", "os_release", "kernel_version", "architecture",
            "container_runtime", "kubelet_version", "status", "status_error",
            "sbom_scanned_at", "vulns_scanned_at", "grype_db_built"} \cup Stamps
Nodes35 == Nodes30 \cup {"sbom", "vulnerabilities"}
Nodes47 == Nodes35 \cup {"vulnerabilities_compressed", "sbom_compressed"}

NodeColumns(n) ==
    CASE n \in 30 .. 34 -> Nodes30
      [] n \in 35 .. 46 -> Nodes35
      [] n > 46 -> Nodes47

NodePackages30 == {"id", "node_id", "name", "version", "type", "language", "purl", "details"}
NodePackages32 == NodePackages30 \cup {"number_of_instances"}
NodeMatches33 == NodeMatchColumns \cup {"count"}
NodeMatches42 == {"id", "node_id", "cve_id", "severity", "fix_status", "fix_version",
                  "known_exploited", "count", "created_at", "package_name",
                  "package_version", "package_type", "risk", "epss_score",
                  "epss_percentile"}

NodeMatchColumnsAt(n) ==
    CASE n \in 30 .. 32 -> NodeMatchColumns
      [] n \in 33 .. 41 -> NodeMatches33
      [] n > 41 -> NodeMatches42

\* Those of the rest.
PackageDetails == {"id", "package_id", "details", "created_at"}
VulnerabilityDetails == {"id", "vulnerability_id", "details", "created_at"}
Summary == {"image_id", "package_count", "os_name", "os_version", "updated_at"}
JobExecutions == {"id", "job_name", "started_at", "completed_at", "status",
                  "error_message", "duration_ms", "created_at"}
States == {"key", "data", "updated_at"}
Series36 == SeriesColumns \cup {"last_seen_unix"}
Series37 == SeriesColumns \cup {"expires_at_unix"}
Series48 == SeriesColumns \cup {"key_hash", "expires_at_unix"}
NodeMatchDetails == {"id", "node_vulnerability_id", "details", "created_at"}
NodePackageDetails == {"id", "node_package_id", "details", "created_at"}

SeriesColumnsAt(n) ==
    CASE n \in 23 .. 25 -> States
      [] n = 36 -> Series36
      [] n \in 37 .. 47 -> Series37
      [] n > 47 -> Series48

\* Every table there has ever been; the last six only while a table is rebuilt.
Names == {"container_images", "images", "container_instances", "containers", "scan_status",
          "packages", "image_packages", "vulnerabilities", "image_vulnerabilities",
          "image_summary", "package_details", "image_package_details",
          "vulnerability_details", "image_vulnerability_details", "job_executions",
          "metric_staleness", "app_state", "nodes", "node_packages", "node_vulnerabilities",
          "node_vulnerability_details", "node_package_details",
          "container_images_new", "container_instances_new", "packages_new",
          "vulnerabilities_new", "node_vulnerabilities_new", "metric_staleness_v37"}

\* The versions at which a table is there.
Exists(t, n) ==
    CASE t \in {"container_images", "container_instances"} -> n \in 1 .. 28
      [] t \in {"images", "containers"} -> n > 28
      [] t = "scan_status" -> n > 0
      [] t \in {"packages", "vulnerabilities"} -> n \in 6 .. 42
      [] t = "image_summary" -> n \in 6 .. 9
      [] t \in {"package_details", "vulnerability_details"} -> n \in 13 .. 42
      [] t \in {"image_packages", "image_vulnerabilities", "image_package_details",
                "image_vulnerability_details"} -> n > 42
      [] t = "job_executions" -> n > 21
      [] t = "metric_staleness" -> n \in 23 .. 25 \/ n > 35
      [] t = "app_state" -> n > 25
      [] t \in {"nodes", "node_packages", "node_vulnerabilities"} -> n > 29
      [] t \in {"node_vulnerability_details", "node_package_details"} -> n > 33
      [] OTHER -> FALSE

Columns(t, n) ==
    CASE t \in {"container_images", "images"} -> ImageColumns(n)
      [] t = "container_instances" -> InstanceColumnsAt(n)
      [] t = "containers" -> InstanceColumns("name")
      [] t = "scan_status" -> StatusColumns
      [] t = "packages" -> PackageColumns
      [] t = "image_packages" -> (IF n = 43 THEN PackageColumns ELSE Packages44)
      [] t \in {"vulnerabilities", "image_vulnerabilities"} -> MatchColumnsAt(n)
      [] t = "image_summary" -> Summary
      [] t \in {"package_details", "image_package_details"} -> PackageDetails
      [] t \in {"vulnerability_details", "image_vulnerability_details"} -> VulnerabilityDetails
      [] t = "job_executions" -> JobExecutions
      [] t = "metric_staleness" -> SeriesColumnsAt(n)
      [] t = "app_state" -> States
      [] t = "nodes" -> NodeColumns(n)
      [] t = "node_packages" -> (IF n \in 30 .. 31 THEN NodePackages30 ELSE NodePackages32)
      [] t = "node_vulnerabilities" -> NodeMatchColumnsAt(n)
      [] t = "node_vulnerability_details" -> NodeMatchDetails
      [] t = "node_package_details" -> NodePackageDetails

\* The versions that make, rebuild, rename, extend or drop a table.
Changes(t) ==
    CASE t = "container_images" -> {1, 2, 3, 4, 5, 8, 9, 21, 24, 29}
      [] t = "images" -> {29, 47}
      [] t = "container_images_new" -> {2, 5, 8}
      [] t = "container_instances" -> {1, 2, 3, 27, 28, 29}
      [] t = "containers" -> {29}
      [] t = "container_instances_new" -> {2, 28}
      [] t = "scan_status" -> {1, 11}
      [] t = "packages" -> {6, 12, 43}
      [] t = "packages_new" -> {12}
      [] t = "image_packages" -> {43, 44}
      [] t = "vulnerabilities" -> {6, 7, 19, 43}
      [] t = "vulnerabilities_new" -> {19}
      [] t = "image_vulnerabilities" -> {43}
      [] t = "image_summary" -> {6, 10}
      [] t \in {"package_details", "vulnerability_details"} -> {13, 43}
      [] t \in {"image_package_details", "image_vulnerability_details"} -> {43}
      [] t = "job_executions" -> {22}
      [] t = "metric_staleness" -> {23, 26, 36, 37, 48}
      [] t = "metric_staleness_v37" -> {37}
      [] t = "app_state" -> {26}
      [] t = "nodes" -> {30, 35, 47}
      [] t = "node_packages" -> {30, 32}
      [] t = "node_vulnerabilities" -> {30, 33, 42}
      [] t = "node_vulnerabilities_new" -> {33, 42}
      [] t \in {"node_vulnerability_details", "node_package_details"} -> {34}

Is(db, t, cols) == t \in DOMAIN db.tables /\ db.tables[t] = cols
No(db, t) == t \notin DOMAIN db.tables
Has(db, t, c) == t \in DOMAIN db.tables /\ c \in db.tables[t]

\* A table is as the version wants it; all of them are.
As(db, t, n) == IF Exists(t, n) THEN Is(db, t, Columns(t, n)) ELSE No(db, t)
Exact(db, n) == DOMAIN db.tables \subseteq Names /\ \A t \in Names : As(db, t, n)

(***************************************************************************)
(* Where the statements of a migration have brought the tables it changes: *)
(* HereN(db, k) is what holds once k statements of migration N have run.   *)
(* Before the first the tables are as the version before left them, or as  *)
(* an interrupted run left them, which the first statement then refuses or *)
(* the others do again.                                                    *)
(***************************************************************************)
Here1(db, k) ==
    /\ "container_images" \in DOMAIN db.tables => Is(db, "container_images", Images1)
    /\ "container_instances" \in DOMAIN db.tables => Is(db, "container_instances", Instances1)
    /\ "scan_status" \in DOMAIN db.tables => Is(db, "scan_status", StatusColumns)
    /\ k >= 1 => "container_images" \in DOMAIN db.tables
    /\ k >= 4 => "container_instances" \in DOMAIN db.tables
    /\ k >= 7 => "scan_status" \in DOMAIN db.tables

Here2(db, k) ==
    /\ k < 4 => \/ /\ Is(db, "container_images", Images1)
                   /\ Is(db, "container_instances", Instances1)
                \/ /\ Is(db, "container_images", Images2)
                   /\ Is(db, "container_instances", Instances2)
    /\ k \in 4 .. 5 => Is(db, "container_images", Images1)
    /\ k = 6 => No(db, "container_images")
    /\ k >= 7 => Is(db, "container_images", Images2)
    /\ k \in 1 .. 6 => Is(db, "container_images_new", Images2)
    /\ ~(k \in 1 .. 6) => No(db, "container_images_new")
    /\ k = 4 => Is(db, "container_instances", Instances1)
    /\ k \in 5 .. 7 => No(db, "container_instances")
    /\ k >= 8 => Is(db, "container_instances", Instances2)
    /\ k \in 3 .. 7 => Is(db, "container_instances_new", Instances2)
    /\ ~(k \in 3 .. 7) => No(db, "container_instances_new")

Here3(db, k) ==
    /\ k = 0 => \/ /\ Is(db, "container_images", Images2)
                   /\ Is(db, "container_instances", Instances2)
                \/ Has(db, "container_images", "sbom")
    /\ k = 1 => Is(db, "container_images", Images2 \cup {"sbom"})
    /\ k = 2 => Is(db, "container_images", Images2 \cup {"sbom", "scan_status"})
    /\ k = 3 => Is(db, "container_images", Images2 \cup {"sbom", "scan_status", "scan_error"})
    /\ k >= 4 => Is(db, "container_images", Images3)
    /\ k \in 1 .. 4 => Is(db, "container_instances", Instances2)
    /\ k = 5 => Is(db, "container_instances", Instances2 \cup {"node_name"})
    /\ k >= 6 => Is(db, "container_instances", Instances3)

Here4(db, k) ==
    /\ k = 0 => \/ Is(db, "container_images", Images3)
                \/ Has(db, "container_images", "vulnerabilities")
    /\ k = 1 => Is(db, "container_images", Images3 \cup {"vulnerabilities"})
    /\ k = 2 => Is(db, "container_images", Images3 \cup {"vulnerabilities",
                                                         "vulnerability_status"})
    /\ k = 3 => Is(db, "container_images", Images3 \cup {"vulnerabilities",
                       "vulnerability_status", "vulnerability_error"})
    /\ k >= 4 => Is(db, "container_images", Images4)

Here5(db, k) ==
    /\ k < 3 => \/ Is(db, "container_images", Images4)
                \/ Is(db, "container_images", Images5)
    /\ k = 3 => No(db, "container_images")
    /\ k >= 4 => Is(db, "container_images", Images5)
    /\ k \in 1 .. 3 => Is(db, "container_images_new", Images5)
    /\ ~(k \in 1 .. 3) => No(db, "container_images_new")

Here6(db, k) ==
    /\ k = 0 => \/ /\ No(db, "packages") /\ No(db, "vulnerabilities")
                   /\ No(db, "image_summary")
                \/ "packages" \in DOMAIN db.tables
    /\ k >= 1 => Is(db, "packages", PackageColumns)
    /\ k \in 1 .. 3 => No(db, "vulnerabilities")
    /\ k >= 4 => Is(db, "vulnerabilities", Vulnerabilities6)
    /\ k \in 1 .. 7 => No(db, "image_summary")
    /\ k >= 8 => Is(db, "image_summary", Summary)

Here7(db, k) ==
    /\ k = 0 => \/ Is(db, "vulnerabilities", Vulnerabilities6)
                \/ Has(db, "vulnerabilities", "risk")
    /\ k = 1 => Is(db, "vulnerabilities", Vulnerabilities6 \cup {"risk"})
    /\ k = 2 => Is(db, "vulnerabilities", Vulnerabilities6 \cup {"risk", "epss_score"})
    /\ k = 3 => Is(db, "vulnerabilities", Vulnerabilities6 \cup {"risk", "epss_score",
                                                                 "epss_percentile"})
    /\ k >= 4 => Is(db, "vulnerabilities", Vulnerabilities7)

Here8(db, k) ==
    /\ k = 0 => \/ Is(db, "container_images", Images5)
                \/ Has(db, "container_images", "status")
    /\ k = 1 => Is(db, "container_images", Images5 \cup {"status"})
    /\ k = 2 => Is(db, "container_images", Images5 \cup {"status", "status_error"})
    /\ k = 3 => Is(db, "container_images", Images5 \cup {"status", "status_error",
                                                         "sbom_scanned_at"})
    /\ k \in 4 .. 8 => Is(db, "container_images", Images5 \cup {"status", "status_error",
                              "sbom_scanned_at", "vulns_scanned_at"})
    /\ k = 9 => No(db, "container_images")
    /\ k >= 10 => Is(db, "container_images", Images8)
    /\ k \in 7 .. 9 => Is(db, "container_images_new", Images8)
    /\ ~(k \in 7 .. 9) => No(db, "container_images_new")

Here9(db, k) ==
    /\ k = 0 => \/ Is(db, "container_images", Images8)
                \/ Has(db, "container_images", "os_name")
    /\ k = 1 => Is(db, "container_images", Images8 \cup {"os_name"})
    /\ k >= 2 => Is(db, "container_images", Images9)

Here10(db, k) == k >= 1 => No(db, "image_summary")

Here11(db, k) == Is(db, "scan_status", StatusColumns)

Here12(db, k) ==
    /\ k \notin {3} => Is(db, "packages", PackageColumns)
    /\ k = 3 => No(db, "packages")
    /\ k \in 1 .. 3 => Is(db, "packages_new", PackageColumns)
    /\ ~(k \in 1 .. 3) => No(db, "packages_new")

Here13(db, k) ==
    /\ k = 0 => \/ No(db, "vulnerability_details") /\ No(db, "package_details")
                \/ "vulnerability_details" \in DOMAIN db.tables
    /\ k >= 1 => Is(db, "vulnerability_details", VulnerabilityDetails)
    /\ k \in 1 .. 2 => No(db, "package_details")
    /\ k >= 3 => Is(db, "package_details", PackageDetails)

Here19(db, k) ==
    /\ k < 3 => \/ Is(db, "vulnerabilities", Vulnerabilities7)
                \/ Is(db, "vulnerabilities", Vulnerabilities19)
    /\ k = 3 => No(db, "vulnerabilities")
    /\ k >= 4 => Is(db, "vulnerabilities", Vulnerabilities19)
    /\ k \in 1 .. 3 => Is(db, "vulnerabilities_new", Vulnerabilities19)
    /\ ~(k \in 1 .. 3) => No(db, "vulnerabilities_new")

Here21(db, k) ==
    /\ k = 0 => \/ Is(db, "container_images", Images9)
                \/ Has(db, "container_images", "grype_db_built")
    /\ k >= 1 => Is(db, "container_images", Images21)

Here22(db, k) == k >= 1 => Is(db, "job_executions", JobExecutions)

Here23(db, k) == k >= 1 => Is(db, "metric_staleness", States)

Here24(db, k) ==
    /\ k = 0 => \/ Is(db, "container_images", Images21)
                \/ Has(db, "container_images", "architecture")
    /\ k >= 1 => Is(db, "container_images", Images24)

Here26(db, k) ==
    /\ k = 0 => \/ Is(db, "metric_staleness", States) /\ No(db, "app_state")
                \/ No(db, "metric_staleness")
    /\ k >= 1 => No(db, "metric_staleness") /\ Is(db, "app_state", States)

Here27(db, k) ==
    /\ k = 0 => \/ Is(db, "container_instances", Instances3)
                \/ Has(db, "container_instances", "reference")
    /\ k >= 1 => Is(db, "container_instances", Instances27)

Here28(db, k) ==
    /\ k < 3 => \/ Is(db, "container_instances", Instances27)
                \/ Is(db, "container_instances", InstanceColumns("container"))
    /\ k = 3 => No(db, "container_instances")
    /\ k >= 4 => Is(db, "container_instances", InstanceColumns("container"))
    /\ k \in 1 .. 3 => Is(db, "container_instances_new", InstanceColumns("container"))
    /\ ~(k \in 1 .. 3) => No(db, "container_instances_new")

Here29(db, k) ==
    /\ k = 0 => \/ /\ Is(db, "container_images", Images24) /\ No(db, "images")
                   /\ Is(db, "container_instances", InstanceColumns("container"))
                   /\ No(db, "containers")
                \/ No(db, "container_images")
    /\ k >= 1 => No(db, "container_images") /\ Is(db, "images", Images24)
    /\ k \in 1 .. 3 => Is(db, "container_instances", InstanceColumns("container"))
    /\ k >= 4 => No(db, "container_instances")
    /\ k = 1 => No(db, "containers")
    /\ k >= 2 => Is(db, "containers", InstanceColumns("name"))

Here30(db, k) ==
    /\ k = 0 => \/ /\ No(db, "nodes") /\ No(db, "node_packages")
                   /\ No(db, "node_vulnerabilities")
                \/ "nodes" \in DOMAIN db.tables
    /\ k >= 1 => Is(db, "nodes", Nodes30)
    /\ k = 1 => No(db, "node_packages")
    /\ k >= 2 => Is(db, "node_packages", NodePackages30)
    /\ k \in 1 .. 2 => No(db, "node_vulnerabilities")
    /\ k >= 3 => Is(db, "node_vulnerabilities", NodeMatchColumns)

Here32(db, k) ==
    /\ k = 0 => \/ Is(db, "node_packages", NodePackages30)
                \/ Has(db, "node_packages", "number_of_instances")
    /\ k >= 1 => Is(db, "node_packages", NodePackages32)

Here33(db, k) ==
    /\ k < 3 => \/ Is(db, "node_vulnerabilities", NodeMatchColumns)
                \/ Is(db, "node_vulnerabilities", NodeMatches33)
    /\ k = 3 => No(db, "node_vulnerabilities")
    /\ k >= 4 => Is(db, "node_vulnerabilities", NodeMatches33)
    /\ k \in 1 .. 3 => Is(db, "node_vulnerabilities_new", NodeMatches33)
    /\ ~(k \in 1 .. 3) => No(db, "node_vulnerabilities_new")

Here34(db, k) ==
    /\ k = 0 => \/ No(db, "node_vulnerability_details") /\ No(db, "node_package_details")
                \/ "node_vulnerability_details" \in DOMAIN db.tables
    /\ k >= 1 => Is(db, "node_vulnerability_details", NodeMatchDetails)
    /\ k \in 1 .. 2 => No(db, "node_package_details")
    /\ k >= 3 => Is(db, "node_package_details", NodePackageDetails)

Here35(db, k) ==
    /\ k = 0 => Is(db, "nodes", Nodes30) \/ Has(db, "nodes", "sbom")
    /\ k = 1 => Is(db, "nodes", Nodes30 \cup {"sbom"})
    /\ k >= 2 => Is(db, "nodes", Nodes35)

Here36(db, k) ==
    /\ k = 0 => No(db, "metric_staleness") \/ Is(db, "metric_staleness", Series36)
    /\ k >= 1 => Is(db, "metric_staleness", Series36)

Here37(db, k) ==
    /\ k = 0 => \/ /\ \/ Is(db, "metric_staleness", Series36)
                      \/ Is(db, "metric_staleness", Series37)
                   /\ No(db, "metric_staleness_v37")
                \/ "metric_staleness_v37" \in DOMAIN db.tables
    /\ k \in 1 .. 2 => \/ Is(db, "metric_staleness", Series36)
                       \/ Is(db, "metric_staleness", Series37)
    /\ k = 3 => No(db, "metric_staleness")
    /\ k >= 4 => Is(db, "metric_staleness", Series37)
    /\ k \in 1 .. 3 => Is(db, "metric_staleness_v37", Series37)
    /\ k >= 4 => No(db, "metric_staleness_v37")

Here42(db, k) ==
    /\ k < 2 => \/ Is(db, "node_vulnerabilities", NodeMatches33)
                \/ Is(db, "node_vulnerabilities", NodeMatches42)
    /\ k = 2 => Is(db, "node_vulnerabilities", NodeMatches33)
    /\ k = 3 => No(db, "node_vulnerabilities")
    /\ k >= 4 => Is(db, "node_vulnerabilities", NodeMatches42)
    /\ k \in 1 .. 3 => Is(db, "node_vulnerabilities_new", NodeMatches42)
    /\ ~(k \in 1 .. 3) => No(db, "node_vulnerabilities_new")

Here43(db, k) ==
    /\ k = 0 => \/ /\ Is(db, "vulnerabilities", Vulnerabilities19)
                   /\ Is(db, "packages", PackageColumns)
                   /\ Is(db, "vulnerability_details", VulnerabilityDetails)
                   /\ Is(db, "package_details", PackageDetails)
                   /\ No(db, "image_vulnerabilities") /\ No(db, "image_packages")
                   /\ No(db, "image_vulnerability_details")
                   /\ No(db, "image_package_details")
                \/ No(db, "vulnerabilities")
    /\ k >= 1 => No(db, "vulnerabilities") /\ Is(db, "image_vulnerabilities", Vulnerabilities19)
    /\ k = 1 => /\ Is(db, "vulnerability_details", VulnerabilityDetails)
                /\ No(db, "image_vulnerability_details")
    /\ k >= 2 => /\ No(db, "vulnerability_details")
                 /\ Is(db, "image_vulnerability_details", VulnerabilityDetails)
    /\ k \in 1 .. 2 => Is(db, "packages", PackageColumns) /\ No(db, "image_packages")
    /\ k >= 3 => No(db, "packages") /\ Is(db, "image_packages", PackageColumns)
    /\ k \in 1 .. 3 => /\ Is(db, "package_details", PackageDetails)
                       /\ No(db, "image_package_details")
    /\ k >= 4 => No(db, "package_details") /\ Is(db, "image_package_details", PackageDetails)

Here44(db, k) ==
    /\ k = 0 => Is(db, "image_packages", PackageColumns) \/ Has(db, "image_packages", "language")
    /\ k = 1 => Is(db, "image_packages", PackageColumns \cup {"language"})
    /\ k >= 2 => Is(db, "image_packages", Packages44)

Here47(db, k) ==
    /\ k = 0 => \/ Is(db, "nodes", Nodes35) /\ Is(db, "images", Images24)
                \/ Has(db, "nodes", "vulnerabilities_compressed")
    /\ k = 1 => Is(db, "nodes", Nodes35 \cup {"vulnerabilities_compressed"})
    /\ k >= 2 => Is(db, "nodes", Nodes47)
    /\ k \in 1 .. 2 => Is(db, "images", Images24)
    /\ k = 3 => Is(db, "images", Images24 \cup {"vulnerabilities_compressed"})
    /\ k >= 4 => Is(db, "images", Images47)

Here48(db, k) ==
    /\ k = 1 => No(db, "metric_staleness")
    /\ k >= 2 => Is(db, "metric_staleness", Series48)

Here(db, n, k) ==
    CASE n = 1 -> Here1(db, k)
      [] n = 2 -> Here2(db, k)
      [] n = 3 -> Here3(db, k)
      [] n = 4 -> Here4(db, k)
      [] n = 5 -> Here5(db, k)
      [] n = 6 -> Here6(db, k)
      [] n = 7 -> Here7(db, k)
      [] n = 8 -> Here8(db, k)
      [] n = 9 -> Here9(db, k)
      [] n = 10 -> Here10(db, k)
      [] n = 11 -> Here11(db, k)
      [] n = 12 -> Here12(db, k)
      [] n = 13 -> Here13(db, k)
      [] n = 19 -> Here19(db, k)
      [] n = 21 -> Here21(db, k)
      [] n = 22 -> Here22(db, k)
      [] n = 23 -> Here23(db, k)
      [] n = 24 -> Here24(db, k)
      [] n = 26 -> Here26(db, k)
      [] n = 27 -> Here27(db, k)
      [] n = 28 -> Here28(db, k)
      [] n = 29 -> Here29(db, k)
      [] n = 30 -> Here30(db, k)
      [] n = 32 -> Here32(db, k)
      [] n = 33 -> Here33(db, k)
      [] n = 34 -> Here34(db, k)
      [] n = 35 -> Here35(db, k)
      [] n = 36 -> Here36(db, k)
      [] n = 37 -> Here37(db, k)
      [] n = 42 -> Here42(db, k)
      [] n = 43 -> Here43(db, k)
      [] n = 44 -> Here44(db, k)
      [] n = 47 -> Here47(db, k)
      [] n = 48 -> Here48(db, k)
      [] OTHER -> TRUE

\* The tables migration n changes; those it does not are as the version before
\* left them, those it does are where its k statements have brought them.
Changed(n) == {t \in Names : n \in Changes(t)}

Around(db, n) ==
    /\ DOMAIN db.tables \subseteq Names
    /\ \A t \in Names \ Changed(n) : As(db, t, n - 1)

Amid(db, n, k) == Around(db, n) /\ Here(db, n, k)

\* What schema_migrations records, the tables are: exactly so unless a migration
\* was cut short before it was recorded.
LayoutInv ==
    /\ torn = 0 => Exact(disk, applied)
    /\ torn # 0 => Amid(disk, applied + 1, 0) /\ torn <= release
    /\ phase \in {"stepping", "committing", "recording"} => Amid(work, cur, at)

-----------------------------------------------------------------------------
(* What the statements leave alone *)

Quiet == {"index", "unindex", "use", "clear", "copy", "seed", "rank", "reparse"}

\* What a migration left alone is as it was.
Same(db, new, t) ==
    /\ t \in DOMAIN new.tables <=> t \in DOMAIN db.tables
    /\ t \in DOMAIN db.tables => new.tables[t] = db.tables[t]

\* The other migrations.
Plain == {14, 15, 16, 17, 18, 20, 25, 31, 38, 39, 40, 41, 45, 46, 49, 50, 51}

-----------------------------------------------------------------------------
(* The rows that must survive *)

\* The tables that hold the rows of one of today's tables, before and while it
\* gets its name; the states of the exporters move from metric_staleness into
\* app_state, and a new metric_staleness has nothing to do with them.
Homes(o) ==
    CASE o = "images" -> {"container_images", "container_images_new", "images"}
      [] o = "containers" -> {"container_instances", "container_instances_new", "containers"}
      [] o = "image_packages" -> {"packages", "packages_new", "image_packages"}
      [] o = "image_vulnerabilities" -> {"vulnerabilities", "vulnerabilities_new",
                                         "image_vulnerabilities"}
      [] o = "image_package_details" -> {"package_details", "image_package_details"}
      [] o = "image_vulnerability_details" -> {"vulnerability_details",
                                               "image_vulnerability_details"}
      [] o = "node_vulnerabilities" -> {"node_vulnerabilities", "node_vulnerabilities_new"}
      [] OTHER -> {o}

Held(db, o) ==
    IF o = "app_state" /\ "app_state" \notin DOMAIN db.tables
    THEN "metric_staleness" \in db.rows
    ELSE Homes(o) \cap db.rows # {}

Details == {"image_package_details", "image_vulnerability_details"}
Precious == {"images", "containers", "image_packages", "image_vulnerabilities",
             "job_executions", "app_state", "nodes", "node_packages", "node_vulnerabilities",
             "node_vulnerability_details", "node_package_details"} \cup Details

\* When a rebuilt table is about to go, its rows are in the new one.
Moved(db, from, to) == from \in db.rows => to \in db.rows

Copied(db, n, k) ==
    /\ n = 2 /\ k \in 2 .. 5 => Moved(db, "container_images", "container_images_new")
    /\ n = 2 /\ k = 4 => Moved(db, "container_instances", "container_instances_new")
    /\ n = 5 /\ k = 2 => Moved(db, "container_images", "container_images_new")
    /\ n = 8 /\ k = 8 => Moved(db, "container_images", "container_images_new")
    /\ n = 12 /\ k = 2 => Moved(db, "packages", "packages_new")
    /\ n = 19 /\ k = 2 => Moved(db, "vulnerabilities", "vulnerabilities_new")
    /\ n = 28 /\ k = 2 => Moved(db, "container_instances", "container_instances_new")
    /\ n = 29 /\ k = 3 => Moved(db, "container_instances", "containers")
    /\ n = 33 /\ k = 2 => Moved(db, "node_vulnerabilities", "node_vulnerabilities_new")
    /\ n = 42 /\ k = 2 => Moved(db, "node_vulnerabilities", "node_vulnerabilities_new")

RowsInv ==
    /\ owed \subseteq Precious
    /\ owed \cap Details # {} => applied >= 18
    /\ \A o \in owed : Held(disk, o) /\ Held(work, o)
    /\ phase \in {"stepping", "committing"} => Copied(work, cur, at)

\* Where the states of the exporters are has not changed.
Stays(db, new) == "app_state" \in DOMAIN new.tables <=> "app_state" \in DOMAIN db.tables

\* A statement that takes no row anywhere, and makes no app_state.
Grows(s) == \/ s.op \in {"add", "index", "unindex", "use", "copy", "seed", "rank", "reparse"}
            \/ s.op = "create" /\ s.table # "app_state"

\* What a rename does to the rows.
RowsRenamed(db, new, t, to) ==
    /\ t \in db.rows => new.rows = (db.rows \ {t}) \cup {to}
    /\ t \notin db.rows => new.rows = db.rows

\* The rows of these tables are still held.
Keeps(db, new, tables) == \A o \in tables : Held(db, o) => Held(new, o)

\* The migrations that take no row anywhere.
Adding == {1, 3, 4, 6, 7, 9, 11, 13, 14, 20, 21, 22, 23, 24, 25, 27, 30, 31, 32, 34, 35, 36, 38,
               39, 40, 41, 44, 45, 46, 47, 49, 50, 51}

-----------------------------------------------------------------------------
(* Which statements may be refused *)

\* The indexes some migration creates without IF NOT EXISTS, and the tables they
\* may lie on: that of the migration, or what it is renamed to later.
On(i) ==
    CASE i \in {"idx_packages_image", "idx_packages_type"}
           -> {"packages", "image_packages"}
      [] i \in {"idx_vulnerabilities_image", "idx_vulnerabilities_severity",
                "idx_vulnerabilities_cve"}
           -> {"vulnerabilities", "image_vulnerabilities"}
      [] i \in {"idx_vulnerability_details_vuln"}
           -> {"vulnerability_details", "image_vulnerability_details"}
      [] i \in {"idx_package_details_pkg"}
           -> {"package_details", "image_package_details"}
      [] i \in {"idx_job_executions_job_name", "idx_job_executions_started_at",
                "idx_job_executions_status"}
           -> {"job_executions"}
      [] i \in {"idx_containers_namespace", "idx_containers_image", "idx_containers_created_at"}
           -> {"containers"}
      [] i \in {"idx_nodes_status"}
           -> {"nodes"}
      [] i \in {"idx_node_packages_node", "idx_node_packages_name"}
           -> {"node_packages"}
      [] i \in {"idx_node_vulnerabilities_node", "idx_node_vulnerabilities_cve",
                "idx_node_vulnerabilities_severity", "idx_node_vulnerabilities_package",
                "idx_node_vulnerabilities_node_severity", "idx_node_vulnerabilities_fix_status",
                "idx_node_vulnerabilities_node_cve", "idx_node_vulnerabilities_package_type"}
           -> {"node_vulnerabilities"}
      [] i \in {"idx_node_vulnerability_details_vuln"}
           -> {"node_vulnerability_details"}
      [] i \in {"idx_node_package_details_pkg"}
           -> {"node_package_details"}
      [] i \in {"idx_images_digest", "idx_images_status"}
           -> {"container_images", "images"}
      [] i \in {"idx_instances_namespace", "idx_instances_image", "idx_instances_created_at"}
           -> {"container_instances"}
      [] i \in {"idx_metric_staleness_expires"}
           -> {"metric_staleness", "app_state"}

Indexes ==
    {"idx_packages_image", "idx_packages_type", "idx_vulnerabilities_image",
     "idx_vulnerabilities_severity", "idx_vulnerabilities_cve", "idx_vulnerability_details_vuln",
     "idx_package_details_pkg", "idx_job_executions_job_name", "idx_job_executions_started_at",
     "idx_job_executions_status", "idx_containers_namespace", "idx_containers_image",
     "idx_containers_created_at", "idx_nodes_status", "idx_node_packages_node",
     "idx_node_packages_name", "idx_node_vulnerabilities_node", "idx_node_vulnerabilities_cve",
     "idx_node_vulnerabilities_severity", "idx_node_vulnerability_details_vuln",
     "idx_node_package_details_pkg", "idx_images_digest", "idx_images_status",
     "idx_instances_namespace", "idx_instances_image", "idx_instances_created_at",
     "idx_node_vulnerabilities_package", "idx_node_vulnerabilities_node_severity",
     "idx_node_vulnerabilities_fix_status", "idx_node_vulnerabilities_node_cve",
     "idx_node_vulnerabilities_package_type", "idx_metric_staleness_expires"}

Rebuilt == {"container_images_new", "container_instances_new", "packages_new",
            "vulnerabilities_new", "node_vulnerabilities_new", "metric_staleness_v37"}

Lies(db) ==
    \A i \in DOMAIN db.indexes :
        /\ db.indexes[i].table \notin Rebuilt
        /\ i \in Indexes => db.indexes[i].table \in On(i)
        /\ i = "idx_metric_staleness_expires" => "expires_at_unix" \in db.indexes[i].columns

\* The index does not exist yet: the table it is for has just been made, or the
\* one it was on has just been dropped.
Free(db, i) == i \notin DOMAIN db.indexes

\* The migrations that create an index without IF NOT EXISTS, and how many of
\* their statements have run when the names are free.
Making == {6, 8, 12, 13, 19, 22, 28, 29, 30, 33, 34, 42, 48}
From(n) == CASE n = 8 -> 9
             [] n \in {12, 19, 28, 33, 42} -> 3
             [] n = 48 -> 1
             [] OTHER -> 0

Makes(s) == s.op = "index" /\ ~s.lenient

\* What the statements still to come of migration n rely on, beside the tables.
Ready(db, n, k) ==
    /\ n = 2 /\ k < 4 => /\ Is(db, "container_images", Images1)
                         /\ Is(db, "container_instances", Instances1)
    /\ n = 42 /\ k < 2 => Is(db, "node_vulnerabilities", NodeMatches33)
    /\ n \in Making /\ k >= From(n) =>
          \A j \in k + 1 .. Len(Steps(n)) :
              Makes(Steps(n)[j]) => Free(db, Steps(n)[j].name)

\* A start is refused only where a migration was torn that cannot run twice, or V42
\* meets two matches on disk that are one to it.  A migration that runs for the
\* first time finds the tables exactly as the version before left them, and
\* whatever is on disk, no index that is still to be made lies on a table other
\* than its own.
TearInv ==
    /\ why = "statement" => phase = "refused" /\ MayWedge
    /\ phase = "stepping" /\ cur = 42 /\ at < 2 => work.twins = disk.twins
    /\ Lies(disk) /\ Lies(work)
    /\ phase = "stepping" /\ torn = 0 => at = 0 \/ at < Len(Migration.tx)
    /\ phase = "stepping" /\ torn = 0 /\ at = 0 => Exact(work, applied)
    /\ phase \in {"stepping", "committing"} /\ (torn = 0 \/ cur \notin RunOnce)
           => Ready(work, cur, at)

\* An index is put only where it may lie, and a table that is rebuilt takes a
\* name that may carry what the old one did.
Honest(s) ==
    /\ s.op = "index" => /\ s.table \notin Rebuilt
                         /\ s.name \in Indexes => s.table \in On(s.name)
                         /\ s.name = "idx_metric_staleness_expires"
                                => "expires_at_unix" \in s.columns
    /\ s.op = "rename" => /\ s.to \notin Rebuilt
                          /\ \/ s.table \in Rebuilt
                             \/ \A i \in Indexes : s.table \in On(i) => s.to \in On(i)

\* The copy of V42, about to be executed on matches that are one to it.
Collides(db, n, k) == n = 42 /\ k = 1 /\ "node_vulnerabilities" \in db.twins

\* The conditions under which a statement is about to be executed, unless its
\* migration cannot run twice and is being run again.
Due(db, n, k) ==
    /\ IsDatabase(db) /\ Amid(db, n, k) /\ Ready(db, n, k)
    /\ k \in 0 .. Len(Steps(n)) - 1
    /\ n \in RunOnce => /\ k = 0 => Exact(db, n - 1)
                        /\ k = 0 \/ k < Len(migrations[n].tx)
=============================================================================
