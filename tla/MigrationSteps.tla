--------------------------- MODULE MigrationSteps ---------------------------
(***************************************************************************)
(* The fifty-one migrations of scanner-core/database/migrations.go, each   *)
(* the statements it executes, in their order.  V3 is migrateToV3, and so  *)
(* on.  Column types and defaults are left out, and so are keys: foreign   *)
(* ones are not checked, and the unique ones of a table being rebuilt      *)
(* refuse no row that is copied, except in V42.                            *)
(***************************************************************************)
EXTENDS Schema

(***************************************************************************)
(* What today's code writes for one image: parseSBOMData and               *)
(* parseVulnerabilityData replace the rows of the image in one             *)
(* transaction, which fails when a table or a column is missing.           *)
(***************************************************************************)
SBOMTables ==
    [image_packages |-> {"id", "image_id", "name", "version", "type", "number_of_instances"},
     image_package_details |-> {"package_id", "details"},
     images |-> {"id", "architecture"}]

ReportTables ==
    [image_vulnerabilities |-> {"id", "image_id", "cve_id", "package_name", "package_version",
        "package_type", "severity", "fix_status", "fixed_version", "count", "risk",
        "epss_score", "epss_percentile", "known_exploited"},
     image_vulnerability_details |-> {"vulnerability_id", "details"},
     images |-> {"id", "os_name", "os_version"}]

ReparseSBOMs == Reparse("container_images", "sbom", SBOMTables,
                        {"image_packages", "image_package_details"})
ReparseReports == Reparse("container_images", "report", ReportTables,
                          {"image_vulnerabilities", "image_vulnerability_details"})

(***************************************************************************)
(* The lookup table as version 1 (and 11) fills it.                        *)
(***************************************************************************)
FirstRanks ==
    [completed |-> 1, pending |-> 2, scanning_vulnerabilities |-> 3, generating_sbom |-> 4,
     sbom_unavailable |-> 5, vuln_scan_failed |-> 6]

StatusColumns == {"status", "description", "sort_order"}
Stamps == {"created_at", "updated_at"}

V1 == OneByOne(<<
    CreateIfAbsent("container_images", {"id", "repository", "tag", "digest",
        "sbom_requested", "sbom_received"} \cup Stamps),
    IndexIfAbsent("idx_images_repo_tag", "container_images", {"repository", "tag"}),
    IndexIfAbsent("idx_images_digest", "container_images", {"digest"}),
    CreateIfAbsent("container_instances",
        {"id", "namespace", "pod", "container", "image_id", "created_at"}),
    IndexIfAbsent("idx_instances_namespace", "container_instances", {"namespace"}),
    IndexIfAbsent("idx_instances_image", "container_instances", {"image_id"}),
    CreateIfAbsent("scan_status", StatusColumns),
    Seed(FirstRanks) >>)

\* Images become unique by digest; repository and tag move to the instances.
V2 ==
    LET images == {"id", "digest", "sbom_requested", "sbom_received"} \cup Stamps
        instances == {"id", "namespace", "pod", "container", "repository", "tag",
                      "image_id", "created_at"}
    IN InTx(<<
        Create("container_images_new", images),
        CopySame("container_images", "container_images_new", images),
        Create("container_instances_new", instances),
        Copy("container_instances",
             [container_instances |-> instances \ {"repository", "tag"},
              container_images |-> {"id", "digest", "repository", "tag"},
              container_images_new |-> {"id", "digest"}],
             "container_instances_new", instances),
        DropTable("container_instances"),
        DropTable("container_images"),
        Rename("container_images_new", "container_images"),
        Rename("container_instances_new", "container_instances"),
        IndexIfAbsent("idx_instances_namespace", "container_instances", {"namespace"}),
        IndexIfAbsent("idx_instances_image", "container_instances", {"image_id"}) >>)

V3 == InTx(
    AddColumns("container_images", <<"sbom", "scan_status", "scan_error", "scanned_at">>)
    \o AddColumns("container_instances", <<"node_name", "container_runtime">>)
    \o << IndexIfAbsent("idx_images_scan_status", "container_images", {"scan_status"}) >>)

V4 == InTx(
    AddColumns("container_images", <<"vulnerabilities", "vulnerability_status",
        "vulnerability_error", "vulnerabilities_scanned_at">>)
    \o << IndexIfAbsent("idx_images_vulnerability_status", "container_images",
                        {"vulnerability_status"}) >>)

V5 ==
    LET images == {"id", "digest", "sbom", "scan_status", "scan_error", "scanned_at",
            "vulnerabilities", "vulnerability_status", "vulnerability_error",
            "vulnerabilities_scanned_at"} \cup Stamps
    IN InTx(<<
        Create("container_images_new", images),
        CopySame("container_images", "container_images_new", images),
        DropTable("container_images"),
        Rename("container_images_new", "container_images"),
        IndexIfAbsent("idx_images_scan_status", "container_images", {"scan_status"}),
        IndexIfAbsent("idx_images_vulnerability_status", "container_images",
                      {"vulnerability_status"}) >>)

PackageColumns == {"id", "image_id", "name", "version", "type", "number_of_instances",
                   "created_at"}
VulnerabilityColumns == {"id", "image_id", "cve_id", "package_name", "package_version",
    "package_type", "severity", "fix_status", "fixed_version", "count", "created_at"}

\* After the commit, migrateExistingData stores what the images already hold.
V6 == [tx |-> <<
        Create("packages", PackageColumns),
        Index("idx_packages_image", "packages", {"image_id"}),
        Index("idx_packages_type", "packages", {"type"}),
        Create("vulnerabilities", VulnerabilityColumns \cup {"known_exploits"}),
        Index("idx_vulnerabilities_image", "vulnerabilities", {"image_id"}),
        Index("idx_vulnerabilities_severity", "vulnerabilities", {"severity"}),
        Index("idx_vulnerabilities_cve", "vulnerabilities", {"cve_id"}),
        Create("image_summary", {"image_id", "package_count", "os_name", "os_version",
                                 "updated_at"}) >>,
       auto |-> << ReparseSBOMs, ReparseReports >>]

V7 == InTx(AddColumns("vulnerabilities",
    <<"risk", "epss_score", "epss_percentile", "known_exploited">>))

\* One status replaces the two of the SBOM and of the report.
V8 ==
    LET images == {"id", "digest", "status", "status_error", "sbom", "vulnerabilities",
                   "sbom_scanned_at", "vulns_scanned_at"} \cup Stamps
    IN InTx(
        AddColumns("container_images",
            <<"status", "status_error", "sbom_scanned_at", "vulns_scanned_at">>)
        \o <<
        Uses("container_images", {"status", "status_error", "sbom_scanned_at",
            "vulns_scanned_at", "vulnerability_status", "scan_status",
            "vulnerability_error", "scan_error", "scanned_at",
            "vulnerabilities_scanned_at"}),
        IndexIfAbsent("idx_images_status", "container_images", {"status"}),
        Create("container_images_new", images),
        CopySame("container_images", "container_images_new", images),
        DropTable("container_images"),
        Rename("container_images_new", "container_images"),
        Index("idx_images_digest", "container_images", {"digest"}),
        Index("idx_images_status", "container_images", {"status"}) >>)

V9 == InTx(
    AddColumns("container_images", <<"os_name", "os_version">>)
    \o << Uses("image_summary", {"image_id", "os_name", "os_version"}) >>)

V10 == InTx(<< DropIfPresent("image_summary") >>)

V11 == InTx(<< CreateIfAbsent("scan_status", StatusColumns), SeedIfAbsent(FirstRanks) >>)

V12 == InTx(<<
    Create("packages_new", PackageColumns),
    CopySame("packages", "packages_new", PackageColumns \ {"id"}),
    DropTable("packages"),
    Rename("packages_new", "packages"),
    Index("idx_packages_image", "packages", {"image_id"}),
    Index("idx_packages_type", "packages", {"type"}) >>)

V13 == InTx(<<
    Create("vulnerability_details", {"id", "vulnerability_id", "details", "created_at"}),
    Index("idx_vulnerability_details_vuln", "vulnerability_details", {"vulnerability_id"}),
    Create("package_details", {"id", "package_id", "details", "created_at"}),
    Index("idx_package_details_pkg", "package_details", {"package_id"}) >>)

\* The versions that fill the details tables from the stored documents again.
StoredDocuments(docs) == Uses("container_images", {"id"} \cup docs)

V14 == OneByOne(<< StoredDocuments({"sbom", "vulnerabilities"}), ReparseSBOMs, ReparseReports >>)

V15 == OneByOne(<< Clear("vulnerability_details"), Clear("package_details"),
                   StoredDocuments({"sbom", "vulnerabilities"}), ReparseSBOMs, ReparseReports >>)

V16 == OneByOne(<< Clear("package_details"), StoredDocuments({"sbom"}), ReparseSBOMs >>)

V17 == OneByOne(<< Clear("package_details"), StoredDocuments({"sbom"}), ReparseSBOMs >>)

V18 == OneByOne(<< Clear("vulnerability_details"), StoredDocuments({"vulnerabilities"}),
                   ReparseReports >>)

V19 ==
    LET cols == VulnerabilityColumns \cup {"risk", "epss_score", "epss_percentile",
                                           "known_exploited"}
    IN InTx(<<
        Create("vulnerabilities_new", cols),
        CopySame("vulnerabilities", "vulnerabilities_new", cols),
        DropTable("vulnerabilities"),
        Rename("vulnerabilities_new", "vulnerabilities"),
        Index("idx_vulnerabilities_image", "vulnerabilities", {"image_id"}),
        Index("idx_vulnerabilities_severity", "vulnerabilities", {"severity"}),
        Index("idx_vulnerabilities_cve", "vulnerabilities", {"cve_id"}) >>)

V20 == InTx(<<
    IndexIfAbsent("idx_images_created_at", "container_images", {"created_at"}),
    IndexIfAbsent("idx_instances_created_at", "container_instances", {"created_at"}),
    IndexIfAbsent("idx_vulnerabilities_image_severity", "vulnerabilities",
                  {"image_id", "severity"}) >>)

V21 == OneByOne(<< AddColumn("container_images", "grype_db_built") >>)

V22 == InTx(<<
    Create("job_executions", {"id", "job_name", "started_at", "completed_at", "status",
                              "error_message", "duration_ms", "created_at"}),
    Index("idx_job_executions_job_name", "job_executions", {"job_name"}),
    Index("idx_job_executions_started_at", "job_executions", {"started_at"}),
    Index("idx_job_executions_status", "job_executions", {"status"}) >>)

V23 == InTx(<< Create("metric_staleness", {"key", "data", "updated_at"}) >>)

V24 == OneByOne(<< AddColumn("container_images", "architecture") >>)

V25 == OneByOne(<< Uses("container_images", {"id", "sbom", "architecture"}) >>)

V26 == OneByOne(<< Rename("metric_staleness", "app_state") >>)

V27 == OneByOne(<< AddColumn("container_instances", "reference"),
                   Uses("container_instances", {"reference", "repository", "tag"}) >>)

InstanceColumns(name) == {"id", "namespace", "pod", name, "reference", "image_id",
                          "node_name", "container_runtime", "created_at"}

V28 ==
    LET cols == InstanceColumns("container")
    IN InTx(<<
        Create("container_instances_new", cols),
        CopySame("container_instances", "container_instances_new", cols),
        DropTable("container_instances"),
        Rename("container_instances_new", "container_instances"),
        Index("idx_instances_namespace", "container_instances", {"namespace"}),
        Index("idx_instances_image", "container_instances", {"image_id"}),
        Index("idx_instances_created_at", "container_instances", {"created_at"}) >>)

\* Mutant: the rows are not copied before the old table goes.
MutV29 == InTx(<<
    Rename("container_images", "images"),
    Create("containers", InstanceColumns("name")),
    DropTable("container_instances"),
    Index("idx_containers_namespace", "containers", {"namespace"}),
    Index("idx_containers_image", "containers", {"image_id"}),
    Index("idx_containers_created_at", "containers", {"created_at"}) >>)

V29 == InTx(<<
    Rename("container_images", "images"),
    Create("containers", InstanceColumns("name")),
    Copy("container_instances", [container_instances |-> InstanceColumns("container")],
         "containers", InstanceColumns("name")),
    DropTable("container_instances"),
    Index("idx_containers_namespace", "containers", {"namespace"}),
    Index("idx_containers_image", "containers", {"image_id"}),
    Index("idx_containers_created_at", "containers", {"created_at"}) >>)

NodeMatchColumns == {"id", "node_id", "package_id", "cve_id", "severity", "score",
    "fix_status", "fix_version", "known_exploited", "details", "created_at"}

V30 == InTx(<<
    Create("nodes", {"id", "name", "hostname", "os_release", "kernel_version",
        "architecture", "container_runtime", "kubelet_version", "status", "status_error",
        "sbom_scanned_at", "vulns_scanned_at", "grype_db_built"} \cup Stamps),
    Create("node_packages", {"id", "node_id", "name", "version", "type", "language", "purl",
                             "details"}),
    Create("node_vulnerabilities", NodeMatchColumns),
    Index("idx_nodes_status", "nodes", {"status"}),
    Index("idx_node_packages_node", "node_packages", {"node_id"}),
    Index("idx_node_packages_name", "node_packages", {"name"}),
    Index("idx_node_vulnerabilities_node", "node_vulnerabilities", {"node_id"}),
    Index("idx_node_vulnerabilities_cve", "node_vulnerabilities", {"cve_id"}),
    Index("idx_node_vulnerabilities_severity", "node_vulnerabilities", {"severity"}) >>)

V31 == InTx(<<
    IndexIfAbsent("idx_node_vulnerabilities_package", "node_vulnerabilities", {"package_id"}),
    IndexIfAbsent("idx_node_vulnerabilities_node_severity", "node_vulnerabilities",
                  {"node_id", "severity"}),
    IndexIfAbsent("idx_node_vulnerabilities_fix_status", "node_vulnerabilities",
                  {"fix_status"}),
    IndexIfAbsent("idx_node_packages_type", "node_packages", {"type"}) >>)

V32 == InTx(<< AddColumn("node_packages", "number_of_instances") >>)

\* The rebuilt rows get new ids; nothing refers to them yet.
V33 == InTx(<<
    Create("node_vulnerabilities_new", NodeMatchColumns \cup {"count"}),
    Copy("node_vulnerabilities", [node_vulnerabilities |-> NodeMatchColumns \ {"id"}],
         "node_vulnerabilities_new", (NodeMatchColumns \ {"id"}) \cup {"count"}),
    DropTable("node_vulnerabilities"),
    Rename("node_vulnerabilities_new", "node_vulnerabilities"),
    Index("idx_node_vulnerabilities_node", "node_vulnerabilities", {"node_id"}),
    Index("idx_node_vulnerabilities_package", "node_vulnerabilities", {"package_id"}),
    Index("idx_node_vulnerabilities_node_severity", "node_vulnerabilities",
          {"node_id", "severity"}),
    Index("idx_node_vulnerabilities_fix_status", "node_vulnerabilities", {"fix_status"}) >>)

V34 == InTx(<<
    Create("node_vulnerability_details", {"id", "node_vulnerability_id", "details",
                                          "created_at"}),
    Index("idx_node_vulnerability_details_vuln", "node_vulnerability_details",
          {"node_vulnerability_id"}),
    Create("node_package_details", {"id", "node_package_id", "details", "created_at"}),
    Index("idx_node_package_details_pkg", "node_package_details", {"node_package_id"}),
    Copy("node_vulnerabilities", [node_vulnerabilities |-> {"id", "details"}],
         "node_vulnerability_details", {"node_vulnerability_id", "details"}),
    Copy("node_packages", [node_packages |-> {"id", "details"}],
         "node_package_details", {"node_package_id", "details"}) >>)

V35 == OneByOne(AddColumns("nodes", <<"sbom", "vulnerabilities">>))

SeriesColumns == {"metric_key", "family_name", "labels_json"}

V36 == OneByOne(<<
    CreateIfAbsent("metric_staleness", SeriesColumns \cup {"last_seen_unix"}),
    IndexIfAbsent("idx_metric_staleness_last_seen", "metric_staleness", {"last_seen_unix"}) >>)

V37 ==
    LET cols == SeriesColumns \cup {"expires_at_unix"}
    IN OneByOne(<<
        Create("metric_staleness_v37", cols),
        Copy("metric_staleness", [metric_staleness |-> SeriesColumns],
             "metric_staleness_v37", cols),
        DropTable("metric_staleness"),
        Rename("metric_staleness_v37", "metric_staleness"),
        IndexIfAbsent("idx_metric_staleness_expires", "metric_staleness",
                      {"expires_at_unix"}) >>)

V38 == OneByOne(<< IndexIfAbsent("idx_vulnerabilities_image_cve", "vulnerabilities",
                                 {"image_id", "cve_id"}) >>)

V39 == OneByOne(<< IndexIfAbsent("idx_node_vulnerabilities_node_cve", "node_vulnerabilities",
                                 {"node_id", "cve_id"}) >>)

V40 == OneByOne(<<
    IndexIfAbsent("idx_vulnerabilities_fix_status", "vulnerabilities", {"fix_status"}),
    IndexIfAbsent("idx_vulnerabilities_package_type", "vulnerabilities", {"package_type"}),
    IndexIfAbsent("idx_images_os_name", "images", {"os_name"}) >>)

V41 == OneByOne(<< DropIndex("idx_node_vulnerabilities_package") >>)

\* A host's matches name their package themselves instead of by its row, and no
\* two of a CVE may name the same: the new key (migrations.go:2660) knows neither
\* the type of a package nor one from another once their rows are gone.
V42 ==
    LET kept == {"id", "node_id", "cve_id", "severity", "fix_status", "fix_version",
                 "known_exploited", "count", "created_at"}
        copied == kept \cup {"package_name", "package_version", "package_type", "risk"}
    IN InTx(<<
        Create("node_vulnerabilities_new", copied \cup {"epss_score", "epss_percentile"}),
        CopyNarrower("node_vulnerabilities",
             [node_vulnerabilities |-> kept \cup {"package_id", "score"},
              node_packages |-> {"id", "name", "version", "type"}],
             "node_vulnerabilities_new", copied),
        DropTable("node_vulnerabilities"),
        Rename("node_vulnerabilities_new", "node_vulnerabilities"),
        Index("idx_node_vulnerabilities_node", "node_vulnerabilities", {"node_id"}),
        Index("idx_node_vulnerabilities_cve", "node_vulnerabilities", {"cve_id"}),
        Index("idx_node_vulnerabilities_severity", "node_vulnerabilities", {"severity"}),
        Index("idx_node_vulnerabilities_node_severity", "node_vulnerabilities",
              {"node_id", "severity"}),
        Index("idx_node_vulnerabilities_fix_status", "node_vulnerabilities", {"fix_status"}),
        Index("idx_node_vulnerabilities_node_cve", "node_vulnerabilities",
              {"node_id", "cve_id"}),
        Index("idx_node_vulnerabilities_package_type", "node_vulnerabilities",
              {"package_type"}) >>)

V43 == OneByOne(<<
    Rename("vulnerabilities", "image_vulnerabilities"),
    Rename("vulnerability_details", "image_vulnerability_details"),
    Rename("packages", "image_packages"),
    Rename("package_details", "image_package_details") >>)

V44 == OneByOne(AddColumns("image_packages", <<"language", "purl">>))

\* The indexes kept their names when V43 renamed their tables.
V45 == OneByOne(<<
    DropIndex("idx_vulnerabilities_image"),
    DropIndex("idx_vulnerabilities_severity"),
    DropIndex("idx_vulnerabilities_cve"),
    DropIndex("idx_vulnerabilities_image_severity"),
    DropIndex("idx_vulnerabilities_image_cve"),
    DropIndex("idx_vulnerabilities_fix_status"),
    DropIndex("idx_vulnerabilities_package_type"),
    IndexIfAbsent("idx_image_vulnerabilities_image", "image_vulnerabilities", {"image_id"}),
    IndexIfAbsent("idx_image_vulnerabilities_severity", "image_vulnerabilities", {"severity"}),
    IndexIfAbsent("idx_image_vulnerabilities_cve", "image_vulnerabilities", {"cve_id"}),
    IndexIfAbsent("idx_image_vulnerabilities_image_severity", "image_vulnerabilities",
                  {"image_id", "severity"}),
    IndexIfAbsent("idx_image_vulnerabilities_image_cve", "image_vulnerabilities",
                  {"image_id", "cve_id"}),
    IndexIfAbsent("idx_image_vulnerabilities_fix_status", "image_vulnerabilities",
                  {"fix_status"}),
    IndexIfAbsent("idx_image_vulnerabilities_package_type", "image_vulnerabilities",
                  {"package_type"}),
    DropIndex("idx_packages_image"),
    DropIndex("idx_packages_type"),
    IndexIfAbsent("idx_image_packages_image", "image_packages", {"image_id"}),
    IndexIfAbsent("idx_image_packages_type", "image_packages", {"type"}),
    DropIndex("idx_vulnerability_details_vuln"),
    IndexIfAbsent("idx_image_vulnerability_details_vuln", "image_vulnerability_details",
                  {"vulnerability_id"}),
    DropIndex("idx_package_details_pkg"),
    IndexIfAbsent("idx_image_package_details_pkg", "image_package_details", {"package_id"}) >>)

\* Deletes the details whose match or package is gone.
V46 == OneByOne(<< Uses("node_vulnerability_details", {"node_vulnerability_id"}),
                   Uses("node_package_details", {"node_package_id"}) >>)

V47 == OneByOne(AddColumns("nodes", <<"vulnerabilities_compressed", "sbom_compressed">>)
                \o AddColumns("images", <<"vulnerabilities_compressed", "sbom_compressed">>))

V48 == OneByOne(<<
    DropIfPresent("metric_staleness"),
    Create("metric_staleness", SeriesColumns \cup {"key_hash", "expires_at_unix"}),
    Index("idx_metric_staleness_expires", "metric_staleness", {"expires_at_unix"}) >>)

\* Mutant: CREATE INDEX without IF NOT EXISTS.
MutV49 == OneByOne(<<
    Index("idx_image_vulnerabilities_cve_pkg", "image_vulnerabilities",
          {"cve_id", "package_name", "package_version"}),
    Index("idx_containers_ns_image", "containers", {"namespace", "image_id"}) >>)

V49 == OneByOne(<<
    IndexIfAbsent("idx_image_vulnerabilities_cve_pkg", "image_vulnerabilities",
                  {"cve_id", "package_name", "package_version"}),
    IndexIfAbsent("idx_containers_ns_image", "containers", {"namespace", "image_id"}) >>)

V50 == OneByOne(<<
    IndexIfAbsent("idx_node_vulnerabilities_cve_pkg", "node_vulnerabilities",
                  {"cve_id", "package_name", "package_version"}) >>)

\* Mutant: the new status gets its row, the others keep their order.
MutV51 == OneByOne(<< SeedIfAbsent([sbom_failed |-> 5]) >>)

V51 == OneByOne(<<
    SeedIfAbsent([sbom_failed |-> 5]),
    Rank("completed", 1),
    Rank("scanning_vulnerabilities", 2),
    Rank("generating_sbom", 3),
    Rank("pending", 4),
    Rank("sbom_failed", 5),
    Rank("sbom_unavailable", 6),
    Rank("vuln_scan_failed", 7) >>)

(***************************************************************************)
(* The list the loop of ensureSchemaVersion walks.                         *)
(***************************************************************************)
migrations == << V1, V2, V3, V4, V5, V6, V7, V8, V9, V10, V11, V12, V13, V14, V15, V16, V17,
    V18, V19, V20, V21, V22, V23, V24, V25, V26, V27, V28, V29, V30, V31, V32, V33, V34,
    V35, V36, V37, V38, V39, V40, V41, V42, V43, V44, V45, V46, V47, V48, V49, V50, V51 >>

Latest == Len(migrations)
=============================================================================
