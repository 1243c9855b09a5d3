----------------------------- MODULE ScanStatus -----------------------------
(***************************************************************************)
(* database.Status (src/scanner-core/database/status.go): the status       *)
(* column that rows of the images and of the nodes tables share, and what  *)
(* each status says about the data beside it.                              *)
(***************************************************************************)

Status == {"pending", "generating_sbom", "sbom_failed", "sbom_unavailable",
           "scanning_vulnerabilities", "vuln_scan_failed", "completed"}

\* Status.HasSBOM: SBOM data "should be available".
HasSBOM(s) == s \in {"scanning_vulnerabilities", "vuln_scan_failed", "completed"}

\* Status.HasVulnerabilities.
HasVulnerabilities(s) == s = "completed"

\* The statuses ResetInterruptedScans and ReapStuckScans look for.
Transient(s) == s \in {"generating_sbom", "scanning_vulnerabilities"}

\* GetImageScanStatus: the four-valued status the container manager sees.
ScanStatus(s) ==
    CASE HasSBOM(s)                                  -> "scanned"
      [] s = "generating_sbom"                       -> "scanning"
      [] s \in {"sbom_failed", "sbom_unavailable"}   -> "failed"
      [] OTHER                                       -> "pending"
=============================================================================
