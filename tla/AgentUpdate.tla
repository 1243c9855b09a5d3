------------------------------ MODULE AgentUpdate ------------------------------
(***************************************************************************)
(* The self-update of the host agent (src/bjorn2scan-agent/updater and its *)
(* start in main.go).  One goroutine checks the release feed, first at     *)
(* start and then on every tick, and installs: it copies the running       *)
(* binary to the backup, writes the rollback marker, renames the download  *)
(* over the binary and exits.  systemd starts whatever is on disk.  A      *)
(* process that finds the marker runs a second goroutine that probes its   *)
(* own /health and then commits (removes marker and backup) or rolls back  *)
(* (renames the backup over the binary).  The files survive a crash, the   *)
(* goroutines do not, and nothing orders the two goroutines.               *)
(*                                                                         *)
(* A version is a number, its place in release order; what matters of its  *)
(* content is how it behaves when it runs.  Logging, the status shown by   *)
(* the API, pause and resume are left out: a paused updater is one that    *)
(* does not tick.                                                          *)
(***************************************************************************)
EXTENDS Naturals

CONSTANTS MaxVersion,   \* bound: releases that are ever published
          Major, Minor, \* the semantic version of each release
          Policies,     \* the version constraints an agent may be configured with
          Unpinned,     \* the value of "pinned" that pins nothing
          Absent, Torn, \* contents of a file that is missing, half written
          Faults,       \* what may fail: "crash", "disk", "feed", "slow"
          MaxFaults,    \* bound: how often
          Overlap       \* may an install start while an update is pending?

Versions == 1 .. MaxVersion
Files == Versions \union {Absent, Torn}
Behaviours == {"ok", "sick", "dead"}
PolicyType == [minor : BOOLEAN, major : BOOLEAN, pinned : Versions \union {Unpinned},
               min : Versions, max : Versions]

ASSUME UpdateAssumption ==
    /\ MaxVersion \in Nat \ {0}
    /\ Major \in [Versions -> Nat]
    /\ Minor \in [Versions -> Nat]
    /\ Policies \subseteq PolicyType
    /\ Absent \notin Versions /\ Torn \notin Versions /\ Absent # Torn
    /\ Unpinned \notin Versions
    /\ MaxFaults \in Nat
    /\ Overlap \in BOOLEAN

VARIABLES
    behaviour,  \* "ok", "sick" (never healthy) or "dead" (exits while starting)
    policy,     \* VersionConstraints
    feed,       \* the first complete release of the feed
    binary, backup, marker,     \* the files
    running,    \* the version the process was built from, Absent when down
    updater,    \* where the checking goroutine is
    candidate,  \* the release it downloads
    copied,     \* what it read from the binary to back it up
    checker,    \* where the health-check goroutine is
    verified,   \* history: the versions that passed a health check
    faults      \* bound: failures so far

files == <<binary, backup, marker>>
checking == <<updater, candidate, copied>>
world == <<behaviour, policy, feed>>
vars == <<world, files, running, checking, checker, verified, faults>>

UpdaterStates == {"idle", "checking", "downloading", "backup", "copying",
                  "mark", "replace", "exit"}
CheckerStates == {"none", "probing", "commit", "unmarked", "rollback", "restore",
                  "restored", "exit", "failed"}

Init ==
    /\ behaviour \in {b \in [Versions -> Behaviours] : b[1] = "ok"}
    /\ policy \in Policies
    /\ feed = 1
    /\ binary = 1 /\ backup = Absent /\ marker = FALSE
    /\ running = Absent
    /\ updater = "idle" /\ candidate = 1 /\ copied = 1
    /\ checker = "none"
    /\ verified = {1}
    /\ faults = 0

Fails(kind) == /\ kind \in Faults
               /\ faults < MaxFaults
               /\ faults' = faults + 1

(***************************************************************************)
(* A release appears.  GetLatestRelease takes the first complete entry of  *)
(* the feed, which is the newest one and not always the highest.           *)
(***************************************************************************)
Publish ==
    /\ feed' \in Versions \ {feed}
    /\ UNCHANGED <<behaviour, policy, files, running, checking, checker, verified, faults>>

ShouldUpdate(current, new) ==
    IF policy.pinned # Unpinned
    THEN new = policy.pinned /\ new # current
    ELSE /\ new > current
         /\ new >= policy.min /\ new <= policy.max
         /\ Major[new] > Major[current] => policy.major
         /\ Major[new] = Major[current] /\ Minor[new] > Minor[current] => policy.minor

-------------------------------------------------------------------------------
(* The process: systemd starts what is on disk; main starts both goroutines. *)

(* Mutant of Start: a pending update is not looked for. *)
StartUnchecked ==
    /\ running = Absent
    /\ binary \in Versions
    /\ behaviour[binary] # "dead"
    /\ running' = binary
    /\ updater' = "checking"
    /\ checker' = "none"
    /\ UNCHANGED <<world, files, candidate, copied, verified, faults>>

Start ==
    /\ running = Absent
    /\ binary \in Versions
    /\ behaviour[binary] # "dead"
    /\ running' = binary
    /\ updater' = "checking"
    /\ checker' = IF marker THEN "probing" ELSE "none"
    /\ UNCHANGED <<world, files, candidate, copied, verified, faults>>

Stopped == running' = Absent /\ updater' = "idle" /\ checker' = "none"

Crash ==
    /\ running # Absent
    /\ Fails("crash")
    /\ Stopped
    /\ UNCHANGED <<world, files, candidate, copied, verified>>

-------------------------------------------------------------------------------
(* The updater goroutine. *)

Tick ==
    /\ running # Absent
    /\ updater = "idle"
    /\ updater' = "checking"
    /\ UNCHANGED <<world, files, running, candidate, copied, checker, verified, faults>>

GiveUp(kind) == Fails(kind) /\ updater' = "idle" /\ UNCHANGED candidate

CheckForUpdate ==
    /\ updater = "checking"
    /\ \/ /\ ShouldUpdate(running, feed)
          /\ updater' = "downloading"
          /\ candidate' = feed
          /\ UNCHANGED faults
       \/ /\ ~ShouldUpdate(running, feed)
          /\ updater' = "idle"
          /\ UNCHANGED <<candidate, faults>>
       \/ GiveUp("feed")
    /\ UNCHANGED <<world, files, running, copied, checker, verified>>

(* Download, checksum, signature and extraction touch nothing shared.  The *)
(* code has no guard here.  Overlap = FALSE assumes that no install starts  *)
(* before the last one is settled: committed, rolled back or, if it failed  *)
(* after writing the marker, resolved by a restart.                         *)
Settled == ~marker /\ checker \in {"none", "failed"}

Download ==
    /\ updater = "downloading"
    /\ \/ /\ Overlap \/ Settled
          /\ updater' = "backup"
          /\ UNCHANGED <<candidate, faults>>
       \/ GiveUp("feed")
    /\ UNCHANGED <<world, files, running, copied, checker, verified>>

(* copyFile reads the binary, truncates the backup and writes it. *)
Backup ==
    /\ updater = "backup"
    /\ \/ /\ updater' = "copying"
          /\ copied' = binary
          /\ backup' = Torn
          /\ UNCHANGED <<candidate, faults>>
       \/ GiveUp("disk") /\ UNCHANGED <<copied, backup>>
    /\ UNCHANGED <<world, binary, marker, running, checker, verified>>

(* Mutant of Written: the backup is taken from the download. *)
WrittenFromDownload(file) == IF file = Torn THEN candidate ELSE file

(* The write goes to the open file, which a rollback may have renamed and a *)
(* commit removed meanwhile.                                                *)
Written(file) == IF file = Torn THEN copied ELSE file

BackupDone ==
    /\ updater = "copying"
    /\ \/ /\ updater' = "mark"
          /\ backup' = Written(backup)
          /\ binary' = Written(binary)
          /\ UNCHANGED <<candidate, faults>>
       \/ GiveUp("disk") /\ UNCHANGED <<backup, binary>>
    /\ UNCHANGED <<world, marker, running, copied, checker, verified>>

Mark ==
    /\ updater = "mark"
    /\ \/ /\ updater' = "replace"
          /\ marker' = TRUE
          /\ UNCHANGED <<candidate, faults>>
       \/ GiveUp("disk") /\ UNCHANGED marker
    /\ UNCHANGED <<world, binary, backup, running, copied, checker, verified>>

(* The copy to binary.new and chmod are seen by nobody; the rename is atomic. *)
Replace ==
    /\ updater = "replace"
    /\ \/ /\ updater' = "exit"
          /\ binary' = candidate
          /\ UNCHANGED <<candidate, faults>>
       \/ GiveUp("disk") /\ UNCHANGED binary
    /\ UNCHANGED <<world, backup, marker, running, copied, checker, verified>>

ExitForRestart ==
    /\ updater = "exit"
    /\ Stopped
    /\ UNCHANGED <<world, files, candidate, copied, verified, faults>>

Install == Backup \/ BackupDone \/ Mark \/ Replace \/ ExitForRestart

-------------------------------------------------------------------------------
(* The health-check goroutine.  One that ends with an error is "failed".  *)
(* "slow": a version that works does not answer before the timeout.       *)

CheckHealth ==
    /\ checker = "probing"
    /\ \/ /\ behaviour[running] = "ok"
          /\ checker' = "commit"
          /\ verified' = verified \union {running}
          /\ UNCHANGED faults
       \/ /\ \/ behaviour[running] # "ok" /\ UNCHANGED faults
             \/ Fails("slow")
          /\ checker' = "rollback"
          /\ UNCHANGED verified
    /\ UNCHANGED <<world, files, running, checking>>

RemoveMarker ==
    /\ checker = "commit"
    /\ \/ checker' = "unmarked" /\ marker' = FALSE /\ UNCHANGED faults
       \/ checker' = "failed" /\ Fails("disk") /\ UNCHANGED marker
    /\ UNCHANGED <<world, binary, backup, running, checking, verified>>

RemoveBackup ==
    /\ checker = "unmarked"
    /\ \/ checker' = "none" /\ backup' = Absent /\ UNCHANGED faults
       \/ checker' = "failed" /\ Fails("disk") /\ UNCHANGED backup
    /\ UNCHANGED <<world, binary, marker, running, checking, verified>>

CommitUpdate == RemoveMarker \/ RemoveBackup

(* Mutant of FindBackup: the backup is not looked for. *)
FindNothing ==
    /\ checker = "rollback"
    /\ checker' = "restore"
    /\ UNCHANGED <<world, files, running, checking, verified, faults>>

(* Mutant of FindBackup: the marker goes before the backup is restored. *)
UnmarkFirst ==
    /\ checker = "rollback"
    /\ checker' = IF backup = Absent THEN "failed" ELSE "restore"
    /\ marker' = FALSE
    /\ UNCHANGED <<world, binary, backup, running, checking, verified, faults>>

FindBackup ==
    /\ checker = "rollback"
    /\ checker' = IF backup = Absent THEN "failed" ELSE "restore"
    /\ UNCHANGED <<world, files, running, checking, verified, faults>>

Restore ==
    /\ checker = "restore"
    /\ \/ /\ checker' = "restored"
          /\ binary' = backup
          /\ backup' = Absent
          /\ UNCHANGED faults
       \/ /\ Fails("disk")
          /\ checker' = "failed"
          /\ UNCHANGED <<binary, backup>>
    /\ UNCHANGED <<world, marker, running, checking, verified>>

(* The marker is removed on a best-effort basis. *)
Unmark ==
    /\ checker = "restored"
    /\ checker' = "exit"
    /\ \/ marker' = FALSE /\ UNCHANGED faults
       \/ Fails("disk") /\ UNCHANGED marker
    /\ UNCHANGED <<world, binary, backup, running, checking, verified>>

ExitRolledBack ==
    /\ checker = "exit"
    /\ Stopped
    /\ UNCHANGED <<world, files, candidate, copied, verified, faults>>

Rollback == FindBackup \/ Restore \/ Unmark \/ ExitRolledBack

HealthCheck == CheckHealth \/ CommitUpdate \/ Rollback

Next == \/ Publish \/ Start \/ Crash
        \/ Tick \/ CheckForUpdate \/ Download \/ Install
        \/ HealthCheck

Spec == Init /\ [][Next]_vars

(***************************************************************************)
(* systemd has Restart=always, and a goroutine that can run does.          *)
(***************************************************************************)
FairSpec == Spec /\ WF_vars(Start) /\ WF_vars(HealthCheck) /\ WF_vars(Install)

-------------------------------------------------------------------------------
(* Type invariant: the binary on disk is always a complete one. *)
TypeOK ==
    /\ behaviour \in [Versions -> Behaviours]
    /\ policy \in Policies
    /\ feed \in Versions /\ candidate \in Versions /\ copied \in Versions
    /\ binary \in Versions /\ backup \in Files /\ marker \in BOOLEAN
    /\ running \in Versions \union {Absent}
    /\ updater \in UpdaterStates /\ checker \in CheckerStates
    /\ verified \subseteq Versions
    /\ faults \in 0 .. MaxFaults

(***************************************************************************)
(* An unverified binary always has the marker that makes its next start    *)
(* verify it and a backup that was verified to go back to, whatever        *)
(* crashed or failed in the middle of an install, a commit or a rollback.  *)
(***************************************************************************)
FallbackReady == binary \notin verified => marker /\ backup \in verified

(***************************************************************************)
(* "New version will be verified on startup" (updater/installer.go:97).    *)
(***************************************************************************)
WillBeVerified == binary \notin verified => marker

(***************************************************************************)
(* Installs and rollbacks only move between versions as SafeUpdate allows. *)
(***************************************************************************)
Abstract == INSTANCE SafeUpdate
              WITH First <- 1, installed <- binary, trusted <- verified

SafeUpdates == Abstract!Spec

(***************************************************************************)
(* An update is settled: the version that was installed is committed or    *)
(* replaced by the one before, unless the file system refuses (the health  *)
(* check ends with an error) or the version dies before its health check.  *)
(***************************************************************************)
UpdatesSettle ==
    binary \notin verified /\ behaviour[binary] # "dead"
        ~> binary \in verified \/ checker = "failed"

===============================================================================
