-------------------------- MODULE AgentUpdateProofs --------------------------
(***************************************************************************)
(* Proofs about the agent's self-update, for any releases, any policy and  *)
(* any number of failures, as long as no install starts while an update is *)
(* pending (Overlap = FALSE).                                              *)
(***************************************************************************)
EXTENDS AgentUpdate, TLAPS

Installing == {"backup", "copying", "mark", "replace"}

Idle == {"none", "failed"}

(* What the process knows of the files while it lives. *)
RunningInv ==
    /\ running = Absent => updater = "idle" /\ checker = "none"
    /\ running # Absent /\ checker \notin {"restored", "exit"} /\ updater # "exit"
           => running = binary

(* An install runs alone, over a verified binary. *)
InstallInv ==
    /\ updater \in Installing \union {"exit"} => checker \in Idle
    /\ updater \in Installing => binary \in verified
    /\ updater \in {"backup", "copying", "mark"} => ~marker
    /\ updater = "copying" => copied \in verified /\ backup = Torn
    /\ updater \in {"mark", "replace"} => backup \in verified
    /\ updater = "replace" => marker

(* A health check leaves the fallback alone until the binary is verified. *)
CheckInv ==
    /\ checker \in {"commit", "unmarked", "restored", "exit"} => binary \in verified
    /\ checker \in {"probing", "rollback", "restore"} => marker
    /\ checker = "restore" => backup \in verified
    /\ marker => backup \in verified \union {Absent}

UpdateInv == TypeOK /\ FallbackReady /\ RunningInv /\ InstallInv /\ CheckInv

-------------------------------------------------------------------------------
(* Initially the binary is the verified one and nothing runs. *)
LEMMA InitInv == Init => UpdateInv
<1> SUFFICES ASSUME Init PROVE UpdateInv
  OBVIOUS
<1> USE UpdateAssumption DEF Init
<1>1. 1 \in Versions /\ 0 \in 0 .. MaxFaults
  BY DEF Versions
<1>2. behaviour \in [Versions -> Behaviours]
  OBVIOUS
<1>3. TypeOK
  BY <1>1, <1>2 DEF TypeOK, Files, UpdaterStates, CheckerStates
<1>4. FallbackReady /\ RunningInv
  BY DEF FallbackReady, RunningInv
<1>5. InstallInv /\ CheckInv
  BY DEF InstallInv, CheckInv, Installing
<1> QED
  BY <1>3, <1>4, <1>5 DEF UpdateInv

(***************************************************************************)
(* No step of the updater, of the health check, of systemd or of a crash   *)
(* breaks the invariant when installs do not overlap a pending update.     *)
(***************************************************************************)
LEMMA StepInv ==
  ASSUME ~Overlap, UpdateInv, [Next]_vars
  PROVE  UpdateInv'
<1> USE UpdateAssumption
    DEF UpdateInv, Files, UpdaterStates, CheckerStates, Installing, Idle,
        world, files, checking
<1>1. CASE Publish
  <2> USE <1>1 DEF Publish
  <2>1. TypeOK'
    BY DEF TypeOK, RunningInv, InstallInv, CheckInv
  <2>2. FallbackReady'
    BY DEF FallbackReady, RunningInv, InstallInv, CheckInv
  <2>3. RunningInv'
    BY DEF TypeOK, RunningInv, InstallInv, CheckInv
  <2>4. InstallInv'
    BY DEF TypeOK, FallbackReady, RunningInv, InstallInv, CheckInv
  <2>5. CheckInv'
    BY DEF TypeOK, FallbackReady, RunningInv, InstallInv, CheckInv
  <2> QED
    BY <2>1, <2>2, <2>3, <2>4, <2>5
<1>2. CASE Start
  <2> USE <1>2 DEF Start
  <2>1. TypeOK'
    BY DEF TypeOK, RunningInv, InstallInv, CheckInv
  <2>2. FallbackReady'
    BY DEF FallbackReady, RunningInv, InstallInv, CheckInv
  <2>3. RunningInv'
    BY DEF TypeOK, RunningInv, InstallInv, CheckInv
  <2>4. InstallInv'
    BY DEF TypeOK, FallbackReady, RunningInv, InstallInv, CheckInv
  <2>5. CheckInv'
    BY DEF TypeOK, FallbackReady, RunningInv, InstallInv, CheckInv
  <2> QED
    BY <2>1, <2>2, <2>3, <2>4, <2>5
<1>3. CASE Crash
  <2> USE <1>3 DEF Crash, Stopped, Fails
  <2>1. TypeOK'
    BY DEF TypeOK, RunningInv, InstallInv, CheckInv
  <2>2. FallbackReady'
    BY DEF FallbackReady, RunningInv, InstallInv, CheckInv
  <2>3. RunningInv'
    BY DEF TypeOK, RunningInv, InstallInv, CheckInv
  <2>4. InstallInv'
    BY DEF TypeOK, FallbackReady, RunningInv, InstallInv, CheckInv
  <2>5. CheckInv'
    BY DEF TypeOK, FallbackReady, RunningInv, InstallInv, CheckInv
  <2> QED
    BY <2>1, <2>2, <2>3, <2>4, <2>5
<1>4. CASE Tick
  <2> USE <1>4 DEF Tick
  <2>1. TypeOK'
    BY DEF TypeOK, RunningInv, InstallInv, CheckInv
  <2>2. FallbackReady'
    BY DEF FallbackReady, RunningInv, InstallInv, CheckInv
  <2>3. RunningInv'
    BY DEF TypeOK, RunningInv, InstallInv, CheckInv
  <2>4. InstallInv'
    BY DEF TypeOK, FallbackReady, RunningInv, InstallInv, CheckInv
  <2>5. CheckInv'
    BY DEF TypeOK, FallbackReady, RunningInv, InstallInv, CheckInv
  <2> QED
    BY <2>1, <2>2, <2>3, <2>4, <2>5
<1>5. CASE CheckForUpdate
  <2> USE <1>5 DEF CheckForUpdate, GiveUp, Fails
  <2>1. TypeOK'
    BY DEF TypeOK, RunningInv, InstallInv, CheckInv
  <2>2. FallbackReady'
    BY DEF FallbackReady, RunningInv, InstallInv, CheckInv
  <2>3. RunningInv'
    BY DEF TypeOK, RunningInv, InstallInv, CheckInv
  <2>4. InstallInv'
    BY DEF TypeOK, FallbackReady, RunningInv, InstallInv, CheckInv
  <2>5. CheckInv'
    BY DEF TypeOK, FallbackReady, RunningInv, InstallInv, CheckInv
  <2> QED
    BY <2>1, <2>2, <2>3, <2>4, <2>5
<1>6. CASE Download
  <2> USE <1>6 DEF Download, Settled, GiveUp, Fails
  <2>1. TypeOK'
    BY DEF TypeOK, RunningInv, InstallInv, CheckInv
  <2>2. FallbackReady'
    BY DEF FallbackReady, RunningInv, InstallInv, CheckInv
  <2>3. RunningInv'
    BY DEF TypeOK, RunningInv, InstallInv, CheckInv
  <2>4. InstallInv'
    BY DEF TypeOK, FallbackReady, RunningInv, InstallInv, CheckInv
  <2>5. CheckInv'
    BY DEF TypeOK, FallbackReady, RunningInv, InstallInv, CheckInv
  <2> QED
    BY <2>1, <2>2, <2>3, <2>4, <2>5
<1>7. CASE Backup
  <2> USE <1>7 DEF Backup, GiveUp, Fails
  <2>1. TypeOK'
    BY DEF TypeOK, RunningInv, InstallInv, CheckInv
  <2>2. FallbackReady'
    BY DEF FallbackReady, RunningInv, InstallInv, CheckInv
  <2>3. RunningInv'
    BY DEF TypeOK, RunningInv, InstallInv, CheckInv
  <2>4. InstallInv'
    BY DEF TypeOK, FallbackReady, RunningInv, InstallInv, CheckInv
  <2>5. CheckInv'
    BY DEF TypeOK, FallbackReady, RunningInv, InstallInv, CheckInv
  <2> QED
    BY <2>1, <2>2, <2>3, <2>4, <2>5
<1>8. CASE BackupDone
  <2> USE <1>8 DEF BackupDone, Written, GiveUp, Fails
  <2>1. TypeOK'
    BY DEF TypeOK, RunningInv, InstallInv, CheckInv
  <2>2. FallbackReady'
    BY DEF FallbackReady, RunningInv, InstallInv, CheckInv
  <2>3. RunningInv'
    BY DEF TypeOK, RunningInv, InstallInv, CheckInv
  <2>4. InstallInv'
    BY DEF TypeOK, FallbackReady, RunningInv, InstallInv, CheckInv
  <2>5. CheckInv'
    BY DEF TypeOK, FallbackReady, RunningInv, InstallInv, CheckInv
  <2> QED
    BY <2>1, <2>2, <2>3, <2>4, <2>5
<1>9. CASE Mark
  <2> USE <1>9 DEF Mark, GiveUp, Fails
  <2>0. marker' \in BOOLEAN
    BY DEF TypeOK
  <2>1. TypeOK'
    BY <2>0 DEF TypeOK, RunningInv, InstallInv, CheckInv
  <2>2. FallbackReady'
    BY DEF FallbackReady, RunningInv, InstallInv, CheckInv
  <2>3. RunningInv'
    BY DEF TypeOK, RunningInv, InstallInv, CheckInv
  <2>4. InstallInv'
    BY DEF TypeOK, FallbackReady, RunningInv, InstallInv, CheckInv
  <2>5. CheckInv'
    BY DEF TypeOK, FallbackReady, RunningInv, InstallInv, CheckInv
  <2> QED
    BY <2>1, <2>2, <2>3, <2>4, <2>5
<1>10. CASE Replace
  <2> USE <1>10 DEF Replace, GiveUp, Fails
  <2>1. TypeOK'
    BY DEF TypeOK, RunningInv, InstallInv, CheckInv
  <2>2. FallbackReady'
    BY DEF FallbackReady, RunningInv, InstallInv, CheckInv
  <2>3. RunningInv'
    BY DEF TypeOK, RunningInv, InstallInv, CheckInv
  <2>4. InstallInv'
    BY DEF TypeOK, FallbackReady, RunningInv, InstallInv, CheckInv
  <2>5. CheckInv'
    BY DEF TypeOK, FallbackReady, RunningInv, InstallInv, CheckInv
  <2> QED
    BY <2>1, <2>2, <2>3, <2>4, <2>5
<1>11. CASE ExitForRestart
  <2> USE <1>11 DEF ExitForRestart, Stopped
  <2>1. TypeOK'
    BY DEF TypeOK, RunningInv, InstallInv, CheckInv
  <2>2. FallbackReady'
    BY DEF FallbackReady, RunningInv, InstallInv, CheckInv
  <2>3. RunningInv'
    BY DEF TypeOK, RunningInv, InstallInv, CheckInv
  <2>4. InstallInv'
    BY DEF TypeOK, FallbackReady, RunningInv, InstallInv, CheckInv
  <2>5. CheckInv'
    BY DEF TypeOK, FallbackReady, RunningInv, InstallInv, CheckInv
  <2> QED
    BY <2>1, <2>2, <2>3, <2>4, <2>5
<1>12. CASE CheckHealth
  <2> USE <1>12 DEF CheckHealth, Fails
  <2>1. TypeOK'
    BY DEF TypeOK, RunningInv, InstallInv, CheckInv
  <2>2. FallbackReady'
    BY DEF FallbackReady, RunningInv, InstallInv, CheckInv
  <2>3. RunningInv'
    BY DEF TypeOK, RunningInv, InstallInv, CheckInv
  <2>4. InstallInv'
    BY DEF TypeOK, FallbackReady, RunningInv, InstallInv, CheckInv
  <2>5. CheckInv'
    BY DEF TypeOK, FallbackReady, RunningInv, InstallInv, CheckInv
  <2> QED
    BY <2>1, <2>2, <2>3, <2>4, <2>5
<1>13. CASE RemoveMarker
  <2> USE <1>13 DEF RemoveMarker, Fails
  <2>0. marker' \in BOOLEAN
    BY DEF TypeOK
  <2>1. TypeOK'
    BY <2>0 DEF TypeOK, RunningInv, InstallInv, CheckInv
  <2>2. FallbackReady'
    BY DEF FallbackReady, RunningInv, InstallInv, CheckInv
  <2>3. RunningInv'
    BY DEF TypeOK, RunningInv, InstallInv, CheckInv
  <2>4. InstallInv'
    BY DEF TypeOK, FallbackReady, RunningInv, InstallInv, CheckInv
  <2>5. CheckInv'
    BY DEF TypeOK, FallbackReady, RunningInv, InstallInv, CheckInv
  <2> QED
    BY <2>1, <2>2, <2>3, <2>4, <2>5
<1>14. CASE RemoveBackup
  <2> USE <1>14 DEF RemoveBackup, Fails
  <2>1. TypeOK'
    BY DEF TypeOK, RunningInv, InstallInv, CheckInv
  <2>2. FallbackReady'
    BY DEF FallbackReady, RunningInv, InstallInv, CheckInv
  <2>3. RunningInv'
    BY DEF TypeOK, RunningInv, InstallInv, CheckInv
  <2>4. InstallInv'
    BY DEF TypeOK, FallbackReady, RunningInv, InstallInv, CheckInv
  <2>5. CheckInv'
    BY DEF TypeOK, FallbackReady, RunningInv, InstallInv, CheckInv
  <2> QED
    BY <2>1, <2>2, <2>3, <2>4, <2>5
<1>15. CASE FindBackup
  <2> USE <1>15 DEF FindBackup
  <2>1. TypeOK'
    BY DEF TypeOK, RunningInv, InstallInv, CheckInv
  <2>2. FallbackReady'
    BY DEF FallbackReady, RunningInv, InstallInv, CheckInv
  <2>3. RunningInv'
    BY DEF TypeOK, RunningInv, InstallInv, CheckInv
  <2>4. InstallInv'
    BY DEF TypeOK, FallbackReady, RunningInv, InstallInv, CheckInv
  <2>5. CheckInv'
    BY DEF TypeOK, FallbackReady, RunningInv, InstallInv, CheckInv
  <2> QED
    BY <2>1, <2>2, <2>3, <2>4, <2>5
<1>16. CASE Restore
  <2> USE <1>16 DEF Restore, Fails
  <2>1. TypeOK'
    BY DEF TypeOK, RunningInv, InstallInv, CheckInv
  <2>2. FallbackReady'
    BY DEF FallbackReady, RunningInv, InstallInv, CheckInv
  <2>3. RunningInv'
    BY DEF TypeOK, RunningInv, InstallInv, CheckInv
  <2>4. InstallInv'
    BY DEF TypeOK, FallbackReady, RunningInv, InstallInv, CheckInv
  <2>5. CheckInv'
    BY DEF TypeOK, FallbackReady, RunningInv, InstallInv, CheckInv
  <2> QED
    BY <2>1, <2>2, <2>3, <2>4, <2>5
<1>17. CASE Unmark
  <2> USE <1>17 DEF Unmark, Fails
  <2>0. marker' \in BOOLEAN
    BY DEF TypeOK
  <2>1. TypeOK'
    BY <2>0 DEF TypeOK, RunningInv, InstallInv, CheckInv
  <2>2. FallbackReady'
    BY DEF FallbackReady, RunningInv, InstallInv, CheckInv
  <2>3. RunningInv'
    BY DEF TypeOK, RunningInv, InstallInv, CheckInv
  <2>4. InstallInv'
    BY DEF TypeOK, FallbackReady, RunningInv, InstallInv, CheckInv
  <2>5. CheckInv'
    BY DEF TypeOK, FallbackReady, RunningInv, InstallInv, CheckInv
  <2> QED
    BY <2>1, <2>2, <2>3, <2>4, <2>5
<1>18. CASE ExitRolledBack
  <2> USE <1>18 DEF ExitRolledBack, Stopped
  <2>1. TypeOK'
    BY DEF TypeOK, RunningInv, InstallInv, CheckInv
  <2>2. FallbackReady'
    BY DEF FallbackReady, RunningInv, InstallInv, CheckInv
  <2>3. RunningInv'
    BY DEF TypeOK, RunningInv, InstallInv, CheckInv
  <2>4. InstallInv'
    BY DEF TypeOK, FallbackReady, RunningInv, InstallInv, CheckInv
  <2>5. CheckInv'
    BY DEF TypeOK, FallbackReady, RunningInv, InstallInv, CheckInv
  <2> QED
    BY <2>1, <2>2, <2>3, <2>4, <2>5
<1>19. CASE UNCHANGED vars
  BY <1>19 DEF vars, TypeOK, FallbackReady, RunningInv, InstallInv, CheckInv
<1> QED
  BY <1>1, <1>2, <1>3, <1>4, <1>5, <1>6, <1>7, <1>8, <1>9, <1>10, <1>11, <1>12, <1>13, <1>14, <1>15, <1>16, <1>17, <1>18, <1>19
     DEF Next, Install, HealthCheck, CommitUpdate, Rollback

(***************************************************************************)
(* For any releases and failures: the agent's files keep the invariant.    *)
(***************************************************************************)
THEOREM UpdateInvariant == ~Overlap => (Spec => []UpdateInv)
<1> SUFFICES ASSUME ~Overlap PROVE Spec => []UpdateInv
  OBVIOUS
<1>1. UpdateInv /\ [Next]_vars => UpdateInv'
  BY StepInv
<1> QED BY InitInv, <1>1, PTL DEF Spec

(***************************************************************************)
(* The files have their types; above all, the binary that systemd starts   *)
(* is never missing or half written.                                       *)
(***************************************************************************)
THEOREM UpdateTypeCorrect == ~Overlap => (Spec => []TypeOK)
  BY UpdateInvariant, PTL DEF UpdateInv

(***************************************************************************)
(* At every moment, also in the middle of an install or a rollback that a  *)
(* crash cuts short, an unverified binary has the marker that makes the    *)
(* next process verify it and a verified backup to go back to.             *)
(***************************************************************************)
THEOREM FallbackAlwaysReady == ~Overlap => (Spec => []FallbackReady)
  BY UpdateInvariant, PTL DEF UpdateInv

(***************************************************************************)
(* Every step of the updater is one SafeUpdate allows: installs happen     *)
(* over verified binaries only, and an unverified one is only replaced by  *)
(* a verified one.                                                         *)
(***************************************************************************)
THEOREM UpdatesAreSafe == ~Overlap => (Spec => SafeUpdates)
<1> SUFFICES ASSUME ~Overlap PROVE Spec => SafeUpdates
  OBVIOUS
<1>1. Init => Abstract!Init
  BY DEF Init, Abstract!Init
<1>2. ASSUME UpdateInv, [Next]_vars
      PROVE  [Abstract!Next]_(Abstract!vars)
  <2> USE <1>2 DEF UpdateInv, Abstract!vars, files, checking, world
  <2>1. CASE Replace
    <3>1. UNCHANGED verified /\ binary \in verified
      BY <2>1 DEF Replace, InstallInv, Installing
    <3>2. binary' \in Versions
      BY <2>1 DEF Replace, TypeOK
    <3> QED
      BY <3>1, <3>2 DEF Abstract!Next, Abstract!Install
  <2>2. CASE CheckHealth
    <3>1. UNCHANGED binary /\ running = binary
      BY <2>2, UpdateAssumption DEF CheckHealth, RunningInv, InstallInv, Idle
    <3>2. UNCHANGED verified \/ verified' = verified \union {binary}
      BY <2>2, <3>1 DEF CheckHealth
    <3> QED
      BY <3>1, <3>2 DEF Abstract!Next, Abstract!Trust
  <2>3. CASE Restore
    <3>1. UNCHANGED verified
      BY <2>3 DEF Restore
    <3>2. UNCHANGED binary \/ binary' \in verified
      BY <2>3 DEF Restore, CheckInv
    <3>3. verified \subseteq Versions
      BY DEF TypeOK
    <3> QED
      BY <3>1, <3>2, <3>3 DEF Abstract!Next, Abstract!Install, Abstract!Rollback
  <2>4. CASE BackupDone
    <3>1. binary \in Versions /\ Torn \notin Versions
      BY UpdateAssumption DEF TypeOK
    <3> QED
      BY <2>4, <3>1 DEF BackupDone, Written
  <2>5. CASE \/ Publish \/ Start \/ Crash \/ Tick \/ CheckForUpdate \/ Download
             \/ Backup \/ Mark \/ ExitForRestart
             \/ CommitUpdate \/ FindBackup \/ Unmark \/ ExitRolledBack
    BY <2>5 DEF Publish, Start, Crash, Tick, CheckForUpdate, Download, Backup, Mark,
                ExitForRestart, CommitUpdate, RemoveMarker, RemoveBackup, FindBackup,
                Unmark, ExitRolledBack
  <2>6. CASE UNCHANGED vars
    BY <2>6 DEF vars
  <2> QED
    BY <2>1, <2>2, <2>3, <2>4, <2>5, <2>6 DEF Next, Install, HealthCheck, Rollback
<1> QED
  BY <1>1, <1>2, UpdateInvariant, PTL DEF Spec, SafeUpdates, Abstract!Spec
==============================================================================
