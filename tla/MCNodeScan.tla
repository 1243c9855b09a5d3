----------------------------- MODULE MCNodeScan -----------------------------
(* The configurations of NodeScan that TLC checks.                         *)
EXTENDS NodeScan

\* Everything may go wrong.
AllFaults == FaultKinds

\* Nothing but a crash.
CrashOnly == {"crash"}
=============================================================================
