---------------------------- MODULE MCImageScan -----------------------------
(* The configurations of ImageScan that TLC checks.                        *)
EXTENDS ImageScan

MCPodImages == [c \in Containers |-> Digests]

\* Everything but the timestamp may go wrong, with the cleanup job on; and the cleanup job off
\* with a database that takes every write.
MCConfigs ==
    {[cleanup |-> TRUE, faults |-> FaultKinds \ {"stamp"}],
     [cleanup |-> FALSE, faults |-> FaultKinds \ {"write"}]}

\* For liveness: what EventuallyScanned is conditioned on.
LiveConfigs == {[cleanup |-> FALSE, faults |-> FaultKinds \ {"write"}]}

\* No cleanup; a failed retrieval and the failed write of its status.
ReapConfigs == {[cleanup |-> FALSE, faults |-> {"sbom", "write"}]}

\* No cleanup; nothing goes wrong.
QuietConfigs == {[cleanup |-> FALSE, faults |-> {}]}

\* No cleanup; nothing but a crash.
CrashConfigs == {[cleanup |-> FALSE, faults |-> {"crash"}]}
=============================================================================
