-------------------------- MODULE MCContainerStore --------------------------
(* The configurations of ContainerStore that TLC checks.                   *)
EXTENDS ContainerStore, TLC

\* The cleanup job on and off, every write and the process may fail.
MCConfigs == [cleanup : BOOLEAN, faults : {{"write", "crash"}}]
\* c1 and c2 share d1; only c1 can be restarted with d2.
CONSTANTS c1, c2, d1, d2
MCPodImages == (c1 :> {d1, d2}) @@ (c2 :> {d1})
=============================================================================
