-------------------------- MODULE MCAgentContainers --------------------------
(* The configuration of AgentContainers that TLC checks.                   *)
EXTENDS AgentContainers

MCPodImages == [c \in Containers |-> Digests]
\* Docker, a write and the process may fail; the cleanup job on and off.
MCConfigs == [cleanup : BOOLEAN, faults : {{"write", "crash", "docker"}}]
=============================================================================
