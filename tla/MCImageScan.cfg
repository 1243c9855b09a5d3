\* Everything that can go wrong, once: a failed write, retrieval, scan or
\* check for updates, or a crash; the pod started and stopped or replaced.
SPECIFICATION Spec
CONSTANTS
    Containers = {c1}
    Digests = {d1}
    PodImages <- MCPodImages
    NoContainer = NoContainer
    NoDigest = NoDigest
    Configs <- MCConfigs
    MaxVersion = 2
    MaxQueue = 1
    MaxFaults = 1
    MaxChurn = 2
INVARIANTS TypeOK NeverNewerThanClaimed TransientOwned
PROPERTIES ResultsKept
CHECK_DEADLOCK FALSE
