SPECIFICATION Spec
CONSTANTS
    Containers = {c1}
    Digests = {d1}
    PodImages <- MCPodImages
    NoContainer = NoContainer
    NoDigest = NoDigest
    Configs <- CrashConfigs
    MaxVersion = 2
    MaxQueue = 1
    MaxFaults = 1
    MaxChurn = 1
CHECK_DEADLOCK FALSE
INVARIANTS ClaimMatchesReport
