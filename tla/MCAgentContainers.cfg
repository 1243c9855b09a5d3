\* One name under which two images can run, three changes or signals, two failures.
SPECIFICATION AgentFairSpec
CONSTANTS
    Containers = {c1}
    Digests = {d1, d2}
    PodImages <- MCPodImages
    NoContainer = NoContainer
    NoDigest = NoDigest
    Configs <- MCConfigs
    MaxFaults = 2
    MaxChurn = 3
    MaxEvents = 3
INVARIANTS AgentTypeOK
PROPERTIES AgentConverges
