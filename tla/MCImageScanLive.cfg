SPECIFICATION FairSpec
CONSTANTS
    Containers = {c1}
    Digests = {d1}
    PodImages <- MCPodImages
    NoContainer = NoContainer
    NoDigest = NoDigest
    Configs <- LiveConfigs
    MaxVersion = 2
    MaxQueue = 1
    MaxFaults = 1
    MaxChurn = 2
PROPERTIES EventuallyScanned
CHECK_DEADLOCK FALSE
