SPECIFICATION FairSpec
CONSTANTS
    Containers = {c1}
    Digests = {d1}
    PodImages <- MCPodImages
    NoContainer = NoContainer
    NoDigest = NoDigest
    Configs <- ReapConfigs
    MaxVersion = 1
    MaxQueue = 1
    MaxFaults = 2
    MaxChurn = 1
PROPERTIES FailedIsRetried
CHECK_DEADLOCK FALSE
