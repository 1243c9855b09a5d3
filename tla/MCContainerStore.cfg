\* Two containers that share an image, two changes of the cluster, one failure.
SPECIFICATION StoreFairSpec
CONSTANTS
    c1 = c1
    c2 = c2
    d1 = d1
    d2 = d2
    Containers = {c1, c2}
    Digests = {d1, d2}
    PodImages <- MCPodImages
    NoContainer = NoContainer
    NoDigest = NoDigest
    Configs <- MCConfigs
    MaxFaults = 1
    MaxChurn = 2
INVARIANTS StoreTypeOK ContainersHaveImages
PROPERTIES StoreConverges RunningAreRecorded
\* With no pod left the server waits for the next event.
CHECK_DEADLOCK FALSE
