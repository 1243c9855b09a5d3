\* Every configuration, two concurrent callers, Shutdown at any moment.
SPECIFICATION FairSpec
CONSTANTS
    Images = {i1}
    Nodes = {n1, n2}
    Producers = {p1, p2}
    Worker = worker
    Closer = closer
    Nobody = nobody
    Configs <- MCConfigs
    MaxCalls = 4
INVARIANTS TypeOK LanesBounded JobsConserved SleepsOnlyWhenEmpty
PROPERTIES EventuallyDrained BusyShutdownReturns TwoLanes
\* A queue with no job, no caller and no Shutdown rests.
CHECK_DEADLOCK FALSE
