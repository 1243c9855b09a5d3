\* The production queue (unbounded): does Shutdown always return?
SPECIFICATION FairSpec
CONSTANTS
    Images = {i1}
    Nodes = {n1}
    Producers = {p1}
    Worker = worker
    Closer = closer
    Nobody = nobody
    Configs <- ProductionConfig
    MaxCalls = 2
PROPERTIES ShutdownReturns
CHECK_DEADLOCK FALSE
