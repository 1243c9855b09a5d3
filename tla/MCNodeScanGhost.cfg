\* A node deleted while the server is down.
SPECIFICATION FairSpec
CONSTANTS
    Nodes = {n1}
    NoNode = NoNode
    Faults <- CrashOnly
    RemoveAttempts = 1
    MaxVersion = 2
    MaxFaults = 1
    MaxChurn = 2
PROPERTIES RowsAreNodes
CHECK_DEADLOCK FALSE
