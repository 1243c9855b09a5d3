\* Everything that can go wrong, once, on one node that joins, changes, leaves
\* or comes back.
SPECIFICATION FairSpec
CONSTANTS
    Nodes = {n1}
    NoNode = NoNode
    Faults <- AllFaults
    RemoveAttempts = 1
    MaxVersion = 2
    MaxFaults = 1
    MaxChurn = 3
INVARIANTS TypeOK CompletedIsBacked TransientOwned
PROPERTIES NodesEventuallyScanned
CHECK_DEADLOCK FALSE
