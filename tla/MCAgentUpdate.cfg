\* Three releases, every policy, any four failures; releases far apart.
SPECIFICATION FairSpec
CONSTANTS
    MaxVersion = 3
    Major <- MCMajor
    Minor <- MCMinor
    Policies <- MCPolicies
    Unpinned = Unpinned
    Absent = Absent
    Torn = Torn
    Faults <- AllFaults
    MaxFaults = 4
    Overlap = FALSE
INVARIANTS TypeOK FallbackReady
PROPERTIES SafeUpdates UpdatesSettle
\* A version that dies at start leaves nothing running.
CHECK_DEADLOCK FALSE
