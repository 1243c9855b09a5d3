CONSTANTS
    MaxVersion = 4
    Major <- MCMajor
    Minor <- MCMinor
    Policies <- MCPolicies
    Unpinned = Unpinned
    HistoryMax = 3
    MaxFaults = 3
SPECIFICATION Spec
INVARIANTS
    TypeOK
    NeverSilent
PROPERTIES
    UpgradesSettle
