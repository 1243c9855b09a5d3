SPECIFICATION LiveSpec
CONSTANTS
    Series = {s1}
    AtStart = {s1}
    MaxChanges = 2
    MaxTails = 2
    SendConcurrency = 1
    MaxFails = 1
INVARIANTS
    TypeOK
PROPERTIES
    SettlesOnFindings
    EndsBeforeForgotten
