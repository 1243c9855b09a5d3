\* The tail of one cycle overlaps the tail of the next one.
SPECIFICATION Spec
CONSTANTS
    Series = {s1}
    AtStart = {}
    MaxChanges = 3
    MaxTails = 2
    SendConcurrency = 1
    MaxFails = 1
INVARIANTS
    ActiveInBoth
