\* Nothing fails; a release is published while the last one is pending.
SPECIFICATION Spec
CONSTANTS
    MaxVersion = 3
    Major <- MCMajor
    Minor <- MCMinor
    Policies <- MCPolicies
    Unpinned = Unpinned
    Absent = Absent
    Torn = Torn
    Faults = {}
    MaxFaults = 0
    Overlap = TRUE
INVARIANTS WillBeVerified
CHECK_DEADLOCK FALSE
