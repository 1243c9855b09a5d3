\* Becoming ready closes the wait channel a second time.
SPECIFICATION Spec
CONSTANTS
    Jobs <- MCJobs
    MaxGoroutines = 2
    MaxManual = 0
    MaxVersion = 1
    MaxUpsets = 1
INVARIANTS
    ClosedOnce
CHECK_DEADLOCK FALSE
