SPECIFICATION LiveSpec
CONSTANTS
    Jobs <- MCJobs
    MaxGoroutines = 2
    MaxManual = 1
    MaxVersion = 2
    MaxUpsets = 1
INVARIANTS
    TypeOK
    OneTimerPerJob
PROPERTIES
    StopQuiesces
    SettlesOnLatest
\* A stopped scheduler does nothing more.
CHECK_DEADLOCK FALSE
