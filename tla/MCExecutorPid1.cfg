CONSTANTS
    j1 = j1
    j2 = j2
    j3 = j3
    NoJob = NoJob
    Jobs <- TwoJobs
    Failing <- TwoJobs
    Malformed <- TwoJobs
    IdleTimeoutEnabled = TRUE
    ServerIsInit = TRUE
    Terminal = TRUE
SPECIFICATION LiveSpec
CHECK_DEADLOCK FALSE
INVARIANTS
    FalseZeroHasCause
    NoMutualWait
PROPERTIES
    StopsWithServer
