CONSTANTS
    j1 = j1
    j2 = j2
    j3 = j3
    NoJob = NoJob
    Jobs <- TwoJobs
    Failing <- FirstJob
    Malformed <- Nothing
    IdleTimeoutEnabled = TRUE
    ServerIsInit = FALSE
    Terminal = FALSE
SPECIFICATION Spec
CHECK_DEADLOCK FALSE
INVARIANTS
    SuccessMeansRan
