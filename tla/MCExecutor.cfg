CONSTANTS
    j1 = j1
    j2 = j2
    j3 = j3
    NoJob = NoJob
    Jobs <- ThreeJobs
    Failing <- Nothing
    Malformed <- ThreeJobs
    IdleTimeoutEnabled = TRUE
    ServerIsInit = FALSE
    Terminal = TRUE
SPECIFICATION WaitedSpec
CHECK_DEADLOCK FALSE
INVARIANTS
    TypeOK
    NeverGivenSecondJob
    WatchesCurrentJob
    AbortJustified
    ClosedOnlyUnderAbandonedJob
PROPERTIES
    EveryClientReleased
    HungJobIsAbandoned
    KeepsContract
