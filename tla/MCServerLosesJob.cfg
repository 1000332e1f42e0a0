CONSTANTS
    c1 = c1
    c2 = c2
    c3 = c3
    NoClient = NoClient
    Clients <- TwoClients
    MaxExecutors = 3
    TimeoutEnabled = TRUE
    ZeroTimeout = TRUE
    Daemon = FALSE
    MayDie = FALSE
    LateExit = FALSE
SPECIFICATION Spec
CHECK_DEADLOCK FALSE
INVARIANTS
    GivenJobsAreProcessed
