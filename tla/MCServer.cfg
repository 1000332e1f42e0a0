CONSTANTS
    c1 = c1
    c2 = c2
    c3 = c3
    NoClient = NoClient
    Clients <- ThreeClients
    MaxExecutors = 3
    TimeoutEnabled = TRUE
    ZeroTimeout = FALSE
    Daemon = FALSE
    MayDie = TRUE
    LateExit = TRUE
SPECIFICATION TimeoutSpec
CHECK_DEADLOCK FALSE
INVARIANTS
    TypeOK
    OneJobEach
    DeliveredOnce
    NobodyLeftBehind
    GivenIsHeld
PROPERTIES
    EveryClientReleased
    ServerTimesOut
    NoOrphans
    KeepsContract
