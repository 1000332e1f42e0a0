CONSTANTS
    c1 = c1
    c2 = c2
    c3 = c3
    c4 = c4
    Clients <- FourClients
    TimeoutEnabled = TRUE
    ZeroTimeout = FALSE
SPECIFICATION FairSpec
CHECK_DEADLOCK FALSE
INVARIANTS
    OneServer
    StarterConnects
    QueueIsAttended
PROPERTIES
    EveryClientEnds
