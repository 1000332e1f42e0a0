CONSTANTS
    MaxSignals = 3
    MaxLines = 2
    NoCode = NoCode
SPECIFICATION FairSpec
CHECK_DEADLOCK FALSE
INVARIANTS
    TypeOK
    CodeIsExecutors
    LogIsShown
    SignalsEscalate
PROPERTIES
    ContainerEndsWithExecutor
    SignalEndsContainer
