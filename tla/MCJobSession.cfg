CONSTANTS
    j1 = j1
    j2 = j2
    j3 = j3
    d1 = d1
    d2 = d2
    threshold = threshold
    None = None
    Jobs <- AllJobs
    Requests <- SomeRequests
    Results <- SomeResults
    Descriptors <- TwoDescriptors
    Props <- OneProp
    ExecutorProps <- NoProps
    EnvOf <- SetByFirst
    DefaultsOf <- InBoth
    LevelOf <- LevelOfFirst
    ExecutorLevel = "INFO"
SPECIFICATION Spec
CHECK_DEADLOCK FALSE
INVARIANTS
    TypeOK
    RestoredBetweenJobs
    SeesOwnLevel
    LogsToOpenStream
    ClosedBeforeReply
    PropsAreOwn
    FaithfulResults
PROPERTIES
    ComponentSettled
