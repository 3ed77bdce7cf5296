SPECIFICATION FairSpec
CONSTANTS
    MaxActors = 4
    MaxTimers = 2
    MaxQueue = 2
    ChildIds = {"x", "y"}
    SendIds = {"t"}
    EventTypes = {"go"}
    Posted = {"go"}
    Behaviour <- Tidy
    ObserversThrow <- SomeThrow
INVARIANTS
    ClockMatchesTimers
    StartComesFirst
    ReportedOnce
    CompletionIsTold
    StoppedLeavesNothing
PROPERTIES
    ImplementsLifecycle
    StopReachesAll
CHECK_DEADLOCK FALSE
