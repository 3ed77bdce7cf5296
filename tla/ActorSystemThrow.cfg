SPECIFICATION FairSpec
CONSTANTS
    MaxActors = 3
    MaxTimers = 1
    MaxQueue = 2
    ChildIds = {"x", "y"}
    SendIds = {"t"}
    EventTypes = {"go"}
    Posted = {}
    Behaviour <- Tidy
    ObserversThrow <- StopThrows
PROPERTY StopReachesAll
CHECK_DEADLOCK FALSE
