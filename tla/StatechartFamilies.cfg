CONSTANTS
  Charts <- AllCharts
  ChildIds = {"x","y","z"}
  StepLimit = 10
SPECIFICATION WitnessedSpec
INVARIANTS
  TypeOK
  LegalConfiguration
  ConflictsResolved
  HistoryIsLastExit
  HistoryRestored
  TimersFollowConfig
  ChildrenFollowConfig
  DoneIsComplete
  CompletionAnnounced
  RestsStable
  MatchesIsActive
PROPERTIES
  RestartKeepsState
  MacrostepEnds
  OnlyLoopsHitTheLimit
  ImplementsLifecycle
CHECK_DEADLOCK FALSE
