SPECIFICATION FairSpec
CONSTANTS
  Machines <- Patient
  ChildIds <- MCChildIds
  Objects <- MCObjects
  ExternalEvents = {"GO"}
  MaxQueue = 2
  MaxCrashes = 2
  StepLimit = 4
INVARIANTS
  CompletionArrives
  ChildrenAreOwned
PROPERTIES
  DelayedStatesAreLeft
CHECK_DEADLOCK FALSE
