SPECIFICATION Spec
CONSTANTS
  Machines <- Hasty
  ChildIds <- MCChildIds
  Objects <- MCObjects
  ExternalEvents = {"GO"}
  MaxQueue = 2
  MaxCrashes = 0
  StepLimit = 4
INVARIANTS
  TimersAreCancelled
CHECK_DEADLOCK FALSE
