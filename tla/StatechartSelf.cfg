CONSTANTS
  Charts <- SelfCharts
  ChildIds = {"x"}
  StepLimit = 10
SPECIFICATION WitnessedSpec
INVARIANT InternalKeepsSource
CHECK_DEADLOCK FALSE
