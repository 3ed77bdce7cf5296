CONSTANTS
  Charts <- NestedCharts
  ChildIds = {"x"}
  StepLimit = 10
SPECIFICATION WitnessedSpec
INVARIANT DoneIsComplete
CHECK_DEADLOCK FALSE
