SPECIFICATION Spec
CONSTANTS
    MaxQueue = 3
    MaxAnswers = 3
INVARIANTS
    FirstOutcomeWins
PROPERTIES
    NoCallAfterCleanup
    CleanupHappens
CHECK_DEADLOCK FALSE
