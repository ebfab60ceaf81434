SPECIFICATION Spec
CONSTANTS
    MaxVersion = 5
    MaxCuts = 1
    MaxRollbacks = 2
INVARIANTS CurrentPresent RollbackReady GuardedStartRestored
CHECK_DEADLOCK FALSE
