SPECIFICATION FairSpec
CONSTANTS
    A = A
    B = B
    Factory = Factory
    Images <- MCImages
    Size <- MCSize
    PageLen = 2
    HasPatch = FALSE
    Slow = TRUE
    Repeats = TRUE
    MaxAttempts = 2
    MaxFaults = 1
    MaxResets = 1
    MaxErrors = 0
INVARIANTS ConfirmedIsInstalled
PROPERTIES EveryUpdateEnds
CHECK_DEADLOCK FALSE
