SPECIFICATION FairSpec
CONSTANTS
    A = A
    B = B
    Factory = Factory
    Images <- MCImages
    Size <- MCSize
    PageLen = 2
    HasPatch = TRUE
    Slow = FALSE
    Repeats = TRUE
    MaxAttempts = 3
    MaxFaults = 1
    MaxResets = 0
    MaxErrors = 1
INVARIANTS SuccessIsInstalled AckedPagesArrived
PROPERTIES CleanUpdateConfirms KeepsPromise
CHECK_DEADLOCK FALSE
