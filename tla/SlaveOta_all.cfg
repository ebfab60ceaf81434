SPECIFICATION SlaveSpec
CONSTANTS
    A = A
    B = B
    Factory = Factory
    Spoiled = Spoiled
    Images <- MCImages
    Size <- MCSize
    Slow = TRUE
    MaxUpdates = 2
    MaxMishaps = 2
INVARIANTS SlaveTypeOK StallNoticed
PROPERTIES KeepsPromise EveryUpdateEnds CleanUpdateConfirms
CHECK_DEADLOCK FALSE
