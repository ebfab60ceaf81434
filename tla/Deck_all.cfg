SPECIFICATION FairSpec
CONSTANTS
    a = a
    b = b
    Values <- MCValues
    NoValue = NoValue
    MaxOps = 6
    MaxLinks = 3
    MaxLost = 1
    MaxLate = 1
INVARIANTS UsedIsOpen CancelStopsThis SavedIsHeld
PROPERTIES OperationsEnd
CHECK_DEADLOCK FALSE
