SPECIFICATION Spec
CONSTANTS
    Sizes = {0, 5, 6, 11, 12}
    PageUnits = 4
    SizeWord = SizeWord
    Misread = 3
    MaxReadbacks = 2
    MaxLosses = 2
    MaxRepeats = 1
    MaxDepartures = 1
INVARIANTS QuietReadBackIsImage
PROPERTIES EveryReadBackEnds CleanReadBackSaves
CHECK_DEADLOCK FALSE
