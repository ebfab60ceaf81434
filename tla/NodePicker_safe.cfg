SPECIFICATION Spec
CONSTANTS
    b1 = b1
    b2 = b2
    Boards <- MCBoards
    Addresses = {2, 5}
    Jumpers <- MCJumpers
    NoNode = 0
    ReleaseOnLapse = TRUE
    MaxOperations = 1
    MaxMishaps = 1
INVARIANTS OnlyChosenObeys OneSelected
PROPERTIES KeptWhenIdle
