SPECIFICATION Spec
CONSTANTS
    A = A
    B = B
    R = R
    NoKey = NoKey
    Boards = {b1, b2}
    Keys = {A, B, R}
    Table = {A, B, R}
    Revoked = {R}
    Factory = A
    Orders <- MCOrders
    Chunks = 2
    MaxWindow = 2
    Allow = TRUE
    Epoch = 10
    MaxTime = 2
    MaxCommands = 2
    MaxResets = 1
SYMMETRY MCSymmetry
INVARIANTS PreviousExpires AcceptedOnce AnswerIsTrusted
