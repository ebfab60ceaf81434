SPECIFICATION Spec
CONSTANTS
    kept = kept
    picked = picked
    m1 = m1
    m2 = m2
    s = s
    bad = bad
    None = None
    Names <- MCNames
    Folder <- MCFolder
    Images <- MCImages
    Fits <- MCFits
    Kits <- MCKits
    Published <- MCPublished
    HasKey = TRUE
    MaxFlashes = 1
    MaxChanges = 1
INVARIANTS SentIsDeclared MixedIsRefused SelectedForTarget
CHECK_DEADLOCK FALSE
