SPECIFICATION SwdSpec
CONSTANTS
    p = p
    q = q
    fb = fb
    mb = mb
    fa = fa
    sb = sb
    ma = ma
    Old = Old
    Blank = Blank
    None = None
    Files <- MCFiles
    Raw <- MCFiles
    Images <- MCImages
    Suits <- MCSuits
    Held <- MCHeld
    Probes <- MCProbes
    Installed <- MCTools
    MaxRuns = 1
    MaxMishaps = 1
PROPERTIES EveryRunEnds
INVARIANTS SwdTypeOK CheckedProbeOnly CompleteIsProgrammed BackupFirst
CHECK_DEADLOCK FALSE
