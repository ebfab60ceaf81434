SPECIFICATION FairSpec
CONSTANTS
    MaxVersion = 3
INVARIANTS ShownIsCurrent InstalledIsAccepted NoTransferWhileInstalling
PROPERTIES CaughtStepsEnd
CHECK_DEADLOCK FALSE
