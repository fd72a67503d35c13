SPECIFICATION FairSpec
CONSTANTS
    Requests = {r1, r2}
    Free = 1  Cap = 3
    KeysPrefixed = TRUE
    MaxFaults = 0
    Missing = Missing
PROPERTIES BackupCurrent
CHECK_DEADLOCK FALSE
