SPECIFICATION FairSpec
CONSTANTS
    Requests = {r1, r2}
    Free = 1  Cap = 3
    KeysPrefixed = FALSE
    MaxFaults = 2
    Missing = Missing
INVARIANTS TypeOK UsageCapped NothingSkipped BilledForUsage
PROPERTIES BackupCurrent ReportsCatchUp
CHECK_DEADLOCK FALSE
