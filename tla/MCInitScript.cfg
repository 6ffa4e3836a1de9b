SPECIFICATION FairSpec
CONSTANTS
    LogToDisk = TRUE
    Rollbacks = FALSE
    Refreshes = TRUE
    MaxConf = 3
    MaxChanges = 2
    MaxCrashes = 2
INVARIANTS
    RecordedIsApplied
PROPERTIES
    SetupApplied
CHECK_DEADLOCK FALSE
