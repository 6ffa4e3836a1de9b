SPECIFICATION FairSpec
CONSTANTS
    LogToDisk = TRUE
    Rollbacks = TRUE
    Refreshes = FALSE
    MaxConf = 3
    MaxChanges = 2
    MaxCrashes = 2
PROPERTIES
    SetupApplied
CHECK_DEADLOCK FALSE
