SPECIFICATION FairStatusSpec
CONSTANTS
    MaxTasks = 2
    Limits <- Environments
CHECK_DEADLOCK FALSE
INVARIANT ReportsAreSound
PROPERTIES BackendCatchesUp ConnectedIsReported EndsReachBackend
