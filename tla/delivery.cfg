SPECIFICATION FairSpec
CONSTANTS
    MaxMessages = 3
    MaxClears = 1
    MaxDrops = 1
    MaxCrashes = 1
    Faults <- Delayed
CHECK_DEADLOCK FALSE
INVARIANT CursorNeverSkips
PROPERTIES KeepsPromise ClearCoversEarlier EverySettles
