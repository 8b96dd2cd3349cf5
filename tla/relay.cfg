SPECIFICATION LinksSpec
CONSTANTS
    MaxDeployments = 2
    MaxCrashes = 0
    MaxCalls = 1
    Slots = {s1, s2}
    Runtime = "modal"
    Profile = "desktop"
    Env <- Links
SYMMETRY SlotSymmetry
CHECK_DEADLOCK FALSE
INVARIANTS RelayFlagHasConsumer ReleaseFollowsSave
