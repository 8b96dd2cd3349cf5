SPECIFICATION MixSpec
CONSTANTS
    MaxDeployments = 4
    MaxCrashes = 0
    MaxCalls = 1
    Slots = {s1, s2}
    Runtime = "docker"
    Profile = "desktop"
    Env <- Churn
    MaxEvents = 4
    MaxQueued = 1
    EventFaults <- MCEventFaults
SYMMETRY SlotSymmetry
CHECK_DEADLOCK FALSE
INVARIANTS RestartsAreSound DockerSingleContainer TokenMatchesSandbox ViewFollowsLog
