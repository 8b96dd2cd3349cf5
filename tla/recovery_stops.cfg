SPECIFICATION FairSpec
CONSTANTS
    MaxDeployments = 1
    MaxCrashes = 0
    MaxCalls = 1
    Slots = {s1}
    Runtime = "docker"
    Profile = "desktop"
    Env <- Stops
CHECK_DEADLOCK FALSE
PROPERTIES DeploysAreConcluded ErrorsAreReaped ContainersAreReconciled
