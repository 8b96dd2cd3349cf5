SPECIFICATION FairSpec
CONSTANTS
    MaxDeployments = 2
    MaxCrashes = 1
    MaxCalls = 0
    Slots = {s1}
    Runtime = "docker"
    Profile = "desktop"
    Env <- Failures
CHECK_DEADLOCK FALSE
INVARIANT TypeOK
PROPERTY DeploysAreConcluded
