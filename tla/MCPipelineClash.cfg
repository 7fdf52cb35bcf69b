SPECIFICATION Spec
CONSTANTS
    Host <- TwoHosts
    AlertType = {"t1"}
    Severity = {"high", "critical"}
    SingleThreshold = 3
    SingleWindow = 1
    CrossThreshold = 2
    CrossWindow = 1
    Cooldown <- ShortCooldowns
    DatabaseSet = TRUE
    LookupMayFail = FALSE
    GroupSize = 1
    MaxTime = 1
    MaxPosts = 2
    MaxFires = 2
    MaxFailures = 0
CHECK_DEADLOCK FALSE
INVARIANTS
    ConsumedIsRecorded
