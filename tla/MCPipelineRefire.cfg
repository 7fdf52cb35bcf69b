SPECIFICATION Spec
CONSTANTS
    Host <- OneHost
    AlertType = {"t1"}
    Severity = {"high"}
    SingleThreshold = 3
    SingleWindow = 1
    CrossThreshold = 2
    CrossWindow = 1
    Cooldown <- ShortCooldowns
    DatabaseSet = TRUE
    LookupMayFail = FALSE
    GroupSize = 1
    MaxTime = 3
    MaxPosts = 3
    MaxFires = 2
    MaxFailures = 0
CHECK_DEADLOCK FALSE
PROPERTIES
    NewFiringProcessed
