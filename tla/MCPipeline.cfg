SPECIFICATION Spec
CONSTANTS
    Host <- TwoHosts
    AlertType = {"t1"}
    Severity = {"high", "critical"}
    SingleThreshold = 1
    SingleWindow = 0
    CrossThreshold = 2
    CrossWindow = 1
    Cooldown <- ShortestCooldowns
    DatabaseSet = TRUE
    LookupMayFail = TRUE
    GroupSize = 2
    MaxTime = 1
    MaxPosts = 2
    MaxFires = 2
    MaxFailures = 1
CHECK_DEADLOCK FALSE
INVARIANTS
    PipelineTypeOK
    NothingElseIsLost
PROPERTIES
    AnsweredIsCovered
