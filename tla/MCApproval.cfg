SPECIFICATION Spec
CONSTANTS
    Action = {a1, a2}
    Incident = {"i1"}
    Severity = {"critical", "low"}
    Cooldown <- Cooldowns
    Host = {"h1"}
    HostOf <- OneHost
    Window = 1
    DayLength = 2
    MaxTime = 3
    MaxProposals = 3
    MaxCrashes = 1
SYMMETRY AnyAction
CHECK_DEADLOCK FALSE
INVARIANTS
    TypeOK
    CooldownRespected
    NoThirdTimeout
    EscalatedOnce
    GroupIsComplete
PROPERTIES
    RefusedIsFinal
    OnlyUnansweredGivenUp
