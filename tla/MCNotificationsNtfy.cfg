SPECIFICATION Spec
CONSTANTS
    Payload <- CriticalPayloads
    ServerStatus = {200}
    Unreachable = FALSE
    MaxCalls = 1
CHECK_DEADLOCK FALSE
INVARIANTS
    CriticalReachesNtfy
