SPECIFICATION Spec
CONSTANTS
    Alert <- TwoAlerts
    Limit = 2
    TornWrites = FALSE
    MaxCrashes = 1
    MaxFaults = 0
    MaxOffsetLoss = 0
INVARIANTS
    PassedIsNotified
