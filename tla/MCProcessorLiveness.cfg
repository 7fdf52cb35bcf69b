SPECIFICATION FairSpec
CONSTANTS
    Alert <- TwoAlerts
    Limit = 2
    TornWrites = TRUE
    MaxCrashes = 2
    MaxFaults = 2
    MaxOffsetLoss = 1
PROPERTIES
    EveryAlertRecorded
