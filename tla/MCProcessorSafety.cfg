SPECIFICATION Spec
CONSTANTS
    Alert <- ClashingAlerts
    Limit = 2
    TornWrites = TRUE
    MaxCrashes = 1
    MaxFaults = 1
    MaxOffsetLoss = 1
INVARIANTS
    TypeOK
    AgentInvariant
    NotifiedAtMostOnce
    RecordedBeforeNotified
    OffsetBehindRecords
    NoOvertaking
    ContextExcludesSelf
PROPERTIES
    OffsetNeverMovesBack
    Delivers
