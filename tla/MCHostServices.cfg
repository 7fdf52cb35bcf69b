SPECIFICATION Spec
CONSTANTS
    Host = {h1, h2}
    Metric = {m1, m2}
    Value <- Values
    Sample <- Samples
    RunbookFile <- Files
    AlertTypes = {"crash", "desync", "duties"}
    Severities = {"low", "medium", "high", "critical", "page"}
INVARIANTS
    TypeOK
    BaselinesFollowData
    SnapshotIsTruthful
    MatchIsSound
