SPECIFICATION Spec
CONSTANTS
    Host = {h1, h2}
    AlertType = {t1, t2}
    Severity = {"medium"}
    SingleThreshold = 3
    SingleWindow = 1
    CrossThreshold = 2
    CrossWindow = 2
    MaxTime = 3
    MaxAlerts = 6
CHECK_DEADLOCK FALSE
SYMMETRY Symmetry
INVARIANTS
    TypeOK
    SingleHostStormsFound
    CrossHostStormsFound
    HostListBounded
