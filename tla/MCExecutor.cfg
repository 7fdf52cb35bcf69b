SPECIFICATION FairSpec
CONSTANTS
    NumCommands = 3
    Locked = {3}
    Child = {"p1"}
CHECK_DEADLOCK FALSE
INVARIANTS
    TypeOK
    LeaderReaped
    SuccessIsComplete
    SurvivorsIgnoreTerm
PROPERTIES
    AllCommandsRun
    TerminableEnd
