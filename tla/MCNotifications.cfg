SPECIFICATION FairSpec
CONSTANTS
    Payload <- Payloads
    ServerStatus = {200, 204, 500}
    Unreachable = TRUE
    MaxCalls = 2
CHECK_DEADLOCK FALSE
INVARIANTS
    TypeOK
    SuccessIsDelivered
    FailureIsItsOwn
    RefusedForTheUnchecked
PROPERTIES
    Dispatches
    DispatchReturns
