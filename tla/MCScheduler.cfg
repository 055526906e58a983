SPECIFICATION Spec
CONSTANTS
    n = 2
    m = 3
    ThreadInputs <- MCThreadInputs
    RequestInputs <- MCRequestInputs
    MaxRequests = 5
INVARIANTS  WaitsAreMinimal
CHECK_DEADLOCK FALSE
