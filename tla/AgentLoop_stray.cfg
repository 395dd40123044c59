CONSTANTS
    MaxRequests = 2
    MaxCalls = 2
    Settings <- Throwing
SPECIFICATION Spec
INVARIANT ExecutingArePending
CHECK_DEADLOCK FALSE
