CONSTANTS
    MaxRequests = 2
    MaxCalls = 1
    Settings <- Throwing
SPECIFICATION Spec
PROPERTY SteeringIsKept
CHECK_DEADLOCK FALSE
