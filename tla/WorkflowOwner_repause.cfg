SPECIFICATION Spec
CONSTANTS
    MaxAttempts = 2
    MaxFaults = 0
    MaxCrashes = 0
    Slots = {s1}
    Responses = {r1}
    Answers = {"paused"}
    HasFinalizer = FALSE
CHECK_DEADLOCK FALSE
PROPERTIES
    PauseIsIdempotent
