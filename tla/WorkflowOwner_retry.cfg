SPECIFICATION FairSpec
CONSTANTS
    MaxAttempts = 1
    MaxFaults = 1
    MaxCrashes = 0
    Slots = {s1}
    Responses = {r1}
    Answers = {"completed"}
    HasFinalizer = FALSE
CHECK_DEADLOCK FALSE
PROPERTIES
    RetryConverges
