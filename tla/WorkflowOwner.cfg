SPECIFICATION Spec
CONSTANTS
    MaxAttempts = 2
    MaxFaults = 2
    MaxCrashes = 0
    Slots = {s1}
    Responses = {r1, r2}
    Answers = {"paused", "cancelled"}
    HasFinalizer = FALSE
CONSTRAINT ResponsesOverlap
ACTION_CONSTRAINT SecondIsRestore
SYMMETRY ResponsesAlike
CHECK_DEADLOCK FALSE
INVARIANTS
    CancelReachesEveryAttempt

    
