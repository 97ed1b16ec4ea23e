SPECIFICATION FairSpec
CONSTANTS
    MaxAttempts = 1
    MaxFaults = 1
    MaxCrashes = 1
    Slots = {s1, s2}
    Responses = {r1}
    Answers = {"completed", "technical", "paused"}
    HasFinalizer = TRUE
CHECK_DEADLOCK FALSE
INVARIANTS
    AcceptanceIsHonest
PROPERTIES
    TerminalIsFinal
    OutcomeReachesRunner
    CancelRequestReturns
