SPECIFICATION FairSpec
CONSTANTS
    a1 = a1
    a2 = a2
    b1 = b1
    None = None
    Callers = {c1, c2}
    Transports <- MCTwoNames
    Names = {"a", "b"}
    NameOf <- MCNameOfTwoNames
    MaxRegistrations = 3
    MaxDisconnects = 1
    AwaitTeardown = TRUE
    ReuseTransports = TRUE
INVARIANTS
    SingleLiveAttempt
    ReadySettles
    ConnectedIsCurrent
PROPERTIES
    RollbackExclusive
    CancelledCallersReturn
CHECK_DEADLOCK FALSE
