SPECIFICATION Spec
CONSTANTS
    a1 = a1
    a2 = a2
    b1 = b1
    None = None
    Callers = {c1, c2, c3}
    Transports <- MCOneName
    Names = {"a", "b"}
    NameOf <- MCNameOfOneName
    MaxRegistrations = 2
    MaxDisconnects = 1
    AwaitTeardown = FALSE
    ReuseTransports = FALSE
INVARIANTS
    SingleLiveAttempt
CHECK_DEADLOCK FALSE
