SPECIFICATION FairSpec
CONSTANTS
    Calls = {c1, c2, c3}
    Ids = {i1, i2}
    ReuseWhilePending = FALSE
    None = None
CHECK_DEADLOCK FALSE
INVARIANTS
    HeldIffPending
    NoStrayCallbacks
PROPERTIES
    SettlesOnce
    TimedCallsSettle
