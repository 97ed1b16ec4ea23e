SPECIFICATION FairSpec
CONSTANTS
    N = 3
    TimedSet = {TRUE, FALSE}
INVARIANTS
    NoHandlerMeansDeclined
    AbortIsForwarded
PROPERTIES
    NothingStartsLate
    NothingSentAfterAbort
    TimedDispatchEnds
    AbortedCallerReturns
CHECK_DEADLOCK FALSE
