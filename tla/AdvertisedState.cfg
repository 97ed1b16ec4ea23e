SPECIFICATION FairSpec
CONSTANTS
    Nodes = {"a", "b", "c"}
    Links <- Line3Links
    Via <- Line3Via
    HostLocal = {"a"}
    Faulty <- TowardsC
    MaxOps = 8
INVARIANTS
    RoutesAreLegal
    Converged
PROPERTIES
    PropagationEnds
CHECK_DEADLOCK FALSE
