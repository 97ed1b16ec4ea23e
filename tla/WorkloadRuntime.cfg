SPECIFICATION Spec
CONSTANTS
    None = None
    Incarnations = {i1, i2}
    Passes = {p1, p2}
    RequiresPreparation = TRUE
    MaxGeneration = 2
    MaxOperations = 4
SYMMETRY Symmetry
CONSTRAINTS OneLoss PassesOverlapEarly
INVARIANTS
    ReadyIsProven
    SlotIsFenced
    ExclusiveWork
    OutcomeMeansQuiet
    OutcomeIsOwners
    EvidenceHonest
PROPERTIES
    AckRetryConverges
CHECK_DEADLOCK FALSE
