SPECIFICATION Spec
CONSTANTS
    Attempts = {a1, a2}
    Controllers = {c1, c2}
    Outcomes = {v1, v2}
    Refs = {r1, r2}
    MaxGeneration = 2
    None = None
SYMMETRY Symmetry
CHECK_DEADLOCK FALSE
INVARIANTS
    AttemptInv
    OnlyCurrentMayStart
    SingleAuthority
    SettlementFactsAgree
    AbandonedHoldsNothing
PROPERTIES
    OperationProgress
    ImplementsLedger
