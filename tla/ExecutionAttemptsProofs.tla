---------------------- MODULE ExecutionAttemptsProofs ----------------------
(* The repository's invariants and its refinement of the ledger, for any     *)
(* number of attempts, controllers, outcomes and takeovers.                  *)
EXTENDS ExecutionAttempts, TLAPS

\* A new attempt preserves the invariant.
LEMMA InsertAttemptKeeps ==
    ASSUME AttemptInv, NEW a \in Attempts, InsertAttempt(a)
    PROVE  AttemptInv'
<1>1. TypeOK'
    BY AttemptsAssumption DEF AttemptInv, InsertAttempt, operationVars, outcomeVars, TypeOK,
           Claim, Statuses, Settlements, Obligations
<1>2. OnlyCurrentMayStart'
    BY AttemptsAssumption DEF AttemptInv, InsertAttempt, operationVars, outcomeVars,
           OnlyCurrentMayStart, TypeOK, Statuses, Settlements, SettlementFactsAgree,
           AttemptShape
<1>3. SettlementFactsAgree'
    BY AttemptsAssumption DEF AttemptInv, InsertAttempt, operationVars, outcomeVars,
           SettlementFactsAgree, TypeOK, Statuses, Settlements, AttemptShape
<1>4. AbandonedHoldsNothing'
    BY AttemptsAssumption DEF AttemptInv, InsertAttempt, operationVars, outcomeVars,
           AbandonedHoldsNothing, TypeOK, Statuses, Settlements, AttemptShape,
           SettlementFactsAgree
<1>5. ObligationFollowsAllocation'
    BY AttemptsAssumption DEF AttemptInv, InsertAttempt, operationVars, outcomeVars,
           ObligationFollowsAllocation, TypeOK, Statuses, Settlements, AttemptShape,
           Obligations
<1>6. AttemptShape'
    BY AttemptsAssumption DEF AttemptInv, InsertAttempt, operationVars, outcomeVars,
           AttemptShape, TypeOK, Statuses, Settlements, SettlementFactsAgree,
           OnlyCurrentMayStart, AbandonedHoldsNothing, ObligationFollowsAllocation
<1>7. ClaimShape'
    BY AttemptsAssumption DEF AttemptInv, InsertAttempt, operationVars, outcomeVars,
           ClaimShape, TypeOK, Claim, AttemptShape
<1> QED BY <1>1, <1>2, <1>3, <1>4, <1>5, <1>6, <1>7 DEF AttemptInv

\* The first claim preserves the invariant.
LEMMA BeginProvisioningKeeps ==
    ASSUME AttemptInv, NEW a \in Attempts, NEW o \in Controllers, BeginProvisioning(a, o)
    PROVE  AttemptInv'
<1>1. TypeOK'
    BY AttemptsAssumption DEF AttemptInv, BeginProvisioning, Issue, outcomeVars, TypeOK,
           Claim, Statuses, Settlements, Obligations
<1>2. OnlyCurrentMayStart'
    BY AttemptsAssumption DEF AttemptInv, BeginProvisioning, Issue, outcomeVars,
           OnlyCurrentMayStart, TypeOK, Statuses, Settlements, SettlementFactsAgree,
           AttemptShape
<1>3. SettlementFactsAgree'
    BY AttemptsAssumption DEF AttemptInv, BeginProvisioning, Issue, outcomeVars,
           SettlementFactsAgree, TypeOK, Statuses, Settlements, AttemptShape
<1>4. AbandonedHoldsNothing'
    BY AttemptsAssumption DEF AttemptInv, BeginProvisioning, Issue, outcomeVars,
           AbandonedHoldsNothing, TypeOK, Statuses, Settlements, AttemptShape,
           SettlementFactsAgree
<1>5. ObligationFollowsAllocation'
    BY AttemptsAssumption DEF AttemptInv, BeginProvisioning, Issue, outcomeVars,
           ObligationFollowsAllocation, TypeOK, Statuses, Settlements, AttemptShape,
           Obligations
<1>6. AttemptShape'
    BY AttemptsAssumption DEF AttemptInv, BeginProvisioning, Issue, outcomeVars,
           AttemptShape, TypeOK, Statuses, Settlements, SettlementFactsAgree,
           OnlyCurrentMayStart, AbandonedHoldsNothing, ObligationFollowsAllocation
<1>7. ClaimShape'
    BY AttemptsAssumption DEF AttemptInv, BeginProvisioning, Issue, outcomeVars, ClaimShape,
           TypeOK, Claim, AttemptShape
<1> QED BY <1>1, <1>2, <1>3, <1>4, <1>5, <1>6, <1>7 DEF AttemptInv

\* A lease is renewed or expires preserves the invariant.
LEMMA LeaseKeeps ==
    ASSUME AttemptInv, NEW f \in [Attempts -> BOOLEAN], leased' = f,
           UNCHANGED <<attemptVars, generation, owner, token, obligation, evidence, claims,
                       outcomeVars, cancelled>>
    PROVE  AttemptInv'
<1>1. TypeOK'
    BY AttemptsAssumption DEF AttemptInv, attemptVars, outcomeVars, TypeOK, Claim, Statuses,
           Settlements, Obligations
<1>2. OnlyCurrentMayStart'
    BY AttemptsAssumption DEF AttemptInv, attemptVars, outcomeVars, OnlyCurrentMayStart,
           TypeOK, Statuses, Settlements, SettlementFactsAgree, AttemptShape
<1>3. SettlementFactsAgree'
    BY AttemptsAssumption DEF AttemptInv, attemptVars, outcomeVars, SettlementFactsAgree,
           TypeOK, Statuses, Settlements, AttemptShape
<1>4. AbandonedHoldsNothing'
    BY AttemptsAssumption DEF AttemptInv, attemptVars, outcomeVars, AbandonedHoldsNothing,
           TypeOK, Statuses, Settlements, AttemptShape, SettlementFactsAgree
<1>5. ObligationFollowsAllocation'
    BY AttemptsAssumption DEF AttemptInv, attemptVars, outcomeVars,
           ObligationFollowsAllocation, TypeOK, Statuses, Settlements, AttemptShape,
           Obligations
<1>6. AttemptShape'
    BY AttemptsAssumption DEF AttemptInv, attemptVars, outcomeVars, AttemptShape, TypeOK,
           Statuses, Settlements, SettlementFactsAgree, OnlyCurrentMayStart,
           AbandonedHoldsNothing, ObligationFollowsAllocation
<1>7. ClaimShape'
    BY AttemptsAssumption DEF AttemptInv, attemptVars, outcomeVars, ClaimShape, TypeOK,
           Claim, AttemptShape
<1> QED BY <1>1, <1>2, <1>3, <1>4, <1>5, <1>6, <1>7 DEF AttemptInv

\* A takeover preserves the invariant.
LEMMA TakeOverKeeps ==
    ASSUME AttemptInv, NEW a \in Attempts, NEW o \in Controllers, TakeOverProviderOperation(a, o)
    PROVE  AttemptInv'
<1>1. TypeOK'
    BY AttemptsAssumption DEF AttemptInv, TakeOverProviderOperation, Issue, attemptVars,
           outcomeVars, TypeOK, Claim, Statuses, Settlements, Obligations
<1>2. OnlyCurrentMayStart'
    BY AttemptsAssumption DEF AttemptInv, TakeOverProviderOperation, Issue, attemptVars,
           outcomeVars, OnlyCurrentMayStart, TypeOK, Statuses, Settlements,
           SettlementFactsAgree, AttemptShape
<1>3. SettlementFactsAgree'
    BY AttemptsAssumption DEF AttemptInv, TakeOverProviderOperation, Issue, attemptVars,
           outcomeVars, SettlementFactsAgree, TypeOK, Statuses, Settlements, AttemptShape
<1>4. AbandonedHoldsNothing'
    BY AttemptsAssumption DEF AttemptInv, TakeOverProviderOperation, Issue, attemptVars,
           outcomeVars, AbandonedHoldsNothing, TypeOK, Statuses, Settlements, AttemptShape,
           SettlementFactsAgree
<1>5. ObligationFollowsAllocation'
    BY AttemptsAssumption DEF AttemptInv, TakeOverProviderOperation, Issue, attemptVars,
           outcomeVars, ObligationFollowsAllocation, TypeOK, Statuses, Settlements,
           AttemptShape, Obligations
<1>6. AttemptShape'
    BY AttemptsAssumption DEF AttemptInv, TakeOverProviderOperation, Issue, attemptVars,
           outcomeVars, AttemptShape, TypeOK, Statuses, Settlements, SettlementFactsAgree,
           OnlyCurrentMayStart, AbandonedHoldsNothing, ObligationFollowsAllocation
<1>7. ClaimShape'
    BY AttemptsAssumption DEF AttemptInv, TakeOverProviderOperation, Issue, attemptVars,
           outcomeVars, ClaimShape, TypeOK, Claim, AttemptShape
<1> QED BY <1>1, <1>2, <1>3, <1>4, <1>5, <1>6, <1>7 DEF AttemptInv

\* A handoff preserves the invariant.
LEMMA HandoffKeeps ==
    ASSUME AttemptInv, NEW c \in claims, HandoffProviderOperation(c)
    PROVE  AttemptInv'
<1>1. TypeOK'
    BY AttemptsAssumption DEF AttemptInv, HandoffProviderOperation, Authorized, Resolved,
           attemptVars, outcomeVars, TypeOK, Claim, Statuses, Settlements, Obligations
<1>2. OnlyCurrentMayStart'
    BY AttemptsAssumption DEF AttemptInv, HandoffProviderOperation, Authorized, Resolved,
           attemptVars, outcomeVars, OnlyCurrentMayStart, TypeOK, Statuses, Settlements,
           SettlementFactsAgree, AttemptShape
<1>3. SettlementFactsAgree'
    BY AttemptsAssumption DEF AttemptInv, HandoffProviderOperation, Authorized, Resolved,
           attemptVars, outcomeVars, SettlementFactsAgree, TypeOK, Statuses, Settlements,
           AttemptShape
<1>4. AbandonedHoldsNothing'
    BY AttemptsAssumption DEF AttemptInv, HandoffProviderOperation, Authorized, Resolved,
           attemptVars, outcomeVars, AbandonedHoldsNothing, TypeOK, Statuses, Settlements,
           AttemptShape, SettlementFactsAgree
<1>5. ObligationFollowsAllocation'
    BY AttemptsAssumption DEF AttemptInv, HandoffProviderOperation, Authorized, Resolved,
           attemptVars, outcomeVars, ObligationFollowsAllocation, TypeOK, Statuses,
           Settlements, AttemptShape, Obligations
<1>6. AttemptShape'
    BY AttemptsAssumption DEF AttemptInv, HandoffProviderOperation, Authorized, Resolved,
           attemptVars, outcomeVars, AttemptShape, TypeOK, Statuses, Settlements,
           SettlementFactsAgree, OnlyCurrentMayStart, AbandonedHoldsNothing,
           ObligationFollowsAllocation
<1>7. ClaimShape'
    BY AttemptsAssumption DEF AttemptInv, HandoffProviderOperation, Authorized, Resolved,
           attemptVars, outcomeVars, ClaimShape, TypeOK, Claim, AttemptShape
<1> QED BY <1>1, <1>2, <1>3, <1>4, <1>5, <1>6, <1>7 DEF AttemptInv

\* Completion evidence preserves the invariant.
LEMMA CompleteKeeps ==
    ASSUME AttemptInv, NEW c \in claims, CompleteProviderOperation(c)
    PROVE  AttemptInv'
<1>1. TypeOK'
    BY AttemptsAssumption DEF AttemptInv, CompleteProviderOperation, Authorized, Resolved,
           attemptVars, ownerVars, outcomeVars, TypeOK, Claim, Statuses, Settlements,
           Obligations
<1>2. OnlyCurrentMayStart'
    BY AttemptsAssumption DEF AttemptInv, CompleteProviderOperation, Authorized, Resolved,
           attemptVars, ownerVars, outcomeVars, OnlyCurrentMayStart, TypeOK, Statuses,
           Settlements, SettlementFactsAgree, AttemptShape
<1>3. SettlementFactsAgree'
    BY AttemptsAssumption DEF AttemptInv, CompleteProviderOperation, Authorized, Resolved,
           attemptVars, ownerVars, outcomeVars, SettlementFactsAgree, TypeOK, Statuses,
           Settlements, AttemptShape
<1>4. AbandonedHoldsNothing'
    BY AttemptsAssumption DEF AttemptInv, CompleteProviderOperation, Authorized, Resolved,
           attemptVars, ownerVars, outcomeVars, AbandonedHoldsNothing, TypeOK, Statuses,
           Settlements, AttemptShape, SettlementFactsAgree
<1>5. ObligationFollowsAllocation'
    BY AttemptsAssumption DEF AttemptInv, CompleteProviderOperation, Authorized, Resolved,
           attemptVars, ownerVars, outcomeVars, ObligationFollowsAllocation, TypeOK,
           Statuses, Settlements, AttemptShape, Obligations
<1>6. AttemptShape'
    BY AttemptsAssumption DEF AttemptInv, CompleteProviderOperation, Authorized, Resolved,
           attemptVars, ownerVars, outcomeVars, AttemptShape, TypeOK, Statuses, Settlements,
           SettlementFactsAgree, OnlyCurrentMayStart, AbandonedHoldsNothing,
           ObligationFollowsAllocation
<1>7. ClaimShape'
    BY AttemptsAssumption DEF AttemptInv, CompleteProviderOperation, Authorized, Resolved,
           attemptVars, ownerVars, outcomeVars, ClaimShape, TypeOK, Claim, AttemptShape
<1> QED BY <1>1, <1>2, <1>3, <1>4, <1>5, <1>6, <1>7 DEF AttemptInv

\* An allocation preserves the invariant.
LEMMA AllocationKeeps ==
    ASSUME AttemptInv, NEW c \in claims, NEW r \in Refs, NEW b \in BOOLEAN, ApplyAllocation(c, r, b)
    PROVE  AttemptInv'
<1>1. TypeOK'
    BY AttemptsAssumption DEF AttemptInv, ApplyAllocation, Authorized, Resolved, ownerVars,
           outcomeVars, TypeOK, Claim, Statuses, Settlements, Obligations
<1>2. OnlyCurrentMayStart'
    BY AttemptsAssumption DEF AttemptInv, ApplyAllocation, Authorized, Resolved, ownerVars,
           outcomeVars, OnlyCurrentMayStart, TypeOK, Statuses, Settlements,
           SettlementFactsAgree, AttemptShape
<1>3. SettlementFactsAgree'
    BY AttemptsAssumption DEF AttemptInv, ApplyAllocation, Authorized, Resolved, ownerVars,
           outcomeVars, SettlementFactsAgree, TypeOK, Statuses, Settlements, AttemptShape
<1>4. AbandonedHoldsNothing'
    BY AttemptsAssumption DEF AttemptInv, ApplyAllocation, Authorized, Resolved, ownerVars,
           outcomeVars, AbandonedHoldsNothing, TypeOK, Statuses, Settlements, AttemptShape,
           SettlementFactsAgree
<1>5. ObligationFollowsAllocation'
    BY AttemptsAssumption DEF AttemptInv, ApplyAllocation, Authorized, Resolved, ownerVars,
           outcomeVars, ObligationFollowsAllocation, TypeOK, Statuses, Settlements,
           AttemptShape, Obligations
<1>6. AttemptShape'
    BY AttemptsAssumption DEF AttemptInv, ApplyAllocation, Authorized, Resolved, ownerVars,
           outcomeVars, AttemptShape, TypeOK, Statuses, Settlements, SettlementFactsAgree,
           OnlyCurrentMayStart, AbandonedHoldsNothing, ObligationFollowsAllocation
<1>7. ClaimShape'
    BY AttemptsAssumption DEF AttemptInv, ApplyAllocation, Authorized, Resolved, ownerVars,
           outcomeVars, ClaimShape, TypeOK, Claim, AttemptShape
<1> QED BY <1>1, <1>2, <1>3, <1>4, <1>5, <1>6, <1>7 DEF AttemptInv

\* A reference evolves preserves the invariant.
LEMMA EvolveKeeps ==
    ASSUME AttemptInv, NEW c \in claims, NEW r \in Refs, NEW s \in Refs, EvolveAllocationRef(c, r, s)
    PROVE  AttemptInv'
<1>1. TypeOK'
    BY AttemptsAssumption DEF AttemptInv, EvolveAllocationRef, Authorized, Resolved,
           operationVars, outcomeVars, TypeOK, Claim, Statuses, Settlements, Obligations
<1>2. OnlyCurrentMayStart'
    BY AttemptsAssumption DEF AttemptInv, EvolveAllocationRef, Authorized, Resolved,
           operationVars, outcomeVars, OnlyCurrentMayStart, TypeOK, Statuses, Settlements,
           SettlementFactsAgree, AttemptShape
<1>3. SettlementFactsAgree'
    BY AttemptsAssumption DEF AttemptInv, EvolveAllocationRef, Authorized, Resolved,
           operationVars, outcomeVars, SettlementFactsAgree, TypeOK, Statuses, Settlements,
           AttemptShape
<1>4. AbandonedHoldsNothing'
    BY AttemptsAssumption DEF AttemptInv, EvolveAllocationRef, Authorized, Resolved,
           operationVars, outcomeVars, AbandonedHoldsNothing, TypeOK, Statuses, Settlements,
           AttemptShape, SettlementFactsAgree
<1>5. ObligationFollowsAllocation'
    BY AttemptsAssumption DEF AttemptInv, EvolveAllocationRef, Authorized, Resolved,
           operationVars, outcomeVars, ObligationFollowsAllocation, TypeOK, Statuses,
           Settlements, AttemptShape, Obligations
<1>6. AttemptShape'
    BY AttemptsAssumption DEF AttemptInv, EvolveAllocationRef, Authorized, Resolved,
           operationVars, outcomeVars, AttemptShape, TypeOK, Statuses, Settlements,
           SettlementFactsAgree, OnlyCurrentMayStart, AbandonedHoldsNothing,
           ObligationFollowsAllocation
<1>7. ClaimShape'
    BY AttemptsAssumption DEF AttemptInv, EvolveAllocationRef, Authorized, Resolved,
           operationVars, outcomeVars, ClaimShape, TypeOK, Claim, AttemptShape
<1> QED BY <1>1, <1>2, <1>3, <1>4, <1>5, <1>6, <1>7 DEF AttemptInv

\* Proven absence preserves the invariant.
LEMMA AbsentKeeps ==
    ASSUME AttemptInv, NEW c \in claims, ProvenAbsent(c)
    PROVE  AttemptInv'
<1>1. TypeOK'
  <2>1. /\ evidence' = [evidence EXCEPT ![c.attempt] = TRUE]
        /\ UNCHANGED <<active, alloc, ownerVars, obligation, outcomeVars, cancelled>>
    BY DEF ProvenAbsent
  <2>2. CASE settlement[c.attempt] = None
    <3>1. SettleAttempt(c.attempt, "abandoned")
      BY <2>2 DEF ProvenAbsent
    <3> QED BY <2>1, <3>1 DEF AttemptInv, SettleAttempt, ownerVars, outcomeVars, TypeOK, Claim,
                              Statuses, Settlements, Obligations
  <2>3. CASE settlement[c.attempt] # None
    <3>1. UNCHANGED <<status, settlement, claimable, gate>>
      BY <2>3 DEF ProvenAbsent
    <3> QED BY <2>1, <3>1 DEF AttemptInv, ownerVars, outcomeVars, TypeOK
  <2> QED BY <2>2, <2>3
<1>2. OnlyCurrentMayStart'
    BY AttemptsAssumption DEF AttemptInv, ProvenAbsent, SettleAttempt, Authorized, Resolved,
           ownerVars, outcomeVars, OnlyCurrentMayStart, TypeOK, Statuses, Settlements,
           SettlementFactsAgree, AttemptShape
<1>3. SettlementFactsAgree'
    BY AttemptsAssumption DEF AttemptInv, ProvenAbsent, SettleAttempt, Authorized, Resolved,
           ownerVars, outcomeVars, SettlementFactsAgree, TypeOK, Statuses, Settlements,
           AttemptShape
<1>4. AbandonedHoldsNothing'
    BY AttemptsAssumption DEF AttemptInv, ProvenAbsent, SettleAttempt, Authorized, Resolved,
           ownerVars, outcomeVars, AbandonedHoldsNothing, TypeOK, Statuses, Settlements,
           AttemptShape, SettlementFactsAgree
<1>5. ObligationFollowsAllocation'
    BY AttemptsAssumption DEF AttemptInv, ProvenAbsent, SettleAttempt, Authorized, Resolved,
           ownerVars, outcomeVars, ObligationFollowsAllocation, TypeOK, Statuses,
           Settlements, AttemptShape, Obligations
<1>6. AttemptShape'
    BY AttemptsAssumption DEF AttemptInv, ProvenAbsent, SettleAttempt, Authorized, Resolved,
           ownerVars, outcomeVars, AttemptShape, TypeOK, Statuses, Settlements,
           SettlementFactsAgree, OnlyCurrentMayStart, AbandonedHoldsNothing,
           ObligationFollowsAllocation
<1>7. ClaimShape'
    BY AttemptsAssumption DEF AttemptInv, ProvenAbsent, SettleAttempt, Authorized, Resolved,
           ownerVars, outcomeVars, ClaimShape, TypeOK, Claim, AttemptShape
<1> QED BY <1>1, <1>2, <1>3, <1>4, <1>5, <1>6, <1>7 DEF AttemptInv

\* A termination preserves the invariant.
LEMMA TerminatedKeeps ==
    ASSUME AttemptInv, NEW c \in claims, RecordAllocationTerminated(c)
    PROVE  AttemptInv'
<1>1. TypeOK'
    BY AttemptsAssumption DEF AttemptInv, RecordAllocationTerminated, Authorized, Resolved,
           attemptVars, ownerVars, outcomeVars, TypeOK, Claim, Statuses, Settlements,
           Obligations
<1>2. OnlyCurrentMayStart'
    BY AttemptsAssumption DEF AttemptInv, RecordAllocationTerminated, Authorized, Resolved,
           attemptVars, ownerVars, outcomeVars, OnlyCurrentMayStart, TypeOK, Statuses,
           Settlements, SettlementFactsAgree, AttemptShape
<1>3. SettlementFactsAgree'
    BY AttemptsAssumption DEF AttemptInv, RecordAllocationTerminated, Authorized, Resolved,
           attemptVars, ownerVars, outcomeVars, SettlementFactsAgree, TypeOK, Statuses,
           Settlements, AttemptShape
<1>4. AbandonedHoldsNothing'
    BY AttemptsAssumption DEF AttemptInv, RecordAllocationTerminated, Authorized, Resolved,
           attemptVars, ownerVars, outcomeVars, AbandonedHoldsNothing, TypeOK, Statuses,
           Settlements, AttemptShape, SettlementFactsAgree
<1>5. ObligationFollowsAllocation'
    BY AttemptsAssumption DEF AttemptInv, RecordAllocationTerminated, Authorized, Resolved,
           attemptVars, ownerVars, outcomeVars, ObligationFollowsAllocation, TypeOK,
           Statuses, Settlements, AttemptShape, Obligations
<1>6. AttemptShape'
    BY AttemptsAssumption DEF AttemptInv, RecordAllocationTerminated, Authorized, Resolved,
           attemptVars, ownerVars, outcomeVars, AttemptShape, TypeOK, Statuses, Settlements,
           SettlementFactsAgree, OnlyCurrentMayStart, AbandonedHoldsNothing,
           ObligationFollowsAllocation
<1>7. ClaimShape'
    BY AttemptsAssumption DEF AttemptInv, RecordAllocationTerminated, Authorized, Resolved,
           attemptVars, ownerVars, outcomeVars, ClaimShape, TypeOK, Claim, AttemptShape
<1> QED BY <1>1, <1>2, <1>3, <1>4, <1>5, <1>6, <1>7 DEF AttemptInv

\* An infrastructure failure preserves the invariant.
LEMMA InfrastructureKeeps ==
    ASSUME AttemptInv, NEW c \in claims, RecordInfrastructureFailure(c)
    PROVE  AttemptInv'
<1>1. TypeOK'
    BY AttemptsAssumption DEF AttemptInv, RecordInfrastructureFailure, SettleAttempt,
           Authorized, Resolved, operationVars, outcomeVars, TypeOK, Claim, Statuses,
           Settlements, Obligations
<1>2. OnlyCurrentMayStart'
    BY AttemptsAssumption DEF AttemptInv, RecordInfrastructureFailure, SettleAttempt,
           Authorized, Resolved, operationVars, outcomeVars, OnlyCurrentMayStart, TypeOK,
           Statuses, Settlements, SettlementFactsAgree, AttemptShape
<1>3. SettlementFactsAgree'
    BY AttemptsAssumption DEF AttemptInv, RecordInfrastructureFailure, SettleAttempt,
           Authorized, Resolved, operationVars, outcomeVars, SettlementFactsAgree, TypeOK,
           Statuses, Settlements, AttemptShape
<1>4. AbandonedHoldsNothing'
    BY AttemptsAssumption DEF AttemptInv, RecordInfrastructureFailure, SettleAttempt,
           Authorized, Resolved, operationVars, outcomeVars, AbandonedHoldsNothing, TypeOK,
           Statuses, Settlements, AttemptShape, SettlementFactsAgree
<1>5. ObligationFollowsAllocation'
    BY AttemptsAssumption DEF AttemptInv, RecordInfrastructureFailure, SettleAttempt,
           Authorized, Resolved, operationVars, outcomeVars, ObligationFollowsAllocation,
           TypeOK, Statuses, Settlements, AttemptShape, Obligations
<1>6. AttemptShape'
    BY AttemptsAssumption DEF AttemptInv, RecordInfrastructureFailure, SettleAttempt,
           Authorized, Resolved, operationVars, outcomeVars, AttemptShape, TypeOK, Statuses,
           Settlements, SettlementFactsAgree, OnlyCurrentMayStart, AbandonedHoldsNothing,
           ObligationFollowsAllocation
<1>7. ClaimShape'
    BY AttemptsAssumption DEF AttemptInv, RecordInfrastructureFailure, SettleAttempt,
           Authorized, Resolved, operationVars, outcomeVars, ClaimShape, TypeOK, Claim,
           AttemptShape
<1> QED BY <1>1, <1>2, <1>3, <1>4, <1>5, <1>6, <1>7 DEF AttemptInv

\* A cancellation preserves the invariant.
LEMMA CancelKeeps ==
    ASSUME AttemptInv, NEW S \in SUBSET Attempts, \A a \in S : status[a] # "absent", CloseGates(S)
    PROVE  AttemptInv'
<1>1. TypeOK'
    BY AttemptsAssumption DEF AttemptInv, CloseGates, operationVars, outcomeVars, TypeOK,
           Claim, Statuses, Settlements, Obligations
<1>2. OnlyCurrentMayStart'
    BY AttemptsAssumption DEF AttemptInv, CloseGates, operationVars, outcomeVars,
           OnlyCurrentMayStart, TypeOK, Statuses, Settlements, SettlementFactsAgree,
           AttemptShape
<1>3. SettlementFactsAgree'
    BY AttemptsAssumption DEF AttemptInv, CloseGates, operationVars, outcomeVars,
           SettlementFactsAgree, TypeOK, Statuses, Settlements, AttemptShape
<1>4. AbandonedHoldsNothing'
    BY AttemptsAssumption DEF AttemptInv, CloseGates, operationVars, outcomeVars,
           AbandonedHoldsNothing, TypeOK, Statuses, Settlements, AttemptShape,
           SettlementFactsAgree
<1>5. ObligationFollowsAllocation'
    BY AttemptsAssumption DEF AttemptInv, CloseGates, operationVars, outcomeVars,
           ObligationFollowsAllocation, TypeOK, Statuses, Settlements, AttemptShape,
           Obligations
<1>6. AttemptShape'
    BY AttemptsAssumption DEF AttemptInv, CloseGates, operationVars, outcomeVars,
           AttemptShape, TypeOK, Statuses, Settlements, SettlementFactsAgree,
           OnlyCurrentMayStart, AbandonedHoldsNothing, ObligationFollowsAllocation
<1>7. ClaimShape'
    BY AttemptsAssumption DEF AttemptInv, CloseGates, operationVars, outcomeVars,
           ClaimShape, TypeOK, Claim, AttemptShape
<1> QED BY <1>1, <1>2, <1>3, <1>4, <1>5, <1>6, <1>7 DEF AttemptInv

\* An outcome preserves the invariant.
LEMMA CommitKeeps ==
    ASSUME AttemptInv, NEW a \in Attempts, NEW v \in Outcomes, CommitOutcome(a, v)
    PROVE  AttemptInv'
<1>1. TypeOK'
    BY AttemptsAssumption DEF AttemptInv, CommitOutcome, SettleAttempt, operationVars,
           TypeOK, Claim, Statuses, Settlements, Obligations
<1>2. OnlyCurrentMayStart'
    BY AttemptsAssumption DEF AttemptInv, CommitOutcome, SettleAttempt, operationVars,
           OnlyCurrentMayStart, TypeOK, Statuses, Settlements, SettlementFactsAgree,
           AttemptShape
<1>3. SettlementFactsAgree'
    BY AttemptsAssumption DEF AttemptInv, CommitOutcome, SettleAttempt, operationVars,
           SettlementFactsAgree, TypeOK, Statuses, Settlements, AttemptShape
<1>4. AbandonedHoldsNothing'
    BY AttemptsAssumption DEF AttemptInv, CommitOutcome, SettleAttempt, operationVars,
           AbandonedHoldsNothing, TypeOK, Statuses, Settlements, AttemptShape,
           SettlementFactsAgree
<1>5. ObligationFollowsAllocation'
    BY AttemptsAssumption DEF AttemptInv, CommitOutcome, SettleAttempt, operationVars,
           ObligationFollowsAllocation, TypeOK, Statuses, Settlements, AttemptShape,
           Obligations
<1>6. AttemptShape'
    BY AttemptsAssumption DEF AttemptInv, CommitOutcome, SettleAttempt, operationVars,
           AttemptShape, TypeOK, Statuses, Settlements, SettlementFactsAgree,
           OnlyCurrentMayStart, AbandonedHoldsNothing, ObligationFollowsAllocation
<1>7. ClaimShape'
    BY AttemptsAssumption DEF AttemptInv, CommitOutcome, SettleAttempt, operationVars,
           ClaimShape, TypeOK, Claim, AttemptShape
<1> QED BY <1>1, <1>2, <1>3, <1>4, <1>5, <1>6, <1>7 DEF AttemptInv

\* An abandonment preserves the invariant.
LEMMA AbandonKeeps ==
    ASSUME AttemptInv, NEW a \in Attempts, AbandonPendingAttempt(a)
    PROVE  AttemptInv'
<1>1. TypeOK'
    BY AttemptsAssumption DEF AttemptInv, AbandonPendingAttempt, SettleAttempt,
           operationVars, outcomeVars, TypeOK, Claim, Statuses, Settlements, Obligations
<1>2. OnlyCurrentMayStart'
    BY AttemptsAssumption DEF AttemptInv, AbandonPendingAttempt, SettleAttempt,
           operationVars, outcomeVars, OnlyCurrentMayStart, TypeOK, Statuses, Settlements,
           SettlementFactsAgree, AttemptShape
<1>3. SettlementFactsAgree'
    BY AttemptsAssumption DEF AttemptInv, AbandonPendingAttempt, SettleAttempt,
           operationVars, outcomeVars, SettlementFactsAgree, TypeOK, Statuses, Settlements,
           AttemptShape
<1>4. AbandonedHoldsNothing'
    BY AttemptsAssumption DEF AttemptInv, AbandonPendingAttempt, SettleAttempt,
           operationVars, outcomeVars, AbandonedHoldsNothing, TypeOK, Statuses, Settlements,
           AttemptShape, SettlementFactsAgree
<1>5. ObligationFollowsAllocation'
    BY AttemptsAssumption DEF AttemptInv, AbandonPendingAttempt, SettleAttempt,
           operationVars, outcomeVars, ObligationFollowsAllocation, TypeOK, Statuses,
           Settlements, AttemptShape, Obligations
<1>6. AttemptShape'
    BY AttemptsAssumption DEF AttemptInv, AbandonPendingAttempt, SettleAttempt,
           operationVars, outcomeVars, AttemptShape, TypeOK, Statuses, Settlements,
           SettlementFactsAgree, OnlyCurrentMayStart, AbandonedHoldsNothing,
           ObligationFollowsAllocation
<1>7. ClaimShape'
    BY AttemptsAssumption DEF AttemptInv, AbandonPendingAttempt, SettleAttempt,
           operationVars, outcomeVars, ClaimShape, TypeOK, Claim, AttemptShape
<1> QED BY <1>1, <1>2, <1>3, <1>4, <1>5, <1>6, <1>7 DEF AttemptInv

\* The initial states satisfy the invariant.
LEMMA InitInv == Init => AttemptInv
BY AttemptsAssumption
   DEF Init, AttemptInv, TypeOK, OnlyCurrentMayStart, SettlementFactsAgree,
       AbandonedHoldsNothing, ObligationFollowsAllocation, AttemptShape, ClaimShape,
       Claim, Statuses, Settlements, Obligations

\* A step that changes nothing preserves it.
LEMMA StutterKeeps ==
    ASSUME AttemptInv, UNCHANGED vars
    PROVE  AttemptInv'
BY DEF vars, AttemptInv, TypeOK, OnlyCurrentMayStart, SettlementFactsAgree,
       AbandonedHoldsNothing, ObligationFollowsAllocation, AttemptShape, ClaimShape,
       Claim, Statuses, Settlements, Obligations

\* Every step preserves it.
LEMMA NextKeeps ==
    ASSUME AttemptInv, [Next]_vars
    PROVE  AttemptInv'
<1>1. ASSUME NEW a \in Attempts, CreateAttempt(a)
      PROVE  AttemptInv'
    BY <1>1, InsertAttemptKeeps DEF CreateAttempt
<1>2. ASSUME NEW a \in Attempts, NEW o \in Controllers, BeginProvisioning(a, o)
      PROVE  AttemptInv'
    BY <1>2, BeginProvisioningKeeps
<1>3. ASSUME NEW a \in Attempts, LeaseExpires(a)
      PROVE  AttemptInv'
  <2>1. leased' \in [Attempts -> BOOLEAN]
    BY <1>3 DEF LeaseExpires, AttemptInv, TypeOK
  <2> QED BY <1>3, <2>1, LeaseKeeps DEF LeaseExpires
<1>4. ASSUME NEW a \in Attempts, NEW o \in Controllers, TakeOverProviderOperation(a, o)
      PROVE  AttemptInv'
    BY <1>4, TakeOverKeeps
<1>5. ASSUME NEW c \in claims, ControllerStep(c)
      PROVE  AttemptInv'
  <2>1. CASE RenewProviderOperationClaim(c)
    <3>1. leased' \in [Attempts -> BOOLEAN]
      BY <2>1 DEF RenewProviderOperationClaim, AttemptInv, TypeOK
    <3> QED BY <2>1, <3>1, LeaseKeeps DEF RenewProviderOperationClaim
  <2>2. CASE HandoffProviderOperation(c)
    BY <2>2, HandoffKeeps
  <2>3. CASE CompleteProviderOperation(c)
    BY <2>3, CompleteKeeps
  <2>4. ASSUME NEW r \in Refs, RecordAllocation(c, r) \/ RecordDiscoveredAllocation(c, r)
        PROVE  AttemptInv'
    BY <2>4, AllocationKeeps DEF RecordAllocation, RecordDiscoveredAllocation
  <2>5. ASSUME NEW r \in Refs, NEW s \in Refs, EvolveAllocationRef(c, r, s)
        PROVE  AttemptInv'
    BY <2>5, EvolveKeeps
  <2>6. CASE RecordProvisioningAbsent(c) \/ RecordProvisionerIncarnationLost(c)
    BY <2>6, AbsentKeeps DEF RecordProvisioningAbsent, RecordProvisionerIncarnationLost
  <2>7. CASE RecordAllocationTerminated(c)
    BY <2>7, TerminatedKeeps
  <2>8. CASE RecordInfrastructureFailure(c)
    BY <2>8, InfrastructureKeeps
  <2> QED BY <1>5, <2>1, <2>2, <2>3, <2>4, <2>5, <2>6, <2>7, <2>8 DEF ControllerStep
<1>6. ASSUME NEW a \in Attempts, RequestAttemptCancellation(a)
      PROVE  AttemptInv'
  <2>1. {a} \in SUBSET Attempts /\ \A x \in {a} : status[x] # "absent"
    BY <1>6 DEF RequestAttemptCancellation
  <2> QED BY <1>6, <2>1, CancelKeeps DEF RequestAttemptCancellation
<1>7. CASE RequestCancellation
    BY <1>7, CancelKeeps DEF RequestCancellation
<1>8. ASSUME NEW a \in Attempts, NEW v \in Outcomes, CommitOutcome(a, v)
      PROVE  AttemptInv'
    BY <1>8, CommitKeeps
<1>9. ASSUME NEW a \in Attempts, AbandonPendingAttempt(a)
      PROVE  AttemptInv'
    BY <1>9, AbandonKeeps
<1>10. CASE UNCHANGED vars
    BY <1>10, StutterKeeps
<1> QED
    BY <1>1, <1>2, <1>3, <1>4, <1>5, <1>6, <1>7, <1>8, <1>9, <1>10 DEF Next

\* The inductive invariant holds in every reachable state of every instance:
\* gates, settlement facts, obligations and the numbering of claims.
THEOREM Invariance == Spec => []AttemptInv
<1>1. Init => AttemptInv
    BY InitInv
<1>2. AttemptInv /\ [Next]_vars => AttemptInv'
    BY NextKeeps
<1> QED BY <1>1, <1>2, PTL DEF Spec

\* Work starts, and an allocation is claimed, only on the newest unsettled attempt.
THEOREM StartsAreFenced == Spec => []OnlyCurrentMayStart
<1>1. AttemptInv => OnlyCurrentMayStart
    BY DEF AttemptInv
<1> QED BY <1>1, Invariance, PTL

\* The facts readAttemptSettlement() calls corrupt cannot arise.
THEOREM FactsAgree == Spec => []SettlementFactsAgree
<1>1. AttemptInv => SettlementFactsAgree
    BY DEF AttemptInv
<1> QED BY <1>1, Invariance, PTL

\* No allocation is ever recorded against an abandoned attempt.
THEOREM NothingForgotten == Spec => []AbandonedHoldsNothing
<1>1. AttemptInv => AbandonedHoldsNothing
    BY DEF AttemptInv
<1> QED BY <1>1, Invariance, PTL

\* However often the operation changed hands, only the newest claim is good.
THEOREM ClaimsAreFenced == Spec => []SingleAuthority
<1>1. AttemptInv => SingleAuthority
  <2> SUFFICES ASSUME AttemptInv, NEW c \in claims, NEW d \in claims,
                      Authorized(c), d.attempt = c.attempt
               PROVE  d = c \/ d.generation < c.generation
    BY DEF SingleAuthority
  <2>1. d.generation \in 1 .. generation[c.attempt]
    BY DEF AttemptInv, ClaimShape
  <2>2. generation[c.attempt] = c.generation /\ c.generation \in Nat
    BY DEF Authorized, AttemptInv, TypeOK, Claim
  <2>3. d.generation = c.generation => d = c
    BY DEF AttemptInv, ClaimShape
  <2> QED BY <2>1, <2>2, <2>3
<1> QED BY <1>1, Invariance, PTL


-----------------------------------------------------------------------------
(* Action property: obligations only grow and a resolved operation is frozen. *)

\* A step that leaves the operation record, the evidence, the settlement and
\* the allocation alone is harmless.
LEMMA QuietProgress ==
    ASSUME AttemptInv, UNCHANGED <<generation, owner, token, obligation, evidence, alloc>>
    PROVE  OperationStep
BY DEF OperationStep, AttemptInv, TypeOK, Obligations, Rank, Resolved

\* Every step of the repository is a legal step of the operation record.
LEMMA NextProgress ==
    ASSUME AttemptInv, [Next]_vars
    PROVE  OperationStep
<1>1. ASSUME NEW a \in Attempts, CreateAttempt(a)
      PROVE  OperationStep
    BY <1>1, QuietProgress DEF CreateAttempt, InsertAttempt, operationVars
<1>2. ASSUME NEW a \in Attempts, NEW o \in Controllers, BeginProvisioning(a, o)
      PROVE  OperationStep
    BY <1>2 DEF BeginProvisioning, Issue, OperationStep, AttemptInv, TypeOK, Obligations, Rank,
                Resolved, AttemptShape, ObligationFollowsAllocation
<1>3. ASSUME NEW a \in Attempts, LeaseExpires(a)
      PROVE  OperationStep
    BY <1>3, QuietProgress DEF LeaseExpires, attemptVars
<1>4. ASSUME NEW a \in Attempts, NEW o \in Controllers, TakeOverProviderOperation(a, o)
      PROVE  OperationStep
    BY <1>4 DEF TakeOverProviderOperation, Issue, OperationStep, AttemptInv, TypeOK, Obligations,
                Rank, Resolved, attemptVars
<1>5. ASSUME NEW c \in claims, ControllerStep(c)
      PROVE  OperationStep
  <2>0. c.attempt \in Attempts
    BY DEF AttemptInv, TypeOK, Claim
  <2>1. CASE RenewProviderOperationClaim(c)
    BY <2>1, QuietProgress DEF RenewProviderOperationClaim, attemptVars
  <2>2. CASE HandoffProviderOperation(c)
    BY <2>0, <2>2 DEF HandoffProviderOperation, Authorized, OperationStep, AttemptInv, TypeOK,
                      Obligations, Rank, Resolved, attemptVars
  <2>3. CASE CompleteProviderOperation(c)
    BY <2>0, <2>3 DEF CompleteProviderOperation, Authorized, OperationStep, AttemptInv, TypeOK,
                      Obligations, Rank, Resolved, attemptVars, ownerVars
  <2>4. ASSUME NEW r \in Refs, RecordAllocation(c, r) \/ RecordDiscoveredAllocation(c, r)
        PROVE  OperationStep
    <3>1. PICK b \in BOOLEAN : ApplyAllocation(c, r, b)
      BY <2>4 DEF RecordAllocation, RecordDiscoveredAllocation
    <3>2. obligation[c.attempt] = "provisioning-resolution"
      BY <2>0, <3>1 DEF ApplyAllocation, AttemptInv, ObligationFollowsAllocation
    <3> QED
      BY <2>0, <3>1, <3>2 DEF ApplyAllocation, Authorized, OperationStep, AttemptInv, TypeOK,
                              Obligations, Rank, Resolved, ownerVars
  <2>5. ASSUME NEW r \in Refs, NEW s \in Refs, EvolveAllocationRef(c, r, s)
        PROVE  OperationStep
    BY <2>0, <2>5 DEF EvolveAllocationRef, Authorized, OperationStep, AttemptInv, TypeOK,
                      Obligations, Rank, Resolved, operationVars
  <2>6. CASE RecordProvisioningAbsent(c) \/ RecordProvisionerIncarnationLost(c)
    BY <2>0, <2>6 DEF RecordProvisioningAbsent, RecordProvisionerIncarnationLost, ProvenAbsent,
                      Authorized, OperationStep, AttemptInv, TypeOK, Obligations, Rank, Resolved,
                      ownerVars
  <2>7. CASE RecordAllocationTerminated(c)
    BY <2>0, <2>7 DEF RecordAllocationTerminated, Authorized, OperationStep, AttemptInv, TypeOK,
                      Obligations, Rank, Resolved, attemptVars, ownerVars
  <2>8. CASE RecordInfrastructureFailure(c)
    BY <2>8, QuietProgress DEF RecordInfrastructureFailure, operationVars
  <2> QED BY <1>5, <2>1, <2>2, <2>3, <2>4, <2>5, <2>6, <2>7, <2>8 DEF ControllerStep
<1>6. ASSUME NEW a \in Attempts, RequestAttemptCancellation(a)
      PROVE  OperationStep
    BY <1>6, QuietProgress DEF RequestAttemptCancellation, CloseGates, operationVars
<1>7. CASE RequestCancellation
    BY <1>7, QuietProgress DEF RequestCancellation, CloseGates, operationVars
<1>8. ASSUME NEW a \in Attempts, NEW v \in Outcomes, CommitOutcome(a, v)
      PROVE  OperationStep
    BY <1>8, QuietProgress DEF CommitOutcome, operationVars
<1>9. ASSUME NEW a \in Attempts, AbandonPendingAttempt(a)
      PROVE  OperationStep
    BY <1>9, QuietProgress DEF AbandonPendingAttempt, operationVars
<1>10. CASE UNCHANGED vars
    BY <1>10, QuietProgress DEF vars
<1> QED
    BY <1>1, <1>2, <1>3, <1>4, <1>5, <1>6, <1>7, <1>8, <1>9, <1>10 DEF Next

\* Obligations never move backwards and a resolved operation is frozen.
THEOREM OperationsProgress == Spec => OperationProgress
<1>1. AttemptInv /\ [Next]_vars => [OperationStep]_vars
    BY NextProgress
<1> QED BY <1>1, Invariance, PTL DEF Spec, OperationProgress

-----------------------------------------------------------------------------
(* Refinement: the repository implements the ledger. *)

MayStart == {a \in Attempts : gate[a] = "open"}

\* A step that touches neither pointer, settlements, outcomes nor gates, and
\* creates no attempt, is invisible to the owner.
LEMMA InvisibleStep ==
    ASSUME UNCHANGED <<active, settlement, gate, committed>>,
           \A a \in Attempts : status'[a] = "absent" <=> status[a] = "absent"
    PROVE  UNCHANGED Ledger!ledgerVars
BY DEF Ledger!ledgerVars, Verdict

\* Settling an open attempt without an outcome is the ledger's Fail.
LEMMA FailStep ==
    ASSUME AttemptInv, NEW a \in Attempts, NEW f \in {"abandoned", "infrastructure-failure"},
           settlement[a] = None, status[a] # "absent", SettleAttempt(a, f),
           UNCHANGED <<active, committed>>
    PROVE  Ledger!LNext
<1>1. Ledger!Fail(a, f)
  <2>1. Verdict[a] = Ledger!Without("open")
    BY AttemptsAssumption
       DEF Verdict, Ledger!Without, AttemptInv, SettlementFactsAgree, TypeOK, Settlements
  <2>2. Verdict' = [Verdict EXCEPT ![a] = Ledger!Without(f)]
    BY AttemptsAssumption
       DEF Verdict, Ledger!Without, SettleAttempt, AttemptInv, SettlementFactsAgree, TypeOK,
           Settlements
  <2>3. MayStart' = MayStart \ {a}
    BY DEF MayStart, SettleAttempt, AttemptInv, TypeOK
  <2> QED BY <2>1, <2>2, <2>3 DEF Ledger!Fail, MayStart
<1> QED BY <1>1 DEF Ledger!LNext, Ledger!Failures

\* Closing gates is the ledger's Withdraw.
LEMMA WithdrawStep ==
    ASSUME AttemptInv, NEW S \in SUBSET Attempts, CloseGates(S)
    PROVE  Ledger!LNext
<1>1. MayStart' = MayStart \ S
    BY DEF MayStart, CloseGates, AttemptInv, TypeOK
<1>2. UNCHANGED <<active, Verdict>>
    BY DEF CloseGates, Verdict, outcomeVars
<1> QED BY <1>1, <1>2 DEF Ledger!LNext, Ledger!Withdraw, MayStart

\* Every step of the repository is a step of the ledger or invisible.
LEMMA NextRefines ==
    ASSUME AttemptInv, [Next]_vars
    PROVE  [Ledger!LNext]_(Ledger!ledgerVars)
<1>1. ASSUME NEW a \in Attempts, CreateAttempt(a)
      PROVE  Ledger!LNext
  <2>1. Verdict[a] = Ledger!Without("absent")
    BY <1>1, AttemptsAssumption
       DEF CreateAttempt, InsertAttempt, Verdict, Ledger!Without, AttemptInv,
           SettlementFactsAgree, TypeOK, Settlements, Statuses
  <2>2. Verdict' = [Verdict EXCEPT ![a] = Ledger!Without("open")]
    BY <1>1, AttemptsAssumption
       DEF CreateAttempt, InsertAttempt, Verdict, Ledger!Without, AttemptInv,
           SettlementFactsAgree, TypeOK, Settlements, Statuses, outcomeVars
  <2>3. MayStart' = {a}
    BY <1>1 DEF CreateAttempt, InsertAttempt, MayStart, AttemptInv, OnlyCurrentMayStart, TypeOK
  <2>4. active' = a
    BY <1>1 DEF CreateAttempt, InsertAttempt
  <2> QED BY <2>1, <2>2, <2>3, <2>4 DEF Ledger!LNext, Ledger!Supersede, MayStart
<1>2. ASSUME NEW a \in Attempts, NEW o \in Controllers, BeginProvisioning(a, o)
      PROVE  UNCHANGED Ledger!ledgerVars
    BY <1>2, InvisibleStep DEF BeginProvisioning, outcomeVars, AttemptInv, TypeOK
<1>3. ASSUME NEW a \in Attempts, LeaseExpires(a)
      PROVE  UNCHANGED Ledger!ledgerVars
    BY <1>3, InvisibleStep DEF LeaseExpires, attemptVars, outcomeVars
<1>4. ASSUME NEW a \in Attempts, NEW o \in Controllers, TakeOverProviderOperation(a, o)
      PROVE  UNCHANGED Ledger!ledgerVars
    BY <1>4, InvisibleStep DEF TakeOverProviderOperation, attemptVars, outcomeVars
<1>5. ASSUME NEW c \in claims, ControllerStep(c)
      PROVE  [Ledger!LNext]_(Ledger!ledgerVars)
  <2>0. c.attempt \in Attempts
    BY DEF AttemptInv, TypeOK, Claim
  <2>1. CASE RenewProviderOperationClaim(c)
    BY <2>1, InvisibleStep DEF RenewProviderOperationClaim, attemptVars, outcomeVars
  <2>2. CASE HandoffProviderOperation(c)
    BY <2>2, InvisibleStep DEF HandoffProviderOperation, attemptVars, outcomeVars
  <2>3. CASE CompleteProviderOperation(c)
    BY <2>3, InvisibleStep DEF CompleteProviderOperation, attemptVars, outcomeVars
  <2>4. ASSUME NEW r \in Refs, RecordAllocation(c, r) \/ RecordDiscoveredAllocation(c, r)
        PROVE  UNCHANGED Ledger!ledgerVars
    <3>1. PICK b \in BOOLEAN : ApplyAllocation(c, r, b)
      BY <2>4 DEF RecordAllocation, RecordDiscoveredAllocation
    <3>2. status[c.attempt] # "absent"
      BY <2>0, <3>1 DEF ApplyAllocation, Authorized, AttemptInv, AttemptShape, TypeOK
    <3>3. \A a \in Attempts : status'[a] = "absent" <=> status[a] = "absent"
      BY <2>0, <3>1, <3>2 DEF ApplyAllocation, AttemptInv, TypeOK
    <3> QED BY <3>1, <3>3, InvisibleStep DEF ApplyAllocation, outcomeVars
  <2>5. ASSUME NEW r \in Refs, NEW s \in Refs, EvolveAllocationRef(c, r, s)
        PROVE  UNCHANGED Ledger!ledgerVars
    BY <2>5, InvisibleStep DEF EvolveAllocationRef, outcomeVars
  <2>6. CASE RecordProvisioningAbsent(c) \/ RecordProvisionerIncarnationLost(c)
    <3>1. ProvenAbsent(c)
      BY <2>6 DEF RecordProvisioningAbsent, RecordProvisionerIncarnationLost
    <3>2. status[c.attempt] # "absent"
      BY <2>0, <3>1 DEF ProvenAbsent, Authorized, AttemptInv, AttemptShape, TypeOK
    <3>3. CASE settlement[c.attempt] = None
      <4>1. SettleAttempt(c.attempt, "abandoned") /\ UNCHANGED <<active, committed>>
        BY <3>1, <3>3 DEF ProvenAbsent, outcomeVars
      <4> QED BY <2>0, <3>2, <3>3, <4>1, FailStep
    <3>4. CASE settlement[c.attempt] # None
      <4>1. UNCHANGED <<active, status, settlement, gate, committed>>
        BY <3>1, <3>4 DEF ProvenAbsent, outcomeVars
      <4> QED BY <4>1, InvisibleStep
    <3> QED BY <3>3, <3>4
  <2>7. CASE RecordAllocationTerminated(c)
    BY <2>7, InvisibleStep DEF RecordAllocationTerminated, attemptVars, outcomeVars
  <2>8. CASE RecordInfrastructureFailure(c)
    <3>1. status[c.attempt] # "absent"
      BY <2>0, <2>8 DEF RecordInfrastructureFailure, Authorized, AttemptInv, AttemptShape, TypeOK
    <3> QED BY <2>0, <2>8, <3>1, FailStep DEF RecordInfrastructureFailure, outcomeVars
  <2> QED BY <1>5, <2>1, <2>2, <2>3, <2>4, <2>5, <2>6, <2>7, <2>8 DEF ControllerStep
<1>6. ASSUME NEW a \in Attempts, RequestAttemptCancellation(a)
      PROVE  Ledger!LNext
    BY <1>6, WithdrawStep DEF RequestAttemptCancellation
<1>7. CASE RequestCancellation
    BY <1>7, WithdrawStep DEF RequestCancellation
<1>8. ASSUME NEW a \in Attempts, NEW v \in Outcomes, CommitOutcome(a, v)
      PROVE  Ledger!LNext
  <2>0. status[a] # "absent"
    BY <1>8, AttemptsAssumption DEF CommitOutcome, AttemptInv, AttemptShape
  <2>1. Verdict[a] = Ledger!Without("open")
    BY <1>8, <2>0 DEF CommitOutcome, Verdict, Ledger!Without
  <2>2. Verdict' = [Verdict EXCEPT ![a] = [kind |-> "outcome", outcome |-> v]]
    BY <1>8, AttemptsAssumption
       DEF CommitOutcome, SettleAttempt, Verdict, AttemptInv, TypeOK, Settlements
  <2>3. MayStart' = MayStart \ {a}
    BY <1>8 DEF CommitOutcome, SettleAttempt, MayStart, AttemptInv, TypeOK
  <2>4. active = a /\ active' = active
    BY <1>8 DEF CommitOutcome
  <2> QED BY <2>1, <2>2, <2>3, <2>4 DEF Ledger!LNext, Ledger!Answer, MayStart
<1>9. ASSUME NEW a \in Attempts, AbandonPendingAttempt(a)
      PROVE  Ledger!LNext
  <2>1. settlement[a] = None /\ status[a] # "absent"
    BY <1>9 DEF AbandonPendingAttempt, AttemptInv, SettlementFactsAgree
  <2> QED BY <1>9, <2>1, FailStep DEF AbandonPendingAttempt, outcomeVars
<1>10. CASE UNCHANGED vars
    BY <1>10, InvisibleStep DEF vars
<1> QED
    BY <1>1, <1>2, <1>3, <1>4, <1>5, <1>6, <1>7, <1>8, <1>9, <1>10 DEF Next

\* The repository implements the ledger for every number of attempts,
\* controllers, outcomes and takeovers.
THEOREM RefinesLedger == Spec => ImplementsLedger
<1>1. Init => Ledger!LInit
    BY DEF Init, Ledger!LInit, Ledger!Without, Verdict
<1>2. AttemptInv /\ [Next]_vars => [Ledger!LNext]_(Ledger!ledgerVars)
    BY NextRefines
<1> QED BY <1>1, <1>2, Invariance, PTL DEF Spec, ImplementsLedger, Ledger!LSpec
=============================================================================
