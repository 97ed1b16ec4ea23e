------------------------- MODULE ExecutionAttempts -------------------------
(***************************************************************************)
(* The durable state machine of a workflow execution's attempts            *)
(* (storage/pg execution-attempt-*.ts): the records, the active pointer,   *)
(* the fenced ownership of the provider operation, cancellation and the    *)
(* committed outcome, of ONE execution (no operation crosses executions).  *)
(* Every repository operation is one transaction, so one action; a refused *)
(* call changes nothing and is a stuttering step.  Any claim ever issued   *)
(* may be presented at any time: delayed and repeated calls of crashed or  *)
(* superseded controllers.                                                 *)
(***************************************************************************)
EXTENDS Naturals

CONSTANTS
    Attempts,      \* executionAttemptIds, drawn afresh for every attempt
    Controllers,   \* controller process incarnations (ownerId)
    Outcomes,      \* outcomes a workload may submit
    Refs,          \* provider allocation references
    MaxGeneration, \* bound on takeovers of one provider operation
    None

Statuses == {"absent", "pending", "provisioning", "allocated", "settled"}
Settlements == {"outcome", "abandoned", "infrastructure-failure"}
Obligations == {"provisioning-resolution", "allocation-control", "terminal-convergence"}

ASSUME AttemptsAssumption ==
    /\ None \notin Attempts \union Controllers \union Outcomes \union Refs \union Settlements
    /\ MaxGeneration \in Nat \ {0}

VARIABLES
    active,       \* activeAttempts: the newest attempt, or None
    status,       \* "absent" before the record exists
    settlement,   \* settlementKind, or None
    gate,         \* operationStartGate
    claimable,    \* may a bootstrap claim the allocation
    alloc,        \* allocationRef, or None
    generation,   \* provider operation: 0 before the record exists
    owner,        \* provider operation: ownerId, or None
    token,        \* provider operation: fencing token, 0 for null
    leased,       \* provider operation: the lease has not expired
    obligation,   \* provider operation: outstanding debt
    evidence,     \* provider operation: completion was positively proven
    claims,       \* every claim handed out so far
    committed,    \* committedOutcomes
    observed,     \* outcomeControlObservations
    cancelled     \* attempts with a cancellation intent

attemptVars == <<active, status, settlement, gate, claimable, alloc>>
ownerVars == <<generation, owner, token, leased, claims>>
operationVars == <<generation, owner, token, leased, obligation, evidence, claims>>
outcomeVars == <<committed, observed>>
vars == <<active, status, settlement, gate, claimable, alloc,
          generation, owner, token, leased, obligation, evidence, claims,
          committed, observed, cancelled>>

Claim == [attempt : Attempts, generation : Nat, owner : Controllers, token : Nat]

TypeOK ==
    /\ active \in Attempts \union {None}
    /\ status \in [Attempts -> Statuses]
    /\ settlement \in [Attempts -> Settlements \union {None}]
    /\ gate \in [Attempts -> {"open", "closed"}]
    /\ claimable \in [Attempts -> BOOLEAN]
    /\ alloc \in [Attempts -> Refs \union {None}]
    /\ generation \in [Attempts -> Nat]
    /\ owner \in [Attempts -> Controllers \union {None}]
    /\ token \in [Attempts -> Nat]
    /\ leased \in [Attempts -> BOOLEAN]
    /\ obligation \in [Attempts -> Obligations]
    /\ evidence \in [Attempts -> BOOLEAN]
    /\ claims \in SUBSET Claim
    /\ committed \in [Attempts -> Outcomes \union {None}]
    /\ observed \in [Attempts -> {"nothing", "clear", "cancelled"}]
    /\ cancelled \in SUBSET Attempts

Init ==
    /\ active = None
    /\ status = [a \in Attempts |-> "absent"]
    /\ settlement = [a \in Attempts |-> None]
    /\ gate = [a \in Attempts |-> "closed"]
    /\ claimable = [a \in Attempts |-> FALSE]
    /\ alloc = [a \in Attempts |-> None]
    /\ generation = [a \in Attempts |-> 0]
    /\ owner = [a \in Attempts |-> None]
    /\ token = [a \in Attempts |-> 0]
    /\ leased = [a \in Attempts |-> FALSE]
    /\ obligation = [a \in Attempts |-> "provisioning-resolution"]
    /\ evidence = [a \in Attempts |-> FALSE]
    /\ claims = {}
    /\ committed = [a \in Attempts |-> None]
    /\ observed = [a \in Attempts |-> "nothing"]
    /\ cancelled = {}

-----------------------------------------------------------------------------
(* Creation. *)

\* mutant: the attempt that is replaced keeps its start gate
InsertKeepsGate(a) ==
    /\ status[a] = "absent"
    /\ status' = [status EXCEPT ![a] = "pending"]
    /\ active' = a
    /\ gate' = [gate EXCEPT ![a] = "open"]
    /\ claimable' = [x \in Attempts |->
                        IF x = active /\ status[x] = "allocated" THEN FALSE ELSE claimable[x]]
    /\ UNCHANGED <<settlement, alloc, operationVars, outcomeVars, cancelled>>

\* a pending record becomes the active one; its predecessor's gate closes and
\* its allocation cannot be claimed any more
InsertAttempt(a) ==
    /\ status[a] = "absent"
    /\ status' = [status EXCEPT ![a] = "pending"]
    /\ active' = a
    /\ gate' = [x \in Attempts |->
                   IF x = a THEN "open" ELSE IF x = active THEN "closed" ELSE gate[x]]
    /\ claimable' = [x \in Attempts |->
                        IF x = active /\ status[x] = "allocated" THEN FALSE ELSE claimable[x]]
    /\ UNCHANGED <<settlement, alloc, operationVars, outcomeVars, cancelled>>

CreateAttempt(a) == InsertAttempt(a)

-----------------------------------------------------------------------------
(* Provider operation ownership. *)

Resolved(a) == settlement[a] # None /\ evidence[a]

\* mutant: any claim of the owner's incarnation is good
SameOwner(c) ==
    /\ generation[c.attempt] > 0
    /\ ~Resolved(c.attempt)
    /\ owner[c.attempt] = c.owner

\* authorize(): the lease deliberately plays no part
Authorized(c) ==
    /\ generation[c.attempt] > 0
    /\ ~Resolved(c.attempt)
    /\ token[c.attempt] # 0
    /\ token[c.attempt] = c.token
    /\ generation[c.attempt] = c.generation
    /\ owner[c.attempt] = c.owner

\* claim number n on attempt a goes to controller o.  The token is a random
\* UUID, so it was never issued before: n stands for it.
Issue(a, n, o) ==
    /\ generation' = [generation EXCEPT ![a] = n]
    /\ owner' = [owner EXCEPT ![a] = o]
    /\ token' = [token EXCEPT ![a] = n]
    /\ leased' = [leased EXCEPT ![a] = TRUE]
    /\ claims' = claims \union {[attempt |-> a, generation |-> n, owner |-> o, token |-> n]}

BeginProvisioning(a, o) ==
    /\ active = a
    /\ settlement[a] = None
    /\ alloc[a] = None
    /\ gate[a] = "open"
    /\ status[a] = "pending"
    /\ status' = [status EXCEPT ![a] = "provisioning"]
    /\ Issue(a, 1, o)
    /\ obligation' = [obligation EXCEPT ![a] = "provisioning-resolution"]
    /\ evidence' = [evidence EXCEPT ![a] = FALSE]
    /\ UNCHANGED <<active, settlement, gate, claimable, alloc, outcomeVars, cancelled>>

RenewProviderOperationClaim(c) ==
    /\ Authorized(c)
    /\ leased' = [leased EXCEPT ![c.attempt] = TRUE]
    /\ UNCHANGED <<attemptVars, generation, owner, token, obligation, evidence, claims,
                   outcomeVars, cancelled>>

\* the clock passes leaseExpiresAt
LeaseExpires(a) ==
    /\ leased[a]
    /\ leased' = [leased EXCEPT ![a] = FALSE]
    /\ UNCHANGED <<attemptVars, generation, owner, token, obligation, evidence, claims,
                   outcomeVars, cancelled>>

\* an unowned or expired operation changes hands under the next generation
TakeOverProviderOperation(a, o) ==
    /\ generation[a] \in 1 .. MaxGeneration - 1
    /\ ~Resolved(a)
    /\ owner[a] = None \/ ~leased[a]
    /\ Issue(a, generation[a] + 1, o)
    /\ UNCHANGED <<attemptVars, obligation, evidence, outcomeVars, cancelled>>

HandoffProviderOperation(c) ==
    /\ Authorized(c)
    /\ owner' = [owner EXCEPT ![c.attempt] = None]
    /\ token' = [token EXCEPT ![c.attempt] = 0]
    /\ leased' = [leased EXCEPT ![c.attempt] = FALSE]
    /\ UNCHANGED <<attemptVars, generation, obligation, evidence, claims,
                   outcomeVars, cancelled>>

CompleteProviderOperation(c) ==
    /\ Authorized(c)
    /\ ~evidence[c.attempt]
    /\ evidence' = [evidence EXCEPT ![c.attempt] = TRUE]
    /\ UNCHANGED <<attemptVars, ownerVars, obligation, outcomeVars, cancelled>>

-----------------------------------------------------------------------------
(* Provider evidence. *)

\* mutant: an allocation reported again is applied again
ApplyAllocationAgain(c, r, bootstrapClaimable) ==
    LET a == c.attempt
    IN /\ Authorized(c)
       /\ alloc' = [alloc EXCEPT ![a] = r]
       /\ status' = [status EXCEPT ![a] = IF settlement[a] = None THEN "allocated" ELSE @]
       /\ claimable' = [claimable EXCEPT
                           ![a] = settlement[a] = None /\ bootstrapClaimable /\ active = a]
       /\ obligation' = [obligation EXCEPT ![a] = "allocation-control"]
       /\ UNCHANGED <<active, settlement, gate, ownerVars, evidence,
                      outcomeVars, cancelled>>

\* a provider reported what it allocated; a settled attempt records it too,
\* because somebody has to release it
ApplyAllocation(c, r, bootstrapClaimable) ==
    LET a == c.attempt
    IN /\ Authorized(c)
       /\ alloc[a] = None
       /\ alloc' = [alloc EXCEPT ![a] = r]
       /\ status' = [status EXCEPT ![a] = IF settlement[a] = None THEN "allocated" ELSE @]
       /\ claimable' = [claimable EXCEPT
                           ![a] = settlement[a] = None /\ bootstrapClaimable /\ active = a]
       /\ obligation' = [obligation EXCEPT ![a] = "allocation-control"]
       /\ UNCHANGED <<active, settlement, gate, ownerVars, evidence,
                      outcomeVars, cancelled>>

RecordAllocation(c, r) == ApplyAllocation(c, r, TRUE)

RecordDiscoveredAllocation(c, r) == ApplyAllocation(c, r, FALSE)

\* compare and swap of the reference
EvolveAllocationRef(c, currentRef, nextRef) ==
    /\ Authorized(c)
    /\ alloc[c.attempt] = currentRef
    /\ alloc' = [alloc EXCEPT ![c.attempt] = nextRef]
    /\ UNCHANGED <<active, status, settlement, gate, claimable, operationVars,
                   outcomeVars, cancelled>>

SettleAttempt(a, kind) ==
    /\ status' = [status EXCEPT ![a] = "settled"]
    /\ settlement' = [settlement EXCEPT ![a] = kind]
    /\ claimable' = [claimable EXCEPT ![a] = FALSE]
    /\ gate' = [gate EXCEPT ![a] = "closed"]

\* mutant: the attempt is abandoned but the proof is not stored
AbandonWithoutProof(c) ==
    LET a == c.attempt
    IN /\ Authorized(c)
       /\ alloc[a] = None
       /\ settlement[a] = None
       /\ SettleAttempt(a, "abandoned")
       /\ UNCHANGED <<active, alloc, operationVars, outcomeVars, cancelled>>

\* nothing was allocated and nothing will be: an unsettled attempt is
\* abandoned, and in either case the operation owes nothing more
ProvenAbsent(c) ==
    LET a == c.attempt
    IN /\ Authorized(c)
       /\ alloc[a] = None
       /\ \/ settlement[a] = None /\ SettleAttempt(a, "abandoned")
          \/ settlement[a] # None /\ UNCHANGED <<status, settlement, claimable, gate>>
       /\ evidence' = [evidence EXCEPT ![a] = TRUE]
       /\ UNCHANGED <<active, alloc, ownerVars, obligation,
                      outcomeVars, cancelled>>

RecordProvisioningAbsent(c) == ProvenAbsent(c)

\* the process the allocation would be bound to is gone; a lifetime or an
\* incarnation that does not match is refused
RecordProvisionerIncarnationLost(c) == ProvenAbsent(c)

\* mutant: a termination may be recorded before any allocation is known
TerminatedUnallocated(c) ==
    /\ Authorized(c)
    /\ obligation' = [obligation EXCEPT ![c.attempt] = "terminal-convergence"]
    /\ UNCHANGED <<attemptVars, ownerVars, evidence, outcomeVars, cancelled>>

RecordAllocationTerminated(c) ==
    /\ Authorized(c)
    /\ alloc[c.attempt] # None
    /\ obligation' = [obligation EXCEPT ![c.attempt] = "terminal-convergence"]
    /\ UNCHANGED <<attemptVars, ownerVars, evidence, outcomeVars, cancelled>>

RecordInfrastructureFailure(c) ==
    LET a == c.attempt
    IN /\ Authorized(c)
       /\ settlement[a] = None
       /\ alloc[a] # None
       /\ obligation[a] = "terminal-convergence"
       /\ SettleAttempt(a, "infrastructure-failure")
       /\ UNCHANGED <<active, alloc, operationVars, outcomeVars, cancelled>>

-----------------------------------------------------------------------------
(* Owner operations: cancellation, outcome, abandonment. *)

\* the first intent wins, a repeated request replays it; the gate closes
CloseGates(S) ==
    /\ cancelled' = cancelled \union S
    /\ gate' = [x \in Attempts |-> IF x \in S THEN "closed" ELSE gate[x]]
    /\ UNCHANGED <<active, status, settlement, claimable, alloc,
                   operationVars, outcomeVars>>

RequestAttemptCancellation(a) == status[a] # "absent" /\ CloseGates({a})

\* every attempt of the execution, historical ones too
RequestCancellation == CloseGates({a \in Attempts : status[a] # "absent"})

\* mutant: the answer of a replaced attempt is accepted
CommitUnfenced(a, v) ==
    /\ status[a] # "absent"
    /\ committed[a] = None
    /\ settlement[a] = None
    /\ committed' = [committed EXCEPT ![a] = v]
    /\ observed' = [observed EXCEPT ![a] = IF a \in cancelled THEN "cancelled" ELSE "clear"]
    /\ SettleAttempt(a, "outcome")
    /\ UNCHANGED <<active, alloc, operationVars, cancelled>>

\* mutant: a competing terminal transition is overwritten
CommitOverSettlement(a, v) ==
    /\ active = a
    /\ committed[a] = None
    /\ committed' = [committed EXCEPT ![a] = v]
    /\ observed' = [observed EXCEPT ![a] = IF a \in cancelled THEN "cancelled" ELSE "clear"]
    /\ SettleAttempt(a, IF settlement[a] = None THEN "outcome" ELSE settlement[a])
    /\ UNCHANGED <<active, alloc, operationVars, cancelled>>

\* an accepted outcome; no claim is needed to commit one
CommitOutcome(a, v) ==
    /\ active = a
    /\ committed[a] = None
    /\ settlement[a] = None
    /\ committed' = [committed EXCEPT ![a] = v]
    /\ observed' = [observed EXCEPT ![a] = IF a \in cancelled THEN "cancelled" ELSE "clear"]
    /\ SettleAttempt(a, "outcome")
    /\ UNCHANGED <<active, alloc, operationVars, cancelled>>

AbandonPendingAttempt(a) ==
    /\ active = a
    /\ status[a] = "pending"
    /\ SettleAttempt(a, "abandoned")
    /\ UNCHANGED <<active, alloc, operationVars, outcomeVars, cancelled>>

ControllerStep(c) ==
    \/ RenewProviderOperationClaim(c)
    \/ HandoffProviderOperation(c)
    \/ CompleteProviderOperation(c)
    \/ \E r \in Refs : RecordAllocation(c, r) \/ RecordDiscoveredAllocation(c, r)
    \/ \E r, s \in Refs : EvolveAllocationRef(c, r, s)
    \/ RecordProvisioningAbsent(c)
    \/ RecordProvisionerIncarnationLost(c)
    \/ RecordAllocationTerminated(c)
    \/ RecordInfrastructureFailure(c)

Next ==
    \/ \E a \in Attempts : CreateAttempt(a)
    \/ \E a \in Attempts, o \in Controllers : BeginProvisioning(a, o)
    \/ \E a \in Attempts : LeaseExpires(a)
    \/ \E a \in Attempts, o \in Controllers : TakeOverProviderOperation(a, o)
    \/ \E c \in claims : ControllerStep(c)
    \/ \E a \in Attempts : RequestAttemptCancellation(a)
    \/ RequestCancellation
    \/ \E a \in Attempts, v \in Outcomes : CommitOutcome(a, v)
    \/ \E a \in Attempts : AbandonPendingAttempt(a)

Spec == Init /\ [][Next]_vars

-----------------------------------------------------------------------------
(* Properties. *)

\* Work can be started, and an allocation claimed for bootstrap, only on the
\* newest attempt, while it has no settlement; a cancelled attempt starts
\* nothing.
OnlyCurrentMayStart ==
    \A a \in Attempts :
        /\ gate[a] = "open" => a = active /\ settlement[a] = None /\ a \notin cancelled
        /\ claimable[a] => a = active /\ status[a] = "allocated"

\* Of all the claims ever issued on an attempt's provider operation only the
\* newest can be good: what a superseded controller still sends changes nothing.
SingleAuthority ==
    \A c, d \in claims :
        Authorized(c) /\ d.attempt = c.attempt => d = c \/ d.generation < c.generation

\* readAttemptSettlement() never meets the facts it calls corrupt: status,
\* settlement kind and outcome agree, also after a race of two terminal
\* transitions.
SettlementFactsAgree ==
    \A a \in Attempts :
        /\ status[a] = "settled" <=> settlement[a] # None
        /\ committed[a] # None <=> settlement[a] = "outcome"
        /\ observed[a] # "nothing" <=> committed[a] # None

\* An abandoned attempt has no allocation, and no late report can give it one
\* that nobody would release.
AbandonedHoldsNothing ==
    \A a \in Attempts : settlement[a] = "abandoned" => alloc[a] = None

\* The obligation follows what is known of the allocation; a settlement by
\* infrastructure failure follows a recorded termination.
ObligationFollowsAllocation ==
    \A a \in Attempts :
        /\ alloc[a] = None <=> obligation[a] = "provisioning-resolution"
        /\ settlement[a] = "infrastructure-failure" => obligation[a] = "terminal-convergence"

Rank == [o \in Obligations |->
            CASE o = "provisioning-resolution" -> 0
              [] o = "allocation-control" -> 1
              [] o = "terminal-convergence" -> 2]

\* A stored obligation never moves backwards, and nothing about a resolved
\* operation changes any more but the passing of its lease.
OperationStep ==
    \A a \in Attempts :
        /\ Rank[obligation[a]] <= Rank[obligation'[a]]
        /\ Resolved(a) =>
              /\ generation'[a] = generation[a]
              /\ owner'[a] = owner[a]
              /\ token'[a] = token[a]
              /\ obligation'[a] = obligation[a]
              /\ evidence'[a]
              /\ alloc'[a] = alloc[a]

OperationProgress == [][OperationStep]_vars

\* How far an attempt has come and whether its provider operation exists.
AttemptShape ==
    \A a \in Attempts :
        /\ status[a] = "absent" => a # active /\ a \notin cancelled
        /\ status[a] \in {"absent", "pending"} => generation[a] = 0
        /\ status[a] \in {"provisioning", "allocated"} => generation[a] > 0
        /\ generation[a] = 0 => alloc[a] = None /\ ~evidence[a]
        /\ settlement[a] = "abandoned" /\ generation[a] > 0 => evidence[a]

\* Claims are numbered: one for each generation the operation went through.
ClaimShape ==
    /\ \A a \in Attempts : token[a] \in {0, generation[a]}
    /\ \A c \in claims : /\ c.generation \in 1 .. generation[c.attempt]
                         /\ c.token = c.generation
    /\ \A c, d \in claims : c.attempt = d.attempt /\ c.generation = d.generation => c = d

\* The inductive invariant behind the properties above: evidence is on record
\* for every abandoned attempt with an operation, and claims are numbered.
AttemptInv ==
    /\ TypeOK
    /\ OnlyCurrentMayStart
    /\ SettlementFactsAgree
    /\ AbandonedHoldsNothing
    /\ ObligationFollowsAllocation
    /\ AttemptShape
    /\ ClaimShape

\* What an owner sees of an attempt.
Verdict == [a \in Attempts |->
               [kind |-> IF status[a] = "absent" THEN "absent"
                         ELSE IF settlement[a] = None THEN "open" ELSE settlement[a],
                outcome |-> committed[a]]]

Ledger == INSTANCE AttemptLedger
    WITH current <- active,
         verdict <- Verdict,
         mayStart <- {a \in Attempts : gate[a] = "open"}

\* The repository implements the ledger: whatever stale controllers, late
\* provider reports, cancellations and competing workers do, the owner sees
\* one verdict per attempt.
ImplementsLedger == Ledger!LSpec
=============================================================================
