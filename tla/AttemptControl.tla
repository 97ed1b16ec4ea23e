--------------------------- MODULE AttemptControl ---------------------------
(***************************************************************************)
(* The runtime side of ONE execution attempt as its authority keeps it     *)
(* (subsystems/workflow-engine): which runtime incarnation owns the        *)
(* attempt, under which generation, whether it has proven itself, the one  *)
(* operation it may run, the accepted preparation receipts, the committed  *)
(* outcome and the evidence about a cancellation.  A repository call is    *)
(* one transaction.  The registration handler awaits between its calls, so *)
(* each of its passes is a process, and several passes overlap.            *)
(***************************************************************************)
EXTENDS Naturals

CONSTANTS
    Incarnations,        \* runtime processes started for the attempt
    Passes,              \* registration requests being handled at a time
    RequiresPreparation, \* the frozen instruction declares a workspace
    MaxGeneration,       \* bound on runtime generations
    MaxOperations,       \* bound on operation identifiers
    None

Probe == "runtime-probe"
Preparation == "workspace-preparation"
Invocation == "workload-invocation"

ASSUME ControlAssumption ==
    /\ None \notin Incarnations \union {Probe, Preparation, Invocation, "outcome", "failure"}
    /\ RequiresPreparation \in BOOLEAN
    /\ MaxGeneration \in Nat /\ MaxOperations \in Nat

VARIABLES
    superseded,    \* a newer attempt is the active one
    terminated,    \* the allocation's termination was recorded
    settlement,    \* None, "outcome" or "failure"
    gate,          \* operationStartGate is open
    cancelled,     \* a cancellation intent is stored
    generation,    \* runtimeGeneration
    incarnation,   \* runtimeIncarnationId, or None
    ready,         \* runtimeReadyAt is set
    op,            \* the active operation, or NoOp
    lastCompleted, \* lastCompletedOperationId, 0 for null
    receipts,      \* preparationReceipts
    operations,    \* number of operation identifiers drawn
    outcome,       \* the committed submission, or None
    evidence,      \* per generation, the final report on a cancellation, or None
    pass,          \* the registration handler's passes
    proven         \* the owner answered a probe under its generation (history)

standingVars == <<superseded, terminated, settlement, gate, cancelled>>
slotVars == <<generation, incarnation, ready, op, lastCompleted, receipts, operations>>
factVars == <<outcome, evidence>>
controlVars == <<superseded, terminated, settlement, gate, cancelled,
                 generation, incarnation, ready, op, lastCompleted, receipts, operations,
                 outcome, evidence, pass, proven>>

NoOp == [id |-> 0, kind |-> None, key |-> None, generation |-> 0]
Idle == [pc |-> "idle", incarnation |-> None, generation |-> 0, op |-> 0]

ControlInit ==
    /\ superseded = FALSE /\ terminated = FALSE /\ settlement = None
    /\ gate = TRUE /\ cancelled = FALSE
    /\ generation = 0 /\ incarnation = None /\ ready = FALSE
    /\ op = NoOp /\ lastCompleted = 0 /\ receipts = {} /\ operations = 0
    /\ outcome = None
    /\ evidence = [g \in 1 .. MaxGeneration |-> None]
    /\ pass = [p \in Passes |-> Idle]
    /\ proven = FALSE

-----------------------------------------------------------------------------
(* The owner and the provider side of the attempt. *)

\* a newer attempt is created for the execution
Supersede ==
    /\ ~superseded
    /\ superseded' = TRUE
    /\ gate' = FALSE
    /\ UNCHANGED <<terminated, settlement, cancelled, slotVars, factVars, pass, proven>>

\* the provider's controller records the end of the allocation
Terminate ==
    /\ ~terminated
    /\ terminated' = TRUE
    /\ UNCHANGED <<superseded, settlement, gate, cancelled, slotVars, factVars, pass, proven>>

SettleAsFailed ==
    /\ terminated
    /\ settlement = None
    /\ settlement' = "failure"
    /\ gate' = FALSE
    /\ UNCHANGED <<superseded, terminated, cancelled, slotVars, factVars, pass, proven>>

Cancel ==
    /\ ~cancelled
    /\ cancelled' = TRUE
    /\ gate' = FALSE
    /\ UNCHANGED <<superseded, terminated, settlement, slotVars, factVars, pass, proven>>

-----------------------------------------------------------------------------
(* Repository decisions on the runtime slot. *)

Reachable == settlement = None /\ ~superseded /\ ~terminated

\* Preparation and invocation change things outside; a probe does not.
Mutating == op.kind \in {Preparation, Invocation}

Prepared(g) == \E r \in receipts : r.generation = g

\* mutant: the caller's generation is not compared
AdmissionOfAnyGeneration(kind, key, g) ==
    IF ~Reachable THEN "refused"
    ELSE IF op # NoOp THEN (IF op.key = key THEN "duplicate" ELSE "refused")
    ELSE IF ~gate THEN "gate-closed"
    ELSE IF \/ kind # Probe /\ ~ready
            \/ kind = Preparation /\ (~RequiresPreparation \/ Prepared(generation))
            \/ kind = Invocation /\ RequiresPreparation /\ ~Prepared(generation)
         THEN "refused"
    ELSE "admitted"

\* evaluateOperationAdmission: the first matching answer; the ones no caller
\* tells apart are "refused"
Admission(kind, key, g) ==
    IF ~Reachable THEN "refused"
    ELSE IF op # NoOp THEN (IF op.key = key THEN "duplicate" ELSE "refused")
    ELSE IF ~gate THEN "gate-closed"
    ELSE IF \/ kind # Probe /\ ~ready
            \/ generation # g
            \/ kind = Preparation /\ (~RequiresPreparation \/ Prepared(generation))
            \/ kind = Invocation /\ RequiresPreparation /\ ~Prepared(generation)
         THEN "refused"
    ELSE "admitted"

\* admitOperation
Admit(kind, key, g) ==
    IF Admission(kind, key, g) = "admitted"
    THEN /\ operations < MaxOperations
         /\ operations' = operations + 1
         /\ op' = [id |-> operations + 1, kind |-> kind, key |-> key, generation |-> generation]
    ELSE UNCHANGED <<op, operations>>

\* completeOperation for operation o
CompletionDecision(o, g) ==
    IF settlement # None THEN "refused"
    ELSE IF lastCompleted = o THEN "duplicate"
    ELSE IF op.id # o \/ op.generation # g \/ Mutating THEN "refused"
    ELSE "completed"

CompleteOperation(o, g) ==
    IF CompletionDecision(o, g) = "completed"
    THEN op' = NoOp /\ lastCompleted' = o
    ELSE UNCHANGED <<op, lastCompleted>>

-----------------------------------------------------------------------------
(* The registration handler. *)

Goto(p, pc) == pass' = [pass EXCEPT ![p].pc = pc]

\* mutant: a new incarnation may take over while work is running
RegisterOverWork(p, i) ==
    /\ pass[p] = Idle
    /\ Reachable
    /\ incarnation # i
    /\ generation < MaxGeneration
    /\ generation' = generation + 1
    /\ incarnation' = i
    /\ ready' = FALSE
    /\ op' = NoOp
    /\ proven' = FALSE
    /\ pass' = [pass EXCEPT ![p] = [pc |-> "admit", incarnation |-> i,
                                    generation |-> generation', op |-> 0]]
    /\ UNCHANGED <<lastCompleted, receipts, operations, standingVars, factVars>>

\* Steps 1 and 2: registerRuntime.  The same incarnation replays its own
\* registration; a new one takes the next generation, unless work is running.
RegisterRuntime(p, i) ==
    /\ pass[p] = Idle
    /\ Reachable
    /\ \/ /\ incarnation = i
          /\ UNCHANGED <<slotVars, proven>>
       \/ /\ incarnation # i
          /\ ~Mutating
          /\ generation < MaxGeneration
          /\ generation' = generation + 1
          /\ incarnation' = i
          /\ ready' = FALSE
          /\ op' = NoOp
          /\ proven' = FALSE
          /\ UNCHANGED <<lastCompleted, receipts, operations>>
    /\ pass' = [pass EXCEPT ![p] = [pc |-> IF ready' THEN "announce" ELSE "admit",
                                    incarnation |-> i, generation |-> generation', op |-> 0]]
    /\ UNCHANGED <<standingVars, factVars>>

\* Step 3: admit the probe under the incarnation's own key
AdmitProbe(p) ==
    LET key == <<Probe, pass[p].incarnation>>
        decision == Admission(Probe, key, pass[p].generation)
    IN /\ pass[p].pc = "admit"
       /\ Admit(Probe, key, pass[p].generation)
       /\ pass' = [pass EXCEPT
                      ![p].pc = IF decision \in {"admitted", "duplicate"} THEN "deliver" ELSE "refuse",
                      ![p].op = IF decision \in {"admitted", "duplicate"} THEN op'.id ELSE 0]
       /\ UNCHANGED <<standingVars, generation, incarnation, ready, lastCompleted, receipts,
                      factVars, proven>>

\* Step 4: the endpoint answers the probe within the budget
ProbeAnswered(p) ==
    /\ pass[p].pc = "deliver"
    /\ Goto(p, "complete")
    /\ proven' = (proven \/ pass[p].generation = generation)
    /\ UNCHANGED <<standingVars, slotVars, factVars>>

\* a timeout, an absent responder or a lost answer
ProbeUnanswered(p) ==
    /\ pass[p].pc = "deliver"
    /\ Goto(p, "release")
    /\ UNCHANGED <<standingVars, slotVars, factVars, proven>>

\* the release is best effort: whatever it answers, also if it throws, the
\* registration is refused
ReleaseProbe(p) ==
    /\ pass[p].pc = "release"
    /\ \/ CompleteOperation(pass[p].op, pass[p].generation)
       \/ UNCHANGED <<op, lastCompleted>>
    /\ Goto(p, "refuse")
    /\ UNCHANGED <<standingVars, generation, incarnation, ready, receipts, operations,
                   factVars, proven>>

\* Step 5
CompleteProbe(p) ==
    /\ pass[p].pc = "complete"
    /\ CompleteOperation(pass[p].op, pass[p].generation)
    /\ Goto(p, IF CompletionDecision(pass[p].op, pass[p].generation) = "refused"
               THEN "refuse" ELSE "mark")
    /\ UNCHANGED <<standingVars, generation, incarnation, ready, receipts, operations,
                   factVars, proven>>

\* mutant: a pass that was overtaken marks the new owner ready
MarkAnyGeneration(p) ==
    /\ pass[p].pc = "mark"
    /\ ready' = (ready \/ (Reachable /\ op = NoOp))
    /\ Goto(p, IF Reachable /\ (ready \/ op = NoOp) THEN "announce" ELSE "refuse")
    /\ UNCHANGED <<standingVars, generation, incarnation, op, lastCompleted, receipts,
                   operations, factVars, proven>>

\* Step 6: markRuntimeReady
MarkRuntimeReady(p) ==
    LET current == Reachable /\ generation = pass[p].generation
    IN /\ pass[p].pc = "mark"
       /\ ready' = (ready \/ (current /\ op = NoOp))
       /\ Goto(p, IF current /\ (ready \/ op = NoOp) THEN "announce" ELSE "refuse")
       /\ UNCHANGED <<standingVars, generation, incarnation, op, lastCompleted, receipts,
                      operations, factVars, proven>>

-----------------------------------------------------------------------------
(* Properties of the slot. *)

Operations == [id : Nat \ {0}, kind : {Probe, Preparation, Invocation},
               key : ({Probe} \X Incarnations) \union ({Preparation, Invocation} \X Nat),
               generation : 0 .. MaxGeneration]

PassStates == {"admit", "deliver", "release", "complete", "mark", "announce", "refuse"}

ControlTypeOK ==
    /\ superseded \in BOOLEAN /\ terminated \in BOOLEAN
    /\ settlement \in {None, "outcome", "failure"}
    /\ gate \in BOOLEAN /\ cancelled \in BOOLEAN
    /\ generation \in 0 .. MaxGeneration
    /\ incarnation \in Incarnations \union {None}
    /\ ready \in BOOLEAN /\ proven \in BOOLEAN
    /\ op \in Operations \union {NoOp}
    /\ lastCompleted \in Nat
    /\ receipts \in SUBSET [op : Nat, generation : Nat]
    /\ operations \in Nat
    /\ pass \in [Passes -> [pc : PassStates, incarnation : Incarnations,
                            generation : 1 .. MaxGeneration, op : Nat]
                           \union {Idle}]

\* An incarnation counts as ready only after it has itself answered a probe
\* under the generation it now owns the attempt with, however the passes of
\* old, new and repeated registrations interleave.
ReadyIsProven == ready => proven

\* Work that changes things outside runs for the current owner only: it was
\* asked for under the current generation, whose readiness is recorded, and
\* the workload only after a preparation of that generation.
SlotIsFenced ==
    Mutating =>
        /\ op.key = <<op.kind, generation>>
        /\ op.generation = generation
        /\ ready
        /\ op.kind = Invocation /\ RequiresPreparation => Prepared(generation)

=============================================================================
