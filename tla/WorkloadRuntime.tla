-------------------------- MODULE WorkloadRuntime --------------------------
(***************************************************************************)
(* Runtime processes working for one attempt (runtimes/node,               *)
(* workflow-worker) composed with the attempt's authority.  A runtime      *)
(* registers, reads its instruction, prepares the workspace, invokes the   *)
(* workload and submits one outcome; it may crash, give up or be told to   *)
(* cancel at any point.  Requests are retried, so the authority may handle *)
(* whatever a runtime has ever sent, any number of times and late; an      *)
(* answer reaches the runtime only if it is still waiting for it.          *)
(***************************************************************************)
EXTENDS AttemptControl

VARIABLES
    pc,         \* where a runtime's invocation sequence is
    bound,      \* the generation it was accepted with, 0 before
    admitted,   \* observer: the last operation admitted to it, or NoOp
    asked,      \* requests it has sent at least once
    aborted,    \* its cancellation signal fired
    noticed,    \* observer: a delivered cancel was received
    closedOut,  \* observer: an admission of it was refused
    setup,      \* what it knows about the setup of its concluded preparation
    submission, \* its terminal report, or None
    correlated, \* a handler of its report has passed the correlation check
    reports     \* control conclusions it has sent

signalVars == <<aborted, noticed>>
observerVars == <<admitted, closedOut, setup>>
runtimeVars == <<pc, bound, asked, signalVars, observerVars, submission, correlated, reports>>
vars == <<controlVars, runtimeVars>>

Init ==
    /\ ControlInit
    /\ pc = [i \in Incarnations |-> "off"]
    /\ bound = [i \in Incarnations |-> 0]
    /\ admitted = [i \in Incarnations |-> NoOp]
    /\ asked = [i \in Incarnations |-> {}]
    /\ aborted = [i \in Incarnations |-> FALSE]
    /\ noticed = [i \in Incarnations |-> FALSE]
    /\ closedOut = [i \in Incarnations |-> FALSE]
    /\ setup = [i \in Incarnations |-> None]
    /\ submission = [i \in Incarnations |-> None]
    /\ correlated = [i \in Incarnations |-> FALSE]
    /\ reports = [i \in Incarnations |-> {}]

\* a runtime that was answered, that failed, whose admission was never
\* answered, that was killed
Finished == {"acknowledged", "rejected", "finished"}
Ended == Finished \union {"stranded", "crashed"}
Alive(i) == pc[i] \notin {"off"} \union Ended

-----------------------------------------------------------------------------
(* The control conclusion a runtime derives from what it has observed. *)

\* mutant: an admission that is still unanswered does not defer the conclusion
ConclusionWhileAsking(i) ==
    IF ~noticed[i] \/ pc[i] \in {"stranded", "crashed"} THEN None
    ELSE IF admitted[i] = NoOp
         THEN IF closedOut[i] \/ pc[i] \in Finished
              THEN [boundary |-> "admission-closed", status |-> "achieved", op |-> 0]
              ELSE None
    ELSE IF admitted[i].kind = Invocation
         THEN [boundary |-> "workload", status |-> "unsupported", op |-> admitted[i].id]
    ELSE IF setup[i] = None THEN None
    ELSE [boundary |-> "setup-process-group", status |-> setup[i], op |-> admitted[i].id]

\* deriveAttemptControlConclusion; None stands for "pending"
Conclusion(i) ==
    IF ~noticed[i] \/ pc[i] \in {"admitPreparation", "admitInvocation", "stranded", "crashed"}
    THEN None
    ELSE IF admitted[i] = NoOp
         THEN IF closedOut[i] \/ pc[i] \in Finished
              THEN [boundary |-> "admission-closed", status |-> "achieved", op |-> 0]
              ELSE None
    ELSE IF admitted[i].kind = Invocation
         THEN [boundary |-> "workload", status |-> "unsupported", op |-> admitted[i].id]
    ELSE IF setup[i] = None THEN None
    ELSE [boundary |-> "setup-process-group", status |-> setup[i], op |-> admitted[i].id]

\* onUpdate: the observer derives as part of every step of its runtime (the
\* steps below leave reports to this); the first conclusion is sent
Derive(i) ==
    reports' = [reports EXCEPT ![i] =
                   IF @ = {} /\ Conclusion(i)' # None THEN {Conclusion(i)'} ELSE @]

Move(i, place) ==
    /\ pc' = [pc EXCEPT ![i] = place]
    /\ UNCHANGED correlated

Submit(i, what, o) ==
    /\ submission' = [submission EXCEPT ![i] = [what |-> what, op |-> o]]
    /\ Move(i, "submitting")

-----------------------------------------------------------------------------
(* Registration. *)

\* the endpoint is installed before the runtime registers
Start(i) ==
    /\ pc[i] = "off"
    /\ Move(i, "registering")
    /\ UNCHANGED <<controlVars, bound, asked, signalVars, observerVars, submission>>

\* the authority handles a registration of i, or a replay of it; one that step 1
\* or 2 refuses (work running, attempt unreachable) changes nothing,
\* and the runtime ends as in GiveUp
HandleRegister(p, i) ==
    /\ pc[i] # "off"
    /\ RegisterRuntime(p, i)
    /\ UNCHANGED runtimeVars

\* only the process that registered answers the probe
DeliverProbe(p) ==
    /\ ProbeAnswered(p)
    /\ Alive(pass[p].incarnation)
    /\ UNCHANGED runtimeVars

InternalStep(p) ==
    /\ AdmitProbe(p) \/ ProbeUnanswered(p) \/ ReleaseProbe(p) \/ CompleteProbe(p)
          \/ MarkRuntimeReady(p)
    /\ UNCHANGED runtimeVars

\* the pass answers; the runtime binds its generation if it still waits
ReplyRegistered(p) ==
    LET i == pass[p].incarnation
    IN /\ pass[p].pc = "announce"
       /\ pass' = [pass EXCEPT ![p] = Idle]
       /\ \/ /\ pc[i] = "registering"
             /\ bound' = [bound EXCEPT ![i] = pass[p].generation]
             /\ Move(i, "starting")
             /\ UNCHANGED <<asked, signalVars, observerVars, submission, reports>>
          \/ UNCHANGED runtimeVars
       /\ UNCHANGED <<standingVars, slotVars, factVars, proven>>

ReplyRefused(p) ==
    LET i == pass[p].incarnation
    IN /\ pass[p].pc = "refuse"
       /\ pass' = [pass EXCEPT ![p] = Idle]
       /\ \/ /\ pc[i] = "registering"
             /\ Move(i, "finished")
             /\ UNCHANGED <<bound, asked, signalVars, observerVars, submission, reports>>
          \/ UNCHANGED runtimeVars
       /\ UNCHANGED <<standingVars, slotVars, factVars, proven>>

\* the authority's process exits in the middle of a pass
LosePass(p) ==
    /\ pass[p] # Idle
    /\ pass' = [pass EXCEPT ![p] = Idle]
    /\ UNCHANGED <<standingVars, slotVars, factVars, proven, runtimeVars>>

-----------------------------------------------------------------------------
(* The invocation sequence: runtime-local steps. *)

\* getInstruction, findAdapter and bindControl: a read that is refused (as with
\* a stale generation), fails or times out ends the runtime unreported; an abort
\* or a missing adapter is reported, everything else goes on
ReadInstruction(i) ==
    /\ pc[i] = "starting"
    /\ \/ Move(i, "finished") /\ UNCHANGED submission
       \/ bound[i] = generation /\ Submit(i, "failure", 0)
       \/ aborted[i] /\ Submit(i, "cancelled", 0)
       \/ /\ bound[i] = generation
          /\ Move(i, IF RequiresPreparation THEN "beforePreparation" ELSE "beforeInvocation")
          /\ UNCHANGED submission
    /\ UNCHANGED <<controlVars, bound, asked, signalVars, observerVars>>

\* an abort before the request wins over the request
AskAdmission(i, before, kind, waiting) ==
    /\ pc[i] = before
    /\ \/ aborted[i] /\ Submit(i, "cancelled", 0) /\ UNCHANGED asked
       \/ /\ ~aborted[i]
          /\ asked' = [asked EXCEPT ![i] = @ \union {kind}]
          /\ Move(i, waiting)
          /\ UNCHANGED submission
    /\ UNCHANGED <<controlVars, bound, signalVars, observerVars>>

\* the operation is held; an abort that came meanwhile means nothing is started
StartPreparation(i) ==
    /\ pc[i] = "holdPreparation"
    /\ \/ /\ aborted[i]
          /\ setup' = [setup EXCEPT ![i] = "achieved"]
          /\ Submit(i, "cancelled", admitted[i].id)
       \/ ~aborted[i] /\ Move(i, "preparing") /\ UNCHANGED <<setup, submission>>
    /\ UNCHANGED <<controlVars, bound, asked, signalVars, admitted, closedOut>>

\* setup ends, well or not; whether its process group is known to be gone
\* ("unconfirmed" stands for every other conclusion) is recorded before any
\* further await
EndPreparation(i) ==
    /\ pc[i] = "preparing"
    /\ \E known \in {"achieved", "unconfirmed"} : setup' = [setup EXCEPT ![i] = known]
    /\ \/ Submit(i, "failure", admitted[i].id) /\ UNCHANGED asked
       \/ aborted[i] /\ Submit(i, "cancelled", admitted[i].id) /\ UNCHANGED asked
       \/ /\ ~aborted[i]
          /\ asked' = [asked EXCEPT ![i] = @ \union {"report"}]
          /\ Move(i, "reporting")
          /\ UNCHANGED submission
    /\ UNCHANGED <<controlVars, bound, signalVars, admitted, closedOut>>

StartInvocation(i) ==
    /\ pc[i] = "holdInvocation"
    /\ \/ aborted[i] /\ Submit(i, "cancelled", admitted[i].id)
       \/ ~aborted[i] /\ Move(i, "invoking") /\ UNCHANGED submission
    /\ UNCHANGED <<controlVars, bound, asked, signalVars, observerVars>>

EndInvocation(i) ==
    /\ pc[i] = "invoking"
    /\ \/ \E what \in {"result", "failure"} : Submit(i, what, admitted[i].id)
       \/ aborted[i] /\ Submit(i, "cancelled", admitted[i].id)
    /\ UNCHANGED <<controlVars, bound, asked, signalVars, observerVars>>

\* a request's deadline passes, or its one try fails; an admission that was
\* never answered stays pending for the observer
GiveUp(i) ==
    /\ \/ pc[i] \in {"registering", "reporting", "submitting"} /\ Move(i, "finished")
       \/ pc[i] \in {"admitPreparation", "admitInvocation"} /\ Move(i, "stranded")
    /\ UNCHANGED <<controlVars, bound, asked, signalVars, observerVars, submission>>

\* the process dies, and what it knew with it; what it has sent may still arrive
Crash(i) ==
    /\ Alive(i)
    /\ Move(i, "crashed")
    /\ aborted' = [aborted EXCEPT ![i] = FALSE]
    /\ noticed' = [noticed EXCEPT ![i] = FALSE]
    /\ closedOut' = [closedOut EXCEPT ![i] = FALSE]
    /\ setup' = [setup EXCEPT ![i] = None]
    /\ UNCHANGED <<controlVars, bound, asked, admitted, submission>>

\* the process's own signal, without any cancel of the authority
Abort(i) ==
    /\ Alive(i)
    /\ ~aborted[i]
    /\ aborted' = [aborted EXCEPT ![i] = TRUE]
    /\ UNCHANGED <<controlVars, pc, bound, asked, noticed, observerVars, submission, correlated>>

-----------------------------------------------------------------------------
(* The authority handles what runtimes have sent. *)

AdmitPlace == [k \in {Preparation, Invocation} |->
                  IF k = Preparation THEN "admitPreparation" ELSE "admitInvocation"]
HoldPlace == [k \in {Preparation, Invocation} |->
                 IF k = Preparation THEN "holdPreparation" ELSE "holdInvocation"]

\* The answer is lost, or nobody waits for it any more.  Only a request that
\* changed something is worth handling like that: any other leaves no trace.
NoAnswer == UNCHANGED <<pc, observerVars, submission, correlated>>

\* operation.admit, and what the runtime makes of the answer if it gets it
HandleAdmit(i, kind) ==
    LET key == <<kind, bound[i]>>
        decision == Admission(kind, key, bound[i])
    IN /\ kind \in asked[i]
       /\ Admit(kind, key, bound[i])
       /\ \/ decision = "admitted" /\ NoAnswer
          \/ /\ pc[i] = AdmitPlace[kind]
             /\ decision \in {"admitted", "duplicate"}
             /\ admitted' = [admitted EXCEPT ![i] = op']
             /\ Move(i, HoldPlace[kind])
             /\ UNCHANGED <<closedOut, setup, submission>>
          \/ /\ pc[i] = AdmitPlace[kind]
             /\ decision \in {"gate-closed", "refused"}
             /\ closedOut' = [closedOut EXCEPT ![i] = TRUE]
             /\ IF decision = "gate-closed" /\ aborted[i]
                THEN Submit(i, "cancelled", 0)
                ELSE Move(i, "finished") /\ UNCHANGED submission
             /\ UNCHANGED <<admitted, setup>>
       /\ UNCHANGED <<standingVars, generation, incarnation, ready, lastCompleted, receipts,
                      factVars, pass, proven, bound, asked, signalVars>>

\* evaluatePreparationReport: a stored receipt answers before anything else
ReportDecision(i, receipt) ==
    IF receipt \in receipts THEN "duplicate"
    ELSE IF \/ ~Reachable \/ generation # bound[i]
            \/ op.id # receipt.op \/ op.kind # Preparation
         THEN "refused"
    ELSE "accepted"

\* operation.report: the receipt is stored and the operation completed in one write
HandleReport(i) ==
    LET receipt == [op |-> admitted[i].id, generation |-> bound[i]]
        decision == ReportDecision(i, receipt)
    IN /\ "report" \in asked[i]
       /\ \/ /\ decision = "accepted"
             /\ receipts' = receipts \union {receipt}
             /\ op' = NoOp
             /\ lastCompleted' = receipt.op
          \/ decision # "accepted" /\ UNCHANGED <<receipts, op, lastCompleted>>
       /\ \/ decision = "accepted" /\ NoAnswer
          \/ /\ pc[i] = "reporting"
             /\ IF decision = "refused"
                THEN Submit(i, "failure", receipt.op)
                ELSE Move(i, "beforeInvocation") /\ UNCHANGED submission
             /\ UNCHANGED observerVars
       /\ UNCHANGED <<standingVars, generation, incarnation, ready, operations, factVars,
                      pass, proven, bound, asked, signalVars>>

\* operation.report of a preparation that bound other source roots than the
\* instruction names: no copy of it is ever accepted
ReportMisfit(i) ==
    /\ "report" \in asked[i]
    /\ pc[i] = "reporting"
    /\ ReportDecision(i, [op |-> admitted[i].id, generation |-> bound[i]]) = "accepted"
    /\ asked' = [asked EXCEPT ![i] = @ \ {"report"}]
    /\ Submit(i, "failure", admitted[i].id)
    /\ UNCHANGED <<controlVars, bound, signalVars, observerVars>>

\* the runtime hears the answer to its terminal report, or the answer is lost
Answer(i, decision) ==
    \/ decision = "accepted" /\ UNCHANGED pc
    \/ /\ pc[i] = "submitting"
       /\ pc' = [pc EXCEPT ![i] = IF decision \in {"accepted", "duplicate"}
                                  THEN "acknowledged" ELSE "rejected"]

\* mutant: a closed start gate fails the correlation
MatchesOpenGate(i) ==
    /\ gate
    /\ generation = bound[i]
    /\ op.id = submission[i].op
    /\ op # NoOp => op.generation = bound[i]

\* matchesOutcomeCorrelation, and the same comparison as the commit's fence
Matches(i) ==
    /\ generation = bound[i]
    /\ op.id = submission[i].op
    /\ op # NoOp => op.generation = bound[i]

\* outcome.submit: the handler reads the control state first ...
CorrelateOutcome(i) ==
    /\ submission[i] # None
    /\ \/ Matches(i) /\ ~correlated[i] /\ correlated' = [correlated EXCEPT ![i] = TRUE] /\ UNCHANGED pc
       \/ ~Matches(i) /\ Answer(i, "fenced") /\ UNCHANGED correlated
    /\ UNCHANGED <<controlVars, bound, asked, signalVars, observerVars, submission>>

\* mutant: the commit relies on the correlation that was read earlier
CommitUnchecked(i) ==
    IF superseded THEN "fenced"
    ELSE IF outcome # None
         THEN IF outcome.what = submission[i].what THEN "duplicate" ELSE "conflict"
    ELSE IF settlement # None THEN "conflict"
    ELSE "accepted"

CommitDecision(i) ==
    IF superseded THEN "fenced"
    ELSE IF outcome # None
         THEN IF outcome.what = submission[i].what THEN "duplicate" ELSE "conflict"
    ELSE IF settlement # None THEN "conflict"
    ELSE IF ~Matches(i) THEN "fenced"
    ELSE "accepted"

\* ... and after decoding and validation the commit checks the fence again
CommitOutcome(i) ==
    LET decision == CommitDecision(i)
    IN /\ correlated[i]
       /\ \/ /\ decision = "accepted"
             /\ outcome' = [by |-> i, what |-> submission[i].what]
             /\ settlement' = "outcome"
             /\ gate' = FALSE
          \/ decision # "accepted" /\ UNCHANGED <<outcome, settlement, gate>>
       /\ Answer(i, decision)
       /\ UNCHANGED <<superseded, terminated, cancelled, slotVars, evidence, pass, proven,
                      bound, asked, signalVars, observerVars, submission, correlated>>

-----------------------------------------------------------------------------
(* Cancellation: delivery and final report. *)

\* reconcileAttemptCancellation addresses the registered runtime while its
\* final report is missing; the runtime's signal fires and its observer is
\* told.  A redelivery lets a conclusion be derived and sent again.
DeliverCancel(i) ==
    /\ cancelled
    /\ Alive(i)
    /\ generation = bound[i] /\ bound[i] > 0
    /\ evidence[bound[i]] = None
    /\ aborted' = [aborted EXCEPT ![i] = TRUE]
    /\ noticed' = [noticed EXCEPT ![i] = TRUE]
    /\ UNCHANGED <<controlVars, pc, bound, asked, observerVars, submission, correlated>>
    /\ reports' = [reports EXCEPT ![i] = @ \union ({Conclusion(i)'} \ {None})]

\* matchesControlOperation
ScopeHolds(i, c) ==
    CASE c.boundary = "admission-closed" -> ~gate /\ ~Mutating
      [] c.boundary = "setup-process-group" ->
            \/ op.id = c.op /\ op.generation = bound[i] /\ op.kind = Preparation
            \/ [op |-> c.op, generation |-> bound[i]] \in receipts
      [] c.boundary = "workload" ->
            op.id = c.op /\ op.generation = bound[i] /\ op.kind = Invocation

\* reportAttemptControl: the first final report of a generation is kept
ReportControl(i, c) ==
    /\ evidence[bound[i]] = None
    /\ cancelled
    /\ generation = bound[i] /\ incarnation = i
    /\ ScopeHolds(i, c)
    /\ evidence' = [evidence EXCEPT ![bound[i]] = c]
    /\ UNCHANGED <<standingVars, slotVars, outcome, pass, proven, runtimeVars>>

Environment == Supersede \/ Terminate \/ SettleAsFailed \/ Cancel

PassStep(p) ==
    \/ \E i \in Incarnations : HandleRegister(p, i)
    \/ DeliverProbe(p)
    \/ InternalStep(p)
    \/ ReplyRegistered(p)
    \/ ReplyRefused(p)
    \/ LosePass(p)

RuntimeStep(i) ==
    \/ Start(i)
    \/ ReadInstruction(i)
    \/ AskAdmission(i, "beforePreparation", Preparation, "admitPreparation")
    \/ StartPreparation(i)
    \/ EndPreparation(i)
    \/ AskAdmission(i, "beforeInvocation", Invocation, "admitInvocation")
    \/ StartInvocation(i)
    \/ EndInvocation(i)
    \/ GiveUp(i)
    \/ Crash(i)
    \/ Abort(i)

HandlerStep(i) ==
    \/ \E kind \in {Preparation, Invocation} : HandleAdmit(i, kind)
    \/ HandleReport(i)
    \/ ReportMisfit(i)
    \/ CorrelateOutcome(i)
    \/ CommitOutcome(i)

Next ==
    \/ Environment /\ UNCHANGED runtimeVars
    \/ \E p \in Passes : PassStep(p)
    \/ \E i \in Incarnations :
          \/ (RuntimeStep(i) \/ HandlerStep(i)) /\ Derive(i)
          \/ DeliverCancel(i)
          \/ \E c \in reports[i] : ReportControl(i, c)

Spec == Init /\ [][Next]_vars

-----------------------------------------------------------------------------
(* Properties. *)

Places == {"off", "registering", "starting", "beforePreparation", "admitPreparation",
           "holdPreparation", "preparing", "reporting", "beforeInvocation", "admitInvocation",
           "holdInvocation", "invoking", "submitting"} \union Ended

Submissions == [what : {"result", "failure", "cancelled"}, op : Nat]

Conclusions == [boundary : {"admission-closed", "setup-process-group", "workload"},
                status : {"achieved", "unconfirmed", "unsupported"}, op : Nat]

TypeOK ==
    /\ ControlTypeOK
    /\ outcome \in [by : Incarnations, what : {"result", "failure", "cancelled"}] \union {None}
    /\ evidence \in [1 .. MaxGeneration -> Conclusions \union {None}]
    /\ pc \in [Incarnations -> Places]
    /\ bound \in [Incarnations -> 0 .. MaxGeneration]
    /\ admitted \in [Incarnations -> Operations \union {NoOp}]
    /\ asked \in [Incarnations -> SUBSET {Preparation, Invocation, "report"}]
    /\ aborted \in [Incarnations -> BOOLEAN]
    /\ noticed \in [Incarnations -> BOOLEAN]
    /\ closedOut \in [Incarnations -> BOOLEAN]
    /\ setup \in [Incarnations -> {None, "achieved", "unconfirmed"}]
    /\ submission \in [Incarnations -> Submissions \union {None}]
    /\ correlated \in [Incarnations -> BOOLEAN]
    /\ reports \in [Incarnations -> SUBSET Conclusions]

Working(i) == pc[i] \in {"holdPreparation", "preparing", "holdInvocation", "invoking"}

\* No two runtime processes hold or run work of the attempt at the same time,
\* and the workload is handed out to one of them at most, whatever crashes,
\* registers again or repeats its requests.
ExclusiveWork ==
    \A i, j \in Incarnations :
        \/ Working(i) /\ Working(j)
        \/ admitted[i].kind = Invocation /\ admitted[j].kind = Invocation
        => i = j

\* Once an outcome is committed nobody prepares or runs the workload any
\* more: a terminal report is about work that has stopped.
OutcomeMeansQuiet ==
    settlement = "outcome" => \A i \in Incarnations : ~Working(i)

\* The committed outcome came from the runtime that owns the attempt, although
\* the handler checked that against a state it read before several awaits.
OutcomeIsOwners == outcome # None => outcome.by = incarnation

\* Control evidence is honest: once a generation's final report says that the
\* boundary was achieved, no runtime of that generation holds or runs an
\* operation, then or later, although admissions are retried and answered late.
EvidenceHonest ==
    \A i \in Incarnations :
        bound[i] > 0 /\ evidence[bound[i]] # None /\ evidence[bound[i]].status = "achieved"
            => ~Working(i)

\* Retrying the report that was committed converges: unless a newer attempt
\* exists, its sender is never answered that it was fenced off.
AckRetryConverges ==
    [][\A i \in Incarnations :
          /\ outcome # None /\ outcome.by = i
          /\ ~superseded
          /\ pc[i] = "submitting"
          => pc'[i] # "rejected"]_vars

-----------------------------------------------------------------------------
(* The inductive invariant behind the properties. *)

\* i has, or believes to have, the attempt under generation g
Holds(i, g) ==
    \/ incarnation = i /\ generation = g
    \/ bound[i] = g
    \/ \E p \in Passes : pass[p].incarnation = i /\ pass[p].generation = g

\* A generation belongs to one incarnation, and none is ahead of the record.
Ownership ==
    /\ incarnation # None <=> generation > 0
    /\ \A i \in Incarnations : \A g \in 1 .. MaxGeneration :
          Holds(i, g) => g <= generation /\ \A j \in Incarnations : Holds(j, g) => i = j

Slot ==
    /\ op # NoOp => op.generation = generation /\ op.key[1] = op.kind
    /\ SlotIsFenced
    /\ ReadyIsProven
    /\ \A p \in Passes :
          pass[p].pc \in {"complete", "mark"} /\ pass[p].generation = generation => proven

Unbound == {"off", "registering"}
Setting == {"starting", "beforePreparation", "admitPreparation", "holdPreparation", "preparing"}
Over == {"submitting"} \union Ended

\* What a runtime's place says about what it has done.
Course ==
    \A i \in Incarnations :
        /\ pc[i] \in Unbound => bound[i] = 0
        /\ bound[i] = 0 =>
              /\ pc[i] \in Unbound \union Ended
              /\ admitted[i] = NoOp /\ asked[i] = {} /\ submission[i] = None
              /\ ~noticed[i] /\ reports[i] = {}
        /\ submission[i] # None => pc[i] \in Over
        /\ correlated[i] => submission[i] # None
        /\ pc[i] \in Unbound \union Setting => "report" \notin asked[i] /\ setup[i] = None
        /\ closedOut[i] => pc[i] \in Over
        /\ noticed[i] => aborted[i]

\* What a runtime works on is the operation the record holds for it.
Work ==
    \A i \in Incarnations :
        /\ pc[i] \in {"holdPreparation", "preparing"} =>
              admitted[i] = op /\ op.kind = Preparation /\ bound[i] = generation
        /\ pc[i] \in {"holdInvocation", "invoking"} => admitted[i].kind = Invocation
        /\ admitted[i].kind = Invocation =>
              admitted[i] = op /\ op.kind = Invocation /\ bound[i] = generation

\* The committed report still matches the record.
Verdict ==
    /\ OutcomeMeansQuiet
    /\ outcome # None =>
          /\ settlement = "outcome"
          /\ correlated[outcome.by]
          /\ Matches(outcome.by)
          /\ outcome.what = submission[outcome.by].what

\* A runtime that can no longer start anything.
Calm(i) == pc[i] \in Over \/ (pc[i] \in {"reporting", "beforeInvocation"} /\ aborted[i])

Witnessed ==
    /\ \A i \in Incarnations : (\E c \in reports[i] : c.status = "achieved") => Calm(i)
    /\ \A g \in 1 .. MaxGeneration :
          evidence[g] # None /\ evidence[g].status = "achieved"
             => \E i \in Incarnations : bound[i] = g /\ Calm(i)

RuntimeInv == TypeOK /\ Ownership /\ Slot /\ Course /\ Work /\ Verdict /\ Witnessed
=============================================================================
