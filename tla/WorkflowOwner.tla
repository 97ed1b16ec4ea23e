--------------------------- MODULE WorkflowOwner ---------------------------
(***************************************************************************)
(* How a workflow execution (the owner) takes the outcome of an attempt:   *)
(* the runner task creates and dispatches an attempt and waits for it      *)
(* (authority-dispatch-runner.ts), the worker submits its outcome and      *)
(* repeats that while it is not acknowledged, up to a bound of retries     *)
(* (outcome-convergence.ts), the owner projects it under                   *)
(* its lifecycle queue (workflow-owner-outcome.ts, the finalizer), while   *)
(* cancellation, gate responses, storage failures and a host crash race    *)
(* with it.  Attempts are numbered by the runner task that creates them.   *)
(***************************************************************************)
EXTENDS Naturals, Sequences, FiniteSets

CONSTANTS
    MaxAttempts,    \* bound: runner tasks of the execution
    MaxFaults,      \* bound: storage requests that fail
    MaxCrashes,     \* bound: restarts of the host process
    Slots,          \* submissions of one worker that may be in progress
    Responses,      \* gate responses that may be in progress
    Answers,        \* the outcomes a worker may report
    HasFinalizer    \* the definition selects a success finalizer

ASSUME OwnerAssumption ==
    /\ MaxAttempts \in Nat \ {0}
    /\ MaxFaults \in Nat
    /\ MaxCrashes \in Nat
    /\ HasFinalizer \in BOOLEAN
    /\ {"none", "cancel"} \cap Responses = {}
    /\ Answers \subseteq {"completed", "failed", "technical", "cancelled", "paused"}

Attempts == 1 .. MaxAttempts
Terminal == {"completed", "failed", "cancelled"}

VARIABLES
    owner,        \* status of the stored execution
    active,       \* the attempt the active pointer names, 0 for none
    settled,      \* attempt -> absent, pending, allocated or how it settled
    answer,       \* attempt -> the outcome its worker submits, "none" before
    outcome,      \* attempt -> the committed outcome, "none" before
    intent,       \* attempt -> a cancellation of it was requested
    observed,     \* attempt -> the intent frozen by the commit
    gate,         \* attempt -> the gate row its pause left behind
    entry,        \* the task whose record activeExecutions holds, 0 for none
    stale,        \* the task whose record holds a status that was never stored
    task,         \* attempt -> where its runner task is
    waiter,       \* attempt -> the authority's promise
    sub,          \* attempt -> slot -> where that submission is
    cancel,       \* where the cancel request is
    resume,       \* response -> where that gate response is: [pc, gate]
    lock,         \* the cancel transition holds the lifecycle queue
    pubs,         \* publications reserved and not yet published
    publishing,   \* a publication is in progress
    handler,      \* what a subscriber of the publication is awaiting
    holder,       \* the submission whose registration of the finalizer stands
    faults, crashes,
    taken,        \* history: attempt -> the owner held its outcome's status since the commit
    requested     \* history: a cancel request was committed by the owner

durableVars == <<owner, active, settled, outcome, intent, observed, gate>>
pubVars     == <<pubs, publishing, handler>>
historyVars == <<taken, requested>>
faultVars   == <<faults, crashes>>

vars == <<owner, active, settled, answer, outcome, intent, observed, gate, entry,
          stale, task, waiter, sub, cancel, resume, lock, pubs, publishing, handler,
          holder, faults, crashes, taken, requested>>

Settlements == {"absent", "pending", "allocated", "outcome", "abandoned", "failure"}
TaskStates == {"none", "starting", "dispatching", "abandoning", "awaiting",
               "rejected", "failing", "publishing", "done"}
WaiterStates == {"none", "pending", "projected", "recorded-only", "rejected", "dropped"}
SubStates == {"idle", "commit", "read", "project", "selecting", "transition",
              "unavailable", "published", "accepted", "refused", "recorded-only", "projected"}
ResponseStates == {"idle", "reading", "resuming", "restoring"}
Statuses == Terminal \cup {"running", "paused", "finalizing"}

\* who awaits the publication, and whether it has an event to publish
Canceller == <<0, "cancel">>
Nobody == <<0, "nobody">>
Awaiters == (Attempts \X (Slots \cup {"task"})) \cup {Canceller, Nobody}
NoResponse == [pc |-> "idle", gate |-> 0]
Publication == [by : Awaiters, event : BOOLEAN]

TypeOK ==
    /\ owner \in Statuses
    /\ active \in 0 .. MaxAttempts
    /\ settled \in [Attempts -> Settlements]
    /\ answer \in [Attempts -> Answers \cup {"none"}]
    /\ outcome \in [Attempts -> Answers \cup {"none"}]
    /\ intent \in [Attempts -> BOOLEAN]
    /\ observed \in [Attempts -> BOOLEAN]
    /\ gate \in [Attempts -> {"none", "waiting", "resolved", "cancelled"}]
    /\ entry \in 0 .. MaxAttempts
    /\ stale \in 0 .. MaxAttempts
    /\ task \in [Attempts -> TaskStates]
    /\ waiter \in [Attempts -> WaiterStates]
    /\ sub \in [Attempts -> [Slots -> SubStates]]
    /\ cancel \in {"idle", "asked", "persisting", "notifying", "published"}
    /\ resume \in [Responses -> [pc : ResponseStates, gate : 0 .. MaxAttempts]]
    /\ lock \in BOOLEAN
    /\ pubs \in Seq(Publication)
    /\ publishing \in BOOLEAN
    /\ handler \in {"none", "cancel"} \cup Responses
    /\ holder \in (Attempts \X Slots) \cup {Nobody}
    /\ faults \in 0 .. MaxFaults
    /\ crashes \in 0 .. MaxCrashes
    /\ taken \in [Attempts -> BOOLEAN]
    /\ requested \in BOOLEAN

Init ==
    /\ owner = "running"
    /\ active = 0
    /\ settled = [a \in Attempts |-> "absent"]
    /\ answer = [a \in Attempts |-> "none"]
    /\ outcome = [a \in Attempts |-> "none"]
    /\ intent = [a \in Attempts |-> FALSE]
    /\ observed = [a \in Attempts |-> FALSE]
    /\ gate = [a \in Attempts |-> "none"]
    /\ entry = 1
    /\ stale = 0
    /\ task = [a \in Attempts |-> IF a = 1 THEN "starting" ELSE "none"]
    /\ waiter = [a \in Attempts |-> "none"]
    /\ sub = [a \in Attempts |-> [s \in Slots |-> "idle"]]
    /\ cancel = "idle"
    /\ resume = [r \in Responses |-> NoResponse]
    /\ lock = FALSE
    /\ pubs = <<>>
    /\ publishing = FALSE
    /\ handler = "none"
    /\ holder = Nobody
    /\ faults = 0
    /\ crashes = 0
    /\ taken = [a \in Attempts |-> FALSE]
    /\ requested = FALSE

-----------------------------------------------------------------------------
(* The owner's lifecycle queue and its publications. *)

Exists(a) == settled[a] # "absent"

\* isAcceptedRunnerResultStatus, and what a technical failure settles as
Accepts(status, v) ==
    \/ status = v
    \/ v = "completed" /\ status = "finalizing"
    \/ v = "technical" /\ status = "failed"

\* the stored status is written, inside the queue
Store(status) ==
    /\ owner' = status
    /\ taken' = [a \in Attempts |-> taken[a] \/ Accepts(status, outcome[a])]

\* mutant: every caller awaits its publication
AwaitsAlways(who) == who

\* a caller does not await while the execution is publishing: it may be the
\* subscriber that the publication in progress is waiting for
AwaitedBy(who) == IF publishing THEN Nobody ELSE who

\* a transition reserves its publication before it leaves the queue; one that
\* nobody awaits and that has no event does nothing when its turn comes
Reserve(who, hasEvent) ==
    pubs' = IF AwaitedBy(who) = Nobody /\ ~hasEvent THEN pubs
            ELSE Append(pubs, [by |-> AwaitedBy(who), event |-> hasEvent])

Published(who) == \A i \in DOMAIN pubs : pubs[i].by # who

StartPublication ==
    /\ pubs # <<>>
    /\ ~publishing
    /\ publishing' = TRUE
    /\ UNCHANGED <<durableVars, answer, stale, entry, task, waiter, sub, cancel, resume, lock,
                   pubs, handler, holder, faultVars, historyVars>>

EndPublication ==
    /\ publishing
    /\ handler = "none"
    /\ publishing' = FALSE
    /\ pubs' = Tail(pubs)
    /\ UNCHANGED <<durableVars, answer, stale, entry, task, waiter, sub, cancel, resume, lock,
                   handler, holder, faultVars, historyVars>>

-----------------------------------------------------------------------------
(* The runner task: create the attempt, dispatch it, await its outcome. *)

\* mutant: the attempt is created without asking the owner
CreateUnadmitted(a) ==
    /\ task[a] = "starting"
    /\ ~lock
    /\ active' = a
    /\ settled' = [settled EXCEPT ![a] = "pending"]
    /\ waiter' = [waiter EXCEPT ![a] = "pending"]
    /\ task' = [task EXCEPT ![a] = "dispatching"]
    /\ UNCHANGED <<owner, outcome, intent, observed, gate, answer, stale, entry, sub, cancel,
                   resume, lock, pubVars, holder, faultVars, taken, requested>>

\* creation is admitted by the owner's queue, and only while it is running
CreateAttempt(a) ==
    /\ task[a] = "starting"
    /\ ~lock
    /\ owner = "running"
    /\ active' = a
    /\ settled' = [settled EXCEPT ![a] = "pending"]
    /\ waiter' = [waiter EXCEPT ![a] = "pending"]
    /\ task' = [task EXCEPT ![a] = "dispatching"]
    /\ UNCHANGED <<owner, outcome, intent, observed, gate, answer, stale, entry, sub, cancel,
                   resume, lock, pubVars, holder, faultVars, taken, requested>>

CreationRefused(a) ==
    /\ task[a] = "starting"
    /\ ~lock
    /\ owner # "running"
    /\ task' = [task EXCEPT ![a] = "rejected"]
    /\ UNCHANGED <<durableVars, answer, stale, entry, waiter, sub, cancel, resume, lock,
                   pubVars, holder, faultVars, historyVars>>

\* the admission read or the creation itself fails while the owner is running
CreationFails(a) ==
    /\ task[a] = "starting"
    /\ ~lock
    /\ owner = "running"
    /\ faults < MaxFaults
    /\ faults' = faults + 1
    /\ task' = [task EXCEPT ![a] = "rejected"]
    /\ UNCHANGED <<durableVars, answer, stale, entry, waiter, sub, cancel, resume, lock,
                   pubVars, holder, crashes, historyVars>>

\* the dispatch request is acknowledged, or rejects without proof of anything
Dispatch(a, accepted) ==
    /\ task[a] = "dispatching"
    /\ task' = [task EXCEPT ![a] = IF accepted THEN "awaiting" ELSE "abandoning"]
    /\ UNCHANGED <<durableVars, answer, stale, entry, waiter, sub, cancel, resume, lock,
                   pubVars, holder, faultVars, historyVars>>

RejectWaiter(a) ==
    waiter' = [waiter EXCEPT ![a] = IF @ = "pending" THEN "rejected" ELSE @]

DiscardWaiter(a) ==
    waiter' = [waiter EXCEPT ![a] = IF @ = "pending" THEN "dropped" ELSE @]

\* abandonPendingAttempt decides what the rejected dispatch means
HandleUnacknowledgedDispatchFailure(a) ==
    /\ task[a] = "abandoning"
    /\ \/ /\ active # a
          /\ RejectWaiter(a)
          /\ task' = [task EXCEPT ![a] = "awaiting"]
          /\ UNCHANGED settled
       \/ /\ active = a
          /\ settled[a] \in {"allocated", "outcome", "failure"}
          /\ task' = [task EXCEPT ![a] = "awaiting"]
          /\ UNCHANGED <<settled, waiter>>
       \/ /\ active = a
          /\ settled[a] \in {"pending", "abandoned"}
          /\ settled' = [settled EXCEPT ![a] = "abandoned"]
          /\ DiscardWaiter(a)
          /\ task' = [task EXCEPT ![a] = "rejected"]
    /\ UNCHANGED <<owner, active, outcome, intent, observed, gate, answer, stale, entry, sub,
                   cancel, resume, lock, pubVars, holder, faultVars, historyVars>>

AbandonmentFails(a) ==
    /\ task[a] = "abandoning"
    /\ faults < MaxFaults
    /\ faults' = faults + 1
    /\ DiscardWaiter(a)
    /\ task' = [task EXCEPT ![a] = "rejected"]
    /\ UNCHANGED <<durableVars, answer, stale, entry, sub, cancel, resume, lock, pubVars,
                   holder, crashes, historyVars>>

\* the task releases only the record it owns, never a resumed successor's
Release(a) == entry' = IF entry = a THEN 0 ELSE entry

AwaitOutcome(a) ==
    /\ task[a] = "awaiting"
    /\ \/ /\ waiter[a] \in {"projected", "recorded-only"}
          /\ task' = [task EXCEPT ![a] = "done"]
          /\ Release(a)
       \/ /\ waiter[a] = "rejected"
          /\ task' = [task EXCEPT ![a] = "rejected"]
          /\ UNCHANGED entry
    /\ UNCHANGED <<durableVars, answer, stale, waiter, sub, cancel, resume, lock, pubVars,
                   holder, faultVars, historyVars>>

\* a task whose record was replaced or released leaves the owner alone
RunnerRejected(a) ==
    /\ task[a] = "rejected"
    /\ task' = [task EXCEPT ![a] = IF entry = a THEN "failing" ELSE "done"]
    /\ UNCHANGED <<durableVars, answer, stale, entry, waiter, sub, cancel, resume, lock,
                   pubVars, holder, faultVars, historyVars>>

CompleteExecutionWithFailure(a) ==
    /\ task[a] = "failing"
    /\ ~lock
    /\ IF owner = "running"
       THEN /\ Store("failed")
            /\ entry' = 0
       ELSE UNCHANGED <<owner, taken, entry>>
    /\ Reserve(<<a, "task">>, owner = "running")
    /\ task' = [task EXCEPT ![a] = "publishing"]
    /\ UNCHANGED <<active, settled, outcome, intent, observed, gate, answer, stale, waiter, sub,
                   cancel, resume, lock, publishing, handler, holder, faultVars, requested>>

\* the write fails and the error is only logged: the owner stays running
FailureNotStored(a) ==
    /\ task[a] = "failing"
    /\ ~lock
    /\ faults < MaxFaults
    /\ faults' = faults + 1
    /\ task' = [task EXCEPT ![a] = "done"]
    /\ Release(a)
    /\ UNCHANGED <<durableVars, answer, stale, waiter, sub, cancel, resume, lock, pubVars,
                   holder, crashes, historyVars>>

FailureReturns(a) ==
    /\ task[a] = "publishing"
    /\ Published(<<a, "task">>)
    /\ task' = [task EXCEPT ![a] = "done"]
    /\ Release(a)
    /\ UNCHANGED <<durableVars, answer, stale, waiter, sub, cancel, resume, lock, pubVars,
                   holder, faultVars, historyVars>>

-----------------------------------------------------------------------------
(* The provider and the worker. *)

\* provisioning began, or the allocation was recorded
Provision(a) ==
    /\ active = a
    /\ settled[a] = "pending"
    /\ settled' = [settled EXCEPT ![a] = "allocated"]
    /\ UNCHANGED <<owner, active, outcome, intent, observed, gate, answer, stale, entry, task,
                   waiter, sub, cancel, resume, lock, pubVars, holder, faultVars, historyVars>>

\* proven absence of an allocation, or a lost provisioner: both abandon
ProvisioningAbsent(a) ==
    /\ settled[a] = "allocated"
    /\ settled' = [settled EXCEPT ![a] = "abandoned"]
    /\ RejectWaiter(a)
    /\ UNCHANGED <<owner, active, outcome, intent, observed, gate, answer, stale, entry, task,
                   sub, cancel, resume, lock, pubVars, holder, faultVars, historyVars>>

\* the provider's allocation ended without an acknowledged outcome
InfrastructureFailure(a) ==
    /\ settled[a] = "allocated"
    /\ settled' = [settled EXCEPT ![a] = "failure"]
    /\ RejectWaiter(a)
    /\ UNCHANGED <<owner, active, outcome, intent, observed, gate, answer, stale, entry, task,
                   sub, cancel, resume, lock, pubVars, holder, faultVars, historyVars>>

\* the worker decides what it will report; one that pauses has stored its gate
WorkerFinishes(a, v) ==
    /\ settled[a] = "allocated"
    /\ answer[a] = "none"
    /\ answer' = [answer EXCEPT ![a] = v]
    /\ gate' = [gate EXCEPT ![a] = IF v = "paused" THEN "waiting" ELSE @]
    /\ UNCHANGED <<owner, active, settled, outcome, intent, observed, stale, entry, task,
                   waiter, sub, cancel, resume, lock, pubVars, holder, faultVars, historyVars>>

\* the worker submits until it is acknowledged, and any acknowledgement may be
\* lost; a request that timed out may still be running on the host
Submit(a, s) ==
    /\ answer[a] # "none"
    /\ sub[a][s] = "idle"
    /\ sub' = [sub EXCEPT ![a][s] = "commit"]
    /\ UNCHANGED <<durableVars, answer, stale, entry, task, waiter, cancel, resume, lock,
                   pubVars, holder, faultVars, historyVars>>

-----------------------------------------------------------------------------
(* submitAttemptOutcome: commit, owner convergence, then the waiter. *)

Goto(a, s, pc) == sub' = [sub EXCEPT ![a][s] = pc]

\* mutant: a duplicate is acknowledged without convergence
DuplicateOnlyAcknowledged(a, s) ==
    /\ sub[a][s] = "commit"
    /\ \/ /\ active # a \/ outcome[a] # "none" \/ settled[a] \in {"abandoned", "failure"}
          /\ IF outcome[a] # "none" THEN UNCHANGED waiter ELSE RejectWaiter(a)
          /\ Goto(a, s, "idle")
          /\ UNCHANGED <<outcome, settled, observed, taken>>
       \/ /\ active = a
          /\ outcome[a] = "none"
          /\ settled[a] \notin {"abandoned", "failure"}
          /\ outcome' = [outcome EXCEPT ![a] = answer[a]]
          /\ settled' = [settled EXCEPT ![a] = "outcome"]
          /\ observed' = [observed EXCEPT ![a] = intent[a]]
          /\ taken' = [taken EXCEPT ![a] = Accepts(owner, answer[a])]
          /\ Goto(a, s, "read")
          /\ UNCHANGED waiter
    /\ UNCHANGED <<owner, active, intent, gate, answer, stale, entry, task, cancel, resume, lock,
                   pubVars, holder, faultVars, requested>>

\* the repository's precedence: fence, committed outcome, other settlement
CommitOutcome(a, s) ==
    /\ sub[a][s] = "commit"
    /\ \/ /\ active # a \/ settled[a] \in {"abandoned", "failure"}
          /\ RejectWaiter(a)
          /\ Goto(a, s, "idle")
          /\ UNCHANGED <<outcome, settled, observed, taken>>
       \/ /\ active = a
          /\ outcome[a] # "none"
          /\ Goto(a, s, "read")
          /\ UNCHANGED <<outcome, settled, observed, taken, waiter>>
       \/ /\ active = a
          /\ outcome[a] = "none"
          /\ settled[a] \notin {"abandoned", "failure"}
          /\ outcome' = [outcome EXCEPT ![a] = answer[a]]
          /\ settled' = [settled EXCEPT ![a] = "outcome"]
          /\ observed' = [observed EXCEPT ![a] = intent[a]]
          /\ taken' = [taken EXCEPT ![a] = Accepts(owner, answer[a])]
          /\ Goto(a, s, "read")
          /\ UNCHANGED waiter
    /\ UNCHANGED <<owner, active, intent, gate, answer, stale, entry, task, cancel, resume, lock,
                   pubVars, holder, faultVars, requested>>

\* an outcome that is not a cancellation waits for an owner whose cancel was
\* requested to be stored as cancelled, and is then only recorded
ReadOwner(a, s) ==
    /\ sub[a][s] = "read"
    /\ ~lock
    /\ Goto(a, s, IF outcome[a] = "cancelled" THEN "project"
                   ELSE IF owner = "cancelled" THEN "recorded-only"
                   ELSE IF observed[a] /\ owner \in {"running", "paused"} THEN "idle"
                   ELSE "project")
    /\ UNCHANGED <<durableVars, answer, stale, entry, task, waiter, cancel, resume, lock,
                   pubVars, holder, faultVars, historyVars>>

\* acceptAuthorityRunnerResult: what a runner's result makes of the status read
RunnerResultRead(v) ==
    CASE owner = "cancelled" -> "refused"
      [] Accepts(owner, v) -> "accepted"
      [] owner = "running" -> IF v = "completed" /\ HasFinalizer THEN "selecting"
                              ELSE "transition"
      [] OTHER -> "idle"

\* acceptWorkflowTechnicalFailure: a cancelled owner is as good as a failed one
TechnicalFailureRead ==
    CASE owner \in {"failed", "cancelled"} -> "accepted"
      [] owner = "running" -> "transition"
      [] OTHER -> "idle"

\* acceptWorkflowCancellation: the attempt has stopped, the owner follows
CancellationRead ==
    CASE owner = "cancelled" -> "accepted"
      [] owner = "running" -> "transition"
      [] OTHER -> "idle"

StatusRead(v) ==
    CASE v = "technical" -> TechnicalFailureRead
      [] v = "cancelled" -> CancellationRead
      [] OTHER -> RunnerResultRead(v)

\* the projections of a terminal outcome read the owner before they queue; a
\* success registers its finalizer, unless a registration stands already
ProjectTerminal(a, s) ==
    /\ sub[a][s] = "project"
    /\ outcome[a] # "paused"
    /\ Goto(a, s, StatusRead(outcome[a]))
    /\ holder' = IF StatusRead(outcome[a]) = "selecting" /\ holder = Nobody
                 THEN <<a, s>> ELSE holder
    /\ UNCHANGED <<durableVars, answer, stale, entry, task, waiter, cancel, resume, lock,
                   pubVars, faultVars, historyVars>>

\* the finalizer is looked up later: the submission that registered it may have
\* failed and unregistered it meanwhile
SelectFinalizer(a, s) ==
    /\ sub[a][s] = "selecting"
    /\ Goto(a, s, IF holder = Nobody THEN "unavailable" ELSE "transition")
    /\ UNCHANGED <<durableVars, answer, stale, entry, task, waiter, cancel, resume, lock,
                   pubVars, holder, faultVars, historyVars>>

Unregister(a, s) == holder' = IF holder = <<a, s>> THEN Nobody ELSE holder

\* what a terminal outcome makes of a running owner: a success whose finalizer
\* is unavailable fails it
Projection(v, pc) ==
    CASE pc = "unavailable" -> "failed"
      [] v = "completed" /\ HasFinalizer -> "finalizing"
      [] v = "technical" -> "failed"
      [] OTHER -> v

\* a cancellation may also converge an owner that was paused meanwhile; a
\* runner's own result is dropped when the local record looks terminal
CanProject(v) ==
    \/ v \in {"technical", "cancelled"} /\ owner = "running"
    \/ v = "cancelled" /\ owner = "paused"
    \/ v \in {"completed", "failed"} /\ owner = "running" /\ (entry = 0 \/ stale # entry)

CancelGates == [b \in Attempts |-> IF gate[b] = "waiting" THEN "cancelled" ELSE gate[b]]

TerminalTransition(a, s) ==
    /\ sub[a][s] \in {"transition", "unavailable"}
    /\ ~lock
    /\ IF CanProject(outcome[a])
       THEN /\ Store(Projection(outcome[a], sub[a][s]))
            /\ gate' = IF owner = "paused" THEN CancelGates ELSE gate
            /\ entry' = 0
       ELSE UNCHANGED <<owner, taken, gate, entry>>
    /\ Reserve(<<a, s>>, CanProject(outcome[a]))
    /\ Goto(a, s, "published")
    /\ UNCHANGED <<active, settled, outcome, intent, observed, answer, stale, task, waiter,
                   cancel, resume, lock, publishing, handler, holder, faultVars, requested>>

UnregisterFinalizer(a, s) ==
    /\ sub[a][s] = "published"
    /\ Published(<<a, s>>)
    /\ holder = <<a, s>>
    /\ Unregister(a, s)
    /\ UNCHANGED <<durableVars, answer, stale, entry, task, waiter, sub, cancel, resume, lock,
                   pubVars, faultVars, historyVars>>

\* after the publication the projection reads what the owner settled as
TerminalSettled(a, s) ==
    /\ sub[a][s] = "published"
    /\ Published(<<a, s>>)
    /\ holder # <<a, s>>
    /\ Goto(a, s, IF owner = "running" THEN "idle" ELSE StatusRead(outcome[a]))
    /\ UNCHANGED <<durableVars, answer, stale, entry, task, waiter, cancel, resume, lock,
                   pubVars, holder, faultVars, historyVars>>

\* parkExecution: the storage parks whatever is running
ParkExecution(a, s) ==
    /\ sub[a][s] = "project"
    /\ outcome[a] = "paused"
    /\ ~lock
    /\ IF owner = "running"
       THEN Store("paused")
       ELSE UNCHANGED <<owner, taken>>
    /\ entry' = IF owner \in {"running", "paused"} THEN 0 ELSE entry
    /\ Reserve(<<a, s>>, owner = "running")
    /\ Goto(a, s, IF owner \in {"running", "paused"} THEN "accepted" ELSE "refused")
    /\ UNCHANGED <<active, settled, outcome, intent, observed, gate, answer, stale, task, waiter,
                   cancel, resume, lock, publishing, handler, holder, faultVars, requested>>

\* mutant: the owner is not read again after the projection
SettleUnread(a, s) ==
    /\ sub[a][s] \in {"accepted", "refused"}
    /\ Published(<<a, s>>)
    /\ ~lock
    /\ Goto(a, s, "projected")
    /\ UNCHANGED <<durableVars, answer, stale, entry, task, waiter, cancel, resume, lock,
                   pubVars, holder, faultVars, historyVars>>

\* the second read of the owner: a cancel that won the gap explains a refusal
ReadSettled(a, s) ==
    /\ sub[a][s] \in {"accepted", "refused"}
    /\ Published(<<a, s>>)
    /\ ~lock
    /\ Goto(a, s, IF owner = "cancelled" /\ outcome[a] # "cancelled" THEN "recorded-only"
                   ELSE IF sub[a][s] = "accepted" THEN "projected"
                   ELSE "idle")
    /\ UNCHANGED <<durableVars, answer, stale, entry, task, waiter, cancel, resume, lock,
                   pubVars, holder, faultVars, historyVars>>

SettleOutcome(a, s) ==
    /\ sub[a][s] \in {"recorded-only", "projected"}
    /\ waiter' = [waiter EXCEPT ![a] = IF @ = "pending" THEN sub[a][s] ELSE @]
    /\ Goto(a, s, "idle")
    /\ UNCHANGED <<durableVars, answer, stale, entry, task, cancel, resume, lock, pubVars,
                   holder, faultVars, historyVars>>

\* a storage request of the submission fails: the outcome stays committed, the
\* waiter pending, and the worker retries
SubmissionFails(a, s) ==
    /\ sub[a][s] \in {"commit", "read", "project", "selecting", "published", "accepted", "refused"}
    /\ sub[a][s] \in {"published", "accepted", "refused"} => Published(<<a, s>>)
    /\ faults < MaxFaults
    /\ faults' = faults + 1
    /\ Unregister(a, s)
    /\ Goto(a, s, "idle")
    /\ UNCHANGED <<durableVars, answer, stale, entry, task, waiter, cancel, resume, lock,
                   pubVars, crashes, historyVars>>

\* a runner's result marks the local record before it is stored, a claim after
MarksRecord(v, pc) == v \in {"completed", "failed"} /\ Projection(v, pc) # "finalizing"

\* the write of a terminal status fails: a runner's result may have marked the
\* local record, a cancellation releases it
ProjectionFails(a, s) ==
    /\ sub[a][s] \in {"transition", "unavailable"}
    /\ ~lock
    /\ CanProject(outcome[a])
    /\ faults < MaxFaults
    /\ faults' = faults + 1
    /\ stale' = IF MarksRecord(outcome[a], sub[a][s]) /\ entry # 0 THEN entry ELSE stale
    /\ entry' = IF outcome[a] = "cancelled" /\ owner = "running" THEN 0 ELSE entry
    /\ Unregister(a, s)
    /\ Goto(a, s, "idle")
    /\ UNCHANGED <<durableVars, answer, task, waiter, cancel, resume, lock, pubVars,
                   crashes, historyVars>>

\* external: the success finalizer settles its claim
FinalizerSettles(status) ==
    /\ owner = "finalizing"
    /\ Store(status)
    /\ UNCHANGED <<active, settled, outcome, intent, observed, gate, answer, stale, entry, task,
                   waiter, sub, cancel, resume, lock, pubVars, holder, faultVars, requested>>

-----------------------------------------------------------------------------
(* Cancellation: intent on every attempt, then the owner, in one transition. *)

RequestCancel(by) ==
    /\ cancel = "idle"
    /\ \/ by = "user" /\ UNCHANGED handler
       \/ /\ by = "subscriber"
          /\ publishing
          /\ handler = "none"
          /\ Head(pubs).event
          /\ handler' = "cancel"
    /\ cancel' = "asked"
    /\ UNCHANGED <<durableVars, answer, stale, entry, task, waiter, sub, resume, lock, pubs,
                   publishing, holder, faultVars, historyVars>>

\* mutant: a success that is being finalized can still be cancelled
CancelUnlessTerminal ==
    /\ cancel = "asked"
    /\ ~lock
    /\ owner \notin Terminal
    /\ intent' = [a \in Attempts |-> intent[a] \/ Exists(a)]
    /\ lock' = TRUE
    /\ cancel' = "persisting"
    /\ UNCHANGED <<owner, active, settled, outcome, observed, gate, answer, stale, entry, task,
                   waiter, sub, resume, pubVars, holder, faultVars, historyVars>>

\* the intent is stored while the transition holds the queue
CancelAttempts ==
    /\ cancel = "asked"
    /\ ~lock
    /\ owner \in {"running", "paused"}
    /\ intent' = [a \in Attempts |-> intent[a] \/ Exists(a)]
    /\ lock' = TRUE
    /\ cancel' = "persisting"
    /\ UNCHANGED <<owner, active, settled, outcome, observed, gate, answer, stale, entry, task,
                   waiter, sub, resume, pubVars, holder, faultVars, historyVars>>

CancelRefused ==
    /\ cancel = "asked"
    /\ ~lock
    /\ owner \notin {"running", "paused"}
    /\ Reserve(Canceller, FALSE)
    /\ cancel' = "published"
    /\ UNCHANGED <<durableVars, answer, stale, entry, task, waiter, sub, resume, lock, publishing,
                   handler, holder, faultVars, historyVars>>

CancelOwner ==
    /\ cancel = "persisting"
    /\ Store("cancelled")
    /\ gate' = IF owner = "paused" THEN CancelGates ELSE gate
    /\ entry' = 0
    /\ lock' = FALSE
    /\ requested' = TRUE
    /\ Reserve(Canceller, TRUE)
    /\ cancel' = "notifying"
    /\ UNCHANGED <<active, settled, outcome, intent, observed, answer, stale, task, waiter, sub,
                   resume, publishing, handler, holder, faultVars>>

\* the second write fails: the attempts were asked to stop, the owner was not
CancelOwnerFails ==
    /\ cancel = "persisting"
    /\ faults < MaxFaults
    /\ faults' = faults + 1
    /\ entry' = IF owner = "running" THEN 0 ELSE entry
    /\ lock' = FALSE
    /\ cancel' = "idle"
    /\ handler' = IF handler = "cancel" THEN "none" ELSE handler
    /\ UNCHANGED <<durableVars, answer, stale, task, waiter, sub, resume, pubs, publishing,
                   holder, crashes, historyVars>>

\* the control subscribers return
NotifyAttemptCancellation ==
    /\ cancel = "notifying"
    /\ cancel' = "published"
    /\ UNCHANGED <<durableVars, answer, stale, entry, task, waiter, sub, resume, lock, pubVars,
                   holder, faultVars, historyVars>>

CancelReturns ==
    /\ cancel = "published"
    /\ Published(Canceller)
    /\ cancel' = "idle"
    /\ handler' = IF handler = "cancel" THEN "none" ELSE handler
    /\ UNCHANGED <<durableVars, answer, stale, entry, task, waiter, sub, resume, lock, pubs,
                   publishing, holder, faultVars, historyVars>>

-----------------------------------------------------------------------------
(* A gate response resumes a paused owner with the next runner task. *)

NextTask(a) == task[a] = "none" /\ \A b \in Attempts : b < a => task[b] # "none"

\* the response reads the paused owner and the waiting gate; it is answered while
\* the bound leaves a task to resume with
RespondToPausedGate(r, a, by) ==
    /\ resume[r].pc = "idle"
    /\ \/ by = "user" /\ UNCHANGED handler
       \/ /\ by = "subscriber"
          /\ publishing
          /\ handler = "none"
          /\ Head(pubs).event
          /\ handler' = r
    /\ owner = "paused"
    /\ gate[a] = "waiting"
    /\ \E n \in Attempts : NextTask(n)
    /\ resume' = [resume EXCEPT ![r] = [pc |-> "reading", gate |-> a]]
    /\ UNCHANGED <<durableVars, answer, stale, entry, task, waiter, sub, cancel, lock, pubs,
                   publishing, holder, faultVars, historyVars>>

ResponseReturns(r) ==
    /\ resume' = [resume EXCEPT ![r] = NoResponse]
    /\ handler' = IF handler = r THEN "none" ELSE handler

\* mutant: the response overwrites the gate it has read
ResolveReadGate(r) ==
    /\ resume[r].pc = "reading"
    /\ gate' = [gate EXCEPT ![resume[r].gate] = "resolved"]
    /\ resume' = [resume EXCEPT ![r].pc = "resuming"]
    /\ UNCHANGED <<owner, active, settled, outcome, intent, observed, answer, stale, entry, task,
                   waiter, sub, cancel, lock, pubVars, holder, faultVars, historyVars>>

\* only a gate that still waits accepts the response; the owner is not read again
ResolveWaitingGate(r) ==
    /\ resume[r].pc = "reading"
    /\ IF gate[resume[r].gate] = "waiting"
       THEN /\ gate' = [gate EXCEPT ![resume[r].gate] = "resolved"]
            /\ resume' = [resume EXCEPT ![r].pc = "resuming"]
            /\ UNCHANGED handler
       ELSE /\ ResponseReturns(r)
            /\ UNCHANGED gate
    /\ UNCHANGED <<owner, active, settled, outcome, intent, observed, answer, stale, entry, task,
                   waiter, sub, cancel, lock, pubs, publishing, holder, faultVars, historyVars>>

\* a request before the gate is resolved fails: nothing was changed
ResponseFails(r) ==
    /\ resume[r].pc = "reading"
    /\ faults < MaxFaults
    /\ faults' = faults + 1
    /\ ResponseReturns(r)
    /\ UNCHANGED <<durableVars, answer, stale, entry, task, waiter, sub, cancel, lock, pubs,
                   publishing, holder, crashes, historyVars>>

ResumePausedExecution(r, n) ==
    /\ resume[r].pc = "resuming"
    /\ ~lock
    /\ NextTask(n)
    /\ IF owner = "paused"
       THEN /\ Store("running")
            /\ entry' = n
            /\ task' = [task EXCEPT ![n] = "starting"]
       ELSE UNCHANGED <<owner, taken, entry, task>>
    /\ ResponseReturns(r)
    /\ UNCHANGED <<active, settled, outcome, intent, observed, gate, answer, stale, waiter, sub,
                   cancel, lock, pubs, publishing, holder, faultVars, requested>>

\* the resume fails before the owner is written, or between that write and the
\* launch of the task, with or without the record registered
ResumeFails(r, n) ==
    /\ resume[r].pc = "resuming"
    /\ faults < MaxFaults
    /\ faults' = faults + 1
    /\ \/ UNCHANGED <<owner, taken, entry>>
       \/ /\ ~lock
          /\ owner = "paused"
          /\ NextTask(n)
          /\ Store("running")
          /\ entry' \in {entry, n}
    /\ resume' = [resume EXCEPT ![r].pc = "restoring"]
    /\ UNCHANGED <<active, settled, outcome, intent, observed, gate, answer, stale, task, waiter,
                   sub, cancel, lock, pubVars, holder, crashes, requested>>

\* the paused execution and its waiting gate are restored together
RestorePausedGate(r) ==
    /\ resume[r].pc = "restoring"
    /\ ~lock
    /\ IF owner \in {"paused", "running"}
       THEN /\ Store("paused")
            /\ gate' = [gate EXCEPT ![resume[r].gate] = "waiting"]
            /\ entry' = 0
       ELSE UNCHANGED <<owner, taken, gate, entry>>
    /\ ResponseReturns(r)
    /\ UNCHANGED <<active, settled, outcome, intent, observed, answer, stale, task, waiter, sub,
                   cancel, lock, pubs, publishing, holder, faultVars, requested>>

\* the restore fails and is only logged: the gate stays resolved, and the record
\* is gone unless the first read already failed
RestoreFails(r) ==
    /\ resume[r].pc = "restoring"
    /\ ~lock
    /\ faults < MaxFaults
    /\ faults' = faults + 1
    /\ \/ UNCHANGED entry
       \/ owner \in {"paused", "running"} /\ entry' = 0
    /\ ResponseReturns(r)
    /\ UNCHANGED <<durableVars, answer, stale, task, waiter, sub, cancel, lock, pubs, publishing,
                   holder, crashes, historyVars>>

-----------------------------------------------------------------------------
\* the host process dies; storage, the worker and the provider live on
Crash ==
    /\ crashes < MaxCrashes
    /\ crashes' = crashes + 1
    /\ entry' = 0
    /\ task' = [a \in Attempts |-> IF task[a] = "none" THEN "none" ELSE "done"]
    /\ waiter' = [a \in Attempts |-> IF waiter[a] = "pending" THEN "dropped" ELSE waiter[a]]
    /\ sub' = [a \in Attempts |-> [s \in Slots |-> "idle"]]
    /\ cancel' = "idle"
    /\ resume' = [r \in Responses |-> NoResponse]
    /\ lock' = FALSE
    /\ pubs' = <<>>
    /\ publishing' = FALSE
    /\ handler' = "none"
    /\ holder' = Nobody
    /\ UNCHANGED <<durableVars, answer, stale, faults, historyVars>>

Callers == {"user", "subscriber"}

TaskStep(a) ==
    \/ CreateAttempt(a) \/ CreationRefused(a)
    \/ \E accepted \in BOOLEAN : Dispatch(a, accepted)
    \/ HandleUnacknowledgedDispatchFailure(a) \/ AwaitOutcome(a)
    \/ RunnerRejected(a) \/ CompleteExecutionWithFailure(a) \/ FailureReturns(a)

SubmissionStep(a, s) ==
    \/ CommitOutcome(a, s) \/ ReadOwner(a, s) \/ ProjectTerminal(a, s)
    \/ SelectFinalizer(a, s) \/ TerminalTransition(a, s) \/ UnregisterFinalizer(a, s)
    \/ TerminalSettled(a, s) \/ ParkExecution(a, s)
    \/ ReadSettled(a, s) \/ SettleOutcome(a, s)

CancelStep ==
    \/ CancelAttempts \/ CancelRefused \/ CancelOwner \/ NotifyAttemptCancellation
    \/ CancelReturns

ResumeStep(r) ==
    \/ ResolveWaitingGate(r)
    \/ \E n \in Attempts : ResumePausedExecution(r, n)
    \/ RestorePausedGate(r)

PublicationStep == StartPublication \/ EndPublication

Next ==
    \/ \E a \in Attempts :
          \/ TaskStep(a) \/ CreationFails(a) \/ AbandonmentFails(a) \/ FailureNotStored(a)
          \/ Provision(a) \/ ProvisioningAbsent(a) \/ InfrastructureFailure(a)
          \/ \E v \in Answers : WorkerFinishes(a, v)
          \/ \E s \in Slots : Submit(a, s) \/ SubmissionStep(a, s)
          \/ \E s \in Slots : SubmissionFails(a, s) \/ ProjectionFails(a, s)
    \/ \E status \in {"completed", "failed"} : FinalizerSettles(status)
    \/ \E by \in Callers : RequestCancel(by)
    \/ CancelStep \/ CancelOwnerFails
    \/ \E r \in Responses :
          \/ \E a \in Attempts, by \in Callers : RespondToPausedGate(r, a, by)
          \/ ResumeStep(r) \/ ResponseFails(r) \/ RestoreFails(r)
          \/ \E n \in Attempts : ResumeFails(r, n)
    \/ PublicationStep \/ Crash

Spec == Init /\ [][Next]_vars

\* steps the code takes by itself: a worker resubmits (7 retries within 120 s,
\* more than the faults and crashes of a run can use up), the host's promises
\* continue, storage answers; a publication has finitely many subscribers, so it
\* ends however often one of them calls back (strong fairness)
Fairness ==
    /\ \A a \in Attempts :
          /\ WF_vars(TaskStep(a))
          /\ \A s \in Slots :
                /\ WF_vars(SubmissionStep(a, s))
                /\ WF_vars(Submit(a, s))
    /\ WF_vars(CancelStep)
    /\ \A r \in Responses : WF_vars(ResumeStep(r))
    /\ WF_vars(StartPublication)
    /\ SF_vars(EndPublication)

FairSpec == Spec /\ Fairness

-----------------------------------------------------------------------------
(* Properties. *)

\* Once the owner has committed a cancel request, every attempt of the execution
\* carries the cancellation intent: none is created beside the request or after
\* it (requestCancellation inside cancelExecutionDurably against the admission of
\* withAttemptCreation), across failed second writes, failed resumes and restores.
CancelReachesEveryAttempt ==
    requested => \A a \in Attempts : Exists(a) => intent[a]

\* What a runner is told about its attempt is what happened to the owner:
\* 'projected' only if the owner has held the status of the outcome since it was
\* committed, 'recorded-only' only if a cancelled owner refused it
\* (acceptWorkflowOwnerOutcome and settleOutcome).
AcceptanceIsHonest ==
    \A a \in Attempts :
        /\ waiter[a] = "projected" => taken[a]
        /\ waiter[a] = "recorded-only" => owner = "cancelled" /\ outcome[a] # "cancelled"

\* No late outcome, failing runner task, gate response, restore or cancel moves an
\* owner out of a terminal status, and a claimed success is only settled by its
\* finalizer (the status checks inside the lifecycle transitions).
TerminalIsFinal ==
    [][ /\ owner \in Terminal => owner' = owner
        /\ owner = "finalizing" => owner' \in {"finalizing", "completed", "failed"} ]_vars

\* A paused owner is resumed only when no gate waits for an answer: of overlapping
\* responses to one gate a single one counts, also when its resume fails and is
\* restored while the other is on its way (resolveWaitingGateInstance against
\* resumePausedExecution).  That a slow response carries the owner past no later
\* gate either takes more attempts than a run has: GatesAreAnswered proves it.
ResumeAnswersEveryGate ==
    [][ owner = "paused" /\ owner' = "running" =>
            \A a \in Attempts : gate[a] # "waiting" ]_vars

\* the queue is held only by a cancel whose intent every attempt carries, and a
\* committed cancel stays
QueueInv ==
    /\ lock <=> cancel = "persisting"
    /\ lock => owner \in {"running", "paused"} /\ \A a \in Attempts : Exists(a) => intent[a]
    /\ requested => owner = "cancelled"
    /\ active # 0 => Exists(active)
    /\ publishing => pubs # <<>>

\* an owner that holds the status of a committed outcome has taken it
TakenInv ==
    \A a \in Attempts :
        /\ taken[a] => outcome[a] # "none"
        /\ Accepts(owner, outcome[a]) => taken[a]

\* what a submission has found out stays true until it settles the waiter
SubmissionInv ==
    \A a \in Attempts :
        /\ \A s \in Slots :
              /\ sub[a][s] # "idle" => answer[a] # "none"
              /\ sub[a][s] \notin {"idle", "commit"} => outcome[a] # "none"
              /\ sub[a][s] = "accepted" => taken[a] \/ owner = "cancelled"
              /\ sub[a][s] = "projected" => taken[a]
              /\ sub[a][s] = "recorded-only" =>
                     owner = "cancelled" /\ outcome[a] # "cancelled"
        /\ waiter[a] \in {"projected", "recorded-only"} => outcome[a] # "none"

\* The inductive invariant of the owner: the queue, the history and every
\* submission in progress agree with what is stored.
OwnerInv ==
    /\ TypeOK
    /\ QueueInv
    /\ TakenInv
    /\ SubmissionInv
    /\ CancelReachesEveryAttempt
    /\ AcceptanceIsHonest

\* whose turn it is to carry the execution on: an attempt that is being created or
\* whose worker has not reported, a gate that waits, or the response that resolved it
AttemptTurn(n) == task[n] = "starting" \/ (Exists(n) /\ answer[n] = "none")
GateTurn(a) == gate[a] = "waiting"
ResponseTurn(r) == resume[r].pc \in {"resuming", "restoring"}

\* At most one of them has the turn.
OneTurn ==
    /\ \A m, n \in Attempts : AttemptTurn(m) /\ AttemptTurn(n) => m = n
    /\ \A a, b \in Attempts : GateTurn(a) /\ GateTurn(b) => a = b
    /\ \A r, q \in Responses : ResponseTurn(r) /\ ResponseTurn(q) => r = q
    /\ \A n, a \in Attempts : ~(AttemptTurn(n) /\ GateTurn(a))
    /\ \A n \in Attempts, r \in Responses : ~(AttemptTurn(n) /\ ResponseTurn(r))
    /\ \A a \in Attempts, r \in Responses : ~(GateTurn(a) /\ ResponseTurn(r))

\* An attempt exists only once its task has created it.
CreatedByTask == \A n \in Attempts : task[n] \in {"none", "starting"} => ~Exists(n)

\* A response in progress has read a gate.
GateRead == \A r \in Responses : resume[r].pc # "idle" => resume[r].gate \in Attempts

\* The inductive invariant of the gates and the responses to them.
TurnInv == OneTurn /\ CreatedByTask /\ GateRead

\* the cancel decision was begun on the attempts and not finished on the owner
CancelUnfinished(a) == observed[a] /\ owner \in {"running", "paused"}

\* the owner ended as something the outcome does not describe
Contradicted(a) == owner \in {"completed", "failed"} /\ ~Accepts(owner, outcome[a])

RecordIsStale == entry # 0 /\ stale = entry

Waiting(a) == outcome[a] # "none" /\ waiter[a] = "pending"

\* A committed outcome reaches the runner that waits for it while the worker
\* retries, unless the owner still owes a begun cancellation, ended otherwise, or
\* a failed write left its local record marked (submitAttemptOutcome).
OutcomeReachesRunner ==
    \A a \in Attempts :
        Waiting(a) ~> (~Waiting(a) \/ CancelUnfinished(a) \/ Contradicted(a) \/ RecordIsStale)

\* "so the worker's retry yields `duplicate` and converges again": a failed
\* convergence is repaired by the retry (outcome-convergence.ts:158).
RetryConverges ==
    \A a \in Attempts :
        Waiting(a) ~> (~Waiting(a) \/ CancelUnfinished(a) \/ Contradicted(a))

\* A cancel request returns, also when a subscriber of a lifecycle event issues it
\* and the publication waits for that subscriber (awaitPublication).
CancelRequestReturns == cancel # "idle" ~> cancel = "idle"

\* "converges through the idempotent durable pause path": a paused outcome pauses
\* the owner only while the gate it stopped at still waits (parkExecution).
PauseIsIdempotent ==
    [][ owner = "running" /\ owner' = "paused" =>
            \E a \in Attempts : gate'[a] = "waiting" ]_vars

=============================================================================
