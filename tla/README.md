# Makaio: specifications and proofs of the bus and of execution attempts

Makaio is a framework for running and connecting AI agents. This project models its two
cores with hard concurrency.

The **bus** (`core/bus-core`) is what all parts (host, extensions, adapters, services,
user interfaces) talk over. A bus is an in-process registry of event and request
handlers; buses in different processes are joined by transports into a topology in
which a request finds its handler by priority, wherever the handler lives.

**Execution attempts** are how a workflow gets its work done in processes that may
crash, hang or be replaced (`subsystems/workflow-engine`, `storage/pg`,
`runtimes/node/src/workflow-worker`). A workflow execution, the *owner*, creates an
attempt; a controller has a provider allocate a machine for it; a runtime process on it
registers, proves it can be reached, prepares a workspace, runs the workload and
submits one outcome, again if it is not acknowledged; the owner projects the outcome on
its own status. Cancellation, gate responses, replacement attempts, lost answers and failed
writes race with all of that.

## Inventory

Paths of the bus are relative to `core/bus-core/src`, those of execution attempts to
`subsystems/workflow-engine/src` unless they say otherwise.

| Part | State | Operations | Hard behaviour | What makes it correct |
|---|---|---|---|---|
| Connection lifecycle (`bus.ts`) | `localTransports`, `connected`, `connectPromise`, `readyPromise`, `activeReadyHandshake` | `registerTransport`, `unregisterTransport`, `connect`, `disconnect`, `ready`, `reconnect` | async attempts outlive the session that started them; rollback and cleanup run beside newer attempts | one live attempt; an overtaken attempt connects nothing and removes nothing newer; waiting callers return |
| Correlation tracker (`utils/correlation-tracker.ts`) | map of pending requests, timers, abort listeners | `track`, `resolve`, `reject`, `cancel`, `rejectAll`, `cleanup` | response, timeout, abort and connection loss race | every promise settles once, none is lost, no callback outlives its entry |
| Request dispatch (`methods/request.ts`, `methods/request/*`) | one chain per request: deadline, signal, first transport error | `request`, `requestOptional`, `ctx.next`, `ctx.setResult` | deadline and abort at any point, late handlers, hung peers | nothing starts late, nothing is sent after an abort, failures are not mistaken for missing handlers, requests end |
| Cross-bus routing (`merged-list.ts`, `getMatchingHandlers.ts`, `handleRequestMessage`) | merged list of local and remote entries, priority cursor | build, resolve cursor, forward, answer | ties, nested hops, peers with several priorities | no handler skipped, priority order, no loops, no repeated work |
| Subscription advertisement (`registries/advertised-state.ts`, `remote-subscriptions.ts`, `methods/on.ts`) | what every peer offers, its delivery class | `on` and its cleanup, subscribe and unsubscribe messages, sync on registration, purge | changes cross in flight, links fail on one side first, host-local subjects must not spread | legal routes at all times, exact routes when quiet, messages stop |
| Transport registry (`registries/transport-registry.ts`) | registered transports, pending `ready` promises | register, unregister, route incoming messages | replacement under the same name, late `ready` settlement | identity guards |
| Emit, broadcast, once (`methods/*.ts`) | relay targets, collected results, one-shot subscriptions | `emit`, `broadcast`, `once` | partial failures, timer and abort races | each answer counted once |
| Direct channel (`channel/*`) | shared key, closed flag | `emit`, `request`, `close` | close during encryption | nothing is sent with a zeroized key |
| Websocket, stdio and port transports (`transports/*`) | sockets, reconnect timers, client registry | connect, reconnect, heartbeat, authenticate | reconnect storms, half-open sockets | one socket at a time, resubscription |
| Attempt repository (`storage/pg/src/execution-attempt-*.ts`) | attempt rows, active pointer, provider operation with claim and lease, cancellation, outcome | create, provision, claim, hand off, take over, record allocation, absence, termination or failure, cancel, commit, abandon | late calls of fenced controllers; several settlements race; replacement during all of it | one verdict per attempt, one good claim per operation, only the current attempt starts work |
| Attempt control and registration (`execution-attempt-decisions.ts`, `runtime-registration.ts`, `execution-attempt-handlers.ts`, `attempt-control-*.ts`) | runtime generation, incarnation, readiness, the one operation slot, receipts, control evidence | register, probe, admit, complete, report, correlate and commit an outcome, deliver a cancel | the registration and outcome handlers await between their calls; restarts overlap | readiness is proven, work is exclusive, the outcome is the owner's |
| Headless runtime (`runtimes/node/src/workflow-worker`) | place in the invocation sequence, observer of its operations, terminal report | register, prepare, invoke, submit, conclude on a cancel | lost answers and retries; cancel at any point | it never reports as stopped what may run |
| Workflow owner (`authority-dispatch-runner.ts`, `execution-attempt-authority.ts`, `outcome-convergence.ts`, `workflow-owner-outcome.ts`, `workflow-execution-finalizer.ts`, `workflow-runner-tasks.ts`, ...) | execution status, active record, waiters, lifecycle queue, reserved publications | dispatch, wait, project, pause, resume, cancel, publish | submissions overlap with cancel and resume; writes fail; the host restarts; subscribers call back | cancel reaches every attempt, what a runner is told is true, terminal stays terminal, outcomes arrive |
| Kernel, adapters, other subsystems, services, storage, SDKs, apps | extension order, agent queues, sessions, tables | see the packages | start-up order, queue draining | per package |

The parts interact as follows. `bus.ts` registers a transport in the registry, which
syncs the bus's subscriptions to the peer and installs the receive callback. Incoming
subscribe messages change the remote-handler maps and are passed on to the other
peers. A request merges local handlers with those maps; a remote entry is sent through
the transport, whose correlation tracker matches the answer. The `ready` promise of a
transport gates both `connect()` and the start of a dispatch.

Above the bus, the owner, its workers and the controllers share nothing but the attempt
repository and bus requests. The owner's runner task creates an attempt and a waiter, a
controller claims the attempt's provider operation, the runtime talks to the attempt's
authority with requests that it repeats until they are answered, and the outcome handler
commits to the repository, has the owner project the outcome and settles the waiter. A
cancel goes the other way: intent on every attempt, then the owner's status, then a
notice to the runtime, which answers with evidence of what has stopped.

## Modules

| Module | Models | Used by |
|---|---|---|
| `BusLifecycle` | `createTransportMethods` in `bus.ts` | `MCBusLifecycle`, `BusLifecycleProofs` |
| `CorrelationTracker` | `correlation-tracker.ts` | `MCCorrelationTracker`, `CorrelationTrackerProofs` |
| `SettleOnce` | abstract: a promise settles at most once | instantiated by `CorrelationTracker` |
| `RequestDispatch` | one request on one bus | `MCRequestDispatch`, `RequestDispatchProofs` |
| `CrossBusDispatch` | one request over several buses | `MCCrossBusDispatch`, `CrossBusDispatchProofs` |
| `AdvertisedState` | subscriptions of one subject over several buses | `MCAdvertisedState`, `AdvertisedStateProofs` |
| `ExecutionAttempts` | the durable attempt repository of one execution | `MCExecutionAttempts`, `ExecutionAttemptsProofs` |
| `AttemptLedger` | abstract: what the repository promises the owner | instantiated by `ExecutionAttempts` |
| `AttemptControl` | the authority's view of the runtimes of one attempt | extended by `WorkloadRuntime` |
| `WorkloadRuntime` | runtime processes composed with that authority | `MCWorkloadRuntime`, `WorkloadRuntimeProofs` |
| `WorkflowOwner` | the owner: runner tasks, submissions, lifecycle | `MCWorkflowOwner`, `WorkflowOwnerProofs` |

The definitions marked `mutant` in the modules are the same code with one plausible
mistake; each property is known to fail when its mutant takes the place of the original
(`PROJECT.json`, "mutants").

### BusLifecycle

The five cells of the closure are variables with their source names; an entry object is
a transport with a number, because the code compares entries by identity. An attempt is
the async body that a `connect()` call starts. Its record holds where the body is
(`pc`), where `finalizeReady()` is (`fin`; it runs behind the body when `awaitReady` is
false), the entries it captured, the settlement of the promises it awaits, and its
handshake. Every stretch of code between two awaits is one action, so a settled promise
and the continuation that reads it are two steps and anything may come between:
`disconnect()`, a registration, another attempt's rollback. Transports are external:
their `connect()` and `ready` settle either way at any time.

`AwaitTeardown` and `ReuseTransports` describe the host. With `AwaitTeardown` the host
lets earlier attempts end before it registers transports again; without it sessions
overlap. With `ReuseTransports` it may register a transport object again that an earlier
attempt knows. The guard of a registration's `unregister()` compares transport objects
and the one of `localTransports` compares entries, so a rollback removes from `registry`
every transport object it captured and from `local` only its own entries. `epoch` is a history variable counting `disconnect()` calls. Each caller calls
`connect()` once, so an attempt is named after its caller.

Left out: `reconnect()` changes none of this state; the try/catch around
`entry.unregister()` only logs.

### CorrelationTracker

`pending` is the map. A timer and an abort listener are sets of calls, and both look
their *id* up when they fire, as in the code, so with a reused id they may find another
call's entry. `ReuseWhilePending` switches that possibility on. `cancel()` is
`reject()` with another error; `cleanup()` is `rejectAll()`.

### RequestDispatch

The merged list is a row of positions 1..N, each local or remote, chosen freely in the
initial state. `Step` is `stepDispatch()`: it passes over remote entries whose transport
is gone, ends the chain at N + 1, throws on an expired deadline, and starts the entry
otherwise. `ent[i].err` is `firstTransportError` as carried to i. A send that settles
and the continuation after it are separate steps, which is where an abort gets in
between. The gate opens when the transports are ready or its budget, clamped by the
deadline, runs out. Payloads, validation and observers are left out. Results are
reduced to `hasResult`. A handler calls `next()` at most once (the code asks for that)
and not after it has returned.

### CrossBusDispatch

Buses waiting on each other's answer form a stack of frames, one per dispatch, with the
part of the merged list that is left. The advertisements have converged (that is what
`AdvertisedState` shows), so a bus has a remote entry per neighbour and priority behind
it. `Via` gives the routes; the run uses those of a line, and the proofs need nothing of
them but that every bus has one to every other and none leads straight back. Handlers of
one bus with the same priority are one handler. Handlers decline, answer or throw, and a
send may fail. `MaxHops` bounds the messages of a request, because with equal priorities
a request may go back and forth between two buses with no bound but the deadline.

A peer dispatches a received request over its own merged list, which holds the
requester's handlers too, and nothing in the dispatch keeps it from sending the request
back. Whether that happens is up to the transport: `Servers` are the buses whose
transport is a websocket server, which never routes a request to the client it came from
(`routeRequestToClients`, `docs/architecture/transport.md:338-339`) and gives every send
a correlation id of its own. That a server has one client is a simplification; trying the
next client after a refusal is left out. All other hops carry the correlation id of the
request (`dispatch.ts:345`), so a bus that sends a request on over a transport which
still awaits an answer to it overwrites the tracker's entry (`correlation-tracker.ts:100`).
`lost` holds the dispatches whose answer can no longer reach them; they end with their
deadline (`LostSendTimesOut`), the only use of deadlines here. `answered` is a history
variable.

### AdvertisedState

A subject's subscriptions over a topology. Each link has two directions with a FIFO
queue. A side registers and unregisters its transport on its own; once one side has
unregistered the link is dead and the other side's messages are lost until it
unregisters too, after which a new session may start. The code sends every message of a
handler before its first await, so a handler is one action. Request handlers of
different buses have different priorities and a priority is named after its bus, which
lets the properties say whose handler a route stands for. Wildcards are left out.

A push that a transport rejects is logged and never repeated (`advertised-state.ts:97-122`).
`Faulty` are the links on which that may happen, and `lost` is the history of which peers
miss the last word of their neighbour; a later push on the link makes it good. `Replace`
registers the same transport again under its own name (`transport-registry.ts:531-544`):
what was learned from the peer is purged and withdrawn from the other peers, and the peer
gets the sync again; it does not notice, so what it offers is missing (`lost`) until its
next push. A replacement by a fresh transport is an `Unregister` and a `Register`.

`TreeAssumption` says that the links form a finite tree and that `Via` follows it. It
describes the deployments the protocol is for: in a cycle, relayed advertisements keep
each other alive after their handler is gone, and convergence fails. `OnPath(j, n, k)`
reads off `Via` whether `j` lies between `n` and `k`, in branching trees too.

### ExecutionAttempts and AttemptLedger

One execution; no operation crosses executions. Each repository operation is a
transaction that holds the owner's advisory lock (`lockOwner`), so each is one action,
and the guarded UPDATE repeats what the decision before it has read. A refused call
changes nothing and is a stuttering step. Claims are never taken back from their
holders: `claims` keeps every claim ever issued, and any of them may be presented at
any time, which is how crashed, slow and superseded controllers call. A claim is a
generation, an owner and a token; the token is numbered like its generation, because a
fresh UUID is drawn with each. A lease expires at any time (`LeaseExpires`).
`recordProviderOperationUncertainty` only counts failures; with evidence texts, timing
windows and the request keys of `ensureAttempt` it is left out. The in-memory and SQLite
repositories of the test kit decide the same way.

`AttemptLedger` is what an owner may rely on: the current attempt, one verdict each,
and permission to start work that is only ever withdrawn. `ExecutionAttempts` states
`ImplementsLedger` with `INSTANCE AttemptLedger WITH`, mapping status, settlement and
committed outcome to the verdict and the active attempt's open start gate to `mayStart`.

### AttemptControl and WorkloadRuntime

`AttemptControl` holds the part of the attempt row that concerns runtimes: generation,
incarnation, readiness, the operation slot and the preparation receipts. The handler of
a registration awaits between registering, admitting a probe, delivering it, completing
it and marking the runtime ready, so each *pass* is a process; several passes, of one
incarnation or of two, overlap, and one may go on for an incarnation that has been
replaced. What the rest of the repository does to the attempt is
reduced to being superseded, terminated, settled and cancelled.

`WorkloadRuntime` adds the runtime processes. A runtime repeats a request until it is
answered, so `asked` keeps what it has ever sent and the authority may handle any of it
again and late; an answer counts only while the runtime waits for it. The outcome
handler is two steps, correlation and commit, because it awaits in between. A request
for the instruction that fails or times out ends the runtime (`ReadInstruction`), and a
report that does not fit its binding is refused (`ReportMisfit`). The
observer and `deriveAttemptControlConclusion` are one operator, evaluated whenever what
the runtime has observed changes.

Left out: the legacy `workflow-run` operation kind, control receipts, consumers of the
readiness announcement, and the gap between reading and delivering in
`reconcileAttemptCancellation` (delivery may happen at any time anyway). A setup result
is proven or "unconfirmed", which covers every result that is no proof.

### WorkflowOwner

Attempts are numbered by the runner task that creates them. A submission of a worker's
outcome walks through commit, reading the owner, projecting, reading again and settling
the waiter; `Slots` of them overlap, because a worker resubmits while its earlier
request may still be handled. `lock` is the lifecycle queue where it spans an await: a
cancel that has stored the intent and not yet the owner's status. Every other transition
is one step inside the queue. A gate response reads the paused execution and its gate,
resolves the gate and resumes in separate requests; `Responses` of them overlap, each of
its requests may fail, and a resume that fails, before or after it has stored `running`,
is followed by a restore that may fail too (`RestoreFails`). The projection of a
success registers the finalizer under the execution and unregisters it when it is done;
`holder` is the submission whose registration stands, and one that finds none, because an
overlapping submission has removed it, fails the execution (`SelectFinalizer`). An attempt is refused by an owner
that no longer runs (`CreationRefused`), or not created because a storage request fails
(`CreationFails`); the provider may prove it absent (`ProvisioningAbsent`) or report an
`InfrastructureFailure`. `NextTask` bounds the runner tasks and stands for no code.
Publications are reserved in order and published later;
a subscriber may itself cancel or answer a gate while the publication waits for it.
`stale` names the active record that was marked with a status whose write failed.
A crash loses everything but `durableVars`; a worker survives it and resubmits.
`taken` and `requested` are history variables.

Left out: the FIFO order of the lifecycle queue (only its exclusion is modelled), abort
controllers and shutdown, executions adopted from another host, the in-process step
loop, file workflows, gate timeouts and startup recovery. A worker has one answer. A
runner that reports `cancelled` counts as cooperative cancellation.

## Runs

| Run | Shows | Bounds |
|---|---|---|
| `lifecycle_disciplined` | one live attempt, handshakes settle, no registration during a rollback, overtaken attempts connect nothing, cancelled callers return | 2 callers, 2 transports, 3 registrations, 1 disconnect |
| `tracker` | the tracker's invariants, `SettleOnce` and liveness | 3 calls on 2 ids, no reuse while pending (`SettleOnce` is proved with reuse as well) |
| `crossbus` | nobody skipped, priority order on every bus | a line of 3 buses, one end a websocket server, requests of that end or of the middle, 3 priorities, every placement of handlers, 5 hops |
| `advertised` | legal routes, convergence, end of propagation | 3 buses in a line, the handlers of one end host-local, pushes on one link may be rejected, 8 host operations |
| `request` | deadline and abort; requests end | every chain of 3 entries, with and without timeout |
| `attempts` | the repository's inductive invariant and its parts, single authority, progress of obligations, the refinement of `AttemptLedger` | 2 attempts, 2 controllers, 2 generations, 2 references, 2 outcomes (all symmetric) |
| `runtime` | proven readiness, fenced slot, exclusive work, outcomes, evidence, acknowledgement retries | 2 incarnations, 2 passes (symmetric), 2 generations, 4 operations; `OneLoss`: not superseded and terminated both; `PassesOverlapEarly`: the passes overlap until a runtime goes to work, and a loss of the attempt finds none without an operation |
| `owner` | cancel reaches every attempt, overlapping gate responses | 2 attempts, 1 failing request or a failing resume and its failing restore (`SecondIsRestore`), 1 submission, 2 responses (symmetric), answers paused or cancelled; `ResponsesOverlap`: until a cancel request, and not beside the last attempt |
| `owner_live` | honest acceptance, terminal and claimed statuses stay, outcomes reach the runner, cancel requests return | 1 attempt, 1 failing request, 1 crash, 2 submissions, 1 response, answers completed, technical or paused, a finalizer |

The bounds hold what the hazards need: two callers and a disconnect are enough for an
attempt to be overtaken, and a second registration for a replacement; three calls on two
ids give a reuse after settlement beside an untouched id; three buses are the smallest topology with a
relay, three priorities leave one between two of another bus, and five hops take a
request to the far end, back and there again; eight host operations bring all four
registrations up, change handlers, break a link and restore it; three entries give a failure, a handler that declines and an
entry after it. Two attempts give one replacement, two controllers and generations one
takeover with the loser still calling. Two incarnations give one restart, two passes an old and a new registration or a repeated
one; once a runtime works, a second pass can only be refused the slot, which is why the
constraint lets them overlap before; four operation identifiers are a probe each, a preparation and an invocation, or a second preparation
after the restart. For the owner, a pause, a gate response and a resumed second attempt
need two attempts, and a lost write needs one fault; two submissions of one outcome
overlap in the second run, which has the crash and the finalizer. Two things take more
than the runs have and rest on the proofs: a cancel before a restart, and a gate response
slow enough to meet the gate of a later attempt. Larger instances are covered by the
proofs. `CHECK_DEADLOCK FALSE` is set wherever the host may simply stop calling.

Three runs are expected to fail. Each shows the code doing something that a comment of
the repository excludes:

- `lifecycle_joinrace`: the unguarded `connectPromise = null` in the body's `finally`
  (`bus.ts:425`) drops a *later* attempt's promise, so a third `connect()` starts a
  second live attempt over the same transports instead of joining.
- `owner_repause`: `pauseRunningExecution` does not ask whether the gate of the paused
  outcome still waits. A resubmitted paused outcome, handled after the gate was
  answered and the execution resumed, pauses the execution again with nothing waiting.
- `owner_retry`: the finalizer marks its in-memory record before the write that stores
  the status. When the write fails, the worker's retries find the record no longer
  running, never store the status and never settle the waiter.

The models reach more that a comment or document of the repository denies or leaves
open, without a run of its own:

- The guard of `unregister()` compares transport objects. When the host registers the
  *same* object again after `disconnect()`, the rollback of the overtaken attempt removes
  the new registration and the bus goes on listing a transport that receives nothing,
  although `bus.ts:123` says that the "identity-guarded delete preserves concurrently
  registered replacements" and `transport-registry.ts:564` that it acts only "if this is
  still OUR registration". The hypothesis of `ListedIsRegistered` excludes it.
- The design note at `dispatch.ts:272-280` says that a hop runs all its handlers below the
  cursor before it returns and that entries do "NOT interleave" across a transport;
  `docs/architecture/transport.md:379-380` says that a request is forwarded to "a
  different transport than the source". The code has no such check: with handlers B:3 and
  B:1 on the peer and A:2 on the requester, the peer sends the request back between its
  two handlers and A:2 runs there. That is the order `transport-registry.ts:159-160`
  promises ("strict priority order") and `HigherPriorityFirst` states.
- Behind a websocket server it is the other way round: the server does not send the request
  back, so the client's A:2 runs after B:1. `HigherPriorityFirst` exempts exactly these
  handlers (`Excused`), against the "strict priority order" of `transport-registry.ts:159`.
- A request sent back and forth over one transport, none of whose ends is a websocket
  server, loses its answer: the second send overwrites the pending entry of the first, and
  the caller sees a timeout although a handler answered.
- A default `connect()` during the rollback of a failed background readiness resolves
  although nothing is ready; a peer with two priorities may run a declining handler twice;
  buses with equal priorities may send a request back and forth; a second registration
  pass may probe an incarnation that is already proven and refuse it the slot meanwhile.

## Fairness

JavaScript runs every continuation of a settled promise and every due timer, so these
actions are weakly fair, one condition per continuation. In `BusLifecycle`
`transport.connect()` and `transport.disconnect()` are assumed to settle; `ready` is not,
since a peer may never send its handshake. In `RequestDispatch` local handlers end (the
code calls a hung handler a handler bug); peers need not answer, transports need not
become ready and nobody need abort. In `AdvertisedState` a transport delivers what a
registered receiver has coming. No host operation is fair.

In `WorkflowOwner` a worker resubmits until acknowledged. `submitAttemptOutcomeWithAck`
gives up after 7 retries or 120 s (`outcome-submission.ts:51-54`, `355-374`), which is
more than the one fault and the one crash of a run can use up; nothing is said of a
host that is out of reach for longer. Every continuation of a task, submission, cancel request or gate response runs.
`StartPublication` is weakly fair; `EndPublication` is strongly fair, because a
publication has finitely many subscribers, although each of them may hold it up by a
call of its own. Storage failures are bounded by `MaxFaults`, crashes by `MaxCrashes`.
`OutcomeReachesRunner` exempts three situations in which the code leaves a runner
waiting: a cancel that stored its intent and failed to store the status
(`CancelUnfinished`; a repeated cancel repairs it), an owner that ended as something
else (`Contradicted`), and the marked record of `owner_retry` (`RecordIsStale`).

## Proofs

TLAPS checks these for all values of the constants.

`BusLifecycleProofs`:

- `TypeCorrect`: `Spec => []TypeOK`. What the steps do to an attempt's record is named
  in the specification (`FinalizeReturns`, `ReadyFailed`, ...), and each operator has a
  type lemma, so the action lemmas never open the record.
- `LifecycleInvariant`, `ConnectedStaysCurrent`: `Spec => []ConnectedIsCurrent`. It is
  not inductive alone: the step that sets `connected` must be known to be taken by an
  attempt of the current session. `LifecycleInv` adds that entry numbers grow
  (`EntriesNumbered`) and that an attempt of an earlier session owns no current entry,
  while a connecting attempt owns at least one (`OldEntriesGone`). Then the code's check
  `areEntriesCurrent` implies that the session is current. All other steps are `QuietStep`s,
  handled by one lemma; registration, `disconnect()`, `connect()` and the connecting step
  have lemmas of their own. The only assumption is `LifecycleAssumption`, the types of
  the constants; the result holds for every kind of host.
- `DisciplineInvariant`: the inductive `DisciplineInv` of hosts with `AwaitTeardown`. One
  attempt runs (`OneRuns`); its body, background finalization and handshake fit together
  (`Coherent`); in the current session it holds the cells that keep other attempts out
  (`HoldsCells`); an attempt of an earlier session sees no transport and is cancelled if
  it still waits (`Overtaken`). From it `AttemptsDoNotOverlap` (`SingleLiveAttempt`),
  `HandshakesSettle` (`ReadySettles`) and `RollbackIsExclusive` (`RollbackExclusive`).
  The hypothesis cannot be dropped: `lifecycle_joinrace` violates `SingleLiveAttempt`
  without it.
- `OwnershipInvariant`, `ListedIsRegistered` (`RegistryOwnsLocal`, which no run checks):
  with `AwaitTeardown`, or with `ReuseTransports` false, a name has one entry and no
  running attempt would unregister the transport of another entry (`OnePerName`,
  `NoAlias`). The second case is the interesting one: rollbacks meet newer registrations
  of their names. With neither hypothesis a rollback removes a transport object that was
  registered again.

`CorrelationTrackerProofs`:

- `TrackerInvariant`: the inductive `TrackerInv`. `NoEntryLost` and `NoStrayCallback`
  are its parts `HeldIffPending` and `NoStrayCallbacks`; to be preserved they need that
  each entry belongs to a pending promise tracked under its id (`EntriesPending`) and
  that every call with a callback has an id (`TrackedHaveIds`).
- `TrackerSettlesOnce`: the refinement of `SettleOnce` for reused ids as well. Every
  step is an `Open`, a `Settle` of a set of pending promises, or a stutter;
  `EntriesPending` is what makes the settled promise a pending one.

`ExecutionAttemptsProofs`, from `AttemptsAssumption` (types of the constants):

- `Invariance`: the inductive `AttemptInv`. `StartsAreFenced`, `FactsAgree` and
  `NothingForgotten` are parts of it. They need each other: that an abandoned attempt
  never gets an allocation rests on its operation carrying evidence (`AttemptShape`), so
  that it is resolved and no claim on it is honoured.
- `ClaimsAreFenced`: of all claims ever issued at most the newest is good, from
  `ClaimShape`, which numbers claims by generation.
- `OperationsProgress`: the action property, from the invariant before the step.
- `RefinesLedger`: `Spec => ImplementsLedger`. Each repository action is a `Supersede`,
  `Answer`, `Fail` or `Withdraw` of the ledger or a stutter; `OnlyCurrentMayStart` is
  what makes the mapped `mayStart` shrink as the ledger says.

`WorkloadRuntimeProofs`, from `ControlAssumption`:

- `RuntimeInvariance`: the inductive `RuntimeInv`. `Ownership` (a generation belongs to
  one incarnation), `Slot`, `Course` (what a runtime's place says about its past),
  `Work` (what a runtime works on is the operation the record holds), `Verdict` (the
  committed report still matches the record) and `Witnessed` (achieved evidence comes
  from a runtime that can start nothing). `Verdict` carries the correlation check over
  the await: once a report matches and is committed, the slot cannot change any more.
- `ReadinessIsProven`, `WorkIsFenced`, `WorkIsExclusive`, `QuietAfterOutcome`,
  `OwnersOutcome`, `HonestEvidence` follow from it; `RetriesConverge` is an action
  property from `Verdict`.

`WorkflowOwnerProofs`, from `OwnerAssumption`:

- `OwnerInvariance`: the inductive `OwnerInv`. `QueueInv` says that a cancel holding the
  queue has its intent on every attempt, so no attempt slips in; `TakenInv` and
  `SubmissionInv` say that what a submission has found out stays true until it settles
  the waiter. `CancelIsComplete` and `AcceptanceIsTrue` are its parts.
- `TerminalStays`: the action property `TerminalIsFinal`.
- `TurnInvariance`, `GatesAreAnswered` (`ResumeAnswersEveryGate`): the inductive invariant
  `TurnInv` says whose turn it is. Of an attempt at work, a waiting gate and a response
  that has resolved one there is at most one (`OneTurn`), so a response that gets to
  resume is the only one that may, however long it took.

`RequestDispatchProofs`, from `DispatchAssumption` (types of the constants):

- `DispatchInvariant`: the inductive `DispatchInv`. `Chain` says that a position links to
  a later one with only gone transports between, `Answered` which answers go with which
  state, `FailureCarried` that everything behind a failed hop remembers the failure,
  `UnhandledMeansDeclined` that an unhandled entry has seen the end of the chain, and
  `Settled` that dispatch and caller report what the first entry did.
- `MissingHandlerIsReal` (`NoHandlerMeansDeclined`) and `AbortReachesTransports`
  (`AbortIsForwarded`) follow. The first is not inductive alone: the outcome travels back
  over the whole chain, and only `FailureCarried` rules out that a failure was dropped on
  the way. `DeadlineHolds` (`NothingStartsLate`) and `NoSendAfterAbort`
  (`NothingSentAfterAbort`) are action properties.

`CrossBusDispatchProofs`, from `CrossBusAssumption` (finitely many buses and priorities;
the arrival ranks of the neighbours differ; routes that never lead straight back; any
set of websocket servers, any bound on the hops):

- `StackInvariant`: the inductive `StackInv`. `TodoBelow` and `Linked` tie the lists and
  cursors of dispatches that await each other, `Rooted` starts the caller's own without a
  cursor, `Covered` says that every handler below a cursor is still listed or has run, and
  `AboveRan` that every handler at or above it has run unless something failed or a server
  leaves it to its client (`Excused`). The two
  together make the cursor sound: when a hop comes back declined, what it covered has run
  and its entry may be dropped (lemma `DropHead`). That a non-empty list has a first entry
  is a least-element argument over priority and rank.
- `CursorsSkipNobody` (`NobodySkipped`), `PrioritiesHoldAcrossBuses`
  (`HigherPriorityFirst`, for the handlers of every bus and any mix of transports). An
  exemption cannot appear and vanish in the middle of a dispatch (lemma `ExcusedStays`).
- `ServersKeepAnswers` (`AnswerReachesCaller`, which no run checks): if every link has a
  websocket server at one end, no send overwrites another and a result reaches the caller.
  Without servers it fails, as described above.

`AdvertisedStateProofs`, from `AdvertisedAssumption` and `TreeAssumption`:

- `RouteInvariant`: the inductive `RouteInv`. What is recorded and what is in flight on a
  link are handlers that the receiver may know of and reaches through it
  (`OffersAllowed`). `RoutesStayLegal` (`RoutesAreLegal`) follows.
- `SyncInvariant`: the inductive `SyncInv`. The last word on a connected link, recorded or
  still in flight, is what its sender offers now unless a push was rejected or dropped
  since (`Synced`), and dead and closed links
  leave no record behind (`RecordsFit`, `LinksFit`).
- `RoutesConverge` (`Converged`). With nothing in flight and nothing lost `Synced` says of each link that
  the record is the neighbour's offer; that every bus then knows exactly the handlers it
  can reach is an induction over the part of the tree behind a link, done as the
  impossibility of a counterexample with the smallest such part. `RouteInv` excludes
  ghosts, the tree excludes that a record supports itself.

Every invariant, action property and refinement of a passing run is proved. Only
model-checked are the liveness properties, since fairness and ENABLED are beyond the
prover: `CancelledCallersReturn`, `TimedCallsSettle`, `TimedDispatchEnds`,
`AbortedCallerReturns`, `PropagationEnds`, `OutcomeReachesRunner` and
`CancelRequestReturns`. The three runs that are expected to fail show a counterexample
each, which needs no proof. The inductive invariants that no run lists were checked with
TLC on the instances of the runs before they were proved, those of `AdvertisedState` on a
star of four buses as well.

## Not modelled

Of the bus: wildcard subjects and the transport allowlist; payloads, schemas and
validation; encryption; the wire formats; the pending-ready map of the registry; emit,
broadcast, once and direct channels; the concrete transports, except how a websocket
server routes requests and how messages are delivered to a registered receiver. Of the workflow engine: the
graph walk, expressions and steps, schedules, file workflows and startup recovery; the
providers that allocate machines. The rest of the repository (adapters, services,
kernel, user interfaces, clients, SDKs, build tooling) is mostly schemas, vendor
integration and sequential code; it is by far the larger part of the source, and the
share of the lines that the project covers is small for that reason. The reasons are
with the components in `PROJECT.json`.

## Plan

1. `WorkflowOwner` composed with `ExecutionAttempts`: the owner's attempt facts as an
   instance of `AttemptLedger`, so that both rest on one statement of the contract;
   startup recovery and executions adopted by another host.
2. Registry and relay: `TransportRegistry` (pending-ready identity guard, replacement,
   initial sync and handshake); `EventRelay` for emit and broadcast; `Once`.
3. Transports: the websocket client (reconnect timer, authentication, heartbeat,
   resubscription) over a lossy socket, using `CorrelationTracker`'s contract.
4. The agent queue of `adapters/core`, the native-session supervisor.
5. Proofs: that `WorkflowOwner` relies on nothing but `AttemptLedger`; that the merged
   lists `CrossBusDispatch` starts from are those of a converged `AdvertisedState`.
