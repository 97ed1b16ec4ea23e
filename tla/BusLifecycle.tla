---------------------------- MODULE BusLifecycle ----------------------------
(***************************************************************************)
(* The connection lifecycle of one bus instance: createTransportMethods in *)
(* core/bus-core/src/bus.ts.  The bus owns a map of transport entries and  *)
(* four shared cells (connected, connectPromise, readyPromise and          *)
(* activeReadyHandshake).  Each connect() that finds the bus idle starts   *)
(* an attempt, an async body that runs concurrently with disconnect(),     *)
(* registerTransport(), unregisterTransport() and other connect() calls.   *)
(*                                                                         *)
(* A promise settling and the continuation awaiting it are separate steps: *)
(* anything may run in between.  An attempt is named after the caller that *)
(* started it, so every caller calls connect() once.                       *)
(***************************************************************************)
EXTENDS Naturals, FiniteSets

CONSTANTS
    Callers,          \* the calls of connect()
    Transports,       \* transport objects
    Names,            \* transport names (keys of localTransports)
    NameOf,           \* the fixed name of every transport
    MaxRegistrations, \* bound: registerTransport() calls
    MaxDisconnects,   \* bound: disconnect() calls
    AwaitTeardown,    \* TRUE: after disconnect() the host registers transports
                      \* again only once every earlier attempt has ended
    ReuseTransports,  \* TRUE: a transport object may be registered again
    None

ASSUME LifecycleAssumption ==
    /\ NameOf \in [Transports -> Names]
    /\ MaxRegistrations \in Nat /\ MaxDisconnects \in Nat
    /\ AwaitTeardown \in BOOLEAN /\ ReuseTransports \in BOOLEAN
    /\ None \notin Callers

VARIABLES
    connected,       \* boolean cell
    connectPromise,  \* the attempt whose promise is stored, or None
    readyPromise,    \* the attempt whose handshake promise is stored, or None
    activeHandshake, \* activeReadyHandshake: an attempt or None
    local,           \* localTransports: the set of live entries, one per name
    registry,        \* transports registered in the context's registry
    att,             \* the attempts
    caller,          \* the callers of connect()
    regs,            \* registrations so far; gives every entry its identity
    epoch            \* history: number of disconnect() calls so far

vars == <<connected, connectPromise, readyPromise, activeHandshake,
          local, registry, att, caller, regs, epoch>>

\* A TransportEntry object: its transport and its identity.
Entry == [t : Transports, id : 1..MaxRegistrations]

TransportsOf(E) == {e.t : e \in E}

Attempt ==
    [ pc       : {"unused", "connecting", "finalizing", "failRollback",
                  "staleRollback", "settled", "done"},
      fin      : {"none", "waiting", "staleRollback", "failRollback",
                  "closing", "done"},
      entries  : SUBSET Entry,
      aw       : BOOLEAN,                           \* options.awaitReady
      conn     : {"pending", "ok", "failed"},       \* Promise.all of connect()
      ready    : {"pending", "ok", "failed", "canceled"}, \* the readiness race
      hs       : {"pending", "resolved", "rejected"},     \* handshake.promise
      canceled : BOOLEAN,                           \* handshake.isCanceled()
      result   : {"none", "ok", "error"},
      epoch    : 0..MaxDisconnects ]

Unused ==
    [ pc |-> "unused", fin |-> "none", entries |-> {}, aw |-> TRUE,
      conn |-> "pending", ready |-> "pending", hs |-> "pending",
      canceled |-> FALSE, result |-> "none", epoch |-> 0 ]

Caller ==
    [ k : {"new", "owner", "join", "handshake", "ok", "error"},
      on : Callers \union {None},
      aw : BOOLEAN ]

TypeOK ==
    /\ connected \in BOOLEAN
    /\ connectPromise \in Callers \union {None}
    /\ readyPromise \in Callers \union {None}
    /\ activeHandshake \in Callers \union {None}
    /\ local \in SUBSET Entry
    /\ registry \in SUBSET Transports
    /\ att \in [Callers -> Attempt]
    /\ caller \in [Callers -> Caller]
    /\ regs \in 0..MaxRegistrations
    /\ epoch \in 0..MaxDisconnects

Init ==
    /\ connected = FALSE
    /\ connectPromise = None
    /\ readyPromise = None
    /\ activeHandshake = None
    /\ local = {}
    /\ registry = {}
    /\ att = [a \in Callers |-> Unused]
    /\ caller = [c \in Callers |-> [k |-> "new", on |-> None, aw |-> TRUE]]
    /\ regs = 0
    /\ epoch = 0

-----------------------------------------------------------------------------
(* Helpers of the source. *)

\* mutant: a connect() in flight is not seen
LifecycleSeenOnlyWhenConnected == connected

HasActiveTransportLifecycle == connected \/ connectPromise # None

\* mutant: the identity check is missing
EntriesAssumedCurrent(E) == TRUE

\* every entry is still the one its name maps to
AreEntriesCurrent(E) == E \subseteq local

\* handshake.resolve / handshake.reject do nothing once settled
Settle(hs, v) == IF hs = "pending" THEN v ELSE hs

\* the synchronous part of rollbackEntries: entry.unregister() removes the
\* name from the registry when it still holds this transport object, and the
\* entry leaves localTransports when it is still the current one
RollbackEntries(E) ==
    /\ registry' = registry \ TransportsOf(E)
    /\ local' = local \ E

\* an attempt is still running: its body or its background finalization has
\* work left other than the identity-guarded cleanup of the latter
Running(a) ==
    \/ att[a].pc \notin {"unused", "done"}
    \/ att[a].fin \in {"waiting", "staleRollback", "failRollback"}

-----------------------------------------------------------------------------
(* Host operations. *)

\* registerTransport(): throws while a lifecycle is active, else replaces the
\* registration of the same name in the registry and in localTransports
RegisterTransport(t) ==
    /\ regs < MaxRegistrations
    /\ ~HasActiveTransportLifecycle
    /\ AwaitTeardown => \A a \in Callers : Running(a) => att[a].epoch = epoch
    /\ ReuseTransports \/ \A a \in Callers : \A e \in att[a].entries : e.t # t
    /\ regs' = regs + 1
    /\ registry' = {r \in registry : NameOf[r] # NameOf[t]} \union {t}
    /\ local' = {e \in local : NameOf[e.t] # NameOf[t]} \union {[t |-> t, id |-> regs + 1]}
    /\ UNCHANGED <<connected, connectPromise, readyPromise, activeHandshake, att, caller, epoch>>

\* unregisterTransport(name)
UnregisterTransport(e) ==
    /\ e \in local
    /\ registry' = registry \ {e.t}
    /\ local' = local \ {e}
    /\ UNCHANGED <<connected, connectPromise, readyPromise, activeHandshake, att, caller, regs, epoch>>

\* mutant: cancel() does not resolve the handshake promise
CancelLeavesPromise(r) ==
    [r EXCEPT !.canceled = TRUE,
              !.ready = IF r.fin = "waiting" /\ @ = "pending" THEN "canceled" ELSE @]

\* mutant: readiness is not raced against the cancel signal
CancelWithoutRace(r) == [r EXCEPT !.canceled = TRUE, !.hs = Settle(@, "resolved")]

\* handshake.cancel(): resolves the handshake if it is unsettled and settles
\* the readiness race if someone is waiting on it
CancelHandshake(r) ==
    [r EXCEPT !.canceled = TRUE,
              !.hs = Settle(@, "resolved"),
              !.ready = IF r.fin = "waiting" /\ @ = "pending" THEN "canceled" ELSE @]

Disconnect ==
    /\ epoch < MaxDisconnects
    /\ connected' = FALSE
    /\ att' = IF activeHandshake = None THEN att
              ELSE [att EXCEPT ![activeHandshake] = CancelHandshake(@)]
    /\ activeHandshake' = None
    /\ connectPromise' = None
    /\ readyPromise' = None
    /\ registry' = registry \ TransportsOf(local)
    /\ local' = {}
    /\ epoch' = epoch + 1
    /\ UNCHANGED <<caller, regs>>

\* waitForPendingReady(): the caller waits on the stored handshake or returns
WaitForPendingReady(c, aw) ==
    caller' = [caller EXCEPT ![c] =
                 IF aw /\ readyPromise # None
                 THEN [k |-> "handshake", on |-> readyPromise, aw |-> aw]
                 ELSE [k |-> "ok", on |-> None, aw |-> aw]]

ConnectWhenConnected(c, aw) ==
    /\ connected
    /\ WaitForPendingReady(c, aw)
    /\ UNCHANGED <<connected, connectPromise, readyPromise, activeHandshake,
                   local, registry, att, regs, epoch>>

ConnectJoins(c, aw) ==
    /\ ~connected
    /\ connectPromise # None
    /\ caller' = [caller EXCEPT ![c] = [k |-> "join", on |-> connectPromise, aw |-> aw]]
    /\ UNCHANGED <<connected, connectPromise, readyPromise, activeHandshake,
                   local, registry, att, regs, epoch>>

ConnectWithoutTransports(c, aw) ==
    /\ ~HasActiveTransportLifecycle
    /\ local = {}
    /\ caller' = [caller EXCEPT ![c] = [k |-> "ok", on |-> None, aw |-> aw]]
    /\ UNCHANGED <<connected, connectPromise, readyPromise, activeHandshake,
                   local, registry, att, regs, epoch>>

ConnectStarts(c, aw) ==
    /\ ~HasActiveTransportLifecycle
    /\ local # {}
    /\ readyPromise' = c
    /\ activeHandshake' = c
    /\ connectPromise' = c
    /\ att' = [att EXCEPT ![c] = [Unused EXCEPT !.pc = "connecting", !.entries = local,
                                                !.aw = aw, !.epoch = epoch]]
    /\ caller' = [caller EXCEPT ![c] = [k |-> "owner", on |-> c, aw |-> aw]]
    /\ UNCHANGED <<connected, local, registry, regs, epoch>>

Connect(c, aw) ==
    /\ caller[c].k = "new"
    /\ \/ ConnectWhenConnected(c, aw)
       \/ ConnectJoins(c, aw)
       \/ ConnectWithoutTransports(c, aw)
       \/ ConnectStarts(c, aw)

\* the await in connect() resumes once the promise it waits on has settled
CallerResumes(c) ==
    /\ \/ /\ caller[c].k \in {"owner", "join"}
          /\ att[caller[c].on].pc = "done"
          /\ IF att[caller[c].on].result = "error"
             THEN caller' = [caller EXCEPT ![c].k = "error"]
             ELSE IF caller[c].k = "owner"
             THEN caller' = [caller EXCEPT ![c].k = "ok"]
             ELSE WaitForPendingReady(c, caller[c].aw)
       \/ /\ caller[c].k = "handshake"
          /\ att[caller[c].on].hs # "pending"
          /\ caller' = [caller EXCEPT ![c].k =
                          IF att[caller[c].on].hs = "resolved" THEN "ok" ELSE "error"]
    /\ UNCHANGED <<connected, connectPromise, readyPromise, activeHandshake,
                   local, registry, att, regs, epoch>>

-----------------------------------------------------------------------------
(* Transports settle their promises (external). *)

\* Promise.all over entry.transport.connect() settles
TransportsConnect(a, outcome) ==
    /\ att[a].pc = "connecting" /\ att[a].conn = "pending"
    /\ att' = [att EXCEPT ![a].conn = outcome]
    /\ UNCHANGED <<connected, connectPromise, readyPromise, activeHandshake,
                   local, registry, caller, regs, epoch>>

\* Promise.all over entry.ready settles; the race keeps the first outcome
TransportsReady(a, outcome) ==
    /\ att[a].fin = "waiting" /\ att[a].ready = "pending"
    /\ att' = [att EXCEPT ![a].ready = outcome]
    /\ UNCHANGED <<connected, connectPromise, readyPromise, activeHandshake,
                   local, registry, caller, regs, epoch>>

-----------------------------------------------------------------------------
(* The body of an attempt. *)

\* failAttempt() up to its await: reject the handshake, drop readyPromise if
\* it is this attempt's, roll the entries back
FailAttempt(a) ==
    /\ readyPromise' = IF readyPromise = a THEN None ELSE readyPromise
    /\ RollbackEntries(att[a].entries)

\* What the steps of an attempt do to its own state.
ConnectFailed(r) == [r EXCEPT !.pc = "failRollback", !.hs = Settle(@, "rejected")]

\* with awaitReady false the body ends while finalizeReady() goes on behind it
FinalizeStarts(r) ==
    IF r.aw THEN [r EXCEPT !.fin = "waiting", !.pc = "finalizing"]
            ELSE [r EXCEPT !.fin = "waiting", !.pc = "settled", !.result = "ok"]

\* finalizeReady() ends; the body awaits it only with awaitReady
FinalizeReturns(r) ==
    IF r.aw THEN [r EXCEPT !.fin = "done", !.pc = "settled", !.result = "ok"]
            ELSE [r EXCEPT !.fin = "closing"]

ReadyResolved(r) == [r EXCEPT !.hs = Settle(@, "resolved")]

ReadyFailed(r) ==
    IF r.aw THEN [r EXCEPT !.hs = Settle(@, "rejected"), !.pc = "failRollback", !.fin = "done"]
            ELSE [r EXCEPT !.hs = Settle(@, "rejected"), !.fin = "failRollback"]

FailedSettled(r) == [r EXCEPT !.pc = "settled", !.result = "error"]

StaleSettled(r) == [r EXCEPT !.pc = "settled", !.result = "ok", !.hs = Settle(@, "resolved")]

\* some transport failed to connect
ConnectFails(a) ==
    /\ att[a].pc = "connecting" /\ att[a].conn = "failed"
    /\ FailAttempt(a)
    /\ att' = [att EXCEPT ![a] = ConnectFailed(@)]
    /\ UNCHANGED <<connected, connectPromise, activeHandshake, caller, regs, epoch>>

\* all transports connected, but the entries were replaced or removed meanwhile
ConnectStale(a) ==
    /\ att[a].pc = "connecting" /\ att[a].conn = "ok"
    /\ ~AreEntriesCurrent(att[a].entries)
    /\ RollbackEntries(att[a].entries)
    /\ att' = [att EXCEPT ![a].pc = "staleRollback"]
    /\ UNCHANGED <<connected, connectPromise, readyPromise, activeHandshake, caller, regs, epoch>>

\* all transports connected: the bus is connected and finalizeReady() starts
ConnectSucceeds(a) ==
    /\ att[a].pc = "connecting" /\ att[a].conn = "ok"
    /\ AreEntriesCurrent(att[a].entries)
    /\ connected' = TRUE
    /\ att' = [att EXCEPT ![a] = IF @.canceled THEN FinalizeReturns(FinalizeStarts(@))
                                               ELSE FinalizeStarts(@)]
    /\ UNCHANGED <<connectPromise, readyPromise, activeHandshake, local, registry, caller, regs, epoch>>

\* the readiness race resolved
FinalizeReady(a) ==
    /\ att[a].fin = "waiting" /\ att[a].ready \in {"ok", "canceled"}
    /\ \/ /\ ~connected \/ att[a].canceled
          /\ att' = [att EXCEPT ![a] = FinalizeReturns(@)]
          /\ UNCHANGED <<local, registry>>
       \/ /\ connected /\ ~att[a].canceled
          /\ ~AreEntriesCurrent(att[a].entries)
          /\ RollbackEntries(att[a].entries)
          /\ att' = [att EXCEPT ![a].fin = "staleRollback"]
       \/ /\ connected /\ ~att[a].canceled
          /\ AreEntriesCurrent(att[a].entries)
          /\ att' = [att EXCEPT ![a] = FinalizeReturns(ReadyResolved(@))]
          /\ UNCHANGED <<local, registry>>
    /\ UNCHANGED <<connected, connectPromise, readyPromise, activeHandshake, caller, regs, epoch>>

\* mutant: connected is cleared before the background rollback, not after it
ReadyFailsOpensEarly(a) ==
    /\ att[a].fin = "waiting" /\ att[a].ready = "failed"
    /\ connected' = FALSE
    /\ FailAttempt(a)
    /\ att' = [att EXCEPT ![a] = ReadyFailed(@)]
    /\ UNCHANGED <<connectPromise, activeHandshake, caller, regs, epoch>>

\* the readiness race rejected: with awaitReady the body's catch clears
\* connected first; in the background connected stays set during the rollback
ReadyFails(a) ==
    /\ att[a].fin = "waiting" /\ att[a].ready = "failed"
    /\ connected' = IF att[a].aw THEN FALSE ELSE connected
    /\ FailAttempt(a)
    /\ att' = [att EXCEPT ![a] = ReadyFailed(@)]
    /\ UNCHANGED <<connectPromise, activeHandshake, caller, regs, epoch>>

\* the transports' disconnect() promises of a rollback have settled
RollbackEnds(a) ==
    \/ /\ att[a].pc = "failRollback"
       /\ att' = [att EXCEPT ![a] = FailedSettled(@)]
       /\ UNCHANGED <<connected, connectPromise, readyPromise, activeHandshake,
                      local, registry, caller, regs, epoch>>
    \/ /\ att[a].pc = "staleRollback"
       /\ att' = [att EXCEPT ![a] = StaleSettled(@)]
       /\ UNCHANGED <<connected, connectPromise, readyPromise, activeHandshake,
                      local, registry, caller, regs, epoch>>
    \/ /\ att[a].fin = "staleRollback"
       /\ att' = [att EXCEPT ![a] = FinalizeReturns(ReadyResolved(@))]
       /\ UNCHANGED <<connected, connectPromise, readyPromise, activeHandshake,
                      local, registry, caller, regs, epoch>>
    \/ /\ att[a].fin = "failRollback"
       /\ connected' = FALSE
       /\ att' = [att EXCEPT ![a].fin = "closing"]
       /\ UNCHANGED <<connectPromise, readyPromise, activeHandshake,
                      local, registry, caller, regs, epoch>>

\* the .finally() of the attempt's body
BodyFinally(a) ==
    /\ att[a].pc = "settled"
    /\ connectPromise' = None
    /\ activeHandshake' = IF activeHandshake = a /\ (att[a].aw \/ att[a].fin = "none")
                          THEN None ELSE activeHandshake
    /\ att' = [att EXCEPT ![a].pc = "done"]
    /\ UNCHANGED <<connected, readyPromise, local, registry, caller, regs, epoch>>

\* the .finally() of the background finalization
BackgroundFinally(a) ==
    /\ att[a].fin = "closing"
    /\ activeHandshake' = IF activeHandshake = a THEN None ELSE activeHandshake
    /\ att' = [att EXCEPT ![a].fin = "done"]
    /\ UNCHANGED <<connected, connectPromise, readyPromise, local, registry, caller, regs, epoch>>

-----------------------------------------------------------------------------
Host ==
    \/ \E t \in Transports : RegisterTransport(t)
    \/ \E e \in local : UnregisterTransport(e)
    \/ Disconnect
    \/ \E c \in Callers, aw \in BOOLEAN : Connect(c, aw)

\* continuations the JavaScript runtime always runs once they are enabled
Continuations(a) ==
    \/ CallerResumes(a)
    \/ ConnectFails(a) \/ ConnectStale(a) \/ ConnectSucceeds(a)
    \/ FinalizeReady(a) \/ ReadyFails(a)
    \/ BodyFinally(a) \/ BackgroundFinally(a)

Next ==
    \/ Host
    \/ \E a \in Callers :
          \/ Continuations(a)
          \/ \E o \in {"ok", "failed"} : TransportsConnect(a, o) \/ TransportsReady(a, o)
          \/ RollbackEnds(a)

\* Settled promises run their continuations; transport.connect() and
\* transport.disconnect() settle.  Nothing obliges transport.ready to settle.
Fairness ==
    \A a \in Callers :
        /\ WF_vars(CallerResumes(a))
        /\ WF_vars(ConnectFails(a) \/ ConnectStale(a) \/ ConnectSucceeds(a))
        /\ WF_vars(FinalizeReady(a) \/ ReadyFails(a))
        /\ WF_vars(BodyFinally(a))
        /\ WF_vars(BackgroundFinally(a))
        /\ WF_vars(\E o \in {"ok", "failed"} : TransportsConnect(a, o))
        /\ WF_vars(RollbackEnds(a))

Spec == Init /\ [][Next]_vars
FairSpec == Spec /\ Fairness
-----------------------------------------------------------------------------
(* Properties. *)

\* A bus reports itself connected only on the strength of an attempt started
\* after the last disconnect(): an attempt overtaken by disconnect() that sees
\* its transports connect late never marks the bus connected.
ConnectedIsCurrent ==
    connected => \E a \in Callers : att[a].epoch = epoch /\ att[a].conn = "ok"

\* Concurrent connect() calls share one attempt: of two attempts in flight at
\* the same time at least one has been cancelled by disconnect().
SingleLiveAttempt ==
    \A a, b \in Callers :
        a # b /\ Running(a) /\ Running(b) => att[a].canceled \/ att[b].canceled

\* When an attempt is over its readiness handshake has settled, so nobody
\* awaiting bus.ready or a joined connect() is left hanging on it.
ReadySettles ==
    \A a \in Callers : att[a].pc = "done" /\ ~Running(a) => att[a].hs # "pending"

\* Every transport the bus believes it owns is registered in the context's
\* registry: the rollback of an attempt that disconnect() overtook never
\* unregisters the replacement the host has registered under the same name
\* meanwhile.  Both guards of the code claim it ("preserves concurrently
\* registered replacements", "not a later replacement"), but the one in the
\* registry compares the transport object, so it holds only as long as an
\* object is registered once.
RegistryOwnsLocal == TransportsOf(local) \subseteq registry

RollingBack(a) == att[a].pc \in {"failRollback", "staleRollback"}
                     \/ att[a].fin \in {"failRollback", "staleRollback"}

\* While an attempt of the current session is rolling its transports back, no
\* transport is registered: registerTransport() cannot slip in mid-teardown.
RollbackExclusive ==
    [][(\E a \in Callers : RollingBack(a) /\ att[a].epoch = epoch) => local' \subseteq local]_vars

\* A connect() call waiting on an attempt that disconnect() cancelled stops
\* waiting on it, even if the transports never become ready.
CancelledCallersReturn ==
    \A c, a \in Callers :
        (caller[c].k \in {"owner", "join", "handshake"} /\ caller[c].on = a /\ att[a].canceled)
            ~> ~(caller[c].k \in {"owner", "join", "handshake"} /\ caller[c].on = a)

\* Entry identities grow: every entry in use was given out already.
EntriesNumbered ==
    /\ \A e \in local : e.id <= regs
    /\ \A a \in Callers : \A e \in att[a].entries : e.id <= regs

\* An attempt from before the last disconnect() owns no current entry.
OldEntriesGone ==
    \A a \in Callers :
        /\ att[a].epoch <= epoch
        /\ att[a].epoch < epoch => att[a].entries \intersect local = {}
        /\ att[a].pc = "connecting" => att[a].entries # {}

\* The inductive invariant behind ConnectedIsCurrent.
LifecycleInv == TypeOK /\ EntriesNumbered /\ OldEntriesGone /\ ConnectedIsCurrent

-----------------------------------------------------------------------------
(* The inductive invariants behind the other safety properties. *)

Waiting(r) == r.pc = "connecting" \/ r.fin = "waiting"

\* How the body, the background finalization and the handshake of an attempt
\* fit together: a handshake is unsettled only while somebody is going to
\* settle it.
Coherent(r) ==
    /\ r.fin \in {"waiting", "staleRollback"} =>
          r.pc \in IF r.aw THEN {"finalizing"} ELSE {"settled", "done"}
    /\ r.fin \in {"failRollback", "closing"} => ~r.aw /\ r.pc \in {"settled", "done"}
    /\ r.pc \in {"unused", "connecting", "staleRollback"} => r.fin = "none"
    /\ r.pc = "finalizing" => r.fin \in {"waiting", "staleRollback"}
    /\ r.canceled => r.hs # "pending"
    /\ r.hs = "pending" => \/ r.pc \in {"unused", "connecting", "staleRollback"}
                           \/ r.fin \in {"waiting", "staleRollback"}

\* A running attempt of the current session holds the cells that keep others
\* out, and the handshake that disconnect() would cancel.
HoldsCells(a) ==
    /\ att[a].pc \notin {"unused", "done"} => connectPromise = a
    /\ att[a].fin \in {"waiting", "staleRollback", "failRollback"} => connected
    /\ Waiting(att[a]) => activeHandshake = a

\* A running attempt from before the last disconnect() sees no transport, and
\* has been cancelled if it still waits.
Overtaken(a) ==
    /\ Running(a) => local = {}
    /\ Waiting(att[a]) => att[a].canceled

OneRuns == \A a, b \in Callers : Running(a) /\ Running(b) => a = b

\* With a host that lets earlier attempts end before it registers transports.
DisciplineInv ==
    AwaitTeardown =>
        /\ OneRuns
        /\ \A a \in Callers : /\ Coherent(att[a])
                              /\ att[a].epoch = epoch => HoldsCells(a)
                              /\ att[a].epoch < epoch => Overtaken(a)

OnePerName(E) == \A e, f \in E : NameOf[e.t] = NameOf[f.t] => e = f

\* No running attempt would roll back the transport of another entry.
NoAlias ==
    \A a \in Callers : Running(a) => \A e \in local, f \in att[a].entries : e.t = f.t => e = f

\* With that host, or with one that registers a transport object only once.
OwnershipInv ==
    AwaitTeardown \/ ~ReuseTransports => OnePerName(local) /\ NoAlias /\ RegistryOwnsLocal
=============================================================================
