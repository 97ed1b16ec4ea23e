------------------------- MODULE BusLifecycleProofs -------------------------
(***************************************************************************)
(* Proofs about BusLifecycle for every set of callers, transports and      *)
(* names and every bound.  The type invariant and ConnectedIsCurrent (an   *)
(* attempt overtaken by disconnect() never reports the bus connected) hold *)
(* whatever the host does; SingleLiveAttempt, ReadySettles and             *)
(* RollbackExclusive need a host that awaits the teardown, and             *)
(* RegistryOwnsLocal such a host or one that never reuses a transport.     *)
(***************************************************************************)
EXTENDS BusLifecycle, TLAPS

\* A settled or newly settled handshake is a handshake state.
LEMMA SettleType ==
  ASSUME NEW r \in Attempt, NEW v \in {"resolved", "rejected"}
  PROVE  Settle(r.hs, v) \in {"pending", "resolved", "rejected"}
  BY DEF Settle, Attempt

\* A failed connect phase leaves a well-typed attempt.
LEMMA ConnectFailedType ==
  ASSUME NEW r \in Attempt
  PROVE  ConnectFailed(r) \in Attempt
  <1>1. Settle(r.hs, "rejected") \in {"pending", "resolved", "rejected"}
    BY SettleType
  <1> QED
    BY <1>1, ZenonT(60) DEF ConnectFailed, Attempt

\* Starting finalizeReady() leaves a well-typed attempt.
LEMMA FinalizeStartsType ==
  ASSUME NEW r \in Attempt
  PROVE  FinalizeStarts(r) \in Attempt
  BY ZenonT(60) DEF FinalizeStarts, Attempt

\* Ending finalizeReady() leaves a well-typed attempt.
LEMMA FinalizeReturnsType ==
  ASSUME NEW r \in Attempt
  PROVE  FinalizeReturns(r) \in Attempt
  BY ZenonT(60) DEF FinalizeReturns, Attempt

\* Resolving the handshake leaves a well-typed attempt.
LEMMA ReadyResolvedType ==
  ASSUME NEW r \in Attempt
  PROVE  ReadyResolved(r) \in Attempt
  <1>1. Settle(r.hs, "resolved") \in {"pending", "resolved", "rejected"}
    BY SettleType
  <1> QED
    BY <1>1 DEF ReadyResolved, Attempt

\* A failed readiness leaves a well-typed attempt.
LEMMA ReadyFailedType ==
  ASSUME NEW r \in Attempt
  PROVE  ReadyFailed(r) \in Attempt
  <1>1. Settle(r.hs, "rejected") \in {"pending", "resolved", "rejected"}
    BY SettleType
  <1> QED
    BY <1>1, ZenonT(60) DEF ReadyFailed, Attempt

\* A body settled by a failure leaves a well-typed attempt.
LEMMA FailedSettledType ==
  ASSUME NEW r \in Attempt
  PROVE  FailedSettled(r) \in Attempt
  BY ZenonT(60) DEF FailedSettled, Attempt

\* A body settled by staleness leaves a well-typed attempt.
LEMMA StaleSettledType ==
  ASSUME NEW r \in Attempt
  PROVE  StaleSettled(r) \in Attempt
  <1>1. Settle(r.hs, "resolved") \in {"pending", "resolved", "rejected"}
    BY SettleType
  <1> QED
    BY <1>1, ZenonT(60) DEF StaleSettled, Attempt

\* Cancelling the handshake leaves a well-typed attempt.
LEMMA CancelHandshakeType ==
  ASSUME NEW r \in Attempt
  PROVE  CancelHandshake(r) \in Attempt
  <1>1. Settle(r.hs, "resolved") \in {"pending", "resolved", "rejected"}
    BY SettleType
  <1> QED
    BY <1>1, ZenonT(60) DEF CancelHandshake, Attempt

\* Type correctness is preserved by the registerTransport() step.
LEMMA RegisterTransportType ==
  ASSUME TypeOK, NEW t \in Transports, RegisterTransport(t)
  PROVE  TypeOK'
  BY LifecycleAssumption DEF TypeOK, RegisterTransport, Entry

\* Type correctness is preserved by the unregisterTransport() step.
LEMMA UnregisterTransportType ==
  ASSUME TypeOK, NEW e \in local, UnregisterTransport(e)
  PROVE  TypeOK'
  BY LifecycleAssumption DEF TypeOK, UnregisterTransport

\* Type correctness is preserved by the settling of the transports' connect() step.
LEMMA TransportsConnectType ==
  ASSUME TypeOK, NEW a \in Callers, NEW o \in {"ok", "failed"}, TransportsConnect(a, o)
  PROVE  TypeOK'
  <1>1. att' \in [Callers -> Attempt]
    BY DEF TypeOK, Attempt, TransportsConnect
  <1> QED
    BY <1>1, LifecycleAssumption DEF TypeOK, TransportsConnect

\* Type correctness is preserved by the settling of the transports' ready step.
LEMMA TransportsReadyType ==
  ASSUME TypeOK, NEW a \in Callers, NEW o \in {"ok", "failed"}, TransportsReady(a, o)
  PROVE  TypeOK'
  <1>1. att' \in [Callers -> Attempt]
    BY DEF TypeOK, Attempt, TransportsReady
  <1> QED
    BY <1>1, LifecycleAssumption DEF TypeOK, TransportsReady

\* Type correctness is preserved by the stale connect phase step.
LEMMA ConnectStaleType ==
  ASSUME TypeOK, NEW a \in Callers, ConnectStale(a)
  PROVE  TypeOK'
  <1>1. att' \in [Callers -> Attempt]
    BY DEF TypeOK, Attempt, ConnectStale
  <1> QED
    BY <1>1, LifecycleAssumption DEF TypeOK, ConnectStale, RollbackEntries, TransportsOf

\* Type correctness is preserved by the cleanup of an attempt's body step.
LEMMA BodyFinallyType ==
  ASSUME TypeOK, NEW a \in Callers, BodyFinally(a)
  PROVE  TypeOK'
  <1>1. att' \in [Callers -> Attempt]
    BY DEF TypeOK, Attempt, BodyFinally
  <1> QED
    BY <1>1, LifecycleAssumption DEF TypeOK, BodyFinally

\* Type correctness is preserved by the cleanup of a background finalization step.
LEMMA BackgroundFinallyType ==
  ASSUME TypeOK, NEW a \in Callers, BackgroundFinally(a)
  PROVE  TypeOK'
  <1>1. att' \in [Callers -> Attempt]
    BY DEF TypeOK, Attempt, BackgroundFinally
  <1> QED
    BY <1>1, LifecycleAssumption DEF TypeOK, BackgroundFinally

\* Type correctness is preserved by disconnect().
LEMMA DisconnectType ==
  ASSUME TypeOK, Disconnect
  PROVE  TypeOK'
  <1>1. att' \in [Callers -> Attempt]
    <2>1. CASE activeHandshake = None
      BY <2>1 DEF TypeOK, Disconnect
    <2>2. CASE activeHandshake # None
      <3>1. activeHandshake \in Callers /\ att[activeHandshake] \in Attempt
        BY <2>2 DEF TypeOK
      <3> QED
        BY <2>2, <3>1, CancelHandshakeType DEF TypeOK, Disconnect
    <2> QED
      BY <2>1, <2>2
  <1>2. epoch' \in 0..MaxDisconnects
    BY LifecycleAssumption DEF TypeOK, Disconnect
  <1> QED
    BY <1>1, <1>2 DEF TypeOK, Disconnect

\* Type correctness is preserved when the connect phase fails.
LEMMA ConnectFailsType ==
  ASSUME TypeOK, NEW a \in Callers, ConnectFails(a)
  PROVE  TypeOK'
  <1>1. att[a] \in Attempt
    BY DEF TypeOK
  <1>2. att' \in [Callers -> Attempt]
    BY <1>1, ConnectFailedType DEF TypeOK, ConnectFails
  <1> QED
    BY <1>2 DEF TypeOK, ConnectFails, FailAttempt, RollbackEntries

\* Type correctness is preserved when the connect phase succeeds.
LEMMA ConnectSucceedsType ==
  ASSUME TypeOK, NEW a \in Callers, ConnectSucceeds(a)
  PROVE  TypeOK'
  <1>1. att[a] \in Attempt
    BY DEF TypeOK
  <1>2. att' \in [Callers -> Attempt]
    BY <1>1, FinalizeStartsType, FinalizeReturnsType DEF TypeOK, ConnectSucceeds
  <1> QED
    BY <1>2 DEF TypeOK, ConnectSucceeds

\* Type correctness is preserved when finalizeReady() goes on after the race.
LEMMA FinalizeReadyType ==
  ASSUME TypeOK, NEW a \in Callers, FinalizeReady(a)
  PROVE  TypeOK'
  <1>1. att[a] \in Attempt
    BY DEF TypeOK
  <1>3. [att[a] EXCEPT !.fin = "staleRollback"] \in Attempt
    BY <1>1 DEF Attempt
  <1>2. att' \in [Callers -> Attempt]
    BY <1>1, <1>3, ReadyResolvedType, FinalizeReturnsType DEF TypeOK, FinalizeReady
  <1> QED
    BY <1>2 DEF TypeOK, FinalizeReady, RollbackEntries

\* Type correctness is preserved when readiness fails.
LEMMA ReadyFailsType ==
  ASSUME TypeOK, NEW a \in Callers, ReadyFails(a)
  PROVE  TypeOK'
  <1>1. att[a] \in Attempt
    BY DEF TypeOK
  <1>2. att' \in [Callers -> Attempt]
    BY <1>1, ReadyFailedType DEF TypeOK, ReadyFails
  <1> QED
    BY <1>2 DEF TypeOK, ReadyFails, FailAttempt, RollbackEntries

\* Type correctness is preserved when a rollback ends.
LEMMA RollbackEndsType ==
  ASSUME TypeOK, NEW a \in Callers, RollbackEnds(a)
  PROVE  TypeOK'
  <1>1. att[a] \in Attempt
    BY DEF TypeOK
  <1>3. [att[a] EXCEPT !.fin = "closing"] \in Attempt
    BY <1>1 DEF Attempt
  <1>2. att' \in [Callers -> Attempt]
    BY <1>1, <1>3, FailedSettledType, StaleSettledType, ReadyResolvedType, FinalizeReturnsType DEF TypeOK, RollbackEnds
  <1> QED
    BY <1>2 DEF TypeOK, RollbackEnds

\* Type correctness is preserved by a connect() call.
LEMMA ConnectType ==
  ASSUME TypeOK, NEW c \in Callers, NEW aw \in BOOLEAN, Connect(c, aw)
  PROVE  TypeOK'
  <1>1. CASE ConnectWhenConnected(c, aw)
    <2>1. caller' \in [Callers -> Caller]
      BY <1>1 DEF TypeOK, Caller, ConnectWhenConnected, WaitForPendingReady
    <2> QED
      BY <1>1, <2>1 DEF TypeOK, ConnectWhenConnected
  <1>2. CASE ConnectJoins(c, aw)
    <2>1. caller' \in [Callers -> Caller]
      BY <1>2 DEF TypeOK, Caller, ConnectJoins
    <2> QED
      BY <1>2, <2>1 DEF TypeOK, ConnectJoins
  <1>3. CASE ConnectWithoutTransports(c, aw)
    <2>1. caller' \in [Callers -> Caller]
      BY <1>3 DEF TypeOK, Caller, ConnectWithoutTransports
    <2> QED
      BY <1>3, <2>1 DEF TypeOK, ConnectWithoutTransports
  <1>4. CASE ConnectStarts(c, aw)
    <2>1. caller' \in [Callers -> Caller]
      BY <1>4 DEF TypeOK, Caller, ConnectStarts
    <2>2. att' \in [Callers -> Attempt]
      BY <1>4 DEF TypeOK, Attempt, ConnectStarts, Unused
    <2> QED
      BY <1>4, <2>1, <2>2 DEF TypeOK, ConnectStarts
  <1> QED
    BY <1>1, <1>2, <1>3, <1>4 DEF Connect

\* Type correctness is preserved when a caller of connect() resumes.
LEMMA CallerResumesType ==
  ASSUME TypeOK, NEW c \in Callers, CallerResumes(c)
  PROVE  TypeOK'
  <1>1. caller' \in [Callers -> Caller]
    BY DEF TypeOK, Caller, CallerResumes, WaitForPendingReady
  <1> QED
    BY <1>1 DEF TypeOK, CallerResumes

-----------------------------------------------------------------------------
\* Type correctness holds initially.
LEMMA InitType == Init => TypeOK
  <1> SUFFICES ASSUME Init PROVE TypeOK
    OBVIOUS
  <1>1. Unused \in Attempt
    BY LifecycleAssumption DEF Unused, Attempt
  <1>2. att \in [Callers -> Attempt]
    BY <1>1 DEF Init
  <1>3. caller \in [Callers -> Caller]
    BY DEF Init, Caller
  <1>4. regs \in 0..MaxRegistrations /\ epoch \in 0..MaxDisconnects
    BY LifecycleAssumption DEF Init
  <1>5. connected \in BOOLEAN
    BY DEF Init
  <1> QED
    BY <1>2, <1>3, <1>4, <1>5 DEF Init, TypeOK

\* Every step of a host, a transport or an attempt preserves type correctness.
LEMMA NextType == TypeOK /\ [Next]_vars => TypeOK'
  <1> SUFFICES ASSUME TypeOK, [Next]_vars PROVE TypeOK'
    OBVIOUS
  <1>1. ASSUME NEW t \in Transports, RegisterTransport(t) PROVE TypeOK'
    BY <1>1, RegisterTransportType
  <1>2. ASSUME NEW e \in local, UnregisterTransport(e) PROVE TypeOK'
    BY <1>2, UnregisterTransportType
  <1>3. CASE Disconnect
    BY <1>3, DisconnectType
  <1>4. ASSUME NEW c \in Callers, NEW aw \in BOOLEAN, Connect(c, aw) PROVE TypeOK'
    BY <1>4, ConnectType
  <1>5. ASSUME NEW a \in Callers, Continuations(a) PROVE TypeOK'
    BY <1>5, CallerResumesType, ConnectFailsType, ConnectStaleType, ConnectSucceedsType,
       FinalizeReadyType, ReadyFailsType, BodyFinallyType, BackgroundFinallyType
       DEF Continuations
  <1>6. ASSUME NEW a \in Callers, NEW o \in {"ok", "failed"},
               TransportsConnect(a, o) \/ TransportsReady(a, o)
        PROVE  TypeOK'
    BY <1>6, TransportsConnectType, TransportsReadyType
  <1>7. ASSUME NEW a \in Callers, RollbackEnds(a) PROVE TypeOK'
    BY <1>7, RollbackEndsType
  <1>8. CASE UNCHANGED vars
    BY <1>8 DEF TypeOK, vars
  <1> QED
    BY <1>1, <1>2, <1>3, <1>4, <1>5, <1>6, <1>7, <1>8 DEF Next, Host

\* The shared cells, the entries, the attempts and the callers of a bus keep
\* their types through every interleaving of connect(), disconnect(), the
\* registrations and the continuations of the attempts.
THEOREM TypeCorrect == Spec => []TypeOK
  BY InitType, NextType, PTL DEF Spec

-----------------------------------------------------------------------------
\* What a step of an attempt never changes: the entries it captured, the
\* session it belongs to and a successful connect phase.  It re-enters the
\* connect phase from nowhere.
SameAttempt(r, s) ==
    /\ s.entries = r.entries
    /\ s.epoch = r.epoch
    /\ r.conn = "ok" => s.conn = "ok"
    /\ s.pc = "connecting" => r.pc = "connecting"

\* A step that starts no attempt, connects nothing and adds no entry.
QuietStep ==
    /\ connected' => connected
    /\ epoch' = epoch
    /\ regs' = regs
    /\ local' \subseteq local
    /\ \A b \in Callers : SameAttempt(att[b], att'[b])

\* The steps of an attempt do not change what SameAttempt names.
LEMMA StepsKeepAttempt ==
  ASSUME NEW r \in Attempt
  PROVE  /\ SameAttempt(r, ConnectFailed(r))
         /\ SameAttempt(r, FinalizeStarts(r))
         /\ SameAttempt(r, FinalizeReturns(r))
         /\ SameAttempt(r, ReadyResolved(r))
         /\ SameAttempt(r, ReadyFailed(r))
         /\ SameAttempt(r, FailedSettled(r))
         /\ SameAttempt(r, StaleSettled(r))
         /\ SameAttempt(r, CancelHandshake(r))
  <1>1. SameAttempt(r, ConnectFailed(r)) /\ SameAttempt(r, FailedSettled(r))
    BY DEF SameAttempt, ConnectFailed, FailedSettled, Attempt
  <1>2. SameAttempt(r, FinalizeStarts(r))
    BY DEF SameAttempt, FinalizeStarts, Attempt
  <1>3. SameAttempt(r, FinalizeReturns(r))
    BY DEF SameAttempt, FinalizeReturns, Attempt
  <1>4. SameAttempt(r, ReadyResolved(r)) /\ SameAttempt(r, StaleSettled(r))
    BY DEF SameAttempt, ReadyResolved, StaleSettled, Attempt
  <1>5. SameAttempt(r, ReadyFailed(r))
    BY DEF SameAttempt, ReadyFailed, Attempt
  <1>6. SameAttempt(r, CancelHandshake(r))
    BY DEF SameAttempt, CancelHandshake, Attempt
  <1> QED
    BY <1>1, <1>2, <1>3, <1>4, <1>5, <1>6

\* SameAttempt composes.
LEMMA SameAttemptTransitive ==
  ASSUME NEW r, NEW s, NEW u, SameAttempt(r, s), SameAttempt(s, u)
  PROVE  SameAttempt(r, u)
  BY DEF SameAttempt

\* A quiet step keeps the inductive invariant.
LEMMA QuietStepKeepsInv ==
  ASSUME LifecycleInv, TypeOK', QuietStep
  PROVE  LifecycleInv'
  <1>1. EntriesNumbered'
    BY DEF LifecycleInv, EntriesNumbered, QuietStep, SameAttempt
  <1>2. OldEntriesGone'
    BY DEF LifecycleInv, OldEntriesGone, QuietStep, SameAttempt
  <1>3. ConnectedIsCurrent'
    BY DEF LifecycleInv, ConnectedIsCurrent, QuietStep, SameAttempt
  <1> QED
    BY <1>1, <1>2, <1>3 DEF LifecycleInv

\* Steps that touch no attempt are quiet.
LEMMA UntouchedQuiet ==
  ASSUME UNCHANGED <<connected, att, regs, epoch>>, local' \subseteq local
  PROVE  QuietStep
  BY DEF QuietStep, SameAttempt

\* A step that only advances one attempt, without re-entering it, is quiet.
LEMMA AdvanceQuiet ==
  ASSUME TypeOK, NEW a \in Callers, NEW s, att' = [att EXCEPT ![a] = s],
         SameAttempt(att[a], s), connected' => connected,
         UNCHANGED <<regs, epoch>>, local' \subseteq local
  PROVE  QuietStep
  BY DEF QuietStep, SameAttempt, TypeOK

\* A continuation other than the one that connects the bus is quiet.
LEMMA ContinuationsQuiet ==
  ASSUME TypeOK, NEW a \in Callers, Continuations(a), ~ConnectSucceeds(a)
  PROVE  QuietStep
  <1>0. att[a] \in Attempt
    BY DEF TypeOK
  <1>1. CASE CallerResumes(a)
    BY <1>1, UntouchedQuiet DEF CallerResumes
  <1>2. CASE ConnectFails(a)
    BY <1>0, <1>2, AdvanceQuiet, StepsKeepAttempt
       DEF ConnectFails, FailAttempt, RollbackEntries
  <1>3. CASE ConnectStale(a)
    <2>1. SameAttempt(att[a], [att[a] EXCEPT !.pc = "staleRollback"])
      BY <1>0 DEF SameAttempt, Attempt
    <2> QED
      BY <1>3, <2>1, AdvanceQuiet DEF ConnectStale, RollbackEntries
  <1>4. CASE FinalizeReady(a)
    <2>1. SameAttempt(att[a], [att[a] EXCEPT !.fin = "staleRollback"])
      BY <1>0 DEF SameAttempt, Attempt
    <2>2. SameAttempt(att[a], FinalizeReturns(att[a]))
      BY <1>0, StepsKeepAttempt
    <2>3. SameAttempt(att[a], FinalizeReturns(ReadyResolved(att[a])))
      BY <1>0, StepsKeepAttempt, ReadyResolvedType, SameAttemptTransitive
    <2> QED
      BY <1>4, <2>1, <2>2, <2>3, AdvanceQuiet DEF FinalizeReady, RollbackEntries
  <1>5. CASE ReadyFails(a)
    BY <1>0, <1>5, AdvanceQuiet, StepsKeepAttempt
       DEF ReadyFails, FailAttempt, RollbackEntries
  <1>6. CASE BodyFinally(a)
    <2>1. SameAttempt(att[a], [att[a] EXCEPT !.pc = "done"])
      BY <1>0 DEF SameAttempt, Attempt
    <2> QED
      BY <1>6, <2>1, AdvanceQuiet DEF BodyFinally
  <1>7. CASE BackgroundFinally(a)
    <2>1. SameAttempt(att[a], [att[a] EXCEPT !.fin = "done"])
      BY <1>0 DEF SameAttempt, Attempt
    <2> QED
      BY <1>7, <2>1, AdvanceQuiet DEF BackgroundFinally
  <1> QED
    BY <1>1, <1>2, <1>3, <1>4, <1>5, <1>6, <1>7 DEF Continuations

\* The end of a rollback is quiet.
LEMMA RollbackEndsQuiet ==
  ASSUME TypeOK, NEW a \in Callers, RollbackEnds(a)
  PROVE  QuietStep
  <1>0. att[a] \in Attempt
    BY DEF TypeOK
  <1>1. SameAttempt(att[a], FailedSettled(att[a])) /\ SameAttempt(att[a], StaleSettled(att[a]))
    BY <1>0, StepsKeepAttempt
  <1>2. SameAttempt(att[a], FinalizeReturns(ReadyResolved(att[a])))
    BY <1>0, StepsKeepAttempt, ReadyResolvedType, SameAttemptTransitive
  <1>3. SameAttempt(att[a], [att[a] EXCEPT !.fin = "closing"])
    BY <1>0 DEF SameAttempt, Attempt
  <1> QED
    BY <1>1, <1>2, <1>3, AdvanceQuiet DEF RollbackEnds

\* A transport settling its connect() or ready promise is quiet: a promise
\* settles once, so a successful connect phase stays one.
LEMMA TransportsQuiet ==
  ASSUME TypeOK, NEW a \in Callers, NEW o \in {"ok", "failed"},
         TransportsConnect(a, o) \/ TransportsReady(a, o)
  PROVE  QuietStep
  <1>0. att[a] \in Attempt
    BY DEF TypeOK
  <1>1. CASE TransportsConnect(a, o)
    <2>1. SameAttempt(att[a], [att[a] EXCEPT !.conn = o])
      BY <1>0, <1>1 DEF SameAttempt, Attempt, TransportsConnect
    <2> QED
      BY <1>1, <2>1, AdvanceQuiet DEF TransportsConnect
  <1>2. CASE TransportsReady(a, o)
    <2>1. SameAttempt(att[a], [att[a] EXCEPT !.ready = o])
      BY <1>0 DEF SameAttempt, Attempt
    <2> QED
      BY <1>2, <2>1, AdvanceQuiet DEF TransportsReady
  <1> QED
    BY <1>1, <1>2

\* registerTransport() keeps the invariant: the new entry has a new identity,
\* so no attempt already owns it.
LEMMA RegisterTransportInv ==
  ASSUME LifecycleInv, NEW t \in Transports, RegisterTransport(t)
  PROVE  LifecycleInv'
  <1>0. TypeOK' /\ regs \in Nat
    BY RegisterTransportType DEF LifecycleInv, TypeOK
  <1>1. EntriesNumbered'
    <2>1. \A e \in local' : e.id <= regs'
      BY <1>0 DEF LifecycleInv, EntriesNumbered, RegisterTransport, TypeOK, Entry
    <2>2. \A a \in Callers : \A e \in att'[a].entries : e.id <= regs'
      <3> SUFFICES ASSUME NEW a \in Callers, NEW e \in att[a].entries PROVE e.id <= regs + 1
        BY DEF RegisterTransport
      <3>1. e \in Entry
        BY DEF LifecycleInv, TypeOK, Attempt
      <3>2. e.id \in Nat
        BY <3>1 DEF Entry
      <3> QED
        BY <1>0, <3>2 DEF LifecycleInv, EntriesNumbered
    <2> QED
      BY <2>1, <2>2 DEF EntriesNumbered
  <1>2. OldEntriesGone'
    <2> SUFFICES ASSUME NEW a \in Callers, att[a].epoch < epoch
                 PROVE  att[a].entries \intersect local' = {}
      BY DEF LifecycleInv, OldEntriesGone, RegisterTransport
    <2>1. [t |-> t, id |-> regs + 1] \notin att[a].entries
      BY <1>0 DEF LifecycleInv, EntriesNumbered
    <2>2. att[a].entries \intersect local = {}
      BY DEF LifecycleInv, OldEntriesGone
    <2> QED
      BY <2>1, <2>2 DEF RegisterTransport
  <1>3. ConnectedIsCurrent'
    BY DEF LifecycleInv, ConnectedIsCurrent, RegisterTransport
  <1> QED
    BY <1>0, <1>1, <1>2, <1>3 DEF LifecycleInv

\* disconnect() keeps the invariant: it empties localTransports and clears
\* connected in the step that ends the session.
LEMMA DisconnectInv ==
  ASSUME LifecycleInv, Disconnect
  PROVE  LifecycleInv'
  <1>0. TypeOK /\ TypeOK' /\ epoch \in Nat
    BY DisconnectType, LifecycleAssumption DEF LifecycleInv, TypeOK
  <1>1. \A b \in Callers : SameAttempt(att[b], att'[b])
    <2>1. CASE activeHandshake = None
      BY <2>1 DEF Disconnect, SameAttempt
    <2>2. CASE activeHandshake # None
      <3>1. activeHandshake \in Callers /\ att[activeHandshake] \in Attempt
        BY <1>0, <2>2 DEF TypeOK
      <3>2. SameAttempt(att[activeHandshake], CancelHandshake(att[activeHandshake]))
        BY <3>1, StepsKeepAttempt
      <3>3. \A b \in Callers : b # activeHandshake => att'[b] = att[b]
        BY <1>0, <2>2, <3>1 DEF TypeOK, Disconnect
      <3>4. att'[activeHandshake] = CancelHandshake(att[activeHandshake])
        BY <1>0, <2>2, <3>1 DEF TypeOK, Disconnect
      <3> QED
        BY <3>2, <3>3, <3>4 DEF SameAttempt
    <2> QED
      BY <2>1, <2>2
  <1>2. EntriesNumbered'
    BY <1>1 DEF LifecycleInv, EntriesNumbered, Disconnect, SameAttempt
  <1>3. OldEntriesGone'
    <2> SUFFICES ASSUME NEW b \in Callers
                 PROVE  /\ att'[b].epoch <= epoch'
                        /\ att'[b].entries \intersect local' = {}
                        /\ att'[b].pc = "connecting" => att'[b].entries # {}
      BY DEF OldEntriesGone
    <2>1. att[b].epoch \in Nat
      BY <1>0 DEF TypeOK, Attempt
    <2>2. att'[b].epoch <= epoch'
      BY <1>0, <1>1, <2>1 DEF LifecycleInv, OldEntriesGone, Disconnect, SameAttempt
    <2>3. att'[b].pc = "connecting" => att'[b].entries # {}
      BY <1>1 DEF LifecycleInv, OldEntriesGone, SameAttempt
    <2> QED
      BY <2>2, <2>3 DEF Disconnect
  <1>4. ConnectedIsCurrent'
    BY DEF ConnectedIsCurrent, Disconnect
  <1> QED
    BY <1>0, <1>2, <1>3, <1>4 DEF LifecycleInv

\* connect() keeps the invariant: a new attempt captures the current entries
\* and starts only on a bus that is not connected.
LEMMA ConnectInv ==
  ASSUME LifecycleInv, NEW c \in Callers, NEW aw \in BOOLEAN, Connect(c, aw)
  PROVE  LifecycleInv'
  <1>0. TypeOK /\ TypeOK' /\ epoch \in Nat
    BY ConnectType DEF LifecycleInv, TypeOK
  <1>1. CASE ConnectStarts(c, aw)
    <2>1. \A b \in Callers : b # c => att'[b] = att[b]
      BY <1>0, <1>1 DEF TypeOK, ConnectStarts
    <2>2. att'[c].entries = local /\ att'[c].epoch = epoch
      BY <1>0, <1>1 DEF TypeOK, ConnectStarts, Unused
    <2>3. EntriesNumbered'
      BY <1>1, <2>1, <2>2 DEF LifecycleInv, EntriesNumbered, ConnectStarts
    <2>4. OldEntriesGone'
      <3> SUFFICES ASSUME NEW b \in Callers
                   PROVE  /\ att'[b].epoch <= epoch
                          /\ att'[b].epoch < epoch => att'[b].entries \intersect local = {}
                          /\ att'[b].pc = "connecting" => att'[b].entries # {}
        BY <1>1 DEF OldEntriesGone, ConnectStarts
      <3>1. CASE b = c
        BY <1>0, <1>1, <2>2, <3>1 DEF ConnectStarts
      <3>2. CASE b # c
        BY <2>1, <3>2 DEF LifecycleInv, OldEntriesGone
      <3> QED
        BY <3>1, <3>2
    <2>5. ConnectedIsCurrent'
      BY <1>1 DEF ConnectedIsCurrent, ConnectStarts, HasActiveTransportLifecycle
    <2> QED
      BY <1>0, <2>3, <2>4, <2>5 DEF LifecycleInv
  <1>2. CASE ~ConnectStarts(c, aw)
    <2>1. UNCHANGED <<connected, att, regs, epoch, local>>
      BY <1>2 DEF Connect, ConnectWhenConnected, ConnectJoins, ConnectWithoutTransports
    <2> QED
      BY <1>0, <2>1, UntouchedQuiet, QuietStepKeepsInv
  <1> QED
    BY <1>1, <1>2

\* The only step that connects the bus keeps the invariant: the attempt that
\* takes it still owns current entries, so it is of the current session.
LEMMA ConnectSucceedsInv ==
  ASSUME LifecycleInv, NEW a \in Callers, ConnectSucceeds(a)
  PROVE  LifecycleInv'
  <1>0. TypeOK /\ TypeOK' /\ att[a] \in Attempt
    BY ConnectSucceedsType DEF LifecycleInv, TypeOK
  <1>1. att[a].epoch = epoch
    <2>1. att[a].epoch \in Nat /\ epoch \in Nat
      BY <1>0 DEF TypeOK, Attempt
    <2>2. att[a].entries \intersect local # {}
      BY DEF LifecycleInv, OldEntriesGone, ConnectSucceeds, AreEntriesCurrent
    <2> QED
      BY <2>1, <2>2 DEF LifecycleInv, OldEntriesGone
  <1>2. \A b \in Callers : SameAttempt(att[b], att'[b])
    <2>1. SameAttempt(att[a], FinalizeStarts(att[a]))
      BY <1>0, StepsKeepAttempt
    <2>2. SameAttempt(att[a], FinalizeReturns(FinalizeStarts(att[a])))
      BY <1>0, StepsKeepAttempt, FinalizeStartsType, SameAttemptTransitive
    <2>3. SameAttempt(att[a], att'[a])
      BY <1>0, <2>1, <2>2 DEF ConnectSucceeds, TypeOK
    <2>4. \A b \in Callers : b # a => att'[b] = att[b]
      BY <1>0 DEF ConnectSucceeds, TypeOK
    <2> QED
      BY <2>3, <2>4 DEF SameAttempt
  <1>3. EntriesNumbered'
    BY <1>2 DEF LifecycleInv, EntriesNumbered, ConnectSucceeds, SameAttempt
  <1>4. OldEntriesGone'
    BY <1>2 DEF LifecycleInv, OldEntriesGone, ConnectSucceeds, SameAttempt
  <1>5. ConnectedIsCurrent'
    BY <1>1, <1>2 DEF ConnectedIsCurrent, ConnectSucceeds, SameAttempt
  <1> QED
    BY <1>0, <1>3, <1>4, <1>5 DEF LifecycleInv

\* The invariant holds initially.
LEMMA InitInv == Init => LifecycleInv
  <1> SUFFICES ASSUME Init PROVE LifecycleInv
    OBVIOUS
  <1>1. TypeOK
    BY InitType
  <1>2. EntriesNumbered /\ OldEntriesGone /\ ConnectedIsCurrent
    BY DEF Init, Unused, EntriesNumbered, OldEntriesGone, ConnectedIsCurrent
  <1> QED
    BY <1>1, <1>2 DEF LifecycleInv

\* Every step keeps the invariant.
LEMMA NextInv == LifecycleInv /\ [Next]_vars => LifecycleInv'
  <1> SUFFICES ASSUME LifecycleInv, [Next]_vars PROVE LifecycleInv'
    OBVIOUS
  <1>0. TypeOK /\ TypeOK'
    BY NextType DEF LifecycleInv
  <1>1. ASSUME NEW t \in Transports, RegisterTransport(t) PROVE LifecycleInv'
    BY <1>1, RegisterTransportInv
  <1>2. ASSUME NEW e \in local, UnregisterTransport(e) PROVE LifecycleInv'
    BY <1>0, <1>2, UntouchedQuiet, QuietStepKeepsInv DEF UnregisterTransport
  <1>3. CASE Disconnect
    BY <1>3, DisconnectInv
  <1>4. ASSUME NEW c \in Callers, NEW aw \in BOOLEAN, Connect(c, aw) PROVE LifecycleInv'
    BY <1>4, ConnectInv
  <1>5. ASSUME NEW a \in Callers, Continuations(a) PROVE LifecycleInv'
    <2>1. CASE ConnectSucceeds(a)
      BY <2>1, ConnectSucceedsInv
    <2>2. CASE ~ConnectSucceeds(a)
      BY <1>0, <1>5, <2>2, ContinuationsQuiet, QuietStepKeepsInv
    <2> QED
      BY <2>1, <2>2
  <1>6. ASSUME NEW a \in Callers, NEW o \in {"ok", "failed"},
               TransportsConnect(a, o) \/ TransportsReady(a, o)
        PROVE  LifecycleInv'
    BY <1>0, <1>6, TransportsQuiet, QuietStepKeepsInv
  <1>7. ASSUME NEW a \in Callers, RollbackEnds(a) PROVE LifecycleInv'
    BY <1>0, <1>7, RollbackEndsQuiet, QuietStepKeepsInv
  <1>8. CASE UNCHANGED vars
    BY <1>0, <1>8, UntouchedQuiet, QuietStepKeepsInv DEF vars
  <1> QED
    BY <1>1, <1>2, <1>3, <1>4, <1>5, <1>6, <1>7, <1>8 DEF Next, Host

\* The inductive invariant holds in every reachable state.
THEOREM LifecycleInvariant == Spec => []LifecycleInv
  BY InitInv, NextInv, PTL DEF Spec

\* connected is set only on the strength of an attempt started after the last
\* disconnect(): the identity check between the connect phase and
\* `connected = true` suffices, for any number of overlapping attempts.
THEOREM ConnectedStaysCurrent == Spec => []ConnectedIsCurrent
  <1>1. LifecycleInv => ConnectedIsCurrent
    BY DEF LifecycleInv
  <1> QED
    BY <1>1, LifecycleInvariant, PTL

-----------------------------------------------------------------------------
\* an attempt with record r is running
Runs(r) == r.pc \notin {"unused", "done"} \/ r.fin \in {"waiting", "staleRollback", "failRollback"}

\* What the failing steps of an attempt make of it.
LEMMA FailureSteps ==
  ASSUME NEW r \in Attempt, Coherent(r)
  PROVE  /\ r.pc = "connecting" =>
              LET s == ConnectFailed(r)
              IN Coherent(s) /\ s.pc = "failRollback" /\ s.fin = "none"
         /\ r.fin = "waiting" =>
              LET s == ReadyFailed(r)
              IN /\ Coherent(s)
                 /\ IF r.aw THEN s.pc = "failRollback" /\ s.fin = "done"
                            ELSE s.pc = r.pc /\ s.fin = "failRollback"
         /\ r.pc = "failRollback" =>
              LET s == FailedSettled(r)
              IN Coherent(s) /\ s.pc = "settled" /\ s.fin = r.fin /\ r.fin \in {"none", "done"}
         /\ r.fin = "failRollback" =>
              LET s == [r EXCEPT !.fin = "closing"]
              IN Coherent(s) /\ s.pc = r.pc /\ s.fin = "closing"
  <1> USE DEF Coherent, Attempt
  <1>1. ASSUME r.pc = "connecting"
        PROVE  LET s == ConnectFailed(r)
               IN Coherent(s) /\ s.pc = "failRollback" /\ s.fin = "none"
    BY <1>1 DEF ConnectFailed, Settle
  <1>2. ASSUME r.fin = "waiting", r.aw
        PROVE  LET s == ReadyFailed(r)
               IN Coherent(s) /\ s.pc = "failRollback" /\ s.fin = "done"
    BY <1>2 DEF ReadyFailed, Settle
  <1>3. ASSUME r.fin = "waiting", ~r.aw
        PROVE  LET s == ReadyFailed(r)
               IN Coherent(s) /\ s.pc = r.pc /\ s.fin = "failRollback"
    BY <1>3 DEF ReadyFailed, Settle
  <1>4. ASSUME r.pc = "failRollback"
        PROVE  LET s == FailedSettled(r)
               IN Coherent(s) /\ s.pc = "settled" /\ s.fin = r.fin /\ r.fin \in {"none", "done"}
    BY <1>4 DEF FailedSettled
  <1>5. ASSUME r.fin = "failRollback"
        PROVE  LET s == [r EXCEPT !.fin = "closing"]
               IN Coherent(s) /\ s.pc = r.pc /\ s.fin = "closing"
    BY <1>5
  <1> QED
    BY <1>1, <1>2, <1>3, <1>4, <1>5

\* What the other steps of an attempt's body make of it.
LEMMA BodySteps ==
  ASSUME NEW r \in Attempt, Coherent(r)
  PROVE  /\ r.pc = "connecting" =>
              LET s == [r EXCEPT !.pc = "staleRollback"]
              IN Coherent(s) /\ s.pc = "staleRollback" /\ s.fin = "none"
         /\ r.pc = "staleRollback" =>
              LET s == StaleSettled(r)
              IN Coherent(s) /\ s.pc = "settled" /\ s.fin = "none"
         /\ r.pc = "connecting" =>
              LET s == FinalizeStarts(r)
              IN Coherent(s) /\ s.fin = "waiting" /\ s.pc \in {"finalizing", "settled"}
         /\ r.pc = "connecting" /\ r.canceled =>
              LET s == FinalizeReturns(FinalizeStarts(r))
              IN Coherent(s) /\ s.fin \in {"done", "closing"} /\ s.pc = "settled"
         /\ r.pc = "settled" =>
              LET s == [r EXCEPT !.pc = "done"]
              IN Coherent(s) /\ s.pc = "done" /\ s.fin = r.fin
         /\ r.fin = "closing" =>
              LET s == [r EXCEPT !.fin = "done"]
              IN Coherent(s) /\ s.pc = r.pc /\ s.fin = "done"
  <1> USE DEF Coherent, Attempt
  <1>1. ASSUME r.pc = "connecting"
        PROVE  LET s == [r EXCEPT !.pc = "staleRollback"]
               IN Coherent(s) /\ s.pc = "staleRollback" /\ s.fin = "none"
    BY <1>1
  <1>2. ASSUME r.pc = "staleRollback"
        PROVE  LET s == StaleSettled(r)
               IN Coherent(s) /\ s.pc = "settled" /\ s.fin = "none"
    BY <1>2 DEF StaleSettled, Settle
  <1>3. ASSUME r.pc = "connecting"
        PROVE  LET s == FinalizeStarts(r)
               IN Coherent(s) /\ s.fin = "waiting" /\ s.pc \in {"finalizing", "settled"}
    BY <1>3 DEF FinalizeStarts
  <1>4. ASSUME r.pc = "connecting", r.canceled
        PROVE  LET s == FinalizeReturns(FinalizeStarts(r))
               IN Coherent(s) /\ s.fin \in {"done", "closing"} /\ s.pc = "settled"
    BY <1>4 DEF FinalizeStarts, FinalizeReturns
  <1>5. ASSUME r.pc = "settled"
        PROVE  LET s == [r EXCEPT !.pc = "done"]
               IN Coherent(s) /\ s.pc = "done" /\ s.fin = r.fin
    BY <1>5
  <1>6. ASSUME r.fin = "closing"
        PROVE  LET s == [r EXCEPT !.fin = "done"]
               IN Coherent(s) /\ s.pc = r.pc /\ s.fin = "done"
    BY <1>6
  <1> QED
    BY <1>1, <1>2, <1>3, <1>4, <1>5, <1>6

\* What finalizeReady() makes of an attempt after the race, and what
\* disconnect() and the transports do.
LEMMA RaceSteps ==
  ASSUME NEW r \in Attempt, Coherent(r)
  PROVE  /\ r.fin = "waiting" /\ r.hs # "pending" =>
              LET s == FinalizeReturns(r)
              IN Coherent(s) /\ s.fin \in {"done", "closing"} /\ s.pc \in {"settled", r.pc}
         /\ r.fin \in {"waiting", "staleRollback"} =>
              LET s == FinalizeReturns(ReadyResolved(r))
              IN Coherent(s) /\ s.fin \in {"done", "closing"} /\ s.pc \in {"settled", r.pc}
         /\ r.fin = "waiting" =>
              LET s == [r EXCEPT !.fin = "staleRollback"]
              IN Coherent(s) /\ s.fin = "staleRollback" /\ s.pc = r.pc
         /\ LET s == CancelHandshake(r)
            IN Coherent(s) /\ s.canceled /\ s.fin = r.fin /\ s.pc = r.pc
  <1> USE DEF Coherent, Attempt
  <1>1. ASSUME r.fin = "waiting", r.hs # "pending"
        PROVE  LET s == FinalizeReturns(r)
               IN Coherent(s) /\ s.fin \in {"done", "closing"} /\ s.pc \in {"settled", r.pc}
    BY <1>1 DEF FinalizeReturns
  <1>2. ASSUME r.fin \in {"waiting", "staleRollback"}
        PROVE  LET s == FinalizeReturns(ReadyResolved(r))
               IN Coherent(s) /\ s.fin \in {"done", "closing"} /\ s.pc \in {"settled", r.pc}
    BY <1>2 DEF FinalizeReturns, ReadyResolved, Settle
  <1>3. ASSUME r.fin = "waiting"
        PROVE  LET s == [r EXCEPT !.fin = "staleRollback"]
               IN Coherent(s) /\ s.fin = "staleRollback" /\ s.pc = r.pc
    BY <1>3
  <1>4. LET s == CancelHandshake(r)
        IN Coherent(s) /\ s.canceled /\ s.fin = r.fin /\ s.pc = r.pc
    BY DEF CancelHandshake, Settle
  <1> QED
    BY <1>1, <1>2, <1>3, <1>4

\* A promise of the transports settling changes nothing else in an attempt.
LEMMA TransportSteps ==
  ASSUME NEW r \in Attempt, Coherent(r), NEW o \in {"ok", "failed"},
         NEW s \in {[r EXCEPT !.conn = o], [r EXCEPT !.ready = o]}
  PROVE  /\ Coherent(s) /\ s.fin = r.fin /\ s.pc = r.pc /\ s.canceled = r.canceled
         /\ s.epoch = r.epoch
  BY DEF Coherent, Attempt

\* One attempt advances to s: the discipline is kept when s is coherent and
\* holds its cells, and the cells change only at the hands of their holder.
LEMMA AdvanceDiscipline ==
  ASSUME AwaitTeardown, LifecycleInv, DisciplineInv,
         NEW a \in Callers, NEW s, att' = [att EXCEPT ![a] = s],
         Coherent(s), s.epoch = att[a].epoch, Runs(s) => Runs(att[a]),
         local' \subseteq local, epoch' = epoch,
         att[a].epoch = epoch => HoldsCells(a)',
         att[a].epoch < epoch /\ Waiting(s) => s.canceled,
         connectPromise' = connectPromise \/ Runs(att[a]),
         connected' = connected \/ Runs(att[a]),
         activeHandshake' = activeHandshake \/ activeHandshake = a
  PROVE  DisciplineInv'
  <1>1. att'[a] = s /\ \A b \in Callers : b # a => att'[b] = att[b]
    BY DEF LifecycleInv, TypeOK
  <1>2. \A b \in Callers : (Running(b) <=> Runs(att[b])) /\ (Running(b)' <=> Runs(att'[b]))
    BY DEF Running, Runs
  <1>3. \A b \in Callers : Running(b)' => Running(b)
    BY <1>1, <1>2
  <1>4. OneRuns'
    BY <1>3 DEF DisciplineInv, OneRuns
  <1>5. ASSUME NEW b \in Callers
        PROVE  /\ Coherent(att'[b])
               /\ att'[b].epoch = epoch' => HoldsCells(b)'
               /\ att'[b].epoch < epoch' => Overtaken(b)'
    <2>1. CASE b = a
      <3>1. att'[a].epoch < epoch' => Overtaken(a)'
        BY <1>1, <1>3 DEF Overtaken, DisciplineInv
      <3> QED
        BY <1>1, <2>1, <3>1
    <2>2. CASE b # a
      <3>1. att'[b] = att[b]
        BY <1>1, <2>2
      <3>2. Runs(att[b]) => ~Runs(att[a])
        BY <1>2, <2>2 DEF DisciplineInv, OneRuns
      <3>3. att[b].epoch = epoch => HoldsCells(b)'
        BY <2>2, <3>1, <3>2 DEF DisciplineInv, HoldsCells, Runs, Waiting
      <3>4. att[b].epoch < epoch => Overtaken(b)'
        BY <1>3, <3>1 DEF DisciplineInv, Overtaken
      <3> QED
        BY <3>1, <3>3, <3>4 DEF DisciplineInv
    <2> QED
      BY <2>1, <2>2
  <1> QED
    BY <1>4, <1>5 DEF DisciplineInv

\* What the discipline says of one attempt.
LEMMA AttemptFacts ==
  ASSUME AwaitTeardown, LifecycleInv, DisciplineInv, NEW a \in Callers
  PROVE  /\ att[a] \in Attempt /\ Coherent(att[a])
         /\ att[a].epoch = epoch \/ att[a].epoch < epoch
         /\ att[a].epoch = epoch => HoldsCells(a)
         /\ att[a].epoch < epoch => Overtaken(a)
  <1>1. att[a] \in Attempt /\ att[a].epoch \in Nat /\ epoch \in Nat
    BY DEF LifecycleInv, TypeOK, Attempt
  <1>2. att[a].epoch <= epoch
    BY DEF LifecycleInv, OldEntriesGone
  <1> QED
    BY <1>1, <1>2 DEF DisciplineInv

\* A connect phase that fails or comes too late keeps the discipline.
LEMMA ConnectEndsDiscipline ==
  ASSUME AwaitTeardown, LifecycleInv, DisciplineInv, NEW a \in Callers,
         ConnectFails(a) \/ ConnectStale(a)
  PROVE  DisciplineInv'
  <1> DEFINE r == att[a]
             s == att'[a]
  <1>1. /\ r \in Attempt /\ Coherent(r) /\ r.pc = "connecting"
        /\ r.epoch = epoch => HoldsCells(a)
    BY AttemptFacts DEF ConnectFails, ConnectStale
  <1>2. /\ s = ConnectFailed(r) \/ s = [r EXCEPT !.pc = "staleRollback"]
        /\ att' = [att EXCEPT ![a] = s]
    BY DEF LifecycleInv, TypeOK, ConnectFails, ConnectStale
  <1>3. /\ Coherent(s) /\ s.pc \in {"failRollback", "staleRollback"} /\ s.fin = "none"
        /\ s.epoch = r.epoch
    <2> HIDE DEF r, s
    <2>1. [r EXCEPT !.pc = "staleRollback"].epoch = r.epoch
      BY <1>1 DEF Attempt
    <2>2. ConnectFailed(r).epoch = r.epoch
      BY <1>1, StepsKeepAttempt DEF SameAttempt
    <2>3. Coherent(ConnectFailed(r)) /\ ConnectFailed(r).pc = "failRollback" /\ ConnectFailed(r).fin = "none"
      BY <1>1, FailureSteps
    <2>4. /\ Coherent([r EXCEPT !.pc = "staleRollback"])
          /\ [r EXCEPT !.pc = "staleRollback"].pc = "staleRollback"
          /\ [r EXCEPT !.pc = "staleRollback"].fin = "none"
      BY <1>1, BodySteps
    <2> QED
      BY <1>2, <2>1, <2>2, <2>3, <2>4
  <1>4. /\ local' \subseteq local
        /\ UNCHANGED <<connected, connectPromise, activeHandshake, epoch>>
    BY DEF ConnectFails, ConnectStale, FailAttempt, RollbackEntries
  <1>5. r.epoch = epoch => HoldsCells(a)'
    BY <1>1, <1>3, <1>4 DEF HoldsCells, Waiting
  <1>6. ~Waiting(s) /\ Runs(r)
    BY <1>1, <1>3 DEF Waiting, Runs
  <1> HIDE DEF r, s
  <1> QED
    BY <1>2, <1>3, <1>4, <1>5, <1>6, AdvanceDiscipline DEF r

\* A successful connect phase keeps the discipline: the attempt is of the
\* current session, so its handshake is the active one.
LEMMA ConnectSucceedsDiscipline ==
  ASSUME AwaitTeardown, LifecycleInv, DisciplineInv, NEW a \in Callers, ConnectSucceeds(a)
  PROVE  DisciplineInv'
  <1> DEFINE r == att[a]
             s == att'[a]
  <1>1. /\ r \in Attempt /\ Coherent(r) /\ r.pc = "connecting"
        /\ r.epoch = epoch \/ r.epoch < epoch
        /\ r.epoch = epoch => HoldsCells(a)
    BY AttemptFacts DEF ConnectSucceeds
  <1>2. r.epoch = epoch
    <2>1. r.entries \intersect local # {}
      BY <1>1 DEF LifecycleInv, OldEntriesGone, ConnectSucceeds, AreEntriesCurrent
    <2> QED
      BY <1>1, <2>1 DEF LifecycleInv, OldEntriesGone
  <1>3. /\ \/ s = FinalizeStarts(r)
           \/ r.canceled /\ s = FinalizeReturns(FinalizeStarts(r))
        /\ att' = [att EXCEPT ![a] = s]
    BY DEF LifecycleInv, TypeOK, ConnectSucceeds
  <1>4. Coherent(s) /\ s.fin \in {"waiting", "done", "closing"} /\ s.pc \in {"finalizing", "settled"}
    <2> HIDE DEF r, s
    <2>1. /\ Coherent(FinalizeStarts(r)) /\ FinalizeStarts(r).fin = "waiting"
          /\ FinalizeStarts(r).pc \in {"finalizing", "settled"}
      BY <1>1, BodySteps
    <2>2. r.canceled => LET u == FinalizeReturns(FinalizeStarts(r))
                        IN Coherent(u) /\ u.fin \in {"done", "closing"} /\ u.pc = "settled"
      BY <1>1, BodySteps
    <2> QED
      BY <1>3, <2>1, <2>2
  <1>5. s.epoch = r.epoch
    <2> HIDE DEF r, s
    <2>1. FinalizeStarts(r) \in Attempt /\ FinalizeStarts(r).epoch = r.epoch
      BY <1>1, StepsKeepAttempt, FinalizeStartsType DEF SameAttempt
    <2>2. FinalizeReturns(FinalizeStarts(r)).epoch = r.epoch
      BY <2>1, StepsKeepAttempt DEF SameAttempt
    <2> QED
      BY <1>3, <2>1, <2>2
  <1>6. connected' /\ UNCHANGED <<local, connectPromise, activeHandshake, epoch>>
    BY DEF ConnectSucceeds
  <1>7. HoldsCells(a)'
    BY <1>1, <1>2, <1>4, <1>6 DEF HoldsCells, Waiting
  <1>8. Runs(r)
    BY <1>1 DEF Runs
  <1>9. ~(att[a].epoch < epoch)
    BY <1>1, <1>2 DEF LifecycleInv, TypeOK, Attempt
  <1> HIDE DEF r, s
  <1> QED
    BY <1>3, <1>4, <1>5, <1>6, <1>7, <1>8, <1>9, AdvanceDiscipline DEF r

\* finalizeReady() keeps the discipline: it leaves the handshake alone only
\* when disconnect() has settled it.
LEMMA FinalizeDiscipline ==
  ASSUME AwaitTeardown, LifecycleInv, DisciplineInv, NEW a \in Callers,
         FinalizeReady(a) \/ ReadyFails(a)
  PROVE  DisciplineInv'
  <1> DEFINE r == att[a]
             s == att'[a]
  <1>1. /\ r \in Attempt /\ Coherent(r) /\ r.fin = "waiting"
        /\ r.epoch = epoch \/ r.epoch < epoch
        /\ r.epoch = epoch => HoldsCells(a)
        /\ r.epoch < epoch => Overtaken(a)
    BY AttemptFacts DEF FinalizeReady, ReadyFails
  <1>2. Runs(r) /\ Waiting(r)
    BY <1>1 DEF Runs, Waiting
  <1>3. ~connected \/ r.canceled => r.hs # "pending"
    BY <1>1, <1>2 DEF HoldsCells, Overtaken, Coherent
  <1>4. att' = [att EXCEPT ![a] = s] /\ UNCHANGED <<connectPromise, activeHandshake, epoch>> /\ local' \subseteq local
    BY DEF LifecycleInv, TypeOK, FinalizeReady, ReadyFails, FailAttempt, RollbackEntries
  <1>5. CASE FinalizeReady(a)
    <2>1. \/ r.hs # "pending" /\ s = FinalizeReturns(r)
          \/ s = [r EXCEPT !.fin = "staleRollback"]
          \/ s = FinalizeReturns(ReadyResolved(r))
      BY <1>3, <1>5 DEF LifecycleInv, TypeOK, FinalizeReady
    <2>2. Coherent(s) /\ s.fin \in {"done", "closing", "staleRollback"} /\ s.pc \in {"settled", r.pc}
      <3> HIDE DEF r, s
      <3>1. r.hs # "pending" => LET u == FinalizeReturns(r)
                                IN Coherent(u) /\ u.fin \in {"done", "closing"} /\ u.pc \in {"settled", r.pc}
        BY <1>1, RaceSteps
      <3>2. LET u == FinalizeReturns(ReadyResolved(r))
            IN Coherent(u) /\ u.fin \in {"done", "closing"} /\ u.pc \in {"settled", r.pc}
        BY <1>1, RaceSteps
      <3>3. LET u == [r EXCEPT !.fin = "staleRollback"]
            IN Coherent(u) /\ u.fin = "staleRollback" /\ u.pc = r.pc
        BY <1>1, RaceSteps
      <3> QED
        BY <2>1, <3>1, <3>2, <3>3
    <2>3. s.epoch = r.epoch
      BY <1>1, <2>1, StepsKeepAttempt, ReadyResolvedType, SameAttemptTransitive DEF SameAttempt, Attempt
    <2>4. connected' = connected
      BY <1>5 DEF FinalizeReady
    <2>5. r.pc # "connecting" /\ (s.pc \notin {"unused", "done"} => r.pc \notin {"unused", "done"})
      <3>1. r.pc \in {"finalizing", "settled", "done"}
        BY <1>1 DEF Coherent
      <3>2. r.pc = "done" => s.pc = "done"
        <4>1. ASSUME r.pc = "done" PROVE ~r.aw
          BY <1>1, <4>1 DEF Coherent
        <4>2. ASSUME NEW q \in Attempt, ~q.aw PROVE FinalizeReturns(q).pc = q.pc
          BY <4>2 DEF FinalizeReturns, Attempt
        <4>3. ReadyResolved(r).aw = r.aw /\ ReadyResolved(r).pc = r.pc /\ ReadyResolved(r) \in Attempt
          BY <1>1, ReadyResolvedType DEF ReadyResolved, Attempt
        <4>4. [r EXCEPT !.fin = "staleRollback"].pc = r.pc
          BY <1>1 DEF Attempt
        <4> QED
          BY <1>1, <2>1, <4>1, <4>2, <4>3, <4>4
      <3> QED
        BY <3>1, <3>2
    <2>6. r.epoch = epoch => HoldsCells(a)'
      BY <1>1, <1>4, <2>2, <2>4, <2>5 DEF HoldsCells, Waiting
    <2>7. ~Waiting(s)
      BY <2>2, <2>5 DEF Waiting
    <2> HIDE DEF r, s
    <2> QED
      BY <1>2, <1>4, <2>2, <2>3, <2>4, <2>6, <2>7, AdvanceDiscipline DEF r
  <1>6. CASE ReadyFails(a)
    <2>1. s = ReadyFailed(r) /\ connected' = IF r.aw THEN FALSE ELSE connected
      BY <1>6 DEF LifecycleInv, TypeOK, ReadyFails
    <2>2. /\ Coherent(s)
          /\ IF r.aw THEN s.pc = "failRollback" /\ s.fin = "done"
                     ELSE s.pc = r.pc /\ s.fin = "failRollback"
      <3> HIDE DEF r, s
      <3> QED
        BY <1>1, <2>1, FailureSteps
    <2>3. s.epoch = r.epoch
      BY <1>1, <2>1, StepsKeepAttempt DEF SameAttempt
    <2>4. r.pc \in IF r.aw THEN {"finalizing"} ELSE {"settled", "done"}
      BY <1>1 DEF Coherent
    <2>5. r.epoch = epoch => HoldsCells(a)'
      BY <1>1, <1>4, <2>1, <2>2, <2>4 DEF HoldsCells, Waiting
    <2>6. ~Waiting(s)
      BY <2>2, <2>4 DEF Waiting
    <2> HIDE DEF r, s
    <2> QED
      BY <1>2, <1>4, <2>2, <2>3, <2>5, <2>6, AdvanceDiscipline DEF r
  <1> QED
    BY <1>5, <1>6

\* The end of a rollback keeps the discipline.
LEMMA RollbackEndsDiscipline ==
  ASSUME AwaitTeardown, LifecycleInv, DisciplineInv, NEW a \in Callers, RollbackEnds(a)
  PROVE  DisciplineInv'
  <1> DEFINE r == att[a]
             s == att'[a]
  <1>1. /\ r \in Attempt /\ Coherent(r)
        /\ r.epoch = epoch => HoldsCells(a)
    BY AttemptFacts
  <1>2. att' = [att EXCEPT ![a] = s] /\ UNCHANGED <<connectPromise, activeHandshake, epoch, local>>
    BY DEF LifecycleInv, TypeOK, RollbackEnds
  <1>3. \/ r.pc = "failRollback" /\ s = FailedSettled(r) /\ connected' = connected
        \/ r.pc = "staleRollback" /\ s = StaleSettled(r) /\ connected' = connected
        \/ r.fin = "staleRollback" /\ s = FinalizeReturns(ReadyResolved(r)) /\ connected' = connected
        \/ r.fin = "failRollback" /\ s = [r EXCEPT !.fin = "closing"]
    BY DEF LifecycleInv, TypeOK, RollbackEnds
  <1>4. /\ Coherent(s) /\ s.pc \in {"settled", r.pc} /\ s.fin \in {"none", "done", "closing"}
    <2> HIDE DEF r, s
    <2>1. r.pc = "failRollback" =>
            LET u == FailedSettled(r) IN Coherent(u) /\ u.pc = "settled" /\ u.fin \in {"none", "done"}
      BY <1>1, FailureSteps
    <2>2. r.pc = "staleRollback" =>
            LET u == StaleSettled(r) IN Coherent(u) /\ u.pc = "settled" /\ u.fin = "none"
      BY <1>1, BodySteps
    <2>3. r.fin = "staleRollback" =>
            LET u == FinalizeReturns(ReadyResolved(r))
            IN Coherent(u) /\ u.fin \in {"done", "closing"} /\ u.pc \in {"settled", r.pc}
      BY <1>1, RaceSteps
    <2>4. r.fin = "failRollback" =>
            LET u == [r EXCEPT !.fin = "closing"] IN Coherent(u) /\ u.pc = r.pc /\ u.fin = "closing"
      BY <1>1, FailureSteps
    <2> QED
      BY <1>3, <2>1, <2>2, <2>3, <2>4
  <1>5. s.epoch = r.epoch
    BY <1>1, <1>3, StepsKeepAttempt, ReadyResolvedType, SameAttemptTransitive DEF SameAttempt, Attempt
  <1>6. Runs(r) /\ r.pc # "connecting"
    BY <1>1, <1>3 DEF Runs, Coherent
  <1>7. r.pc = "done" => s.pc = "done"
    <2>1. ASSUME r.pc = "done" PROVE ~r.aw \/ r.fin = "failRollback"
      BY <1>1, <1>3, <2>1 DEF Coherent
    <2>2. ASSUME NEW q \in Attempt, ~q.aw PROVE FinalizeReturns(q).pc = q.pc
      BY <2>2 DEF FinalizeReturns, Attempt
    <2>3. ReadyResolved(r).aw = r.aw /\ ReadyResolved(r).pc = r.pc /\ ReadyResolved(r) \in Attempt
      BY <1>1, ReadyResolvedType DEF ReadyResolved, Attempt
    <2>4. [r EXCEPT !.fin = "closing"].pc = r.pc
      BY <1>1 DEF Attempt
    <2>5. r.fin = "failRollback" => r.fin # "staleRollback"
      OBVIOUS
    <2> QED
      BY <1>3, <2>1, <2>2, <2>3, <2>4, <2>5
  <1>8. s.pc \notin {"unused", "done"} => r.pc \notin {"unused", "done"}
    BY <1>1, <1>3, <1>4, <1>7 DEF Coherent
  <1>9. r.epoch = epoch => HoldsCells(a)'
    BY <1>1, <1>2, <1>4, <1>6, <1>8 DEF HoldsCells, Waiting
  <1>10. ~Waiting(s)
    BY <1>4, <1>6 DEF Waiting
  <1> HIDE DEF r, s
  <1> QED
    BY <1>2, <1>4, <1>5, <1>6, <1>9, <1>10, AdvanceDiscipline DEF r

\* The cleanups keep the discipline: a body that ends before its background
\* finalization leaves the active handshake to it.
LEMMA FinallyDiscipline ==
  ASSUME AwaitTeardown, LifecycleInv, DisciplineInv, NEW a \in Callers,
         BodyFinally(a) \/ BackgroundFinally(a)
  PROVE  DisciplineInv'
  <1> DEFINE r == att[a]
             s == att'[a]
  <1>1. /\ r \in Attempt /\ Coherent(r)
        /\ r.epoch = epoch => HoldsCells(a)
        /\ r.epoch < epoch => Overtaken(a)
    BY AttemptFacts
  <1>2. att' = [att EXCEPT ![a] = s] /\ UNCHANGED <<connected, epoch, local>>
    BY DEF LifecycleInv, TypeOK, BodyFinally, BackgroundFinally
  <1>3. activeHandshake' = activeHandshake \/ activeHandshake = a
    BY DEF BodyFinally, BackgroundFinally
  <1>4. CASE BodyFinally(a)
    <2>1. r.pc = "settled" /\ s = [r EXCEPT !.pc = "done"]
      BY <1>4 DEF LifecycleInv, TypeOK, BodyFinally
    <2>2. /\ Coherent(s) /\ s.pc = "done" /\ s.fin = r.fin
          /\ s.epoch = r.epoch /\ s.canceled = r.canceled
      <3> HIDE DEF r, s
      <3>1. Coherent(s) /\ s.pc = "done" /\ s.fin = r.fin
        BY <1>1, <2>1, BodySteps
      <3>2. s.epoch = r.epoch /\ s.canceled = r.canceled
        BY <1>1, <2>1 DEF Attempt
      <3> QED
        BY <3>1, <3>2
    <2>3. r.fin = "waiting" => activeHandshake' = activeHandshake
      BY <1>1, <1>4, <2>1 DEF BodyFinally, Coherent
    <2>4. r.epoch = epoch => HoldsCells(a)'
      BY <1>1, <1>2, <2>2, <2>3 DEF HoldsCells, Waiting
    <2>5. Runs(r) /\ (r.epoch < epoch /\ Waiting(s) => s.canceled)
      BY <1>1, <2>1, <2>2 DEF Runs, Waiting, Overtaken
    <2> HIDE DEF r, s
    <2> QED
      BY <1>2, <1>3, <2>2, <2>4, <2>5, AdvanceDiscipline DEF r
  <1>5. CASE BackgroundFinally(a)
    <2>1. r.fin = "closing" /\ s = [r EXCEPT !.fin = "done"] /\ connectPromise' = connectPromise
      BY <1>5 DEF LifecycleInv, TypeOK, BackgroundFinally
    <2>2. /\ Coherent(s) /\ s.pc = r.pc /\ s.fin = "done" /\ s.epoch = r.epoch
          /\ r.pc \in {"settled", "done"}
      BY <1>1, <2>1, BodySteps DEF Attempt, Coherent
    <2>3. r.epoch = epoch => HoldsCells(a)'
      BY <1>1, <2>1, <2>2 DEF HoldsCells, Waiting
    <2>4. ~Waiting(s) /\ (Runs(s) => Runs(r))
      BY <2>1, <2>2 DEF Waiting, Runs
    <2> HIDE DEF r, s
    <2> QED
      BY <1>2, <1>3, <2>1, <2>2, <2>3, <2>4, AdvanceDiscipline DEF r
  <1> QED
    BY <1>4, <1>5

\* The transports' promises settling keeps the discipline.
LEMMA TransportsDiscipline ==
  ASSUME AwaitTeardown, LifecycleInv, DisciplineInv, NEW a \in Callers, NEW o \in {"ok", "failed"},
         TransportsConnect(a, o) \/ TransportsReady(a, o)
  PROVE  DisciplineInv'
  <1> DEFINE r == att[a]
             s == att'[a]
  <1>1. /\ r \in Attempt /\ Coherent(r)
        /\ r.epoch = epoch => HoldsCells(a)
        /\ r.epoch < epoch => Overtaken(a)
    BY AttemptFacts
  <1>2. /\ att' = [att EXCEPT ![a] = s]
        /\ UNCHANGED <<connected, connectPromise, activeHandshake, epoch, local>>
        /\ s = [r EXCEPT !.conn = o] \/ s = [r EXCEPT !.ready = o]
    BY DEF LifecycleInv, TypeOK, TransportsConnect, TransportsReady
  <1>3. Coherent(s) /\ s.fin = r.fin /\ s.pc = r.pc /\ s.canceled = r.canceled /\ s.epoch = r.epoch
    <2> HIDE DEF r, s
    <2>1. s \in {[r EXCEPT !.conn = o], [r EXCEPT !.ready = o]}
      BY <1>2
    <2> QED
      BY <1>1, <2>1, TransportSteps, Zenon
  <1>4. r.epoch = epoch => HoldsCells(a)'
    BY <1>1, <1>2, <1>3 DEF HoldsCells, Waiting
  <1>5. (r.epoch < epoch /\ Waiting(s) => s.canceled) /\ (Runs(s) => Runs(r))
    BY <1>1, <1>3 DEF Runs, Waiting, Overtaken
  <1> HIDE DEF r, s
  <1> QED
    BY <1>2, <1>3, <1>4, <1>5, AdvanceDiscipline DEF r

\* A running attempt keeps the bus out of reach of registerTransport() and of
\* a new attempt, or sees no transport at all.
LEMMA RunningExcludes ==
  ASSUME AwaitTeardown, LifecycleInv, DisciplineInv, NEW a \in Callers, Running(a),
         ~HasActiveTransportLifecycle
  PROVE  att[a].epoch < epoch /\ local = {}
  <1>1. /\ att[a].epoch = epoch \/ att[a].epoch < epoch
        /\ att[a].epoch = epoch => HoldsCells(a)
        /\ att[a].epoch < epoch => Overtaken(a)
    BY AttemptFacts
  <1>2. att[a].epoch # epoch
    BY <1>1, LifecycleAssumption DEF HoldsCells, Running, HasActiveTransportLifecycle
  <1> QED
    BY <1>1, <1>2 DEF Overtaken

\* registerTransport() keeps the discipline: no attempt is running.
LEMMA RegisterDiscipline ==
  ASSUME AwaitTeardown, LifecycleInv, DisciplineInv, NEW t \in Transports, RegisterTransport(t)
  PROVE  DisciplineInv'
  <1>1. \A a \in Callers : ~Running(a)
    <2> SUFFICES ASSUME NEW a \in Callers, Running(a) PROVE FALSE
      OBVIOUS
    <2>1. att[a].epoch < epoch /\ att[a].epoch = epoch
      BY RunningExcludes DEF RegisterTransport
    <2> QED
      BY <2>1 DEF LifecycleInv, TypeOK, Attempt
  <1>2. UNCHANGED <<connected, connectPromise, activeHandshake, att, epoch>>
    BY DEF RegisterTransport
  <1>3. \A a \in Callers : Overtaken(a) => Overtaken(a)'
    BY <1>1, <1>2 DEF Overtaken, Running
  <1>4. \A a \in Callers : HoldsCells(a)' <=> HoldsCells(a)
    BY <1>2 DEF HoldsCells
  <1>5. OneRuns'
    BY <1>1, <1>2 DEF OneRuns, Running
  <1> QED
    BY <1>2, <1>3, <1>4, <1>5 DEF DisciplineInv

\* Steps that leave the cells and the attempts alone keep the discipline.
LEMMA UntouchedDiscipline ==
  ASSUME AwaitTeardown, DisciplineInv, local' \subseteq local,
         UNCHANGED <<connected, connectPromise, activeHandshake, att, epoch>>
  PROVE  DisciplineInv'
  <1>1. \A a \in Callers : Overtaken(a) => Overtaken(a)'
    BY DEF Overtaken, Running
  <1>2. \A a \in Callers : HoldsCells(a)' <=> HoldsCells(a)
    BY DEF HoldsCells
  <1>3. OneRuns'
    BY DEF DisciplineInv, OneRuns, Running
  <1> QED
    BY <1>1, <1>2, <1>3 DEF DisciplineInv

\* disconnect() keeps the discipline: it empties localTransports and cancels
\* the handshake of the attempt that still waits.
LEMMA DisconnectDiscipline ==
  ASSUME AwaitTeardown, LifecycleInv, DisciplineInv, Disconnect
  PROVE  DisciplineInv'
  <1>1. TypeOK /\ epoch' = epoch + 1 /\ local' = {} /\ epoch \in Nat
    BY DEF LifecycleInv, TypeOK, Disconnect
  <1>2. ASSUME NEW a \in Callers
        PROVE  /\ Coherent(att'[a]) /\ att'[a].pc = att[a].pc /\ att'[a].fin = att[a].fin
               /\ att'[a].epoch = att[a].epoch
               /\ activeHandshake = a \/ att[a].canceled => att'[a].canceled
    <2>1. att[a] \in Attempt /\ Coherent(att[a])
      BY AttemptFacts
    <2>2. CASE activeHandshake = a
      <3>1. activeHandshake # None
        BY <2>2, LifecycleAssumption
      <3>2. att'[a] = CancelHandshake(att[a])
        BY <1>1, <2>2, <3>1 DEF TypeOK, Disconnect
      <3>3. LET u == CancelHandshake(att[a])
            IN Coherent(u) /\ u.canceled /\ u.fin = att[a].fin /\ u.pc = att[a].pc
        BY <2>1, RaceSteps
      <3>4. CancelHandshake(att[a]).epoch = att[a].epoch
        BY <2>1, StepsKeepAttempt DEF SameAttempt
      <3> QED
        BY <3>2, <3>3, <3>4
    <2>3. CASE activeHandshake # a
      <3>1. att'[a] = att[a]
        BY <1>1, <2>3 DEF TypeOK, Disconnect
      <3> QED
        BY <2>1, <2>3, <3>1
    <2> QED
      BY <2>2, <2>3
  <1>3. OneRuns'
    BY <1>2 DEF DisciplineInv, OneRuns, Running
  <1>4. ASSUME NEW a \in Callers
        PROVE  /\ ~(att'[a].epoch = epoch')
               /\ Overtaken(a)'
    <2>1. /\ att[a].epoch = epoch \/ att[a].epoch < epoch
          /\ att[a].epoch = epoch => HoldsCells(a)
          /\ att[a].epoch < epoch => Overtaken(a)
          /\ att[a] \in Attempt
      BY AttemptFacts
    <2>2. att[a].epoch \in Nat
      BY <2>1 DEF Attempt
    <2>3. Waiting(att'[a]) => att'[a].canceled
      BY <1>2, <2>1 DEF Waiting, HoldsCells, Overtaken
    <2> QED
      BY <1>1, <1>2, <2>1, <2>2, <2>3 DEF Overtaken
  <1> QED
    BY <1>2, <1>3, <1>4 DEF DisciplineInv

\* connect() keeps the discipline: an attempt starts only when none is running.
LEMMA ConnectDiscipline ==
  ASSUME AwaitTeardown, LifecycleInv, DisciplineInv, NEW c \in Callers, NEW aw \in BOOLEAN, Connect(c, aw)
  PROVE  DisciplineInv'
  <1>1. CASE ConnectStarts(c, aw)
    <2>1. \A a \in Callers : ~Running(a)
      BY <1>1, RunningExcludes DEF ConnectStarts
    <2>2. /\ \A b \in Callers : b # c => att'[b] = att[b]
          /\ att'[c] = [Unused EXCEPT !.pc = "connecting", !.entries = local, !.aw = aw, !.epoch = epoch]
      BY <1>1 DEF LifecycleInv, TypeOK, ConnectStarts
    <2>3. /\ att'[c].pc = "connecting" /\ att'[c].fin = "none" /\ att'[c].epoch = epoch
          /\ ~att'[c].canceled /\ Coherent(att'[c])
      BY <2>2 DEF Unused, Coherent
    <2>4. connectPromise' = c /\ activeHandshake' = c /\ UNCHANGED <<local, epoch, connected>>
      BY <1>1 DEF ConnectStarts
    <2>5. \A b \in Callers : b # c => ~Running(b)'
      BY <2>1, <2>2 DEF Running
    <2>6. OneRuns'
      BY <2>5 DEF OneRuns
    <2>7. ASSUME NEW b \in Callers
          PROVE  /\ Coherent(att'[b])
                 /\ att'[b].epoch = epoch' => HoldsCells(b)'
                 /\ att'[b].epoch < epoch' => Overtaken(b)'
      <3>1. CASE b = c
        <4>1. HoldsCells(c)'
          BY <2>3, <2>4 DEF HoldsCells, Waiting
        <4>2. ~(att'[c].epoch < epoch')
          BY <2>3, <2>4 DEF LifecycleInv, TypeOK
        <4> QED
          BY <2>3, <3>1, <4>1, <4>2
      <3>2. CASE b # c
        <4>1. ~Running(b)' /\ Coherent(att'[b])
          BY <2>2, <2>5, <3>2 DEF DisciplineInv
        <4> QED
          BY <4>1 DEF HoldsCells, Overtaken, Running, Waiting
      <3> QED
        BY <3>1, <3>2
    <2> QED
      BY <2>6, <2>7 DEF DisciplineInv
  <1>2. CASE ~ConnectStarts(c, aw)
    <2>1. UNCHANGED <<connected, connectPromise, activeHandshake, att, epoch, local>>
      BY <1>2 DEF Connect, ConnectWhenConnected, ConnectJoins, ConnectWithoutTransports
    <2> QED
      BY <2>1, UntouchedDiscipline
  <1> QED
    BY <1>1, <1>2

\* The discipline holds initially.
LEMMA InitDiscipline == Init => DisciplineInv
  <1> SUFFICES ASSUME Init PROVE DisciplineInv
    OBVIOUS
  <1>1. \A a \in Callers : att[a] = Unused
    BY DEF Init
  <1>2. Coherent(Unused) /\ ~Waiting(Unused) /\ Unused.pc = "unused" /\ Unused.fin = "none"
    BY DEF Coherent, Waiting, Unused
  <1>3. \A a \in Callers : ~Running(a)
    BY <1>1, <1>2 DEF Running
  <1> QED
    BY <1>1, <1>2, <1>3 DEF DisciplineInv, OneRuns, HoldsCells, Overtaken

\* Every step keeps the discipline.
LEMMA NextDiscipline == LifecycleInv /\ DisciplineInv /\ [Next]_vars => DisciplineInv'
  <1>1. CASE ~AwaitTeardown
    BY <1>1 DEF DisciplineInv
  <1>2. CASE AwaitTeardown
    <2> SUFFICES ASSUME LifecycleInv, DisciplineInv, [Next]_vars PROVE DisciplineInv'
      OBVIOUS
    <2> USE <1>2
    <2>1. ASSUME NEW t \in Transports, RegisterTransport(t) PROVE DisciplineInv'
      BY <2>1, RegisterDiscipline
    <2>2. ASSUME NEW e \in local, UnregisterTransport(e) PROVE DisciplineInv'
      BY <2>2, UntouchedDiscipline DEF UnregisterTransport
    <2>3. CASE Disconnect
      BY <2>3, DisconnectDiscipline
    <2>4. ASSUME NEW c \in Callers, NEW aw \in BOOLEAN, Connect(c, aw) PROVE DisciplineInv'
      BY <2>4, ConnectDiscipline
    <2>5. ASSUME NEW a \in Callers, Continuations(a) PROVE DisciplineInv'
      <3>1. CASE CallerResumes(a)
        BY <3>1, UntouchedDiscipline DEF CallerResumes
      <3> QED
        BY <2>5, <3>1, ConnectEndsDiscipline, ConnectSucceedsDiscipline, FinalizeDiscipline, FinallyDiscipline
           DEF Continuations
    <2>6. ASSUME NEW a \in Callers, NEW o \in {"ok", "failed"},
                 TransportsConnect(a, o) \/ TransportsReady(a, o)
          PROVE  DisciplineInv'
      BY <2>6, TransportsDiscipline
    <2>7. ASSUME NEW a \in Callers, RollbackEnds(a) PROVE DisciplineInv'
      BY <2>7, RollbackEndsDiscipline
    <2>8. CASE UNCHANGED vars
      BY <2>8, UntouchedDiscipline DEF vars
    <2> QED
      BY <2>1, <2>2, <2>3, <2>4, <2>5, <2>6, <2>7, <2>8 DEF Next, Host
  <1> QED
    BY <1>1, <1>2

\* The discipline of a host that awaits the teardown holds in every reachable state.
THEOREM DisciplineInvariant == Spec => []DisciplineInv
  BY InitDiscipline, NextDiscipline, LifecycleInvariant, PTL DEF Spec

\* With a host that lets earlier attempts end before it registers transports
\* again, two attempts are never in flight without a cancellation between them.
THEOREM AttemptsDoNotOverlap == AwaitTeardown => (Spec => []SingleLiveAttempt)
  <1> SUFFICES ASSUME AwaitTeardown PROVE Spec => []SingleLiveAttempt
    OBVIOUS
  <1>1. DisciplineInv => SingleLiveAttempt
    BY DEF DisciplineInv, OneRuns, SingleLiveAttempt
  <1> QED
    BY <1>1, DisciplineInvariant, PTL

\* With that host the handshake of every attempt that is over has settled.
THEOREM HandshakesSettle == AwaitTeardown => (Spec => []ReadySettles)
  <1> SUFFICES ASSUME AwaitTeardown PROVE Spec => []ReadySettles
    OBVIOUS
  <1>1. DisciplineInv => ReadySettles
    <2> SUFFICES ASSUME DisciplineInv, NEW a \in Callers, att[a].pc = "done", ~Running(a)
                 PROVE  att[a].hs # "pending"
      BY DEF ReadySettles
    <2>1. Coherent(att[a])
      BY DEF DisciplineInv
    <2> QED
      BY <2>1 DEF Coherent, Running
  <1> QED
    BY <1>1, DisciplineInvariant, PTL

\* With that host no transport is registered while an attempt of the current
\* session rolls its transports back.
THEOREM RollbackIsExclusive == AwaitTeardown => (Spec => RollbackExclusive)
  <1> SUFFICES ASSUME AwaitTeardown PROVE Spec => RollbackExclusive
    OBVIOUS
  <1>1. LifecycleInv /\ DisciplineInv /\ [Next]_vars =>
          [(\E a \in Callers : RollingBack(a) /\ att[a].epoch = epoch) => local' \subseteq local]_vars
    <2> SUFFICES ASSUME LifecycleInv, DisciplineInv, [Next]_vars,
                        NEW a \in Callers, RollingBack(a), att[a].epoch = epoch
                 PROVE  local' \subseteq local
      OBVIOUS
    <2>1. Running(a)
      BY DEF RollingBack, Running
    <2>2. HasActiveTransportLifecycle
      <3>1. ~(att[a].epoch < epoch)
        BY DEF LifecycleInv, TypeOK, Attempt
      <3> QED
        BY <2>1, <3>1, RunningExcludes
    <2>3. \A t \in Transports : ~RegisterTransport(t)
      BY <2>2 DEF RegisterTransport
    <2>4. CASE QuietStep
      BY <2>4 DEF QuietStep
    <2>5. CASE \E e \in local : UnregisterTransport(e)
      BY <2>5 DEF UnregisterTransport
    <2>6. CASE Disconnect
      BY <2>6 DEF Disconnect
    <2>7. CASE \E c \in Callers, aw \in BOOLEAN : Connect(c, aw)
      BY <2>7 DEF Connect, ConnectWhenConnected, ConnectJoins, ConnectWithoutTransports, ConnectStarts
    <2>8. CASE \E b \in Callers : ConnectSucceeds(b)
      BY <2>8 DEF ConnectSucceeds
    <2>9. CASE UNCHANGED vars
      BY <2>9 DEF vars
    <2> QED
      BY <2>3, <2>4, <2>5, <2>6, <2>7, <2>8, <2>9, ContinuationsQuiet, TransportsQuiet, RollbackEndsQuiet
         DEF Next, Host, LifecycleInv
  <1> QED
    BY <1>1, LifecycleInvariant, DisciplineInvariant, PTL DEF Spec, RollbackExclusive

-----------------------------------------------------------------------------
Owned == AwaitTeardown \/ ~ReuseTransports

\* Steps that add no entry and start no attempt keep the registry and
\* localTransports in agreement if they unregister no transport still listed.
LEMMA ShrinkOwnership ==
  ASSUME OwnershipInv, local' \subseteq local,
         \A b \in Callers : att'[b].entries = att[b].entries /\ (Running(b)' => Running(b)),
         Owned => \A e \in local' : e.t \in registry => e.t \in registry'
  PROVE  OwnershipInv'
  <1> SUFFICES ASSUME Owned PROVE OnePerName(local') /\ NoAlias' /\ RegistryOwnsLocal'
    BY DEF OwnershipInv, Owned, OnePerName
  <1>0. OnePerName(local) /\ NoAlias /\ RegistryOwnsLocal
    BY DEF OwnershipInv, Owned
  <1>1. OnePerName(local')
    BY <1>0 DEF OnePerName
  <1>2. NoAlias'
    BY <1>0 DEF NoAlias
  <1>3. RegistryOwnsLocal'
    BY <1>0 DEF RegistryOwnsLocal, TransportsOf
  <1> QED
    BY <1>1, <1>2, <1>3

\* Rolling back a running attempt unregisters no transport still listed.
LEMMA RollbackOwnership ==
  ASSUME Owned, OwnershipInv, NEW a \in Callers, Running(a), RollbackEntries(att[a].entries)
  PROVE  local' \subseteq local /\ \A e \in local' : e.t \in registry => e.t \in registry'
  <1>0. NoAlias
    BY DEF OwnershipInv, Owned
  <1> SUFFICES ASSUME NEW e \in local', e.t \in registry PROVE e.t \in registry'
    BY DEF RollbackEntries
  <1>1. e \in local /\ e \notin att[a].entries
    BY DEF RollbackEntries
  <1>2. \A f \in att[a].entries : e.t # f.t
    BY <1>0, <1>1 DEF NoAlias
  <1> QED
    BY <1>2 DEF RollbackEntries, TransportsOf

\* The steps of an attempt's body and of its finalization start no attempt and
\* keep the entries captured.
LEMMA AttemptStepEntries ==
  ASSUME TypeOK, NEW a \in Callers,
         \/ Continuations(a) \/ RollbackEnds(a)
         \/ \E o \in {"ok", "failed"} : TransportsConnect(a, o) \/ TransportsReady(a, o)
  PROVE  \A b \in Callers : att'[b].entries = att[b].entries /\ (Running(b)' => Running(b))
  <1>1. \A b \in Callers : SameAttempt(att[b], att'[b])
    <2>1. CASE ConnectSucceeds(a)
      <3>1. att[a] \in Attempt
        BY DEF TypeOK
      <3>2. SameAttempt(att[a], FinalizeStarts(att[a]))
        BY <3>1, StepsKeepAttempt
      <3>3. SameAttempt(att[a], FinalizeReturns(FinalizeStarts(att[a])))
        BY <3>1, StepsKeepAttempt, FinalizeStartsType, SameAttemptTransitive
      <3>4. SameAttempt(att[a], att'[a])
        BY <2>1, <3>2, <3>3 DEF ConnectSucceeds, TypeOK
      <3>5. \A b \in Callers : b # a => att'[b] = att[b]
        BY <2>1 DEF ConnectSucceeds, TypeOK
      <3> QED
        BY <3>4, <3>5 DEF SameAttempt
    <2>2. CASE ~ConnectSucceeds(a)
      BY <2>2, ContinuationsQuiet, RollbackEndsQuiet, TransportsQuiet DEF QuietStep
    <2> QED
      BY <2>1, <2>2
  <1>2. \A b \in Callers : b # a => att'[b] = att[b]
    BY DEF TypeOK, Continuations, CallerResumes, ConnectFails, ConnectStale, ConnectSucceeds, FinalizeReady,
           ReadyFails, BodyFinally, BackgroundFinally, RollbackEnds, TransportsConnect, TransportsReady
  <1>3. Running(a)' => Running(a)
    <2>1. CASE BackgroundFinally(a)
      BY <2>1 DEF BackgroundFinally, Running, TypeOK, Attempt
    <2>2. CASE CallerResumes(a)
      BY <2>2 DEF CallerResumes, Running
    <2>3. CASE ~BackgroundFinally(a) /\ ~CallerResumes(a)
      BY <2>3 DEF Continuations, ConnectFails, ConnectStale, ConnectSucceeds, FinalizeReady, ReadyFails,
                  BodyFinally, RollbackEnds, TransportsConnect, TransportsReady, Running
    <2> QED
      BY <2>1, <2>2, <2>3
  <1> QED
    BY <1>1, <1>2, <1>3 DEF SameAttempt, Running

\* Continuations keep the registry and localTransports in agreement.
LEMMA ContinuationsOwnership ==
  ASSUME LifecycleInv, OwnershipInv, NEW a \in Callers,
         \/ Continuations(a) \/ RollbackEnds(a)
         \/ \E o \in {"ok", "failed"} : TransportsConnect(a, o) \/ TransportsReady(a, o)
  PROVE  OwnershipInv'
  <1>0. \A b \in Callers : att'[b].entries = att[b].entries /\ (Running(b)' => Running(b))
    BY AttemptStepEntries DEF LifecycleInv
  <1>1. CASE UNCHANGED <<local, registry>>
    BY <1>0, <1>1, ShrinkOwnership
  <1>2. CASE Running(a) /\ RollbackEntries(att[a].entries)
    <2>1. local' \subseteq local
      BY <1>2 DEF RollbackEntries
    <2>2. Owned => \A e \in local' : e.t \in registry => e.t \in registry'
      BY <1>2, RollbackOwnership
    <2> QED
      BY <1>0, <2>1, <2>2, ShrinkOwnership
  <1> QED
    BY <1>1, <1>2 DEF Continuations, CallerResumes, ConnectFails, ConnectStale, ConnectSucceeds, FinalizeReady,
           ReadyFails, FailAttempt, BodyFinally, BackgroundFinally, RollbackEnds, TransportsConnect,
           TransportsReady, Running

\* registerTransport() keeps them in agreement: it replaces the registration of
\* the same name in both, and no running attempt holds the same transport.
LEMMA RegisterOwnership ==
  ASSUME LifecycleInv, DisciplineInv, OwnershipInv, NEW t \in Transports, RegisterTransport(t)
  PROVE  OwnershipInv'
  <1> DEFINE new == [t |-> t, id |-> regs + 1]
  <1> SUFFICES ASSUME Owned PROVE OnePerName(local') /\ NoAlias' /\ RegistryOwnsLocal'
    BY DEF OwnershipInv, Owned, OnePerName
  <1>0. OnePerName(local) /\ NoAlias /\ RegistryOwnsLocal
    BY DEF OwnershipInv, Owned
  <1>1. /\ local' = {e \in local : NameOf[e.t] # NameOf[t]} \union {new}
        /\ registry' = {r \in registry : NameOf[r] # NameOf[t]} \union {t}
        /\ att' = att /\ new.t = t
    BY DEF RegisterTransport
  <1> HIDE DEF new
  <1>2. OnePerName(local')
    BY <1>0, <1>1 DEF OnePerName
  <1>3. RegistryOwnsLocal'
    BY <1>0, <1>1 DEF RegistryOwnsLocal, TransportsOf
  <1>4. NoAlias'
    <2> SUFFICES ASSUME NEW a \in Callers, Running(a), NEW e \in local', NEW f \in att[a].entries, e.t = f.t
                 PROVE  e = f
      BY <1>1 DEF NoAlias, Running
    <2>1. ~AwaitTeardown
      <3> SUFFICES ASSUME AwaitTeardown PROVE FALSE
        OBVIOUS
      <3>1. att[a].epoch < epoch /\ att[a].epoch = epoch
        BY RunningExcludes DEF RegisterTransport
      <3> QED
        BY <3>1 DEF LifecycleInv, TypeOK, Attempt
    <2>2. f.t # t
      BY <2>1 DEF Owned, RegisterTransport
    <2>3. e \in local
      BY <1>1, <2>2
    <2> QED
      BY <1>0, <2>3 DEF NoAlias
  <1> QED
    BY <1>2, <1>3, <1>4

\* disconnect() keeps them in agreement.
LEMMA DisconnectOwnership ==
  ASSUME LifecycleInv, OwnershipInv, Disconnect
  PROVE  OwnershipInv'
  BY DEF OwnershipInv, OnePerName, NoAlias, RegistryOwnsLocal, TransportsOf, Disconnect

\* connect() keeps them in agreement: a new attempt captures the entries listed.
LEMMA ConnectOwnership ==
  ASSUME LifecycleInv, OwnershipInv, NEW c \in Callers, NEW aw \in BOOLEAN, Connect(c, aw)
  PROVE  OwnershipInv'
  <1>1. CASE ConnectStarts(c, aw)
    <2> SUFFICES ASSUME Owned PROVE OnePerName(local') /\ NoAlias' /\ RegistryOwnsLocal'
      BY DEF OwnershipInv, Owned, OnePerName
    <2>0. OnePerName(local) /\ NoAlias /\ RegistryOwnsLocal
      BY DEF OwnershipInv, Owned
    <2>1. UNCHANGED <<local, registry>>
      BY <1>1 DEF ConnectStarts
    <2>2. /\ \A b \in Callers : b # c => att'[b] = att[b]
          /\ att'[c].entries = local
      BY <1>1 DEF LifecycleInv, TypeOK, ConnectStarts, Unused
    <2>3. NoAlias'
      <3> SUFFICES ASSUME NEW b \in Callers, Running(b)', NEW e \in local, NEW f \in att'[b].entries, e.t = f.t
                   PROVE  e = f
        BY <2>1 DEF NoAlias
      <3>1. CASE b = c
        BY <2>0, <2>2, <3>1 DEF OnePerName
      <3>2. CASE b # c
        BY <2>0, <2>2, <3>2 DEF NoAlias, Running
      <3> QED
        BY <3>1, <3>2
    <2> QED
      BY <2>0, <2>1, <2>3 DEF RegistryOwnsLocal
  <1>2. CASE ~ConnectStarts(c, aw)
    <2>1. UNCHANGED <<att, local, registry>>
      BY <1>2 DEF Connect, ConnectWhenConnected, ConnectJoins, ConnectWithoutTransports
    <2>2. \A b \in Callers : Running(b)' => Running(b)
      BY <2>1 DEF Running
    <2> QED
      BY <2>1, <2>2, ShrinkOwnership
  <1> QED
    BY <1>1, <1>2

\* unregisterTransport() keeps them in agreement: one entry per name.
LEMMA UnregisterOwnership ==
  ASSUME OwnershipInv, NEW e \in local, UnregisterTransport(e)
  PROVE  OwnershipInv'
  <1>1. Owned => \A f \in local' : f.t \in registry => f.t \in registry'
    <2> SUFFICES ASSUME Owned, NEW f \in local', f.t \in registry PROVE f.t \in registry'
      OBVIOUS
    <2>1. f \in local /\ f # e
      BY DEF UnregisterTransport
    <2>2. f.t # e.t
      BY <2>1 DEF OwnershipInv, Owned, OnePerName
    <2> QED
      BY <2>2 DEF UnregisterTransport
  <1>2. \A b \in Callers : att'[b].entries = att[b].entries /\ (Running(b)' => Running(b))
    BY DEF UnregisterTransport, Running
  <1> QED
    BY <1>1, <1>2, ShrinkOwnership DEF UnregisterTransport

\* The ownership invariant holds in every reachable state.
THEOREM OwnershipInvariant == Spec => []OwnershipInv
  <1>1. Init => OwnershipInv
    BY DEF Init, OwnershipInv, OnePerName, NoAlias, RegistryOwnsLocal, TransportsOf
  <1>2. LifecycleInv /\ DisciplineInv /\ OwnershipInv /\ [Next]_vars => OwnershipInv'
    <2> SUFFICES ASSUME LifecycleInv, DisciplineInv, OwnershipInv, [Next]_vars PROVE OwnershipInv'
      OBVIOUS
    <2>1. ASSUME NEW t \in Transports, RegisterTransport(t) PROVE OwnershipInv'
      BY <2>1, RegisterOwnership
    <2>2. ASSUME NEW e \in local, UnregisterTransport(e) PROVE OwnershipInv'
      BY <2>2, UnregisterOwnership
    <2>3. CASE Disconnect
      BY <2>3, DisconnectOwnership
    <2>4. ASSUME NEW c \in Callers, NEW aw \in BOOLEAN, Connect(c, aw) PROVE OwnershipInv'
      BY <2>4, ConnectOwnership
    <2>5. ASSUME NEW a \in Callers,
                 \/ Continuations(a) \/ RollbackEnds(a)
                 \/ \E o \in {"ok", "failed"} : TransportsConnect(a, o) \/ TransportsReady(a, o)
          PROVE  OwnershipInv'
      BY <2>5, ContinuationsOwnership
    <2>6. CASE UNCHANGED vars
      <3>1. UNCHANGED <<att, local, registry>>
        BY <2>6 DEF vars
      <3>2. \A b \in Callers : Running(b)' => Running(b)
        BY <3>1 DEF Running
      <3> QED
        BY <3>1, <3>2, ShrinkOwnership
    <2> QED
      BY <2>1, <2>2, <2>3, <2>4, <2>5, <2>6 DEF Next, Host
  <1> QED
    BY <1>1, <1>2, LifecycleInvariant, DisciplineInvariant, PTL DEF Spec

\* With that host, or with one that registers a transport object only once,
\* every transport the bus lists is registered: no rollback of an old attempt
\* unregisters a newer entry.
THEOREM ListedIsRegistered == AwaitTeardown \/ ~ReuseTransports => (Spec => []RegistryOwnsLocal)
  <1> SUFFICES ASSUME AwaitTeardown \/ ~ReuseTransports PROVE Spec => []RegistryOwnsLocal
    OBVIOUS
  <1>1. OwnershipInv => RegistryOwnsLocal
    BY DEF OwnershipInv
  <1> QED
    BY <1>1, OwnershipInvariant, PTL
=============================================================================
