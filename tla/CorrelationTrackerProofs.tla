----------------------- MODULE CorrelationTrackerProofs -----------------------
(***************************************************************************)
(* Proofs about CorrelationTracker for every set of calls and ids.         *)
(***************************************************************************)
EXTENDS CorrelationTracker, TLAPS

\* The initial state, with an empty map, satisfies the inductive invariant.
LEMMA InitInv == Init => TrackerInv
  BY TrackerAssumption
  DEF Init, TrackerInv, TypeOK, EntriesPending, TrackedHaveIds, HeldIffPending, NoStrayCallbacks

\* Settling the entry an id holds, whoever asks for it, keeps the invariant.
LEMMA SettleInv ==
  ASSUME TrackerInv, NEW id \in Ids, pending[id] # None, NEW v \in Settled,
         SettleEntry(pending[id], v)
  PROVE  TrackerInv'
  BY TrackerAssumption
  DEF Settled, SettleEntry, TrackerInv, TypeOK, EntriesPending, TrackedHaveIds, HeldIffPending, NoStrayCallbacks

\* track() keeps the invariant: the new entry belongs to a fresh promise.
LEMMA TrackInv ==
  ASSUME TrackerInv, NEW c \in Calls, NEW id \in Ids, NEW timed \in BOOLEAN,
         NEW signalled \in BOOLEAN, Track(c, id, timed, signalled)
  PROVE  TrackerInv'
  BY TrackerAssumption
  DEF Track, TrackerInv, TypeOK, EntriesPending, TrackedHaveIds, HeldIffPending, NoStrayCallbacks

\* A firing timer keeps the invariant.
LEMMA TimerInv ==
  ASSUME TrackerInv, NEW c \in Calls, TimerFires(c)
  PROVE  TrackerInv'
  BY TrackerAssumption
  DEF TimerFires, TrackerInv, TypeOK, EntriesPending, TrackedHaveIds, HeldIffPending, NoStrayCallbacks

\* An abort keeps the invariant.
LEMMA AbortInv ==
  ASSUME TrackerInv, NEW c \in Calls, Abort(c)
  PROVE  TrackerInv'
  BY TrackerAssumption
  DEF Abort, TrackerInv, TypeOK, EntriesPending, TrackedHaveIds, HeldIffPending, NoStrayCallbacks

\* A lost connection keeps the invariant.
LEMMA RejectAllInv ==
  ASSUME TrackerInv, RejectAll
  PROVE  TrackerInv'
  BY TrackerAssumption
  DEF RejectAll, Held, TrackerInv, TypeOK, EntriesPending, TrackedHaveIds, HeldIffPending, NoStrayCallbacks

\* TrackerInv is preserved by every step of the tracker.
LEMMA NextInv == TrackerInv /\ [Next]_vars => TrackerInv'
  <1> SUFFICES ASSUME TrackerInv, [Next]_vars PROVE TrackerInv'
    OBVIOUS
  <1>1. CASE \E c \in Calls, id \in Ids, timed, signalled \in BOOLEAN : Track(c, id, timed, signalled)
    BY <1>1, TrackInv
  <1>2. CASE \E id \in Ids : Resolve(id) \/ Reject(id)
    BY <1>2, SettleInv DEF Resolve, Reject, Settled
  <1>3. CASE \E c \in Calls : TimerFires(c) \/ Abort(c)
    BY <1>3, TimerInv, AbortInv
  <1>4. CASE RejectAll
    BY <1>4, RejectAllInv
  <1>5. CASE UNCHANGED vars
    BY <1>5 DEF vars, TrackerInv, TypeOK, EntriesPending, TrackedHaveIds, HeldIffPending, NoStrayCallbacks
  <1> QED
    BY <1>1, <1>2, <1>3, <1>4, <1>5 DEF Next

\* The inductive invariant, and with it the type invariant, holds of every
\* behaviour of the tracker.
THEOREM TrackerInvariant == Spec => []TrackerInv
  BY InitInv, NextInv, PTL DEF Spec

\* A promise handed out by track() is unsettled exactly while the map holds
\* its entry, provided no id is tracked twice at the same time.
THEOREM NoEntryLost == Spec => []HeldIffPending
  <1>1. TrackerInv => HeldIffPending
    BY DEF TrackerInv
  <1> QED
    BY <1>1, TrackerInvariant, PTL

\* A settled call leaves no armed timer and no abort listener behind,
\* provided no id is tracked twice at the same time.
THEOREM NoStrayCallback == Spec => []NoStrayCallbacks
  <1>1. TrackerInv => NoStrayCallbacks
    BY DEF TrackerInv
  <1> QED
    BY <1>1, TrackerInvariant, PTL

\* A step that settles the entry held by an id is a Settle step of SettleOnce.
LEMMA SettleRefines ==
  ASSUME TrackerInv, NEW id \in Ids, pending[id] # None, NEW v \in Settled,
         promise' = [promise EXCEPT ![pending[id]] = v]
  PROVE  SO!SNext
  <1>1. pending[id] \in Calls /\ promise[pending[id]] = "pending"
    BY DEF TrackerInv, TypeOK, EntriesPending
  <1>2. SO!Settle({pending[id]})
    BY <1>1 DEF SO!Settle, SO!States, Settled, TrackerInv, TypeOK
  <1> QED
    BY <1>1, <1>2 DEF SO!SNext

\* Every step of the tracker is a step of SettleOnce or leaves the promises alone.
LEMMA StepRefines == TrackerInv /\ [Next]_vars => [SO!SNext]_promise
  <1> SUFFICES ASSUME TrackerInv, [Next]_vars PROVE [SO!SNext]_promise
    OBVIOUS
  <1>1. ASSUME NEW c \in Calls, NEW id \in Ids, NEW timed \in BOOLEAN, NEW signalled \in BOOLEAN,
               Track(c, id, timed, signalled)
        PROVE  SO!SNext
    <2>1. SO!Open(c, "pending") \/ SO!Open(c, "rejected")
      BY <1>1 DEF Track, SO!Open
    <2> QED
      BY <2>1 DEF SO!SNext, SO!States
  <1>2. ASSUME NEW id \in Ids, Resolve(id) \/ Reject(id)
        PROVE  SO!SNext
    BY <1>2, SettleRefines DEF Resolve, Reject, SettleEntry, Settled
  <1>3. ASSUME NEW c \in Calls, TimerFires(c)
        PROVE  [SO!SNext]_promise
    <2>1. idOf[c] \in Ids
      BY <1>3 DEF TimerFires, TrackerInv, TrackedHaveIds, TypeOK
    <2> QED
      BY <1>3, <2>1, SettleRefines DEF TimerFires, Settled
  <1>4. ASSUME NEW c \in Calls, Abort(c)
        PROVE  [SO!SNext]_promise
    <2>1. c \in listening => idOf[c] \in Ids
      BY DEF TrackerInv, TrackedHaveIds, TypeOK
    <2> QED
      BY <1>4, <2>1, SettleRefines DEF Abort, Settled
  <1>5. ASSUME RejectAll
        PROVE  SO!SNext
    <2>1. \A c \in Held : promise[c] = "pending"
      BY TrackerAssumption DEF Held, TrackerInv, TypeOK, EntriesPending
    <2>2. SO!Settle(Held)
      BY <1>5, <2>1 DEF RejectAll, Held, SO!Settle, SO!States, TrackerInv, TypeOK
    <2> QED
      BY <2>2 DEF SO!SNext, Held
  <1>6. CASE UNCHANGED vars
    BY <1>6 DEF vars
  <1> QED
    BY <1>1, <1>2, <1>3, <1>4, <1>5, <1>6 DEF Next

\* The tracker implements SettleOnce: no promise is ever settled twice, for
\* any number of calls and ids, id reuse included.
THEOREM TrackerSettlesOnce == Spec => SettlesOnce
  <1>1. Init => SO!SInit
    BY DEF Init, SO!SInit
  <1> QED
    BY <1>1, StepRefines, TrackerInvariant, PTL DEF Spec, SettlesOnce, SO!SSpec
=============================================================================
