------------------------- MODULE CorrelationTracker -------------------------
(***************************************************************************)
(* The request/response matcher every transport owns:                      *)
(* core/bus-core/src/utils/correlation-tracker.ts.  A call of track()      *)
(* stores an entry under its correlation id, arms a timer unless the       *)
(* timeout is 0 and listens to the caller's AbortSignal.  A response, an   *)
(* error, a cancellation, the timer, the signal and a lost connection race *)
(* to settle it.  Every handler runs to completion: one action each.       *)
(***************************************************************************)
EXTENDS Naturals, FiniteSets

CONSTANTS
    Calls,             \* calls of track()
    Ids,               \* correlation ids
    ReuseWhilePending, \* TRUE: an id may be tracked again before it settled
    None

ASSUME TrackerAssumption ==
    /\ None \notin Calls
    /\ None \notin Ids
    /\ ReuseWhilePending \in BOOLEAN

VARIABLES
    pending,   \* the Map: which call's entry an id holds, or None
    idOf,      \* the id a call was tracked under
    timer,     \* calls whose setTimeout() is armed
    listening, \* calls whose abort listener is attached
    aborted,   \* calls whose AbortSignal has fired
    promise    \* the promise track() returned

vars == <<pending, idOf, timer, listening, aborted, promise>>

Settled == {"resolved", "rejected"}

TypeOK ==
    /\ pending \in [Ids -> Calls \union {None}]
    /\ idOf \in [Calls -> Ids \union {None}]
    /\ timer \in SUBSET Calls
    /\ listening \in SUBSET Calls
    /\ aborted \in SUBSET Calls
    /\ promise \in [Calls -> {"unused", "pending", "resolved", "rejected"}]

Init ==
    /\ pending = [i \in Ids |-> None]
    /\ idOf = [c \in Calls |-> None]
    /\ timer = {}
    /\ listening = {}
    /\ aborted = {}
    /\ promise = [c \in Calls |-> "unused"]

-----------------------------------------------------------------------------
\* mutant: the abort listener outlives the entry
SettleKeepsListener(d, v) ==
    /\ timer' = timer \ {d}
    /\ pending' = [pending EXCEPT ![idOf[d]] = None]
    /\ promise' = [promise EXCEPT ![d] = v]
    /\ UNCHANGED <<listening, idOf, aborted>>

\* mutant: the entry stays in the map after it settled
SettleKeepsEntry(d, v) ==
    /\ timer' = timer \ {d}
    /\ listening' = listening \ {d}
    /\ promise' = [promise EXCEPT ![d] = v]
    /\ UNCHANGED <<pending, idOf, aborted>>

\* clear the entry's timer, remove its listener, delete it from the map and
\* call its resolve or reject function
SettleEntry(d, v) ==
    /\ timer' = timer \ {d}
    /\ listening' = listening \ {d}
    /\ pending' = [pending EXCEPT ![idOf[d]] = None]
    /\ promise' = [promise EXCEPT ![d] = v]
    /\ UNCHANGED <<idOf, aborted>>

\* track(id, timeout, signal): rejected at once when the signal has fired
Track(c, id, timed, signalled) ==
    /\ promise[c] = "unused"
    /\ ReuseWhilePending \/ pending[id] = None
    /\ idOf' = [idOf EXCEPT ![c] = id]
    /\ IF signalled /\ c \in aborted
       THEN /\ promise' = [promise EXCEPT ![c] = "rejected"]
            /\ UNCHANGED <<pending, timer, listening>>
       ELSE /\ promise' = [promise EXCEPT ![c] = "pending"]
            /\ pending' = [pending EXCEPT ![id] = c]
            /\ timer' = IF timed THEN timer \union {c} ELSE timer
            /\ listening' = IF signalled THEN listening \union {c} ELSE listening
    /\ UNCHANGED aborted

\* resolve(id): a late or unknown response is ignored
Resolve(id) ==
    /\ pending[id] # None
    /\ SettleEntry(pending[id], "resolved")

\* reject(id) and cancel(id)
Reject(id) ==
    /\ pending[id] # None
    /\ SettleEntry(pending[id], "rejected")

\* the timer armed by call c fires: it looks its id up in the map, and rejects
\* whatever entry it finds there
TimerFires(c) ==
    /\ c \in timer
    /\ IF pending[idOf[c]] = None
       THEN /\ timer' = timer \ {c}
            /\ UNCHANGED <<pending, idOf, listening, aborted, promise>>
       ELSE LET d == pending[idOf[c]]
            IN /\ timer' = timer \ {c, d}
               /\ listening' = listening \ {d}
               /\ pending' = [pending EXCEPT ![idOf[c]] = None]
               /\ promise' = [promise EXCEPT ![d] = "rejected"]
               /\ UNCHANGED <<idOf, aborted>>

\* the caller aborts: the listener, when attached, rejects the id's entry and
\* is gone ({once: true})
Abort(c) ==
    /\ c \notin aborted
    /\ aborted' = aborted \union {c}
    /\ IF c \notin listening \/ pending[idOf[c]] = None
       THEN /\ listening' = listening \ {c}
            /\ UNCHANGED <<pending, idOf, timer, promise>>
       ELSE LET d == pending[idOf[c]]
            IN /\ timer' = timer \ {d}
               /\ listening' = listening \ {c, d}
               /\ pending' = [pending EXCEPT ![idOf[c]] = None]
               /\ promise' = [promise EXCEPT ![d] = "rejected"]
               /\ UNCHANGED idOf

Held == {c \in Calls : \E i \in Ids : pending[i] = c}

\* mutant: rejectAll() empties the map without rejecting
RejectAllDrops ==
    /\ Held # {}
    /\ timer' = timer \ Held
    /\ listening' = listening \ Held
    /\ pending' = [i \in Ids |-> None]
    /\ UNCHANGED <<idOf, aborted, promise>>

\* rejectAll() and cleanup(): the connection is lost
RejectAll ==
    /\ Held # {}
    /\ timer' = timer \ Held
    /\ listening' = listening \ Held
    /\ promise' = [c \in Calls |-> IF c \in Held THEN "rejected" ELSE promise[c]]
    /\ pending' = [i \in Ids |-> None]
    /\ UNCHANGED <<idOf, aborted>>

Next ==
    \/ \E c \in Calls, id \in Ids, timed, signalled \in BOOLEAN : Track(c, id, timed, signalled)
    \/ \E id \in Ids : Resolve(id) \/ Reject(id)
    \/ \E c \in Calls : TimerFires(c) \/ Abort(c)
    \/ RejectAll

Spec == Init /\ [][Next]_vars

\* setTimeout() callbacks run
FairSpec == Spec /\ \A c \in Calls : WF_vars(TimerFires(c))

-----------------------------------------------------------------------------
(* Properties. *)

\* Every entry of the map belongs to an unsettled promise tracked under that id.
EntriesPending ==
    \A i \in Ids : pending[i] # None => promise[pending[i]] = "pending" /\ idOf[pending[i]] = i

\* A call that was tracked has an id; a call with callbacks was tracked.
TrackedHaveIds ==
    /\ \A c \in Calls : idOf[c] = None <=> promise[c] = "unused"
    /\ \A c \in timer \union listening : idOf[c] # None

\* As long as no id is tracked twice at the same time: a promise is unsettled
\* exactly while the map holds its entry, so no response is lost to an entry
\* nobody can find and no entry is leaked.
HeldIffPending ==
    ~ReuseWhilePending =>
        \A c \in Calls : promise[c] = "pending" <=> (idOf[c] # None /\ pending[idOf[c]] = c)

\* As long as no id is tracked twice at the same time: a settled call leaves
\* neither an armed timer nor an abort listener behind that could hit a later
\* call under the same id.
NoStrayCallbacks ==
    ~ReuseWhilePending => \A c \in timer \union listening : promise[c] = "pending"

\* A call tracked with a timeout is eventually settled, whether or not a
\* response ever arrives.
TimedCallsSettle == \A c \in Calls : (c \in timer) ~> (promise[c] \in Settled)

\* The tracker implements SettleOnce: whatever the order of responses, timers,
\* aborts and connection losses, and even when ids are reused, it never
\* settles a promise a second time.
SO == INSTANCE SettleOnce
SettlesOnce == SO!SSpec

\* The inductive invariant behind the three safety properties.
TrackerInv == TypeOK /\ EntriesPending /\ TrackedHaveIds /\ HeldIffPending /\ NoStrayCallbacks
=============================================================================
