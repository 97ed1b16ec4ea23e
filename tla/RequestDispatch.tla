--------------------------- MODULE RequestDispatch ---------------------------
(***************************************************************************)
(* One request on one bus: request() in core/bus-core/src/methods/         *)
(* request.ts, the readiness gate and the walk along the merged chain of   *)
(* local handlers and remote entries in methods/request/dispatch.ts, with  *)
(* the deadline and the caller's AbortSignal running against them.         *)
(*                                                                         *)
(* Positions 1..N are the merged list, in order; N + 1 is the end of the   *)
(* chain and 0 is dispatch() itself.  A handler calls ctx.next() at most   *)
(* once and not after it has returned, so a position starts at most once.  *)
(* Handlers and peers are free to answer late, badly or never.             *)
(***************************************************************************)
EXTENDS Naturals, FiniteSets

CONSTANTS
    N,         \* length of the merged list
    TimedSet   \* subset of BOOLEAN: whether requests have a timeout

ASSUME DispatchAssumption == N \in Nat \ {0} /\ TimedSet \subseteq BOOLEAN

Positions == 1..N
End == N + 1

VARIABLES
    kind,      \* "local" or "remote", per position
    timed,     \* the request has a deadline
    gone,      \* remote positions whose transport is no longer registered
    gate,      \* the readiness gate
    down,      \* down[i]: the position whose outcome i awaits; 0 for none
    ent,       \* the execution of every position
    expired,   \* the deadline has passed
    aborted,   \* the caller's signal has fired
    cancelled, \* remote positions whose transport was told to cancel
    dispatched,\* what dispatch() settled to
    caller     \* what request() settled to

vars == <<kind, timed, gone, gate, down, ent, expired, aborted, cancelled, dispatched, caller>>

Failures == {"abort", "timeout", "error"}
Outcomes == {"none", "handled", "unhandled"} \union Failures

Execution ==
    [ st  : {"idle", "running", "waiting", "sent", "done"},
      has : BOOLEAN,                                      \* hasResult
      err : {"none", "timeout", "error"},                 \* firstTransportError
      ans : {"none", "ok", "nohandler", "timeout", "error", "abort"}, \* the awaited send
      out : Outcomes ]

Idle == [st |-> "idle", has |-> FALSE, err |-> "none", ans |-> "none", out |-> "none"]

TypeOK ==
    /\ kind \in [Positions -> {"local", "remote"}]
    /\ timed \in BOOLEAN
    /\ gone \in SUBSET Positions
    /\ gate \in {"new", "pending", "open", "abort", "passed"}
    /\ down \in [0..N -> 0..End]
    /\ ent \in [1..End -> Execution]
    /\ expired \in BOOLEAN /\ aborted \in BOOLEAN
    /\ cancelled \in SUBSET Positions
    /\ dispatched \in Outcomes
    /\ caller \in Outcomes

Init ==
    /\ kind \in [Positions -> {"local", "remote"}]
    /\ timed \in TimedSet
    /\ gone = {}
    /\ gate = "new"
    /\ down = [i \in 0..N |-> 0]
    /\ ent = [i \in 1..End |-> Idle]
    /\ expired = FALSE
    /\ aborted = FALSE
    /\ cancelled = {}
    /\ dispatched = "none"
    /\ caller = "none"

-----------------------------------------------------------------------------
Least(S) == CHOOSE x \in S : \A y \in S : x <= y

\* where stepDispatch(i) gets to: it stops at i when the deadline has passed,
\* and skips remote entries whose transport is gone
Target(i) ==
    IF i <= N /\ expired THEN i
    ELSE Least({j \in i..End : j = End \/ kind[j] = "local" \/ j \notin gone})

Done(o) == [Idle EXCEPT !.st = "done", !.out = o]

\* mutant: a transport error is forgotten at the end of the chain
AtEndForgetsError(e) == Done("unhandled")

\* the end of the chain rethrows the first transport error
AtEnd(e) == Done(IF e = "none" THEN "unhandled" ELSE e)

\* mutant: the signal is not checked before sending
ExecuteIgnoringSignal(j, e) ==
    [Idle EXCEPT !.st = IF kind[j] = "local" THEN "running" ELSE "sent", !.err = e]

\* an aborted request still runs local handlers but sends nothing
Execute(j, e) ==
    IF kind[j] = "remote" /\ aborted THEN Done("abort")
    ELSE [Idle EXCEPT !.st = IF kind[j] = "local" THEN "running" ELSE "sent", !.err = e]

\* mutant: the deadline is not checked when the chain advances
StartedLate(j, e) == IF j = End THEN AtEnd(e) ELSE Execute(j, e)

\* what stepDispatch() with first transport error e makes of its target j: an
\* expired deadline throws before the entry runs
Started(j, e) ==
    IF j = End THEN AtEnd(e) ELSE IF expired THEN Done("timeout") ELSE Execute(j, e)

\* p calls stepDispatch(i, e); mine is the new state of p itself
Step(p, mine, i, e) ==
    LET j == Target(i)
    IN /\ down' = [down EXCEPT ![p] = j]
       /\ ent' = [k \in 1..End |-> IF k = j THEN Started(j, e) ELSE IF k = p THEN mine ELSE ent[k]]
       /\ cancelled' = IF j \in Positions /\ Started(j, e).out = "abort"
                       THEN cancelled \union {j} ELSE cancelled

\* request() calls dispatch(), which waits at the gate when a transport is
\* pending, and then rejects at once if the signal had fired before
Begin ==
    /\ gate = "new"
    /\ \/ /\ gate' = IF aborted THEN "abort" ELSE "pending"
          /\ UNCHANGED <<down, ent, cancelled>>
       \/ /\ gate' = "passed"
          /\ Step(0, Idle, 1, "none")
    /\ caller' = IF aborted THEN "abort" ELSE caller
    /\ UNCHANGED <<kind, timed, gone, expired, aborted, dispatched>>

\* the pending transports become ready
TransportsReady ==
    /\ gate = "pending"
    /\ gate' = "open"
    /\ UNCHANGED <<kind, timed, gone, down, ent, expired, aborted, cancelled, dispatched, caller>>

\* mutant: a zero budget is armed as "no cap"
GateTimerNeverFires == FALSE /\ UNCHANGED vars

\* the readiness budget, clamped to the deadline, runs out
GateTimer ==
    /\ gate = "pending"
    /\ gate' = "open"
    /\ UNCHANGED <<kind, timed, gone, down, ent, expired, aborted, cancelled, dispatched, caller>>

\* dispatch() goes on after the gate
GateResumes ==
    /\ gate \in {"open", "abort"}
    /\ gate' = "passed"
    /\ IF gate = "abort" \/ expired
       THEN /\ dispatched' = IF gate = "abort" THEN "abort" ELSE "timeout"
            /\ UNCHANGED <<down, ent, cancelled>>
       ELSE /\ Step(0, Idle, 1, "none")
            /\ UNCHANGED dispatched
    /\ UNCHANGED <<kind, timed, gone, expired, aborted, caller>>

-----------------------------------------------------------------------------
(* Local handlers. *)

Running(i) == i \in Positions /\ ent[i].st = "running"

\* ctx.setResult()
HandlerSetsResult(i) ==
    /\ Running(i) /\ ~ent[i].has
    /\ ent' = [ent EXCEPT ![i].has = TRUE]
    /\ UNCHANGED <<kind, timed, gone, gate, down, expired, aborted, cancelled, dispatched, caller>>

HandlerCallsNext(i) ==
    /\ Running(i) /\ down[i] = 0
    /\ Step(i, ent[i], i + 1, ent[i].err)
    /\ UNCHANGED <<kind, timed, gone, gate, expired, aborted, dispatched, caller>>

\* the handler returns: await next(), or take the result, or auto-advance
HandlerReturns(i) ==
    /\ Running(i)
    /\ \/ /\ down[i] # 0
          /\ ent' = [ent EXCEPT ![i].st = "waiting"]
          /\ UNCHANGED <<down, cancelled>>
       \/ /\ down[i] = 0 /\ ent[i].has
          /\ ent' = [ent EXCEPT ![i].st = "done", ![i].out = "handled"]
          /\ UNCHANGED <<down, cancelled>>
       \/ /\ down[i] = 0 /\ ~ent[i].has
          /\ Step(i, [ent[i] EXCEPT !.st = "waiting"], i + 1, ent[i].err)
    /\ UNCHANGED <<kind, timed, gone, gate, expired, aborted, dispatched, caller>>

\* the handler throws: its own error, the abort reason, or what next() threw
HandlerThrows(i, o) ==
    /\ Running(i)
    /\ \/ o = "error"
       \/ o = "abort" /\ aborted
       \/ o = "timeout" /\ down[i] # 0 /\ ent[down[i]].out = "timeout"
    /\ ent' = [ent EXCEPT ![i].st = "done", ![i].out = o]
    /\ UNCHANGED <<kind, timed, gone, gate, down, expired, aborted, cancelled, dispatched, caller>>

\* the outcome of an entry whose downstream ended with o
Merge(r, o) == IF o = "unhandled" /\ r.has THEN "handled" ELSE o

\* the downstream promise settles for an entry that awaits it
DownstreamSettles(i) ==
    /\ ent[i].st = "waiting" /\ ent[down[i]].st = "done"
    /\ ent' = [ent EXCEPT ![i].st = "done", ![i].out = Merge(ent[i], ent[down[i]].out)]
    /\ UNCHANGED <<kind, timed, gone, gate, down, expired, aborted, cancelled, dispatched, caller>>

-----------------------------------------------------------------------------
(* Remote entries. *)

\* the peer answers, or the transport fails
PeerAnswers(i, a) ==
    /\ ent[i].st = "sent" /\ ent[i].ans = "none"
    /\ ent' = [ent EXCEPT ![i].ans = a]
    /\ UNCHANGED <<kind, timed, gone, gate, down, expired, aborted, cancelled, dispatched, caller>>

\* the transport's timer for the remaining time fires
SendTimesOut(i) ==
    /\ expired
    /\ ent[i].st = "sent" /\ ent[i].ans = "none"
    /\ ent' = [ent EXCEPT ![i].ans = "timeout"]
    /\ UNCHANGED <<kind, timed, gone, gate, down, expired, aborted, cancelled, dispatched, caller>>

First(e, a) == IF e = "none" THEN a ELSE e

\* mutant: the abort is not forwarded
ResumeWithoutCancel(i) ==
    /\ ent[i].st = "sent" /\ ent[i].ans = "abort"
    /\ ent' = [ent EXCEPT ![i].st = "done", ![i].out = "abort"]
    /\ UNCHANGED <<kind, timed, gone, gate, down, expired, aborted, cancelled, dispatched, caller>>

\* cancelled while waiting: forward the cancellation and end the chain
RemoteCancelled(i) ==
    /\ ent[i].st = "sent" /\ ent[i].ans = "abort"
    /\ ent' = [ent EXCEPT ![i].st = "done", ![i].out = "abort"]
    /\ cancelled' = cancelled \union {i}
    /\ UNCHANGED <<kind, timed, gone, gate, down, expired, aborted, dispatched, caller>>

RemoteAnswered(i) ==
    /\ ent[i].st = "sent" /\ ent[i].ans = "ok"
    /\ ent' = [ent EXCEPT ![i].st = "done", ![i].out = "handled"]
    /\ UNCHANGED <<kind, timed, gone, gate, down, expired, aborted, cancelled, dispatched, caller>>

\* NoHandlerError or another failure: nothing follows once the caller has
\* aborted; otherwise skip to the next entry, carrying the first failure
RemoteFailed(i) ==
    LET a == ent[i].ans
    IN /\ ent[i].st = "sent" /\ a \in {"nohandler", "timeout", "error"}
       /\ IF aborted
          THEN /\ ent' = [ent EXCEPT ![i].st = "done", ![i].out = IF a = "timeout" THEN a ELSE "error"]
               /\ UNCHANGED <<down, cancelled>>
          ELSE Step(i, [ent[i] EXCEPT !.st = "waiting"], i + 1,
                    IF a = "nohandler" THEN ent[i].err ELSE First(ent[i].err, a))
       /\ UNCHANGED <<kind, timed, gone, gate, expired, aborted, dispatched, caller>>

-----------------------------------------------------------------------------
(* The environment and the caller. *)

\* dispatch() settles with the outcome of the first entry it stepped to
DispatchSettles ==
    /\ dispatched = "none" /\ down[0] # 0
    /\ ent[down[0]].st = "done"
    /\ dispatched' = ent[down[0]].out
    /\ UNCHANGED <<kind, timed, gone, gate, down, ent, expired, aborted, cancelled, caller>>

Expire ==
    /\ timed /\ ~expired /\ gate # "new"
    /\ expired' = TRUE
    /\ UNCHANGED <<kind, timed, gone, gate, down, ent, aborted, cancelled, dispatched, caller>>

Rejected(r) == IF r.st = "sent" /\ r.ans = "none" THEN [r EXCEPT !.ans = "abort"] ELSE r

\* mutant: without a timeout the signal is not raced against the operation
RejectAwaitsWhenTimed ==
    /\ gate' = IF timed /\ gate = "pending" THEN "abort" ELSE gate
    /\ ent' = [i \in 1..End |-> IF timed THEN Rejected(ent[i]) ELSE ent[i]]
    /\ caller' = IF timed /\ caller = "none" /\ gate # "new" THEN "abort" ELSE caller

\* every await raced against the signal rejects unless it has settled: the
\* gate, the sends in progress and request() itself
RejectAwaits ==
    /\ gate' = IF gate = "pending" THEN "abort" ELSE gate
    /\ ent' = [i \in 1..End |-> Rejected(ent[i])]
    /\ caller' = IF caller = "none" /\ gate # "new" THEN "abort" ELSE caller

\* the caller's signal fires
Abort ==
    /\ ~aborted
    /\ aborted' = TRUE
    /\ RejectAwaits
    /\ UNCHANGED <<kind, timed, gone, down, expired, cancelled, dispatched>>

TransportGone(i) ==
    /\ kind[i] = "remote" /\ i \notin gone
    /\ gone' = gone \union {i}
    /\ UNCHANGED <<kind, timed, gate, down, ent, expired, aborted, cancelled, dispatched, caller>>

\* request() settles with dispatch() or with its timer
CallerSettles ==
    /\ caller = "none"
    /\ \/ /\ dispatched # "none"
          /\ caller' = dispatched
       \/ /\ expired
          /\ caller' = "timeout"
    /\ UNCHANGED <<kind, timed, gone, gate, down, ent, expired, aborted, cancelled, dispatched>>

Remote(i) == RemoteCancelled(i) \/ RemoteAnswered(i) \/ RemoteFailed(i)

Next ==
    \/ Begin \/ TransportsReady \/ GateTimer \/ GateResumes
    \/ \E i \in Positions :
          \/ HandlerSetsResult(i) \/ HandlerCallsNext(i) \/ HandlerReturns(i)
          \/ \E o \in Failures : HandlerThrows(i, o)
          \/ DownstreamSettles(i)
          \/ \E a \in {"ok", "nohandler", "error"} : PeerAnswers(i, a)
          \/ SendTimesOut(i) \/ Remote(i)
          \/ TransportGone(i)
    \/ DispatchSettles \/ CallerSettles \/ Expire \/ Abort

Spec == Init /\ [][Next]_vars

\* Timers fire, continuations run and local handlers end.  Nothing obliges a
\* peer to answer, a transport to become ready or the caller to abort.
FairSpec ==
    /\ Spec
    /\ WF_vars(Begin) /\ WF_vars(GateTimer) /\ WF_vars(GateResumes)
    /\ WF_vars(DispatchSettles) /\ WF_vars(CallerSettles) /\ WF_vars(Expire)
    /\ \A i \in Positions :
          /\ WF_vars(HandlerReturns(i) \/ \E o \in Failures : HandlerThrows(i, o))
          /\ WF_vars(DownstreamSettles(i))
          /\ WF_vars(SendTimesOut(i))
          /\ WF_vars(Remote(i))

-----------------------------------------------------------------------------
(* Properties. *)

\* Once the deadline has passed no further handler or remote hop starts, even
\* when a slow handler finishes late and then advances the chain.
NothingStartsLate ==
    [][expired => \A i \in Positions : ent[i].st = "idle" => ent'[i].st # "running" /\ ent'[i].st # "sent"]_vars

\* An aborted request sends nothing more: no fallback to another transport
\* starts after the caller has cancelled.
NothingSentAfterAbort ==
    [][aborted => \A i \in Positions : ent[i].st = "idle" => ent'[i].st # "sent"]_vars

\* request() reports a missing handler only when every entry declined: no
\* handler's result and no transport's failure is ever taken for "nobody there".
NoHandlerMeansDeclined ==
    caller = "unhandled" =>
        \A i \in Positions : /\ ent[i].st = "done" \/ i \in gone
                             /\ ~ent[i].has /\ ent[i].ans \notin {"ok", "timeout", "error", "abort"}

\* A remote hop given up because of the caller's abort has told its transport.
AbortIsForwarded ==
    \A i \in Positions : kind[i] = "remote" /\ ent[i].st = "done" /\ ent[i].ans = "abort" => i \in cancelled

\* Every request with a timeout comes to an end inside the bus as well as for
\* its caller, with peers that never answer and transports that never get ready.
TimedDispatchEnds == timed ~> (dispatched # "none" /\ caller # "none")

\* A cancelled request settles for its caller, with or without a timeout.
AbortedCallerReturns == (aborted /\ gate # "new") ~> (caller # "none")
-----------------------------------------------------------------------------
(* The inductive invariant behind NoHandlerMeansDeclined and AbortIsForwarded. *)

Reached(i) == i = 0 \/ ent[i].st # "idle"

\* A position links to a later one, with nothing but gone transports between
\* them; a position that links to none is the last one reached.
Chain ==
    /\ gate # "passed" => down[0] = 0
    /\ \A i \in 0..N :
          /\ down[i] # 0 => /\ down[i] > i
                            /\ ent[down[i]].st # "idle"
                            /\ \A k \in Positions : i < k /\ k < down[i] => k \in gone /\ ent[k] = Idle
          /\ Reached(i) /\ down[i] = 0 => \A k \in 1..End : k > i => ent[k] = Idle
    /\ \A i \in Positions : ent[i].st \in {"idle", "sent"} => down[i] = 0
    /\ \A i \in Positions : ent[i].st = "waiting" => down[i] # 0
    /\ ent[End].st \in {"idle", "done"}

\* Which answers go with which state of an execution.
Answered ==
    \A i \in Positions :
        /\ ent[i].st \in {"idle", "running"} => ent[i].ans = "none"
        /\ ent[i].st = "waiting" => ent[i].ans \in {"none", "nohandler", "timeout", "error"}
        /\ ent[i].ans = "ok" /\ ent[i].st = "done" => ent[i].out = "handled"
        /\ ent[i].ans = "abort" /\ ent[i].st = "done" => ent[i].out = "abort" /\ i \in cancelled

\* A failed hop is remembered by everything that runs after it.
FailureCarried ==
    \A i \in Positions : ent[i].ans \in {"timeout", "error"} =>
        \A k \in 1..End : k > i =>
            /\ ent[k].out # "unhandled"
            /\ ent[k].st \in {"running", "waiting", "sent"} => ent[k].err # "none"

\* the entry declined, or was passed over
Declined(k) ==
    \/ ent[k].st = "done" /\ ~ent[k].has /\ ent[k].ans \in {"none", "nohandler"}
    \/ ent[k] = Idle /\ k \in gone

\* An entry is unhandled when the chain was walked to its end and every entry
\* from there on declined.
UnhandledMeansDeclined ==
    \A i \in 1..End : ent[i].out = "unhandled" =>
        /\ ent[i].st = "done" /\ ent[End].st = "done"
        /\ \A k \in Positions : k >= i => Declined(k)

Settled ==
    /\ \A i \in 1..End : ent[i].st # "done" => ent[i].out = "none"
    /\ \A o \in {dispatched, caller} : o = "unhandled" => down[0] # 0 /\ ent[down[0]].out = "unhandled"

DispatchInv == TypeOK /\ Chain /\ Answered /\ FailureCarried /\ UnhandledMeansDeclined /\ Settled
=============================================================================
