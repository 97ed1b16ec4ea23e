-------------------------- MODULE CrossBusDispatch --------------------------
(***************************************************************************)
(* One request walking the merged priority chains of several buses         *)
(* (core/bus-core: methods/request/dispatch.ts, merged-list.ts,            *)
(* getMatchingHandlers.ts and handleRequestMessage in                      *)
(* registries/transport-registry.ts).                                      *)
(*                                                                         *)
(* The buses form a tree; advertisements have converged, so every bus      *)
(* knows, per neighbour, the priorities of all handlers behind it (module  *)
(* AdvertisedState).  Each hop awaits the next one: the buses that are     *)
(* dispatching the request form a stack.                                   *)
(*                                                                         *)
(* All hops of a request carry its correlation id.  A bus that sends the   *)
(* request over a transport which still awaits an answer to it overwrites  *)
(* the tracker's entry (module CorrelationTracker): the earlier send never *)
(* sees its answer and ends with its deadline.  Only a websocket server    *)
(* gives every send an id of its own; it also never sends a request back   *)
(* to the client it came from.  Other uses of deadlines, and cancellation, *)
(* are the subject of module RequestDispatch and are left out.             *)
(***************************************************************************)
EXTENDS Naturals, Sequences, FiniteSets

CONSTANTS
    Nodes,       \* the buses
    Origins,     \* the buses whose callers may issue the request
    Via,         \* Via[n][k]: the neighbour of n on the path to k
    Servers,     \* the buses whose transports are websocket servers, with one
                 \* client each
    Rank,        \* arrival order of the neighbours' subscriptions (tie-break)
    Priorities,  \* handler priorities
    MaxHops,     \* bound: messages sent for the request
    NoCursor

ASSUME CrossBusAssumption ==
    /\ Origins \subseteq Nodes
    /\ Servers \subseteq Nodes
    /\ Via \in [Nodes -> [Nodes -> Nodes]]
    \* a route never leads straight back
    /\ \A n, k \in Nodes : k # n /\ Via[n][k] # k => Via[Via[n][k]][k] # n
    /\ IsFiniteSet(Nodes) /\ IsFiniteSet(Priorities)
    /\ Rank \in [Nodes -> Nat]
    /\ \A m, n \in Nodes : Rank[m] = Rank[n] => m = n
    /\ Priorities \subseteq Nat
    /\ MaxHops \in Nat
    /\ NoCursor \notin Nat

VARIABLES
    origin,    \* the bus whose caller issued the request
    handlers,  \* handlers[n]: priorities of the request handlers on bus n
    stack,     \* the dispatches in progress, each awaiting the one above it
    lost,      \* the dispatches, by position, whose pending entry is overwritten
    hops,      \* requests sent between buses so far
    outcome,   \* what the caller of request() saw
    runs,      \* history: how often each handler ran
    answered   \* history: a handler has set a result

vars == <<origin, handlers, stack, lost, hops, outcome, runs, answered>>

Outcomes == {"pending", "result", "error", "nohandler"}

\* A merged entry: a local handler or a pointer to a transport.
Entry == [kind : {"local", "remote"}, t : Nodes, p : Priorities]

LocalEntries(n) == {[kind |-> "local", t |-> n, p |-> p] : p \in handlers[n]}
RemoteEntries(n) ==
    UNION {{[kind |-> "remote", t |-> Via[n][k], p |-> p] : p \in handlers[k]} : k \in Nodes \ {n}}
Merged(n) == LocalEntries(n) \union RemoteEntries(n)

\* the comparator of buildMergedList: priority descending, local before remote
\* on ties, otherwise stable
Before(x, y) ==
    \/ x.p > y.p
    \/ x.p = y.p /\ x.kind = "local" /\ y.kind = "remote"
    \/ x.p = y.p /\ x.kind = y.kind /\ Rank[x.t] < Rank[y.t]

Head1(S) == CHOOSE x \in S : \A y \in S \ {x} : Before(x, y)
Last1(S) == CHOOSE x \in S : \A y \in S \ {x} : Before(y, x)

\* mutant: no entry at the cursor's priority is ever included
FromCursorBelow(M, cursor) == {x \in M : cursor = NoCursor \/ x.p + 1 < cursor}

\* resolveStartIndex: the entries strictly below the incoming cursor
FromCursor(M, cursor) == {x \in M : cursor = NoCursor \/ x.p < cursor}

\* mutant: the equal-priority adjustment is missing
RemoteCursorNoBump(n, e, incoming) ==
    LET above == {x \in Merged(n) : Before(x, e)}
    IN IF above = {} THEN incoming ELSE Last1(above).p

\* resolveRemoteCursor: the priority of the merged entry just above this one,
\* plus one when it is the same priority; the incoming cursor when there is none
RemoteCursor(n, e, incoming) ==
    LET above == {x \in Merged(n) : Before(x, e)}
        base  == Last1(above).p
    IN IF above = {} THEN incoming
       ELSE IF base = e.p THEN base + 1 ELSE base

\* the dispatch a received request starts
Frame(n, cursor) == [node |-> n, todo |-> FromCursor(Merged(n), cursor), cursor |-> cursor, err |-> FALSE]

Top == stack[Len(stack)]
Under == SubSeq(stack, 1, Len(stack) - 1)

Dispatch == [node : Nodes, todo : SUBSET Entry, cursor : Nat \union {NoCursor}, err : BOOLEAN]

TypeOK ==
    /\ origin \in Origins
    /\ handlers \in [Nodes -> SUBSET Priorities]
    /\ stack \in Seq(Dispatch)
    /\ lost \in SUBSET Nat
    /\ hops \in 0..MaxHops
    /\ outcome \in Outcomes
    /\ runs \in [Nodes -> [Priorities -> Nat]]
    /\ answered \in BOOLEAN

Init ==
    /\ origin \in Origins
    /\ handlers \in [Nodes -> SUBSET Priorities]
    /\ stack = <<[node |-> origin, todo |-> Merged(origin), cursor |-> NoCursor, err |-> FALSE]>>
    /\ lost = {}
    /\ hops = 0
    /\ outcome = "pending"
    /\ runs = [n \in Nodes |-> [p \in Priorities |-> 0]]
    /\ answered = FALSE

-----------------------------------------------------------------------------
\* Dispatch i would send the request to the client it came from, which a
\* server does not do.
SentBack(i, t) == i > 1 /\ stack[i].node \in Servers /\ stack[i - 1].node = t

\* The dispatches of the bus on top that await neighbour t under the id it is
\* about to send: the id is the same unless a server has sent in between.
Overwritten(t) ==
    {i \in 1..(Len(stack) - 1) : /\ stack[i].node = Top.node /\ stack[i + 1].node = t
                                 /\ \A j \in i..Len(stack) : stack[j].node \notin Servers}

\* The dispatch on top of the stack ends without a result.  Its sender drops
\* the entry it was waiting on and goes on, remembering an error, if it still
\* takes the answer; at the origin the caller sees the end.
Unhandled(v) ==
    IF Len(stack) = 1
    THEN stack' = <<>> /\ outcome' = v
    ELSE LET sender == stack[Len(stack) - 1]
         IN /\ stack' = IF Len(stack) - 1 \in lost THEN Under
                        ELSE [Under EXCEPT ![Len(stack) - 1] =
                                [sender EXCEPT !.todo = @ \ {Head1(@)}, !.err = @ \/ v = "error"]]
            /\ outcome' = outcome

\* the dispatch on top is at work
AtWork == stack # <<>> /\ Len(stack) \notin lost

Dispatching(kind) ==
    /\ AtWork
    /\ Top.todo # {}
    /\ Head1(Top.todo).kind = kind

Ran == runs' = [runs EXCEPT ![Top.node][Head1(Top.todo).p] = @ + 1]

\* a local handler calls neither setResult() nor next(): auto-advance
HandlerDefers ==
    /\ Dispatching("local")
    /\ Ran
    /\ stack' = [stack EXCEPT ![Len(stack)].todo = @ \ {Head1(@)}]
    /\ UNCHANGED <<origin, handlers, lost, hops, outcome, answered>>

\* a local handler sets a result: every waiting hop hands it back, down to the
\* caller or to one that no longer takes it
HandlerAnswers ==
    /\ Dispatching("local")
    /\ Ran
    /\ answered' = TRUE
    /\ \/ lost = {} /\ stack' = <<>> /\ outcome' = "result"
       \/ \E i \in lost : /\ \A j \in lost : j <= i
                          /\ stack' = SubSeq(stack, 1, i)
                          /\ outcome' = outcome
    /\ UNCHANGED <<origin, handlers, lost, hops>>

\* a local handler throws: this bus's chain ends with a RequestError
HandlerThrows ==
    /\ Dispatching("local")
    /\ Ran
    /\ Unhandled("error")
    /\ UNCHANGED <<origin, handlers, lost, hops, answered>>

\* a remote entry: the request is sent with a cursor and the peer dispatches it
SendToPeer ==
    /\ Dispatching("remote")
    /\ hops < MaxHops
    /\ LET e == Head1(Top.todo)
       IN /\ ~SentBack(Len(stack), e.t)
          /\ stack' = Append(stack, Frame(e.t, RemoteCursor(Top.node, e, Top.cursor)))
          /\ lost' = lost \union Overwritten(e.t)
    /\ hops' = hops + 1
    /\ UNCHANGED <<origin, handlers, outcome, runs, answered>>

SkipEntry(failed) ==
    stack' = [stack EXCEPT ![Len(stack)].todo = @ \ {Head1(@)}, ![Len(stack)].err = @ \/ failed]

\* a server finds no client but the one the request came from: it reports
\* NoHandlerError and its bus goes on to the next entry
SendRefused ==
    /\ Dispatching("remote")
    /\ SentBack(Len(stack), Head1(Top.todo).t)
    /\ SkipEntry(FALSE)
    /\ UNCHANGED <<origin, handlers, lost, hops, outcome, runs, answered>>

\* the transport fails to send: skip the entry, remember the error
SendFails ==
    /\ Dispatching("remote")
    /\ ~SentBack(Len(stack), Head1(Top.todo).t)
    /\ SkipEntry(TRUE)
    /\ UNCHANGED <<origin, handlers, lost, hops, outcome, runs, answered>>

\* no entry left: rethrow the first transport error, or report no handler
Exhausted ==
    /\ AtWork
    /\ Top.todo = {}
    /\ Unhandled(IF Top.err THEN "error" ELSE "nohandler")
    /\ UNCHANGED <<origin, handlers, lost, hops, runs, answered>>

\* the deadline of a send whose answer had no pending entry to go to: the
\* chain ends with a TimeoutError
LostSendTimesOut ==
    /\ stack # <<>> /\ Len(stack) \in lost
    /\ Unhandled("error")
    /\ lost' = lost \ {Len(stack)}
    /\ UNCHANGED <<origin, handlers, hops, runs, answered>>

Next ==
    \/ HandlerDefers \/ HandlerAnswers \/ HandlerThrows
    \/ SendToPeer \/ SendRefused \/ SendFails \/ Exhausted \/ LostSendTimesOut

Spec == Init /\ [][Next]_vars

-----------------------------------------------------------------------------
(* Properties. *)

\* NoHandlerError means that every handler on every bus declined the request:
\* the priority cursors never make a receiving bus skip one.
NobodySkipped ==
    outcome = "nohandler" => \A n \in Nodes : \A p \in handlers[n] : runs[n][p] > 0

\* The handlers of bus k lie behind a client that a server, among the first j
\* dispatches, may not send the request back to: the client serves them itself.
Excused(j, k) == \E i \in 1..j : k # stack[i].node /\ SentBack(i, Via[stack[i].node][k])

\* A handler on any bus runs only after every handler of higher priority on
\* every bus has run, unless a handler threw, a transport failed or a server may
\* not send the request back: the chain "proceeds in strict priority order", as
\* handleRequestMessage promises.  The design note of executeRemoteEntry says
\* otherwise, that a hop runs all its handlers below the cursor before it
\* returns; a peer that sends the request back interleaves them.
HigherPriorityFirst ==
    [][\A n \in Nodes : \A p \in handlers[n] : runs'[n][p] > runs[n][p] =>
          \/ \E i \in 1..Len(stack) : stack[i].err
          \/ \A k \in Nodes : \A q \in handlers[k] :
                q > p => runs[k][q] > 0 \/ Excused(Len(stack), k)]_vars

\* Once a handler on any bus has set a result the caller of request() gets a
\* result: no hop on the way back waits for an answer it can no longer take.
AnswerReachesCaller == answered /\ outcome # "pending" => outcome = "result"

-----------------------------------------------------------------------------
(* The inductive invariant behind them. *)

\* the entry of bus n's merged list that stands for handler p of bus k
EntryOf(n, k, p) ==
    IF k = n THEN [kind |-> "local", t |-> n, p |-> p]
             ELSE [kind |-> "remote", t |-> Via[n][k], p |-> p]

Below(p, cursor) == cursor = NoCursor \/ p < cursor

\* A dispatch has left only entries of its bus below its cursor.
TodoBelow ==
    \A i \in 1..Len(stack) : stack[i].todo \subseteq FromCursor(Merged(stack[i].node), stack[i].cursor)

\* A dispatch that awaits another has sent it its first entry, with a cursor
\* above that entry.
Linked ==
    \A i \in 1..(Len(stack) - 1) :
        /\ stack[i].todo # {}
        /\ Head1(stack[i].todo).kind = "remote" /\ Head1(stack[i].todo).t = stack[i + 1].node
        /\ Below(Head1(stack[i].todo).p, stack[i + 1].cursor)

\* The caller's own dispatch carries no cursor.
Rooted == stack # <<>> => stack[1].cursor = NoCursor

\* Every handler below the cursor of an unfailed dispatch is still in its list
\* or has run, or lies behind the peer a server may not send back to.
Covered ==
    \A i \in 1..Len(stack) : ~stack[i].err =>
        \A k \in Nodes : \A p \in handlers[k] :
            Below(p, stack[i].cursor) =>
                \/ EntryOf(stack[i].node, k, p) \in stack[i].todo
                \/ runs[k][p] > 0
                \/ k # stack[i].node /\ SentBack(i, Via[stack[i].node][k])

\* Neither dispatch i nor one that waits for it has failed.
Clean(i) == \A j \in 1..i : ~stack[j].err

\* While nothing has failed, every handler at or above a cursor has run, or is
\* behind the client of a server on the way.
AboveRan ==
    \A i \in 1..Len(stack) : Clean(i - 1) =>
        \A k \in Nodes : \A p \in handlers[k] :
            ~Below(p, stack[i].cursor) => runs[k][p] > 0 \/ Excused(i - 1, k)

\* The caller has seen an end when nothing is being dispatched any more.
Ended == stack = <<>> <=> outcome # "pending"

\* Only dispatches that await or awaited another can have lost their entry.
LostInside == lost \subseteq 1..Len(stack)

\* Every link has a websocket server at one end.
ServersEverywhere == \A n, k \in Nodes : n # k => n \in Servers \/ Via[n][k] \in Servers

StackInv ==
    /\ TypeOK /\ TodoBelow /\ Linked /\ Rooted /\ Covered /\ AboveRan /\ Ended /\ LostInside
    /\ NobodySkipped
    /\ ServersEverywhere => lost = {} /\ (answered <=> outcome = "result")
=============================================================================
