-------------------------- MODULE AdvertisedState --------------------------
(***************************************************************************)
(* How the buses of a topology learn each other's subscriptions to one     *)
(* subject: core/bus-core/src/registries/advertised-state.ts,              *)
(* remote-subscriptions.ts, the registration of a transport in             *)
(* transport-registry.ts and the propagation at the end of methods/on.ts.  *)
(*                                                                         *)
(* A transport joins two buses.  Each side registers and unregisters it on *)
(* its own; messages are queued in order until the receiver takes them.    *)
(* Every handler sends its messages before its first await: one action.    *)
(* The request handlers of different buses have different priorities, so a *)
(* priority is named after the bus that owns the handler.                  *)
(* A push that the transport rejects is logged and never repeated: what it *)
(* would have said is missing until a later push on that link succeeds.    *)
(***************************************************************************)
EXTENDS Naturals, Sequences, FiniteSets

CONSTANTS
    Nodes,     \* the buses
    Links,     \* <<n, m>>: bus n may have a transport to bus m (both directions)
    Via,       \* Via[n][k]: the neighbour of n on the path to k
    HostLocal, \* buses whose schema declares the subject a host-local request
    Faulty,    \* links on which subscribe() and unsubscribe() may be rejected
    MaxOps     \* bound: host operations (handler and transport changes)

ASSUME AdvertisedAssumption ==
    /\ Links \subseteq Nodes \X Nodes
    /\ \A l \in Links : l[1] # l[2] /\ <<l[2], l[1]>> \in Links
    /\ Via \in [Nodes -> [Nodes -> Nodes]]
    /\ HostLocal \subseteq Nodes
    /\ Faulty \subseteq Links
    /\ MaxOps \in Nat

\* The links form a tree and Via routes along it: a bus is on the way from its
\* neighbour to k exactly when the neighbour is not on its own way to k, and
\* the routes of a third bus to two neighbours leave it on the same link.
ASSUME TreeAssumption ==
    /\ IsFiniteSet(Nodes)
    /\ \A n \in Nodes : Via[n][n] = n
    /\ \A n \in Nodes : \A k \in Nodes \ {n} : <<n, Via[n][k]>> \in Links
    /\ \A l \in Links :
          /\ Via[l[1]][l[2]] = l[2]
          /\ \A k \in Nodes \ {l[1]} : Via[l[1]][k] = l[2] <=> Via[l[2]][k] # l[1]
          /\ \A j \in Nodes \ {l[1], l[2]} : Via[j][l[1]] = Via[j][l[2]]

VARIABLES
    req,    \* buses with a local request handler
    evt,    \* buses with a local event handler
    reg,    \* registered transports: <<n, m>> is in n's registry
    dead,   \* links of which one side has unregistered and the other not yet
    rreq,   \* remoteRequestHandlers: rreq[<<n, m>>] is what n learned from m
    revt,   \* remoteEventHandlers: <<n, m>> when m is event-only for n
    cls,    \* remoteSubscriptionDeliveryClasses
    chan,   \* chan[<<n, m>>]: messages sent by n and not yet received by m
    lost,   \* history: <<n, m>> when m lacks n's last word and none is on the way
    ops

vars == <<req, evt, reg, dead, rreq, revt, cls, chan, lost, ops>>

Rev(l) == <<l[2], l[1]>>

Classes == {"none", "relayable", "firstHop"}

Unsubscribe == [type |-> "unsubscribe", prios |-> {}, cls |-> "none"]

Message == {Unsubscribe} \union
    [type : {"subscribe"}, prios : SUBSET Nodes, cls : {"relayable", "firstHop"}]

TypeOK ==
    /\ req \in SUBSET Nodes
    /\ evt \in SUBSET Nodes
    /\ reg \in SUBSET Links
    /\ dead \in SUBSET Links
    /\ rreq \in [Links -> SUBSET Nodes]
    /\ revt \in SUBSET Links
    /\ cls \in [Links -> Classes]
    /\ chan \in [Links -> Seq(Message)]
    /\ lost \in SUBSET Links
    /\ ops \in 0..MaxOps

Init ==
    /\ req = {}
    /\ evt = {}
    /\ reg = {}
    /\ dead = {}
    /\ rreq = [l \in Links |-> {}]
    /\ revt = {}
    /\ cls = [l \in Links |-> "none"]
    /\ chan = [l \in Links |-> <<>>]
    /\ lost = {}
    /\ ops = 0

-----------------------------------------------------------------------------
\* mutant: the delivery class is not looked at
RelayedWhateverClass(n, t) ==
    IF n \in HostLocal THEN {}
    ELSE {m \in Nodes : <<n, m>> \in Links /\ m # t}

\* the peers whose subscriptions n passes on to t: none for a host-local
\* request, never t's own, and only those marked relayable
Relayed(n, t) ==
    IF n \in HostLocal THEN {}
    ELSE {m \in Nodes : <<n, m>> \in Links /\ m # t /\ cls[<<n, m>>] = "relayable"}

\* pushAdvertisedSubject: the one message that tells t all that n offers
Advert(n, t) ==
    LET prios  == (req \intersect {n}) \union UNION {rreq[<<n, m>>] : m \in Relayed(n, t)}
        events == n \in evt \/ \E m \in Relayed(n, t) : <<n, m>> \in revt
    IN IF prios = {} /\ ~events THEN Unsubscribe
       ELSE [ type  |-> "subscribe", prios |-> prios,
              cls   |-> IF n \in HostLocal /\ n \in req \union evt THEN "firstHop" ELSE "relayable" ]

\* n's connected peers but one
Peers(n, except) == {l \in reg \ dead : l[1] = n /\ l[2] # except}

\* pushAdvertisedSubject on several links: every push that is not rejected
\* queues its message.  What is sent on a closed link is lost.
Push(targets, queues, missed) ==
    \E failed \in SUBSET (targets \intersect Faulty) :
        /\ chan' = [l \in Links |-> IF l \in targets \ failed
                                    THEN Append(queues[l], Advert(l[1], l[2])')
                                    ELSE queues[l]]
        /\ lost' = ((lost \intersect reg') \ targets) \union failed \union missed

\* mutant: the sender of the message being handled is not left out
PushToEveryone(n, except, queues) == Push(Peers(n, n)', queues, {})

\* pushAdvertisedSubjectsToPeers: n tells all registered peers but one
PushToPeers(n, except, queues) == Push(Peers(n, except)', queues, {})

HostOp == ops < MaxOps /\ ops' = ops + 1

\* on() and its unsubscribe function, for a request handler
ToggleRequestHandler(n) ==
    /\ HostOp
    /\ req' = (req \ {n}) \union ({n} \ req)
    /\ UNCHANGED <<evt, reg, dead, rreq, revt, cls>>
    /\ PushToPeers(n, n, chan)

\* on() and its unsubscribe function, for an event handler
ToggleEventHandler(n) ==
    /\ HostOp
    /\ evt' = (evt \ {n}) \union ({n} \ evt)
    /\ UNCHANGED <<req, reg, dead, rreq, revt, cls>>
    /\ PushToPeers(n, n, chan)

\* the subject occurs in one of n's handler maps
Known(n) ==
    \/ n \in req \union evt
    \/ \E m \in Nodes : <<n, m>> \in Links /\ cls[<<n, m>>] # "none"

\* syncAllSubjectsToTransport tells the peer of a newly registered transport
Sync(l) == {k \in reg \ dead : k = l /\ Known(l[1])}

\* registerTransport under a free name
Register(l) ==
    /\ HostOp
    /\ l \notin reg \union dead
    /\ reg' = reg \union {l}
    /\ UNCHANGED <<req, evt, dead, rreq, revt, cls>>
    /\ Push(Sync(l)', chan, {})

\* what came through the transport is forgotten
Forget(l) ==
    /\ rreq' = [rreq EXCEPT ![l] = {}]
    /\ revt' = revt \ {l}
    /\ cls' = [cls EXCEPT ![l] = "none"]

\* mutant: the peers are not told
PurgeSilently(l, queues) ==
    /\ Forget(l)
    /\ UNCHANGED <<req, evt>>
    /\ Push({}, queues, {})

\* purgeRemoteHandlersForTransport: forget what came through the transport
\* and tell the other peers if that was anything
Purge(l, queues) ==
    /\ Forget(l)
    /\ UNCHANGED <<req, evt>>
    /\ Push({k \in Peers(l[1], l[2])' : cls[l] # "none"}, queues, {})

\* unregister() of one side: nothing reaches it any more, and the other side
\* is left with a dead link until it unregisters too
Unregister(l) ==
    /\ HostOp
    /\ l \in reg
    /\ reg' = reg \ {l}
    /\ dead' = IF Rev(l) \in reg THEN dead \union {l, Rev(l)} ELSE dead \ {l, Rev(l)}
    /\ Purge(l, [k \in Links |-> IF k = Rev(l) \/ (k = l /\ Rev(l) \notin reg) THEN <<>> ELSE chan[k]])

\* registerTransport of the same transport under its own name: the purge of
\* the old entry tells the other peers, the new entry tells the peer; what had
\* been learned from the peer is gone, and the peer does not know
Replace(l) ==
    /\ HostOp
    /\ l \in reg
    /\ Forget(l)
    /\ UNCHANGED <<req, evt, reg, dead>>
    /\ Push({k \in Peers(l[1], l[2])' : cls[l] # "none"} \union Sync(l)', chan,
            {k \in reg : k = Rev(l) /\ chan[k] = <<>>})

Take(l) == [chan EXCEPT ![l] = Tail(@)]

\* propagateSubscribe: replace what the source offered, then tell the others
ReceiveSubscribe(l) ==
    LET msg == Head(chan[Rev(l)])
    IN /\ chan[Rev(l)] # <<>> /\ l \in reg
       /\ msg.type = "subscribe"
       /\ rreq' = [rreq EXCEPT ![l] = msg.prios]
       /\ revt' = IF msg.prios = {} THEN revt \union {l} ELSE revt \ {l}
       /\ cls' = [cls EXCEPT ![l] = msg.cls]
       /\ UNCHANGED <<req, evt, reg, dead, ops>>
       /\ PushToPeers(l[1], l[2], Take(Rev(l)))

\* propagateUnsubscribe: remove what the source offered, then tell the others
ReceiveUnsubscribe(l) ==
    LET msg == Head(chan[Rev(l)])
    IN /\ chan[Rev(l)] # <<>> /\ l \in reg
       /\ msg.type = "unsubscribe"
       /\ rreq' = [rreq EXCEPT ![l] = {}]
       /\ revt' = revt \ {l}
       /\ cls' = [cls EXCEPT ![l] = "none"]
       /\ UNCHANGED <<req, evt, reg, dead, ops>>
       /\ PushToPeers(l[1], l[2], Take(Rev(l)))

Next ==
    \/ \E n \in Nodes : ToggleRequestHandler(n) \/ ToggleEventHandler(n)
    \/ \E l \in Links : Register(l) \/ Unregister(l) \/ Replace(l)
    \/ \E l \in Links : ReceiveSubscribe(l) \/ ReceiveUnsubscribe(l)

Spec == Init /\ [][Next]_vars

\* a transport delivers what it was given to a registered receiver
FairSpec == Spec /\ \A l \in Links : WF_vars(ReceiveSubscribe(l) \/ ReceiveUnsubscribe(l))

-----------------------------------------------------------------------------
(* Properties. *)

\* j lies on the path from n to k, which are different buses
OnPath(j, n, k) == Via[j][n] # Via[j][k]

\* n may learn of k's handlers: no bus between them treats the subject as
\* host-local, and k itself does not unless it is a direct peer
MayLearn(n, k) ==
    /\ k # n
    /\ k \in HostLocal => <<n, k>> \in Links
    /\ \A j \in HostLocal \ {n, k} : ~OnPath(j, n, k)

\* A route always points towards the bus that owns the handler, never back to
\* the bus itself, and a host-local handler is never known beyond its direct
\* peers, whatever the delays, disconnects and reconnects in between.
RoutesAreLegal ==
    \A l \in Links : \A k \in rreq[l] : MayLearn(l[1], k) /\ Via[l[1]][k] = l[2]

\* The link is up on both sides.
Up(l) == l \in reg /\ Rev(l) \in reg /\ l \notin dead

\* nothing is in flight or missing and every link is up or down on both sides
Quiet == lost = {} /\ \A l \in Links : chan[l] = <<>> /\ (l \in reg <=> Rev(l) \in reg)

\* the links on the path from n to k are up
PathUp(n, k) == \A j \in Nodes \ {k} : OnPath(j, n, k) => Up(<<j, Via[j][k]>>)

\* what a bus knows once everything has arrived
Behind(l, S) == {k \in S : MayLearn(l[1], k) /\ Via[l[1]][k] = l[2] /\ PathUp(l[1], k)}

\* Once all messages have arrived every bus knows exactly the handlers it may
\* know of and can reach: no handler is missing, and no removed handler or
\* broken path leaves a ghost route behind.  A push the transport rejected, and
\* a record the bus dropped by registering a transport again, are not repeated
\* by anything (advertised-state.ts:97-122): until the next push on that link
\* succeeds nothing is promised, and then all is made good.
Converged ==
    Quiet => \A l \in Links :
                /\ rreq[l] = Behind(l, req)
                /\ l \in revt <=> (Behind(l, req) = {} /\ Behind(l, evt) # {})

\* Propagation ends: after the last change of a handler or a transport the
\* messages stop, instead of being passed around for ever.
PropagationEnds == <>[](\A l \in Links : l \in reg => chan[Rev(l)] = <<>>)

-----------------------------------------------------------------------------
(* The inductive invariants behind RoutesAreLegal and Converged. *)

\* What may be said on link l: handlers that the receiver l[1] may know of and
\* reaches through l[2]; a host-local one only where it goes no further.
Allowed(l, prios, class) ==
    /\ \A k \in prios : MayLearn(l[1], k) /\ Via[l[1]][k] = l[2]
    /\ class = "relayable" => prios \intersect HostLocal = {}

\* Every record, and every message still in flight, is allowed.
OffersAllowed ==
    \A l \in Links :
        /\ Allowed(l, rreq[l], cls[l])
        /\ \A i \in 1..Len(chan[Rev(l)]) : Allowed(l, chan[Rev(l)][i].prios, chan[Rev(l)][i].cls)

\* A peer without a delivery class has no record; one with a class and no
\* request handler is event-only.
RecordsFit ==
    \A l \in Links :
        /\ cls[l] = "none" => rreq[l] = {}
        /\ l \in revt <=> (cls[l] # "none" /\ rreq[l] = {})

\* A dead link has one registered end; a bus keeps no record of a peer it has
\* unregistered, and nothing is left of a peer that is not there.
LinksFit ==
    \A l \in Links :
        /\ l \in dead => Rev(l) \in dead /\ (l \in reg <=> Rev(l) \notin reg)
        /\ l \notin reg => cls[l] = "none"
        /\ Rev(l) \notin reg /\ l \notin dead => chan[Rev(l)] = <<>> /\ cls[l] = "none"

\* what l[1] has recorded of l[2], as the message that said it
Recorded(l) ==
    IF cls[l] = "none" THEN Unsubscribe
    ELSE [type |-> "subscribe", prios |-> rreq[l], cls |-> cls[l]]

\* what l[1] will have recorded of l[2] once all has arrived
LastWord(l) == IF chan[Rev(l)] = <<>> THEN Recorded(l) ELSE chan[Rev(l)][Len(chan[Rev(l)])]

\* The last word on a link is what its sender offers now, unless it is lost.
Synced == \A l \in Links : Rev(l) \in (reg \ dead) \ lost => LastWord(l) = Advert(l[2], l[1])

RouteInv == TypeOK /\ OffersAllowed

SyncInv == TypeOK /\ RecordsFit /\ LinksFit /\ Synced
=============================================================================
