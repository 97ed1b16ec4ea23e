----------------------- MODULE AdvertisedStateProofs -----------------------
(***************************************************************************)
(* Proofs about AdvertisedState for every finite tree of buses, every set  *)
(* of buses that declare the subject host-local and every number of host   *)
(* operations.                                                             *)
(***************************************************************************)
EXTENDS AdvertisedState, FiniteSetTheorems, SequenceTheorems, WellFoundedInduction, TLAPS

\* A link joins two buses and has a reverse.
LEMMA LinkFacts ==
  ASSUME NEW l \in Links
  PROVE  /\ l[1] \in Nodes /\ l[2] \in Nodes /\ l[1] # l[2] /\ l = <<l[1], l[2]>>
         /\ Rev(l) \in Links /\ Rev(l)[1] = l[2] /\ Rev(l)[2] = l[1]
         /\ Rev(Rev(l)) = l /\ Rev(l) # l
  BY AdvertisedAssumption DEF Rev

-----------------------------------------------------------------------------
(* What the buses offer, as functions of the link. *)

Adverts == [l \in Links |-> Advert(l[1], l[2])]

RecTyped ==
    /\ req \in SUBSET Nodes
    /\ evt \in SUBSET Nodes
    /\ reg \in SUBSET Links
    /\ dead \in SUBSET Links
    /\ rreq \in [Links -> SUBSET Nodes]
    /\ revt \in SUBSET Links
    /\ cls \in [Links -> Classes]
    /\ ops \in 0..MaxOps

RecAllowed == \A l \in Links : Allowed(l, rreq[l], cls[l])

AdvertsOk == \A l \in Links : Allowed(Rev(l), Adverts[l].prios, Adverts[l].cls)

\* The fields of a message.
LEMMA MessageFields ==
  ASSUME NEW msg \in Message
  PROVE  /\ msg.prios \in SUBSET Nodes
         /\ msg.cls \in Classes
         /\ msg.type = "subscribe" => msg.cls # "none"
                                      /\ msg = [type |-> "subscribe", prios |-> msg.prios, cls |-> msg.cls]
         /\ msg.type = "unsubscribe" => msg = Unsubscribe
         /\ msg.type \in {"subscribe", "unsubscribe"}
  BY DEF Message, Unsubscribe, Classes

\* The priorities, the event flag and the class of an advertisement.
OfferedPrios(n, t) == (req \intersect {n}) \union UNION {rreq[<<n, m>>] : m \in Relayed(n, t)}
OfferedEvents(n, t) == n \in evt \/ \E m \in Relayed(n, t) : <<n, m>> \in revt
OfferedClass(n) == IF n \in HostLocal /\ n \in req \union evt THEN "firstHop" ELSE "relayable"

LEMMA AdvertForm ==
  ASSUME NEW n \in Nodes, NEW t \in Nodes
  PROVE  Advert(n, t) = IF OfferedPrios(n, t) = {} /\ ~OfferedEvents(n, t) THEN Unsubscribe
                        ELSE [type |-> "subscribe", prios |-> OfferedPrios(n, t), cls |-> OfferedClass(n)]
  BY DEF Advert, OfferedPrios, OfferedEvents, OfferedClass

\* Its priorities, whether or not it is an unsubscribe.
LEMMA AdvertPrios ==
  ASSUME NEW n \in Nodes, NEW t \in Nodes
  PROVE  Advert(n, t).prios = OfferedPrios(n, t)
  BY AdvertForm DEF Unsubscribe

LEMMA OfferedTyped ==
  ASSUME RecTyped, NEW n \in Nodes, NEW t \in Nodes
  PROVE  OfferedPrios(n, t) \in SUBSET Nodes /\ OfferedClass(n) \in {"relayable", "firstHop"}
  <1>1. \A m \in Relayed(n, t) : rreq[<<n, m>>] \in SUBSET Nodes
    BY DEF RecTyped, Relayed
  <1> QED
    BY <1>1 DEF OfferedPrios, OfferedClass

\* Every advertisement is a message.
LEMMA AdvertsTyped == RecTyped => Adverts \in [Links -> Message]
  <1> SUFFICES ASSUME RecTyped, NEW l \in Links PROVE Advert(l[1], l[2]) \in Message
    BY DEF Adverts
  <1>1. l[1] \in Nodes /\ l[2] \in Nodes
    BY LinkFacts
  <1>2. OfferedPrios(l[1], l[2]) \in SUBSET Nodes /\ OfferedClass(l[1]) \in {"relayable", "firstHop"}
    BY <1>1, OfferedTyped
  <1>3. Unsubscribe \in Message
    BY DEF Message
  <1>4. [type |-> "subscribe", prios |-> OfferedPrios(l[1], l[2]), cls |-> OfferedClass(l[1])] \in Message
    BY <1>2 DEF Message
  <1> QED
    BY <1>1, <1>3, <1>4, AdvertForm

\* A bus may tell a neighbour of its own handlers.
LEMMA OwnHandlerLegal ==
  ASSUME NEW l \in Links
  PROVE  MayLearn(l[2], l[1]) /\ Via[l[2]][l[1]] = l[1]
  <1>1. Rev(l) \in Links /\ Rev(l) = <<l[2], l[1]>> /\ l[1] # l[2] /\ l[1] \in Nodes /\ l[2] \in Nodes
    BY LinkFacts DEF Rev
  <1>2. Via[l[2]][l[1]] = l[1]
    BY <1>1, TreeAssumption
  <1>3. \A j \in HostLocal \ {l[2], l[1]} : Via[j][l[2]] = Via[j][l[1]]
    BY <1>1, TreeAssumption, AdvertisedAssumption
  <1> QED
    BY <1>1, <1>2, <1>3 DEF MayLearn, OnPath

\* A bus on which the subject is not host-local may pass on to a neighbour
\* what it learned from another one, unless that is host-local.
LEMMA PassedOnLegal ==
  ASSUME NEW l \in Links, l[1] \notin HostLocal, NEW k \in Nodes, k \notin HostLocal,
         MayLearn(l[1], k), Via[l[1]][k] # l[2]
  PROVE  MayLearn(l[2], k) /\ Via[l[2]][k] = l[1]
  <1>1. l[1] # l[2] /\ l[1] \in Nodes /\ l[2] \in Nodes /\ Rev(l) = <<l[2], l[1]>> /\ Rev(l) \in Links
    BY LinkFacts DEF Rev
  <1>2. k # l[2]
    BY <1>1, TreeAssumption
  <1>3. Via[l[2]][k] = l[1]
    BY <1>1, <1>2, TreeAssumption
  <1>4. ASSUME NEW j \in HostLocal \ {l[2], k} PROVE ~OnPath(j, l[2], k)
    <2>1. j \in Nodes /\ j # l[1] /\ j # l[2] /\ j # k
      BY AdvertisedAssumption
    <2>2. Via[j][l[1]] = Via[j][k]
      BY <2>1 DEF MayLearn, OnPath
    <2>3. Via[j][l[1]] = Via[j][l[2]]
      BY <2>1, TreeAssumption
    <2> QED
      BY <2>2, <2>3 DEF OnPath
  <1> QED
    BY <1>2, <1>3, <1>4 DEF MayLearn

\* What a bus offers is allowed when what it has recorded is.
LEMMA AdvertsAllowed == RecTyped /\ RecAllowed => AdvertsOk
  <1> SUFFICES ASSUME RecTyped, RecAllowed, NEW l \in Links
               PROVE  Allowed(Rev(l), Adverts[l].prios, Adverts[l].cls)
    BY DEF AdvertsOk
  <1> DEFINE n == l[1]
             t == l[2]
  <1>1. n \in Nodes /\ t \in Nodes /\ Rev(l)[1] = t /\ Rev(l)[2] = n
    BY LinkFacts
  <1>2. Adverts[l].prios = OfferedPrios(n, t)
    BY <1>1, AdvertPrios DEF Adverts
  <1>3. ASSUME NEW k \in OfferedPrios(n, t)
        PROVE  (k = n /\ n \in req) \/ \E m \in Relayed(n, t) : k \in rreq[<<n, m>>]
    BY <1>3 DEF OfferedPrios
  <1>4. ASSUME NEW m \in Relayed(n, t), NEW k \in rreq[<<n, m>>]
        PROVE  MayLearn(t, k) /\ Via[t][k] = n /\ k \notin HostLocal
    <2>1. /\ n \notin HostLocal /\ <<n, m>> \in Links /\ m # t /\ cls[<<n, m>>] = "relayable"
          /\ m \in Nodes
      BY DEF Relayed
    <2>2. k \in Nodes
      BY <2>1 DEF RecTyped
    <2>3. Allowed(<<n, m>>, rreq[<<n, m>>], cls[<<n, m>>])
      BY <2>1 DEF RecAllowed
    <2>4. MayLearn(n, k) /\ Via[n][k] = m /\ k \notin HostLocal
      BY <2>1, <2>3 DEF Allowed
    <2> QED
      BY <2>1, <2>2, <2>4, PassedOnLegal
  <1>5. \A k \in OfferedPrios(n, t) : MayLearn(t, k) /\ Via[t][k] = n
    BY <1>3, <1>4, OwnHandlerLegal
  <1>6. ASSUME Adverts[l].cls = "relayable" PROVE OfferedPrios(n, t) \intersect HostLocal = {}
    <2>1. OfferedPrios(n, t) = {} \/ ~(n \in HostLocal /\ n \in req \union evt)
      <3>1. Adverts[l] = Advert(n, t)
        BY DEF Adverts
      <3> QED
        BY <1>1, <1>6, <3>1, AdvertForm DEF Unsubscribe, OfferedClass
    <2> QED
      BY <1>3, <1>4, <2>1
  <1> QED
    BY <1>1, <1>2, <1>5, <1>6 DEF Allowed

-----------------------------------------------------------------------------
(* Messages. *)

\* TypeOK, the queues and what is missing apart.
LEMMA TypeSplit == TypeOK <=> RecTyped /\ chan \in [Links -> Seq(Message)] /\ lost \in SUBSET Links
  BY DEF TypeOK, RecTyped

\* The links T have been told from the queues q, and the words on M are missing.
Told(T, q, M) ==
    /\ \A l \in Links : l \in T /\ l \notin lost' => chan'[l] = Append(q[l], Adverts'[l])
    /\ \A l \in Links : l \notin T => chan'[l] = q[l]
    /\ \A l \in Links : l \notin T /\ l \in reg' /\ l \notin lost' => l \notin lost
    /\ M \subseteq lost'

\* What pushAdvertisedSubject leaves in the queues.
LEMMA PushEffect ==
  ASSUME RecTyped', lost \in SUBSET Links, NEW T \in SUBSET Links, NEW M \in SUBSET Links,
         NEW q \in [Links -> Seq(Message)], Push(T, q, M)
  PROVE  /\ chan' \in [Links -> Seq(Message)]
         /\ lost' \in SUBSET Links
         /\ Told(T, q, M)
         /\ \A l \in Links : chan'[l] = q[l] \/ chan'[l] = Append(q[l], Adverts'[l])
  <1>1. Adverts' \in [Links -> Message]
    <2>1. (Adverts \in [Links -> Message])'
      BY AdvertsTyped, PTL
    <2> QED
      BY <2>1
  <1>2. \A l \in Links : Adverts'[l] = Advert(l[1], l[2])'
    BY DEF Adverts
  <1>3. PICK F \in SUBSET (T \intersect Faulty) :
          /\ chan' = [l \in Links |-> IF l \in T \ F THEN Append(q[l], Advert(l[1], l[2])') ELSE q[l]]
          /\ lost' = ((lost \intersect reg') \ T) \union F \union M
    BY Zenon DEF Push
  <1>4. \A l \in Links : chan'[l] = IF l \in T \ F THEN Append(q[l], Adverts'[l]) ELSE q[l]
    BY <1>2, <1>3
  <1>5. chan' = [l \in Links |-> chan'[l]]
    BY <1>3
  <1>6. ASSUME NEW l \in Links PROVE chan'[l] \in Seq(Message)
    <2>1. q[l] \in Seq(Message) /\ Adverts'[l] \in Message
      BY <1>1
    <2>2. Append(q[l], Adverts'[l]) \in Seq(Message)
      BY <2>1
    <2> QED
      BY <1>4, <2>1, <2>2
  <1>7. lost' \in SUBSET Links
    BY <1>3
  <1>8. /\ \A l \in Links : l \in T /\ l \notin lost' => l \in T \ F
        /\ \A l \in Links : l \notin T => l \notin T \ F
        /\ \A l \in Links : l \notin T /\ l \in reg' /\ l \notin lost' => l \notin lost
        /\ M \subseteq lost'
    BY <1>3
  <1>9. Told(T, q, M)
    BY <1>4, <1>8, Zenon DEF Told
  <1> QED
    BY <1>4, <1>5, <1>6, <1>7, <1>9

\* The links a push goes to.
LEMMA TargetsAreLinks ==
  ASSUME reg' \in SUBSET Links, NEW n, NEW except, NEW r \in Links
  PROVE  /\ Peers(n, except)' \in SUBSET Links
         /\ Sync(r)' \in SUBSET Links
         /\ {k \in Peers(n, except)' : cls[r] # "none"} \in SUBSET Links
         /\ \A l \in Links : l \in Peers(n, except)' <=> l \in reg' \ dead' /\ l[1] = n /\ l[2] # except
         /\ \A l \in Links : l \in Sync(r)' <=> l \in reg' \ dead' /\ l = r /\ Known(r[1])'
  BY DEF Peers, Sync

\* pushAdvertisedSubjectsToPeers.
LEMMA PeersEffect ==
  ASSUME RecTyped', lost \in SUBSET Links, NEW n, NEW except,
         NEW q \in [Links -> Seq(Message)], PushToPeers(n, except, q)
  PROVE  /\ chan' \in [Links -> Seq(Message)]
         /\ lost' \in SUBSET Links
         /\ Told(Peers(n, except)', q, {})
         /\ \A l \in Links : chan'[l] = q[l] \/ chan'[l] = Append(q[l], Adverts'[l])
         /\ \A l \in Links : l \in Peers(n, except)' <=> l \in reg' \ dead' /\ l[1] = n /\ l[2] # except
  <1>1. reg' \in SUBSET Links
    BY DEF RecTyped
  <1>2. /\ Peers(n, except)' \in SUBSET Links
        /\ \A l \in Links : l \in Peers(n, except)' <=> l \in reg' \ dead' /\ l[1] = n /\ l[2] # except
    BY <1>1 DEF Peers
  <1>3. Push(Peers(n, except)', q, {}) /\ {} \in SUBSET Links
    BY DEF PushToPeers
  <1> QED
    BY <1>2, <1>3, PushEffect, Zenon

\* A step that only takes messages away and adds the sender's offer keeps all
\* offers allowed.
LEMMA RouteStep ==
  ASSUME RouteInv, RecTyped', RecAllowed', chan' \in [Links -> Seq(Message)], lost' \in SUBSET Links,
         NEW q \in [Links -> Seq(Message)],
         \A l \in Links : \A i \in 1..Len(q[l]) : \E j \in 1..Len(chan[l]) : q[l][i] = chan[l][j],
         \A l \in Links : chan'[l] = q[l] \/ chan'[l] = Append(q[l], Adverts'[l])
  PROVE  RouteInv'
  <1>1. Adverts' \in [Links -> Message]
    <2>1. (Adverts \in [Links -> Message])'
      BY AdvertsTyped, PTL
    <2> QED
      BY <2>1
  <1>2. AdvertsOk'
    BY AdvertsAllowed, PTL
  <1>3. \A l \in Links : Allowed(Rev(l), Adverts'[l].prios, Adverts'[l].cls)
    BY <1>2 DEF AdvertsOk, Allowed, MayLearn, OnPath, Rev
  <1>4. ASSUME NEW l \in Links, NEW i \in 1..Len(chan'[l])
        PROVE  Allowed(Rev(l), chan'[l][i].prios, chan'[l][i].cls)
    <2>1. \A j \in 1..Len(chan[l]) : Allowed(Rev(l), chan[l][j].prios, chan[l][j].cls)
      <3>1. Rev(l) \in Links /\ Rev(Rev(l)) = l
        BY LinkFacts
      <3>2. \A j \in 1..Len(chan[Rev(Rev(l))]) :
               Allowed(Rev(l), chan[Rev(Rev(l))][j].prios, chan[Rev(Rev(l))][j].cls)
        BY <3>1 DEF RouteInv, OffersAllowed
      <3> QED
        BY <3>1, <3>2
    <2>2. q[l] \in Seq(Message) /\ Adverts'[l] \in Message
      BY <1>1
    <2>3. CASE i \in 1..Len(q[l]) /\ chan'[l][i] = q[l][i]
      BY <2>1, <2>3
    <2>4. CASE chan'[l][i] = Adverts'[l]
      BY <1>3, <2>4
    <2>5. (i \in 1..Len(q[l]) /\ chan'[l][i] = q[l][i]) \/ chan'[l][i] = Adverts'[l]
      <3>1. CASE chan'[l] = q[l]
        BY <3>1
      <3>2. CASE chan'[l] = Append(q[l], Adverts'[l])
        BY <2>2, <3>2
      <3> QED
        BY <3>1, <3>2
    <2> QED
      BY <2>3, <2>4, <2>5
  <1>5. TypeOK'
    <2>1. (chan \in [Links -> Seq(Message)])' /\ (lost \in SUBSET Links)'
      OBVIOUS
    <2> QED
      BY <2>1, TypeSplit, PTL
  <1>6. OffersAllowed'
    <2>1. \A l \in Links : Allowed(l, rreq'[l], cls'[l])
      BY DEF RecAllowed, Allowed, MayLearn, OnPath
    <2>2. ASSUME NEW l \in Links, NEW i \in 1..Len(chan'[Rev(l)])
          PROVE  Allowed(l, chan'[Rev(l)][i].prios, chan'[Rev(l)][i].cls)
      <3>1. Rev(l) \in Links /\ Rev(Rev(l)) = l
        BY LinkFacts
      <3> QED
        BY <1>4, <3>1
    <2> QED
      BY <2>1, <2>2 DEF OffersAllowed, Allowed, MayLearn, OnPath, Rev
  <1> QED
    BY <1>5, <1>6 DEF RouteInv

\* The queues after taking the first message of one.
LEMMA TakeEffect ==
  ASSUME chan \in [Links -> Seq(Message)], NEW l \in Links, chan[l] # <<>>
  PROVE  /\ Take(l) \in [Links -> Seq(Message)]
         /\ Take(l)[l] = Tail(chan[l])
         /\ \A k \in Links : k # l => Take(l)[k] = chan[k]
         /\ \A k \in Links : \A i \in 1..Len(Take(l)[k]) : \E j \in 1..Len(chan[k]) : Take(l)[k][i] = chan[k][j]
         /\ Head(chan[l]) \in Message /\ Head(chan[l]) = chan[l][1] /\ 1 \in 1..Len(chan[l])
  <1>1. chan[l] \in Seq(Message)
    OBVIOUS
  <1>2. Tail(chan[l]) \in Seq(Message) /\ Len(Tail(chan[l])) = Len(chan[l]) - 1
        /\ \A i \in 1..Len(Tail(chan[l])) : i + 1 \in 1..Len(chan[l]) /\ Tail(chan[l])[i] = chan[l][i + 1]
    BY <1>1
  <1>3. /\ Take(l) \in [Links -> Seq(Message)]
        /\ Take(l)[l] = Tail(chan[l])
        /\ \A k \in Links : k # l => Take(l)[k] = chan[k]
    BY <1>2 DEF Take
  <1>4. ASSUME NEW k \in Links, NEW i \in 1..Len(Take(l)[k])
        PROVE  \E j \in 1..Len(chan[k]) : Take(l)[k][i] = chan[k][j]
    <2>1. CASE k = l
      BY <1>2, <1>3, <2>1
    <2>2. CASE k # l
      BY <1>3, <2>2
    <2> QED
      BY <2>1, <2>2
  <1>5. Head(chan[l]) \in Message /\ Head(chan[l]) = chan[l][1] /\ 1 \in 1..Len(chan[l])
    BY <1>1
  <1> QED
    BY <1>3, <1>4, <1>5

\* the queues purgeRemoteHandlersForTransport leaves before it tells anyone
PurgedQueues(l) == [k \in Links |-> IF k = Rev(l) \/ (k = l /\ Rev(l) \notin reg) THEN <<>> ELSE chan[k]]

LEMMA PurgedQueuesTyped ==
  ASSUME chan \in [Links -> Seq(Message)], NEW l \in Links
  PROVE  /\ PurgedQueues(l) \in [Links -> Seq(Message)]
         /\ \A k \in Links : \A i \in 1..Len(PurgedQueues(l)[k]) :
               \E j \in 1..Len(chan[k]) : PurgedQueues(l)[k][i] = chan[k][j]
  <1>1. <<>> \in Seq(Message) /\ Len(<<>>) = 0
    OBVIOUS
  <1>2. \A k \in Links : PurgedQueues(l)[k] = <<>> \/ PurgedQueues(l)[k] = chan[k]
    BY DEF PurgedQueues
  <1>3. PurgedQueues(l) \in [Links -> Seq(Message)]
    BY <1>1 DEF PurgedQueues
  <1>4. ASSUME NEW k \in Links, NEW i \in 1..Len(PurgedQueues(l)[k])
        PROVE  \E j \in 1..Len(chan[k]) : PurgedQueues(l)[k][i] = chan[k][j]
    <2>1. PurgedQueues(l)[k] = chan[k]
      BY <1>1, <1>2
    <2> QED
      BY <2>1
  <1> QED
    BY <1>3, <1>4

\* Nothing is said where there is nothing to say.
LEMMA NothingAllowed == \A l \in Links : Allowed(l, {}, "none")
  BY DEF Allowed

\* A handler is added or removed.
LEMMA ToggleRoute ==
  ASSUME RouteInv, NEW n \in Nodes, ToggleRequestHandler(n) \/ ToggleEventHandler(n)
  PROVE  RouteInv'
  <1>1. RecTyped /\ chan \in [Links -> Seq(Message)] /\ lost \in SUBSET Links /\ RecAllowed
    BY TypeSplit DEF RouteInv, OffersAllowed, RecAllowed
  <1>2. /\ UNCHANGED <<reg, dead, rreq, revt, cls>> /\ HostOp /\ PushToPeers(n, n, chan)
        /\ req' \in SUBSET Nodes /\ evt' \in SUBSET Nodes
    BY <1>1 DEF ToggleRequestHandler, ToggleEventHandler, RecTyped
  <1>3. ops' \in 0..MaxOps
    BY <1>1, <1>2, AdvertisedAssumption DEF HostOp, RecTyped
  <1>4. RecTyped'
    BY <1>1, <1>2, <1>3 DEF RecTyped
  <1>5. RecAllowed'
    BY <1>1, <1>2 DEF RecAllowed, Allowed, MayLearn, OnPath
  <1>6. /\ chan' \in [Links -> Seq(Message)] /\ lost' \in SUBSET Links
        /\ \A l \in Links : chan'[l] = chan[l] \/ chan'[l] = Append(chan[l], Adverts'[l])
    <2>1. PushToPeers(n, n, chan)
      BY <1>2
    <2> QED
      BY <1>1, <1>4, <2>1, PeersEffect
  <1> QED
    BY <1>1, <1>4, <1>5, <1>6, RouteStep

\* A side registers its transport.
LEMMA RegisterRoute ==
  ASSUME RouteInv, NEW l \in Links, Register(l)
  PROVE  RouteInv'
  <1>1. RecTyped /\ chan \in [Links -> Seq(Message)] /\ lost \in SUBSET Links /\ RecAllowed
    BY TypeSplit DEF RouteInv, OffersAllowed, RecAllowed
  <1>2. /\ UNCHANGED <<req, evt, dead, rreq, revt, cls>> /\ HostOp
        /\ reg' = reg \union {l}
        /\ Push(Sync(l)', chan, {})
    BY DEF Register
  <1>3. ops' \in 0..MaxOps
    BY <1>1, <1>2, AdvertisedAssumption DEF HostOp, RecTyped
  <1>4. RecTyped'
    BY <1>1, <1>2, <1>3 DEF RecTyped
  <1>5. RecAllowed'
    BY <1>1, <1>2 DEF RecAllowed, Allowed, MayLearn, OnPath
  <1>6. /\ chan' \in [Links -> Seq(Message)] /\ lost' \in SUBSET Links
        /\ \A k \in Links : chan'[k] = chan[k] \/ chan'[k] = Append(chan[k], Adverts'[k])
    <2>1. Sync(l)' \in SUBSET Links /\ {} \in SUBSET Links
      BY <1>4 DEF Sync, RecTyped
    <2> QED
      BY <1>1, <1>2, <1>4, <2>1, PushEffect, Zenon
  <1> QED
    BY <1>1, <1>4, <1>5, <1>6, RouteStep

\* What came through the transport of link l is forgotten and the links T are
\* told from the queues q.
LEMMA ForgetRoute ==
  ASSUME RouteInv, NEW l \in Links, Forget(l), HostOp, UNCHANGED <<req, evt>>,
         reg' \in SUBSET Links, dead' \in SUBSET Links,
         NEW T \in SUBSET Links, NEW M \in SUBSET Links,
         NEW q \in [Links -> Seq(Message)], Push(T, q, M),
         \A k \in Links : \A i \in 1..Len(q[k]) : \E j \in 1..Len(chan[k]) : q[k][i] = chan[k][j]
  PROVE  RouteInv'
  <1>1. RecTyped /\ chan \in [Links -> Seq(Message)] /\ lost \in SUBSET Links /\ RecAllowed
    BY TypeSplit DEF RouteInv, OffersAllowed, RecAllowed
  <1>2. ops' \in 0..MaxOps
    BY <1>1, AdvertisedAssumption DEF HostOp, RecTyped
  <1>3. RecTyped'
    <2>1. rreq' \in [Links -> SUBSET Nodes] /\ cls' \in [Links -> Classes] /\ revt' \in SUBSET Links
      BY <1>1 DEF RecTyped, Classes, Forget
    <2> QED
      BY <1>1, <1>2, <2>1 DEF RecTyped
  <1>4. RecAllowed'
    <2>1. ASSUME NEW k \in Links PROVE Allowed(k, rreq'[k], cls'[k])
      <3>1. CASE k = l
        <4>1. rreq'[k] = {} /\ cls'[k] = "none"
          BY <1>1, <3>1 DEF RecTyped, Forget
        <4> QED
          BY <4>1, NothingAllowed
      <3>2. CASE k # l
        <4>1. rreq'[k] = rreq[k] /\ cls'[k] = cls[k]
          BY <1>1, <3>2 DEF RecTyped, Forget
        <4> QED
          BY <1>1, <4>1 DEF RecAllowed
      <3> QED
        BY <3>1, <3>2
    <2> QED
      BY <2>1 DEF RecAllowed, Allowed, MayLearn, OnPath
  <1>5. /\ chan' \in [Links -> Seq(Message)] /\ lost' \in SUBSET Links
        /\ \A k \in Links : chan'[k] = q[k] \/ chan'[k] = Append(q[k], Adverts'[k])
    BY <1>1, <1>3, PushEffect, Zenon
  <1> QED
    BY <1>3, <1>4, <1>5, RouteStep

\* A side unregisters its transport.
LEMMA UnregisterRoute ==
  ASSUME RouteInv, NEW l \in Links, Unregister(l)
  PROVE  RouteInv'
  <1>1. RecTyped /\ chan \in [Links -> Seq(Message)]
    BY TypeSplit DEF RouteInv
  <1> DEFINE T == {k \in Peers(l[1], l[2])' : cls[l] # "none"}
  <1>2. /\ UNCHANGED <<req, evt>> /\ HostOp /\ Forget(l)
        /\ reg' = reg \ {l}
        /\ dead' = IF Rev(l) \in reg THEN dead \union {l, Rev(l)} ELSE dead \ {l, Rev(l)}
        /\ Push(T, PurgedQueues(l), {})
    BY DEF Unregister, Purge, PurgedQueues
  <1>3. reg' \in SUBSET Links /\ dead' \in SUBSET Links
    BY <1>1, <1>2, LinkFacts DEF RecTyped
  <1>4. T \in SUBSET Links /\ {} \in SUBSET Links
    BY <1>3, TargetsAreLinks
  <1>5. /\ PurgedQueues(l) \in [Links -> Seq(Message)]
        /\ \A k \in Links : \A i \in 1..Len(PurgedQueues(l)[k]) :
              \E j \in 1..Len(chan[k]) : PurgedQueues(l)[k][i] = chan[k][j]
    BY <1>1, PurgedQueuesTyped
  <1> HIDE DEF T, PurgedQueues
  <1> QED
    BY <1>2, <1>3, <1>4, <1>5, ForgetRoute, Zenon

\* A transport is registered again.
LEMMA ReplaceRoute ==
  ASSUME RouteInv, NEW l \in Links, Replace(l)
  PROVE  RouteInv'
  <1>1. RecTyped /\ chan \in [Links -> Seq(Message)]
    BY TypeSplit DEF RouteInv
  <1> DEFINE T == {k \in Peers(l[1], l[2])' : cls[l] # "none"} \union Sync(l)'
             M == {k \in reg : k = Rev(l) /\ chan[k] = <<>>}
  <1>2. UNCHANGED <<req, evt>> /\ HostOp /\ Forget(l) /\ UNCHANGED <<reg, dead>> /\ Push(T, chan, M)
    BY DEF Replace
  <1>3. reg' \in SUBSET Links /\ dead' \in SUBSET Links
    BY <1>1, <1>2 DEF RecTyped
  <1>4. T \in SUBSET Links
    BY <1>3, TargetsAreLinks
  <1>5. M \in SUBSET Links
    BY <1>1 DEF RecTyped
  <1>6. \A k \in Links : \A i \in 1..Len(chan[k]) : \E j \in 1..Len(chan[k]) : chan[k][i] = chan[k][j]
    OBVIOUS
  <1> HIDE DEF T, M
  <1> QED
    BY <1>1, <1>2, <1>3, <1>4, <1>5, <1>6, ForgetRoute, Zenon

\* What the receipt of a message changes.
LEMMA ReceiveEffect ==
  ASSUME TypeOK, NEW l \in Links, ReceiveSubscribe(l) \/ ReceiveUnsubscribe(l)
  PROVE  /\ chan[Rev(l)] # <<>> /\ l \in reg /\ Head(chan[Rev(l)]) \in Message
         /\ rreq' = [rreq EXCEPT ![l] = Head(chan[Rev(l)]).prios]
         /\ cls' = [cls EXCEPT ![l] = Head(chan[Rev(l)]).cls]
         /\ revt' = IF Head(chan[Rev(l)]).type = "subscribe" /\ Head(chan[Rev(l)]).prios = {}
                    THEN revt \union {l} ELSE revt \ {l}
         /\ UNCHANGED <<req, evt, reg, dead, ops>>
         /\ PushToPeers(l[1], l[2], Take(Rev(l)))
         /\ RecTyped'
  <1>1. RecTyped /\ chan \in [Links -> Seq(Message)] /\ Rev(l) \in Links
    BY TypeSplit, LinkFacts
  <1> DEFINE msg == Head(chan[Rev(l)])
  <1>2. chan[Rev(l)] # <<>> /\ l \in reg
    BY DEF ReceiveSubscribe, ReceiveUnsubscribe
  <1>3. msg \in Message
    BY <1>1, <1>2, TakeEffect
  <1>4. /\ msg.prios \in SUBSET Nodes /\ msg.cls \in Classes
        /\ msg.type = "unsubscribe" => msg.prios = {} /\ msg.cls = "none"
    BY <1>3, MessageFields DEF Unsubscribe
  <1>5. /\ rreq' = [rreq EXCEPT ![l] = msg.prios]
        /\ cls' = [cls EXCEPT ![l] = msg.cls]
        /\ revt' = IF msg.type = "subscribe" /\ msg.prios = {} THEN revt \union {l} ELSE revt \ {l}
        /\ UNCHANGED <<req, evt, reg, dead, ops>>
        /\ PushToPeers(l[1], l[2], Take(Rev(l)))
    <2>1. CASE ReceiveSubscribe(l)
      BY <2>1 DEF ReceiveSubscribe
    <2>2. CASE ReceiveUnsubscribe(l)
      <3>1. msg.type = "unsubscribe" /\ msg.prios = {} /\ msg.cls = "none"
        BY <1>4, <2>2 DEF ReceiveUnsubscribe
      <3> QED
        BY <2>2, <3>1 DEF ReceiveUnsubscribe
    <2> QED
      BY <2>1, <2>2
  <1> HIDE DEF msg
  <1>6. RecTyped'
    <2>1. rreq' \in [Links -> SUBSET Nodes] /\ cls' \in [Links -> Classes]
      BY <1>1, <1>4, <1>5 DEF RecTyped
    <2> QED
      BY <1>1, <1>5, <2>1 DEF RecTyped
  <1> QED
    BY <1>2, <1>3, <1>5, <1>6 DEF msg

\* A message is received.
LEMMA ReceiveRoute ==
  ASSUME RouteInv, NEW l \in Links, ReceiveSubscribe(l) \/ ReceiveUnsubscribe(l)
  PROVE  RouteInv'
  <1>1. TypeOK /\ RecTyped /\ chan \in [Links -> Seq(Message)] /\ lost \in SUBSET Links /\ RecAllowed /\ Rev(l) \in Links
    BY TypeSplit, LinkFacts DEF RouteInv, OffersAllowed, RecAllowed
  <1> DEFINE msg == Head(chan[Rev(l)])
  <1>2. /\ chan[Rev(l)] # <<>>
        /\ rreq' = [rreq EXCEPT ![l] = msg.prios]
        /\ cls' = [cls EXCEPT ![l] = msg.cls]
        /\ PushToPeers(l[1], l[2], Take(Rev(l)))
        /\ RecTyped'
    BY <1>1, ReceiveEffect
  <1>3. /\ Take(Rev(l)) \in [Links -> Seq(Message)]
        /\ \A k \in Links : \A i \in 1..Len(Take(Rev(l))[k]) :
              \E j \in 1..Len(chan[k]) : Take(Rev(l))[k][i] = chan[k][j]
        /\ msg = chan[Rev(l)][1] /\ 1 \in 1..Len(chan[Rev(l)])
    BY <1>1, <1>2, TakeEffect
  <1>4. Allowed(l, msg.prios, msg.cls)
    BY <1>3 DEF RouteInv, OffersAllowed
  <1> HIDE DEF msg
  <1>5. RecAllowed'
    <2>1. ASSUME NEW k \in Links PROVE Allowed(k, rreq'[k], cls'[k])
      <3>1. CASE k = l
        <4>1. rreq'[k] = msg.prios /\ cls'[k] = msg.cls
          BY <1>1, <1>2, <3>1 DEF RecTyped
        <4> QED
          BY <1>4, <3>1, <4>1
      <3>2. CASE k # l
        <4>1. rreq'[k] = rreq[k] /\ cls'[k] = cls[k]
          BY <1>1, <1>2, <3>2 DEF RecTyped
        <4> QED
          BY <1>1, <4>1 DEF RecAllowed
      <3> QED
        BY <3>1, <3>2
    <2> QED
      BY <2>1 DEF RecAllowed, Allowed, MayLearn, OnPath
  <1>6. /\ chan' \in [Links -> Seq(Message)] /\ lost' \in SUBSET Links
        /\ \A k \in Links : chan'[k] = Take(Rev(l))[k] \/ chan'[k] = Append(Take(Rev(l))[k], Adverts'[k])
    <2> DEFINE q == Take(Rev(l))
    <2>1. PICK n \in Nodes, t \in Nodes : n = l[1] /\ t = l[2]
      BY LinkFacts
    <2>2. PushToPeers(n, t, q) /\ q \in [Links -> Seq(Message)] /\ RecTyped' /\ lost \in SUBSET Links
      BY <1>1, <1>2, <1>3, <2>1
    <2> HIDE DEF q
    <2>3. /\ chan' \in [Links -> Seq(Message)] /\ lost' \in SUBSET Links
          /\ \A k \in Links : chan'[k] = q[k] \/ chan'[k] = Append(q[k], Adverts'[k])
      BY <2>2, PeersEffect
    <2> QED
      BY <2>3 DEF q
  <1> QED
    BY <1>2, <1>3, <1>5, <1>6, RouteStep

\* Every record and every message in flight is of handlers its receiver may
\* know of, and points towards them.
THEOREM RouteInvariant == Spec => []RouteInv
  <1>1. Init => RouteInv
    BY AdvertisedAssumption, NothingAllowed, LinkFacts
       DEF Init, RouteInv, TypeOK, OffersAllowed, Classes
  <1>2. ASSUME RouteInv, UNCHANGED vars PROVE RouteInv'
    BY <1>2 DEF RouteInv, TypeOK, OffersAllowed, Allowed, MayLearn, OnPath, Rev, vars
  <1>3. RouteInv /\ [Next]_vars => RouteInv'
    BY <1>2, ToggleRoute, RegisterRoute, UnregisterRoute, ReplaceRoute, ReceiveRoute DEF Next
  <1> QED
    BY <1>1, <1>3, PTL DEF Spec

\* A route always points towards the bus that owns the handler, and a
\* host-local handler is never known beyond its direct peers: in every tree of
\* buses, whatever is delayed, disconnected or reconnected.
THEOREM RoutesStayLegal == Spec => []RoutesAreLegal
  <1>1. RouteInv => RoutesAreLegal
    BY DEF RouteInv, OffersAllowed, Allowed, RoutesAreLegal
  <1> QED
    BY <1>1, RouteInvariant, PTL

-----------------------------------------------------------------------------
(* What a bus knows and what its peers offer. *)

Records == [l \in Links |-> Recorded(l)]

\* the last message of a queue, or the record when there is none
Word(queue, record) == IF queue = <<>> THEN record ELSE queue[Len(queue)]

SyncedOn == \A l \in Links : l \in (reg \ dead) \ lost => Word(chan[l], Records[Rev(l)]) = Adverts[l]

\* Synced, read from the sender's end of the links.
LEMMA SyncedForm == Synced <=> SyncedOn
  <1>1. ASSUME NEW l \in Links
        PROVE  /\ Rev(l) \in Links /\ Rev(Rev(l)) = l
               /\ LastWord(l) = Word(chan[Rev(l)], Records[Rev(Rev(l))])
               /\ Advert(l[2], l[1]) = Adverts[Rev(l)]
    BY LinkFacts DEF LastWord, Word, Records, Adverts
  <1>2. ASSUME Synced, NEW l \in Links, l \in (reg \ dead) \ lost
        PROVE  Word(chan[l], Records[Rev(l)]) = Adverts[l]
    <2>1. Rev(l) \in Links /\ Rev(Rev(l)) = l
      BY LinkFacts
    <2>2. LastWord(Rev(l)) = Advert(Rev(l)[2], Rev(l)[1])
      BY <1>2, <2>1 DEF Synced
    <2> QED
      BY <1>1, <2>1, <2>2
  <1>3. ASSUME SyncedOn, NEW l \in Links, Rev(l) \in (reg \ dead) \ lost
        PROVE  LastWord(l) = Advert(l[2], l[1])
    <2>1. Rev(l) \in Links /\ Rev(Rev(l)) = l
      BY LinkFacts
    <2>2. Word(chan[Rev(l)], Records[Rev(Rev(l))]) = Adverts[Rev(l)]
      BY <1>3, <2>1 DEF SyncedOn
    <2> QED
      BY <1>1, <2>2
  <1> QED
    BY <1>2, <1>3 DEF Synced, SyncedOn

\* An appended message is the last word.
LEMMA LastOfAppend ==
  ASSUME NEW s \in Seq(Message), NEW msg \in Message, NEW r
  PROVE  Word(Append(s, msg), r) = msg
  <1>1. Append(s, msg) # <<>> /\ Len(Append(s, msg)) = Len(s) + 1 /\ Append(s, msg)[Len(s) + 1] = msg
    OBVIOUS
  <1> QED
    BY <1>1 DEF Word

\* Reading the first message and recording it does not change the last word.
LEMMA LastOfTail ==
  ASSUME NEW s \in Seq(Message), s # <<>>, NEW r
  PROVE  Word(Tail(s), Head(s)) = Word(s, r)
  <1> DEFINE z == Tail(s)
  <1>1. Head(s) = s[1] /\ Len(s) \in Nat /\ Len(s) >= 1
    OBVIOUS
  <1>2. z \in Seq(Message) /\ Len(z) = Len(s) - 1 /\ \A i \in 1..Len(z) : z[i] = s[i + 1]
    BY HeadTailProperties
  <1> HIDE DEF z
  <1>3. z = <<>> <=> Len(z) = 0
    BY <1>2, EmptySeq
  <1>4. CASE z = <<>>
    <2>1. Len(s) = 1
      BY <1>1, <1>2, <1>3, <1>4
    <2> QED
      BY <1>1, <1>4, <2>1 DEF Word, z
  <1>5. CASE z # <<>>
    <2>1. Len(z) \in 1..Len(z) /\ Len(z) + 1 = Len(s)
      BY <1>1, <1>2, <1>3, <1>5
    <2>2. z[Len(z)] = s[Len(s)]
      BY <1>2, <2>1
    <2> QED
      BY <1>5, <2>2 DEF Word, z
  <1> QED
    BY <1>4, <1>5

\* What a bus offers to t depends on its own handlers and on its records of
\* the peers other than t.
LEMMA AdvertLocal ==
  ASSUME NEW l \in Links,
         l[1] \in req' <=> l[1] \in req,
         l[1] \in evt' <=> l[1] \in evt,
         \A m \in Nodes : <<l[1], m>> \in Links /\ m # l[2] =>
             /\ cls'[<<l[1], m>>] = cls[<<l[1], m>>]
             /\ rreq'[<<l[1], m>>] = rreq[<<l[1], m>>]
             /\ <<l[1], m>> \in revt' <=> <<l[1], m>> \in revt
  PROVE  Adverts'[l] = Adverts[l]
  <1> DEFINE n == l[1]
             t == l[2]
  <1>1. n \in Nodes /\ t \in Nodes
    BY LinkFacts
  <1> DEFINE R == Relayed(n, t)
  <1>2. Relayed(n, t)' = R
    BY DEF Relayed
  <1>3. ASSUME NEW m \in R
        PROVE  rreq'[<<n, m>>] = rreq[<<n, m>>] /\ (<<n, m>> \in revt' <=> <<n, m>> \in revt)
    BY DEF Relayed
  <1>4. OfferedPrios(n, t)' = OfferedPrios(n, t)
    <2>1. req' \intersect {n} = req \intersect {n}
      OBVIOUS
    <2>2. OfferedPrios(n, t)' = (req' \intersect {n}) \union UNION {rreq'[<<n, m>>] : m \in R}
      BY <1>2 DEF OfferedPrios
    <2>3. OfferedPrios(n, t) = (req \intersect {n}) \union UNION {rreq[<<n, m>>] : m \in R}
      BY DEF OfferedPrios
    <2> HIDE DEF R
    <2>4. {rreq'[<<n, m>>] : m \in R} = {rreq[<<n, m>>] : m \in R}
      BY <1>3
    <2> QED
      BY <2>1, <2>2, <2>3, <2>4
  <1>5. OfferedEvents(n, t)' <=> OfferedEvents(n, t)
    <2>1. OfferedEvents(n, t)' <=> n \in evt' \/ \E m \in R : <<n, m>> \in revt'
      BY <1>2 DEF OfferedEvents
    <2>2. OfferedEvents(n, t) <=> n \in evt \/ \E m \in R : <<n, m>> \in revt
      BY DEF OfferedEvents
    <2> HIDE DEF R
    <2> QED
      BY <1>3, <2>1, <2>2, Zenon
  <1>6. OfferedClass(n)' = OfferedClass(n)
    BY DEF OfferedClass
  <1>7. Advert(n, t)' = Advert(n, t)
    <2>1. Advert(n, t) = IF OfferedPrios(n, t) = {} /\ ~OfferedEvents(n, t) THEN Unsubscribe
                         ELSE [type |-> "subscribe", prios |-> OfferedPrios(n, t), cls |-> OfferedClass(n)]
      BY <1>1, AdvertForm
    <2>2. Advert(n, t)' = IF OfferedPrios(n, t)' = {} /\ ~OfferedEvents(n, t)' THEN Unsubscribe
                          ELSE [type |-> "subscribe", prios |-> OfferedPrios(n, t)', cls |-> OfferedClass(n)']
      BY DEF Advert, OfferedPrios, OfferedEvents, OfferedClass, Unsubscribe
    <2> QED
      BY <1>4, <1>5, <1>6, <2>1, <2>2
  <1> QED
    BY <1>7 DEF Adverts

\* On the other links nothing new is offered, and the last word stays.
NoNews(T, q) ==
    \A l \in Links : l \in (reg' \ dead') \ lost' /\ l \notin T =>
        /\ l \in reg \ dead
        /\ Adverts'[l] = Adverts[l]
        /\ Word(q[l], Records'[Rev(l)]) = Word(chan[l], Records[Rev(l)])

\* Then every last word is what its sender offers.
LEMMA SyncPush ==
  ASSUME SyncInv, RecTyped', NEW T, NEW M, NEW q \in [Links -> Seq(Message)],
         Told(T, q, M), NoNews(T, q)
  PROVE  SyncedOn'
  <1>1. Adverts' \in [Links -> Message]
    <2>1. (Adverts \in [Links -> Message])'
      BY AdvertsTyped, PTL
    <2> QED
      BY <2>1
  <1>2. ASSUME NEW l \in Links, l \in (reg' \ dead') \ lost'
        PROVE  Word(chan'[l], Records'[Rev(l)]) = Adverts'[l]
    <2>1. CASE l \in T
      <3>1. chan'[l] = Append(q[l], Adverts'[l])
        BY <1>2, <2>1 DEF Told
      <3>2. q[l] \in Seq(Message) /\ Adverts'[l] \in Message
        BY <1>1
      <3> QED
        BY <3>1, <3>2, LastOfAppend
    <2>2. CASE l \notin T
      <3>1. chan'[l] = q[l] /\ l \notin lost
        BY <1>2, <2>2 DEF Told
      <3>2. l \in reg \ dead
        BY <1>2, <2>2 DEF NoNews
      <3>3. Word(chan[l], Records[Rev(l)]) = Adverts[l]
        BY <3>1, <3>2, SyncedForm DEF SyncInv, SyncedOn
      <3> QED
        BY <1>2, <2>2, <3>1, <3>3 DEF NoNews
    <2> QED
      BY <2>1, <2>2
  <1> QED
    BY <1>2 DEF SyncedOn, Word, Rev

\* The parts of the invariant, in the next state.
LEMMA SyncParts ==
  ASSUME RecTyped', chan' \in [Links -> Seq(Message)], lost' \in SUBSET Links, RecordsFit', LinksFit', SyncedOn'
  PROVE  SyncInv'
  <1>1. TypeOK'
    <2>1. (chan \in [Links -> Seq(Message)])' /\ (lost \in SUBSET Links)'
      OBVIOUS
    <2> QED
      BY <2>1, TypeSplit, PTL
  <1>2. Synced'
    BY SyncedForm, PTL
  <1> QED
    BY <1>1, <1>2 DEF SyncInv

\* A handler is added or removed.
LEMMA ToggleSync ==
  ASSUME SyncInv, NEW n \in Nodes, ToggleRequestHandler(n) \/ ToggleEventHandler(n)
  PROVE  SyncInv'
  <1>1. RecTyped /\ chan \in [Links -> Seq(Message)] /\ lost \in SUBSET Links
    BY TypeSplit DEF SyncInv
  <1>2. /\ UNCHANGED <<reg, dead, rreq, revt, cls>> /\ HostOp /\ PushToPeers(n, n, chan)
        /\ req' \in SUBSET Nodes /\ evt' \in SUBSET Nodes
        /\ \A k \in Nodes : k # n => (k \in req' <=> k \in req) /\ (k \in evt' <=> k \in evt)
    BY <1>1 DEF ToggleRequestHandler, ToggleEventHandler, RecTyped
  <1>3. ops' \in 0..MaxOps
    BY <1>1, <1>2, AdvertisedAssumption DEF HostOp, RecTyped
  <1>4. RecTyped'
    BY <1>1, <1>2, <1>3 DEF RecTyped
  <1> DEFINE T == Peers(n, n)'
  <1>5. /\ chan' \in [Links -> Seq(Message)] /\ lost' \in SUBSET Links
        /\ Told(T, chan, {})
        /\ \A l \in Links : l \in T <=> l \in reg' \ dead' /\ l[1] = n /\ l[2] # n
    BY <1>1, <1>2, <1>4, PeersEffect, Zenon
  <1> HIDE DEF T
  <1>11. \A l \in Links : l \notin reg' => chan'[l] = chan[l]
    BY <1>5 DEF Told
  <1>6. RecordsFit'
    BY <1>2 DEF SyncInv, RecordsFit
  <1>7. LinksFit'
    BY <1>2, <1>11, LinkFacts DEF SyncInv, LinksFit
  <1>8. Records' = Records
    BY <1>2 DEF Records, Recorded
  <1>9. ASSUME NEW l \in Links, l \in (reg' \ dead') \ lost', l \notin T
        PROVE  /\ l \in reg \ dead
               /\ Adverts'[l] = Adverts[l]
               /\ Word(chan[l], Records'[Rev(l)]) = Word(chan[l], Records[Rev(l)])
    <2>1. l[1] # n /\ l[1] \in Nodes
      BY <1>5, <1>9, LinkFacts
    <2>2. Adverts'[l] = Adverts[l]
      BY <1>2, <2>1, AdvertLocal
    <2> QED
      BY <1>2, <1>8, <1>9, <2>2
  <1>10. SyncedOn'
    <2>1. NoNews(T, chan)
      BY <1>9 DEF NoNews
    <2> QED
      BY <1>1, <1>4, <1>5, <2>1, SyncPush, Zenon
  <1> QED
    BY <1>4, <1>5, <1>6, <1>7, <1>10, SyncParts

\* A bus that knows nothing of the subject offers nothing.
LEMMA UnknownOffersNothing ==
  ASSUME NEW l \in Links, ~Known(l[1])
  PROVE  Adverts[l] = Unsubscribe
  <1>1. l[1] \in Nodes /\ l[2] \in Nodes
    BY LinkFacts
  <1>2. Relayed(l[1], l[2]) = {}
    BY DEF Known, Relayed
  <1>3. OfferedPrios(l[1], l[2]) = {} /\ ~OfferedEvents(l[1], l[2])
    BY <1>2 DEF Known, OfferedPrios, OfferedEvents
  <1>4. Advert(l[1], l[2]) = Unsubscribe
    BY <1>1, <1>3, AdvertForm
  <1> QED
    BY <1>4 DEF Adverts

\* A side registers its transport.
LEMMA RegisterSync ==
  ASSUME SyncInv, NEW r \in Links, Register(r)
  PROVE  SyncInv'
  <1>1. RecTyped /\ chan \in [Links -> Seq(Message)] /\ lost \in SUBSET Links /\ SyncedOn
    BY TypeSplit, SyncedForm DEF SyncInv
  <1>2. /\ UNCHANGED <<req, evt, dead, rreq, revt, cls>> /\ HostOp
        /\ r \notin reg \union dead
        /\ reg' = reg \union {r}
        /\ Push(Sync(r)', chan, {})
    BY DEF Register
  <1>3. ops' \in 0..MaxOps
    BY <1>1, <1>2, AdvertisedAssumption DEF HostOp, RecTyped
  <1>4. RecTyped'
    BY <1>1, <1>2, <1>3 DEF RecTyped
  <1>5. Adverts' = Adverts /\ Adverts \in [Links -> Message]
    <2>1. Adverts' = Adverts
      BY <1>2 DEF Adverts, Advert, Relayed
    <2> QED
      BY <1>1, <2>1, AdvertsTyped
  <1> DEFINE T == Sync(r)'
  <1>6. /\ T \in SUBSET Links /\ {} \in SUBSET Links
        /\ \A l \in Links : l \in T <=> l = r /\ Known(r[1])
    <2>1. Known(r[1])' <=> Known(r[1])
      BY <1>2 DEF Known
    <2> QED
      BY <1>2, <2>1 DEF Sync
  <1>7. chan' \in [Links -> Seq(Message)] /\ lost' \in SUBSET Links /\ Told(T, chan, {})
    <2> HIDE DEF T
    <2>1. Push(T, chan, {})
      BY <1>2 DEF T
    <2> QED
      BY <1>1, <1>4, <1>6, <2>1, PushEffect, Zenon
  <1> HIDE DEF T
  <1>12. \A k \in Links : k # r => chan'[k] = chan[k] /\ (k \in reg' /\ k \notin lost' => k \notin lost)
    BY <1>6, <1>7 DEF Told
  <1>8. RecordsFit'
    BY <1>2 DEF SyncInv, RecordsFit
  <1>9. LinksFit'
    <2>1. ASSUME NEW l \in Links
          PROVE  /\ l \in dead' => Rev(l) \in dead' /\ (l \in reg' <=> Rev(l) \notin reg')
                 /\ l \notin reg' => cls'[l] = "none"
                 /\ Rev(l) \notin reg' /\ l \notin dead' => chan'[Rev(l)] = <<>> /\ cls'[l] = "none"
      <3>1. Rev(l) \in Links /\ Rev(Rev(l)) = l
        BY LinkFacts
      <3>2. /\ l \in dead => Rev(l) \in dead /\ (l \in reg <=> Rev(l) \notin reg)
            /\ l \notin reg => cls[l] = "none"
            /\ Rev(l) \notin reg /\ l \notin dead => chan[Rev(l)] = <<>> /\ cls[l] = "none"
        BY DEF SyncInv, LinksFit
      <3>3. l \in dead => l # r /\ Rev(l) # r
        BY <1>2, <3>2
      <3> QED
        BY <1>2, <1>12, <3>1, <3>2, <3>3
    <2> QED
      BY <2>1 DEF LinksFit, Rev
  <1>10. Records' = Records
    BY <1>2 DEF Records, Recorded
  <1>11. SyncedOn'
    <2>1. ASSUME NEW l \in Links, l \in (reg' \ dead') \ lost'
          PROVE  Word(chan'[l], Records'[Rev(l)]) = Adverts'[l]
      <3>1. CASE l # r
        <4>1. l \in (reg \ dead) \ lost
          BY <1>2, <1>12, <2>1, <3>1
        <4> QED
          BY <1>1, <1>5, <1>10, <1>12, <3>1, <4>1 DEF SyncedOn
      <3>2. CASE l = r /\ Known(r[1])
        <4>1. chan[l] \in Seq(Message) /\ Adverts'[l] \in Message
          BY <1>1, <1>5
        <4>2. chan'[l] = Append(chan[l], Adverts'[l])
          BY <1>6, <1>7, <2>1, <3>2 DEF Told
        <4> QED
          BY <4>1, <4>2, LastOfAppend
      <3>3. CASE l = r /\ ~Known(r[1])
        <4>1. Rev(r) \in Links /\ Rev(Rev(r)) = r
          BY LinkFacts
        <4>2. Rev(r) \notin dead
          BY <1>2, <4>1 DEF SyncInv, LinksFit
        <4>3. chan[r] = <<>> /\ cls[Rev(r)] = "none"
          BY <1>2, <4>1, <4>2 DEF SyncInv, LinksFit
        <4>4. Records[Rev(r)] = Unsubscribe
          BY <4>1, <4>3 DEF Records, Recorded
        <4>5. Adverts[r] = Unsubscribe
          BY <3>3, UnknownOffersNothing
        <4>6. chan'[r] = chan[r]
          BY <1>6, <1>7, <3>3 DEF Told
        <4> QED
          BY <1>5, <1>10, <3>3, <4>3, <4>4, <4>5, <4>6 DEF Word
      <3> QED
        BY <3>1, <3>2, <3>3
    <2> QED
      BY <2>1 DEF SyncedOn, Word, Rev
  <1> QED
    BY <1>4, <1>7, <1>8, <1>9, <1>11, SyncParts

\* Only the record of link r has changed.
LEMMA OtherRecordsStay ==
  ASSUME RecTyped, NEW r \in Links, NEW P, NEW c,
         rreq' = [rreq EXCEPT ![r] = P], cls' = [cls EXCEPT ![r] = c],
         \A k \in Links : k # r => (k \in revt' <=> k \in revt)
  PROVE  /\ rreq'[r] = P /\ cls'[r] = c
         /\ \A k \in Links : k # r => /\ rreq'[k] = rreq[k] /\ cls'[k] = cls[k]
                                      /\ Records'[k] = Records[k]
  <1>1. /\ rreq'[r] = P /\ cls'[r] = c
        /\ \A k \in Links : k # r => rreq'[k] = rreq[k] /\ cls'[k] = cls[k]
    BY DEF RecTyped
  <1>2. \A k \in Links : k # r => Records'[k] = Records[k]
    BY <1>1 DEF Records, Recorded
  <1> QED
    BY <1>1, <1>2

\* With the record of link r only the offers of its bus r[1] to the peers other
\* than r[2] can change.
LEMMA OtherOffersStay ==
  ASSUME UNCHANGED <<req, evt>>, NEW r \in Links,
         \A k \in Links : k # r =>
             rreq'[k] = rreq[k] /\ cls'[k] = cls[k] /\ (k \in revt' <=> k \in revt),
         NEW l \in Links, ~(l[1] = r[1] /\ l[2] # r[2])
  PROVE  Adverts'[l] = Adverts[l]
  <1>1. ASSUME NEW m \in Nodes, <<l[1], m>> \in Links, m # l[2]
        PROVE  /\ cls'[<<l[1], m>>] = cls[<<l[1], m>>]
               /\ rreq'[<<l[1], m>>] = rreq[<<l[1], m>>]
               /\ <<l[1], m>> \in revt' <=> <<l[1], m>> \in revt
    <2>1. <<l[1], m>> # r
      BY <1>1
    <2> QED
      BY <1>1, <2>1
  <1> QED
    BY <1>1, AdvertLocal

\* The records once those of link r are forgotten.
LEMMA ForgetEffect ==
  ASSUME SyncInv, NEW r \in Links, Forget(r), HostOp, UNCHANGED <<req, evt>>,
         reg' \in SUBSET Links, dead' \in SUBSET Links
  PROVE  /\ RecTyped' /\ RecordsFit'
         /\ cls'[r] = "none"
         /\ \A k \in Links : k # r => cls'[k] = cls[k] /\ Records'[k] = Records[k]
         /\ \A l \in Links : cls[r] = "none" \/ ~(l[1] = r[1] /\ l[2] # r[2]) => Adverts'[l] = Adverts[l]
  <1>1. RecTyped /\ RecordsFit
    BY TypeSplit DEF SyncInv
  <1>2. ops' \in 0..MaxOps
    BY <1>1, AdvertisedAssumption DEF HostOp, RecTyped
  <1>3. RecTyped'
    <2>1. rreq' \in [Links -> SUBSET Nodes] /\ cls' \in [Links -> Classes] /\ revt' \in SUBSET Links
      BY <1>1 DEF RecTyped, Classes, Forget
    <2> QED
      BY <1>1, <1>2, <2>1 DEF RecTyped
  <1>4. /\ rreq'[r] = {} /\ cls'[r] = "none" /\ r \notin revt'
        /\ \A k \in Links : k # r => rreq'[k] = rreq[k] /\ cls'[k] = cls[k] /\ (k \in revt' <=> k \in revt)
        /\ \A k \in Links : k # r => Records'[k] = Records[k]
    <2>1. \A k \in Links : k # r => (k \in revt' <=> k \in revt)
      BY DEF Forget
    <2>2. /\ rreq'[r] = {} /\ cls'[r] = "none"
          /\ \A k \in Links : k # r => rreq'[k] = rreq[k] /\ cls'[k] = cls[k] /\ Records'[k] = Records[k]
      BY <1>1, <2>1, OtherRecordsStay DEF Forget
    <2> QED
      BY <2>1, <2>2 DEF Forget
  <1>5. RecordsFit'
    <2>1. ASSUME NEW l \in Links
          PROVE  /\ cls'[l] = "none" => rreq'[l] = {}
                 /\ l \in revt' <=> (cls'[l] # "none" /\ rreq'[l] = {})
      <3>1. CASE l = r
        BY <1>4, <3>1
      <3>2. CASE l # r
        BY <1>1, <1>4, <3>2 DEF RecordsFit
      <3> QED
        BY <3>1, <3>2
    <2> QED
      BY <2>1 DEF RecordsFit
  <1>6. ASSUME NEW l \in Links, cls[r] = "none" PROVE Adverts'[l] = Adverts[l]
    <2>1. rreq'[r] = rreq[r] /\ cls'[r] = cls[r] /\ (r \in revt' <=> r \in revt)
      BY <1>1, <1>4, <1>6 DEF RecordsFit
    <2>2. \A k \in Links : rreq'[k] = rreq[k] /\ cls'[k] = cls[k] /\ (k \in revt' <=> k \in revt)
      BY <1>4, <2>1
    <2> QED
      BY <2>2, AdvertLocal
  <1>7. ASSUME NEW l \in Links, ~(l[1] = r[1] /\ l[2] # r[2]) PROVE Adverts'[l] = Adverts[l]
    BY <1>4, <1>7, OtherOffersStay
  <1> QED
    BY <1>3, <1>4, <1>5, <1>6, <1>7

\* A side unregisters its transport.
LEMMA UnregisterSync ==
  ASSUME SyncInv, NEW r \in Links, Unregister(r)
  PROVE  SyncInv'
  <1>1. RecTyped /\ chan \in [Links -> Seq(Message)] /\ lost \in SUBSET Links /\ LinksFit
    BY TypeSplit DEF SyncInv
  <1> DEFINE T == {k \in Peers(r[1], r[2])' : cls[r] # "none"}
  <1>2. /\ UNCHANGED <<req, evt>> /\ HostOp /\ Forget(r)
        /\ r \in reg
        /\ reg' = reg \ {r}
        /\ dead' = IF Rev(r) \in reg THEN dead \union {r, Rev(r)} ELSE dead \ {r, Rev(r)}
        /\ Push(T, PurgedQueues(r), {})
    BY DEF Unregister, Purge, PurgedQueues
  <1>3. reg' \in SUBSET Links /\ dead' \in SUBSET Links
    BY <1>1, <1>2, LinkFacts DEF RecTyped
  <1>4. /\ RecTyped' /\ RecordsFit'
        /\ cls'[r] = "none"
        /\ \A k \in Links : k # r => cls'[k] = cls[k] /\ Records'[k] = Records[k]
        /\ \A l \in Links : cls[r] = "none" \/ ~(l[1] = r[1] /\ l[2] # r[2]) => Adverts'[l] = Adverts[l]
    BY <1>2, <1>3, ForgetEffect
  <1>5. /\ T \in SUBSET Links /\ {} \in SUBSET Links
        /\ \A l \in Links : l \in T <=> l \in reg' \ dead' /\ l[1] = r[1] /\ l[2] # r[2] /\ cls[r] # "none"
    BY <1>3, TargetsAreLinks
  <1>6. /\ PurgedQueues(r) \in [Links -> Seq(Message)]
        /\ PurgedQueues(r)[Rev(r)] = <<>>
        /\ Rev(r) \notin reg => PurgedQueues(r)[r] = <<>>
        /\ \A k \in Links : k # r /\ k # Rev(r) => PurgedQueues(r)[k] = chan[k]
    BY <1>1, PurgedQueuesTyped, LinkFacts DEF PurgedQueues
  <1> HIDE DEF T, PurgedQueues
  <1>7. chan' \in [Links -> Seq(Message)] /\ lost' \in SUBSET Links /\ Told(T, PurgedQueues(r), {})
    BY <1>1, <1>2, <1>4, <1>5, <1>6, PushEffect, Zenon
  <1>8. \A k \in Links : k \notin reg' \ dead' => chan'[k] = PurgedQueues(r)[k]
    BY <1>5, <1>7 DEF Told
  <1>9. LinksFit'
    <2>1. ASSUME NEW l \in Links
          PROVE  /\ l \in dead' => Rev(l) \in dead' /\ (l \in reg' <=> Rev(l) \notin reg')
                 /\ l \notin reg' => cls'[l] = "none"
                 /\ Rev(l) \notin reg' /\ l \notin dead' => chan'[Rev(l)] = <<>> /\ cls'[l] = "none"
      <3>1. Rev(l) \in Links /\ Rev(Rev(l)) = l /\ Rev(r) \in Links /\ Rev(Rev(r)) = r /\ Rev(r) # r
        BY LinkFacts
      <3>2. /\ l \in dead => Rev(l) \in dead /\ (l \in reg <=> Rev(l) \notin reg)
            /\ l \notin reg => cls[l] = "none"
            /\ Rev(l) \notin reg /\ l \notin dead => chan[Rev(l)] = <<>> /\ cls[l] = "none"
        BY <1>1 DEF LinksFit
      <3>3. CASE l = r
        BY <1>2, <1>4, <1>6, <1>8, <3>1, <3>2, <3>3
      <3>4. CASE l = Rev(r)
        BY <1>2, <1>4, <1>6, <1>8, <3>1, <3>2, <3>4
      <3>5. CASE l # r /\ l # Rev(r)
        <4>1. Rev(l) # r /\ Rev(l) # Rev(r)
          BY <3>1, <3>5
        <4>2. (l \in reg' <=> l \in reg) /\ (Rev(l) \in reg' <=> Rev(l) \in reg)
              /\ (l \in dead' <=> l \in dead) /\ (Rev(l) \in dead' <=> Rev(l) \in dead)
          BY <1>2, <3>5, <4>1
        <4>3. cls'[l] = cls[l] /\ (Rev(l) \notin reg' => chan'[Rev(l)] = chan[Rev(l)])
          BY <1>4, <1>6, <1>8, <3>1, <3>5, <4>1
        <4> QED
          BY <3>2, <4>2, <4>3
      <3> QED
        BY <3>3, <3>4, <3>5
    <2> QED
      BY <2>1 DEF LinksFit, Rev
  <1>10. ASSUME NEW l \in Links, l \in (reg' \ dead') \ lost', l \notin T
         PROVE  /\ l \in reg \ dead
                /\ Adverts'[l] = Adverts[l]
                /\ Word(PurgedQueues(r)[l], Records'[Rev(l)]) = Word(chan[l], Records[Rev(l)])
    <2>1. l # r /\ l # Rev(r) /\ l \in reg \ dead
      BY <1>2, <1>10
    <2>2. Rev(l) \in Links /\ Rev(Rev(l)) = l
      BY LinkFacts
    <2>3. Rev(l) # r
      BY <2>1, <2>2
    <2>4. PurgedQueues(r)[l] = chan[l] /\ Records'[Rev(l)] = Records[Rev(l)]
      BY <1>4, <1>6, <2>1, <2>2, <2>3
    <2> QED
      BY <1>4, <1>5, <1>10, <2>1, <2>4
  <1>11. SyncedOn'
    <2>1. NoNews(T, PurgedQueues(r))
      BY <1>10 DEF NoNews
    <2> QED
      BY <1>4, <1>6, <1>7, <2>1, SyncPush, Zenon
  <1> QED
    BY <1>4, <1>7, <1>9, <1>11, SyncParts

\* A transport is registered again: the word of its peer is missing, unless one
\* is still on the way.
LEMMA ReplaceSync ==
  ASSUME SyncInv, NEW r \in Links, Replace(r)
  PROVE  SyncInv'
  <1>1. RecTyped /\ chan \in [Links -> Seq(Message)] /\ lost \in SUBSET Links /\ LinksFit
    BY TypeSplit DEF SyncInv
  <1> DEFINE T == {k \in Peers(r[1], r[2])' : cls[r] # "none"} \union Sync(r)'
             M == {k \in reg : k = Rev(r) /\ chan[k] = <<>>}
  <1>2. /\ UNCHANGED <<req, evt>> /\ HostOp /\ Forget(r) /\ reg' = reg /\ dead' = dead
        /\ r \in reg
        /\ Push(T, chan, M)
    BY DEF Replace
  <1>3. reg' \in SUBSET Links /\ dead' \in SUBSET Links
    BY <1>1, <1>2 DEF RecTyped
  <1>4. /\ RecTyped' /\ RecordsFit'
        /\ cls'[r] = "none"
        /\ \A k \in Links : k # r => cls'[k] = cls[k] /\ Records'[k] = Records[k]
        /\ \A l \in Links : cls[r] = "none" \/ ~(l[1] = r[1] /\ l[2] # r[2]) => Adverts'[l] = Adverts[l]
    BY <1>2, <1>3, ForgetEffect
  <1>5. /\ T \in SUBSET Links
        /\ \A l \in Links : l \in T => l \in reg' \ dead'
        /\ \A l \in Links : l \in reg' \ dead' /\ l[1] = r[1] /\ l[2] # r[2] /\ cls[r] # "none" => l \in T
    BY <1>3, TargetsAreLinks
  <1>6. M \in SUBSET Links /\ (Rev(r) \in reg /\ chan[Rev(r)] = <<>> => Rev(r) \in M)
    BY <1>1 DEF RecTyped
  <1> HIDE DEF T, M
  <1>7. chan' \in [Links -> Seq(Message)] /\ lost' \in SUBSET Links /\ Told(T, chan, M)
    BY <1>1, <1>2, <1>4, <1>5, <1>6, PushEffect, Zenon
  <1>8. \A k \in Links : k \notin reg' => chan'[k] = chan[k]
    BY <1>5, <1>7 DEF Told
  <1>9. LinksFit'
    <2>1. ASSUME NEW l \in Links
          PROVE  /\ l \in dead' => Rev(l) \in dead' /\ (l \in reg' <=> Rev(l) \notin reg')
                 /\ l \notin reg' => cls'[l] = "none"
                 /\ Rev(l) \notin reg' /\ l \notin dead' => chan'[Rev(l)] = <<>> /\ cls'[l] = "none"
      <3>1. Rev(l) \in Links
        BY LinkFacts
      <3>2. /\ l \in dead => Rev(l) \in dead /\ (l \in reg <=> Rev(l) \notin reg)
            /\ l \notin reg => cls[l] = "none"
            /\ Rev(l) \notin reg /\ l \notin dead => chan[Rev(l)] = <<>> /\ cls[l] = "none"
        BY <1>1 DEF LinksFit
      <3>3. cls[l] = "none" => cls'[l] = "none"
        BY <1>4
      <3> QED
        BY <1>2, <1>8, <3>1, <3>2, <3>3
    <2> QED
      BY <2>1 DEF LinksFit, Rev
  <1>10. ASSUME NEW l \in Links, l \in (reg' \ dead') \ lost', l \notin T
         PROVE  /\ l \in reg \ dead
                /\ Adverts'[l] = Adverts[l]
                /\ Word(chan[l], Records'[Rev(l)]) = Word(chan[l], Records[Rev(l)])
    <2>1. l \in reg \ dead /\ Adverts'[l] = Adverts[l]
      BY <1>2, <1>4, <1>5, <1>10
    <2>2. Rev(l) \in Links /\ Rev(Rev(l)) = l
      BY LinkFacts
    <2>3. CASE l = Rev(r)
      <3>1. chan[l] # <<>>
        BY <1>6, <1>7, <1>10, <2>1, <2>3 DEF Told
      <3> QED
        BY <2>1, <3>1 DEF Word
    <2>4. CASE l # Rev(r)
      <3>1. Rev(l) # r
        BY <2>2, <2>4
      <3> QED
        BY <1>4, <2>1, <2>2, <3>1
    <2> QED
      BY <2>3, <2>4
  <1>11. SyncedOn'
    <2>1. NoNews(T, chan)
      BY <1>10 DEF NoNews
    <2> QED
      BY <1>1, <1>4, <1>7, <2>1, SyncPush, Zenon
  <1> QED
    BY <1>4, <1>7, <1>9, <1>11, SyncParts

\* A message is received.
LEMMA ReceiveSync ==
  ASSUME SyncInv, NEW r \in Links, ReceiveSubscribe(r) \/ ReceiveUnsubscribe(r)
  PROVE  SyncInv'
  <1>1. TypeOK /\ RecTyped /\ chan \in [Links -> Seq(Message)] /\ lost \in SUBSET Links /\ SyncedOn /\ RecordsFit /\ LinksFit
    BY TypeSplit, SyncedForm DEF SyncInv
  <1> DEFINE msg == Head(chan[Rev(r)])
             q == Take(Rev(r))
  <1>2. Rev(r) \in Links /\ Rev(Rev(r)) = r /\ Rev(r) # r
    BY LinkFacts
  <1>3. /\ chan[Rev(r)] # <<>> /\ r \in reg /\ msg \in Message
        /\ rreq' = [rreq EXCEPT ![r] = msg.prios]
        /\ cls' = [cls EXCEPT ![r] = msg.cls]
        /\ revt' = IF msg.type = "subscribe" /\ msg.prios = {} THEN revt \union {r} ELSE revt \ {r}
        /\ UNCHANGED <<req, evt, reg, dead, ops>>
        /\ PushToPeers(r[1], r[2], q)
        /\ RecTyped'
    BY <1>1, ReceiveEffect
  <1>4. /\ q \in [Links -> Seq(Message)]
        /\ q[Rev(r)] = Tail(chan[Rev(r)])
        /\ \A k \in Links : k # Rev(r) => q[k] = chan[k]
    BY <1>1, <1>2, <1>3, TakeEffect
  <1> HIDE DEF q, msg
  <1> DEFINE T == Peers(r[1], r[2])'
  <1>5. /\ chan' \in [Links -> Seq(Message)] /\ lost' \in SUBSET Links /\ Told(T, q, {})
        /\ \A l \in Links : l \in T <=> l \in reg' \ dead' /\ l[1] = r[1] /\ l[2] # r[2]
    BY <1>1, <1>3, <1>4, PeersEffect
  <1> HIDE DEF T
  <1>6. /\ rreq'[r] = msg.prios /\ cls'[r] = msg.cls
        /\ \A k \in Links : k # r => rreq'[k] = rreq[k] /\ cls'[k] = cls[k] /\ (k \in revt' <=> k \in revt)
        /\ \A k \in Links : k # r => Records'[k] = Records[k]
    <2>1. \A k \in Links : k # r => (k \in revt' <=> k \in revt)
      BY <1>3
    <2>2. /\ rreq'[r] = msg.prios /\ cls'[r] = msg.cls
          /\ \A k \in Links : k # r => rreq'[k] = rreq[k] /\ cls'[k] = cls[k] /\ Records'[k] = Records[k]
      BY <1>1, <1>3, <2>1, OtherRecordsStay
    <2> QED
      BY <2>1, <2>2
  <1>7. \/ msg.type = "unsubscribe" /\ msg = Unsubscribe /\ msg.cls = "none" /\ msg.prios = {}
        \/ /\ msg.type = "subscribe" /\ msg.cls # "none"
           /\ msg = [type |-> "subscribe", prios |-> msg.prios, cls |-> msg.cls]
    BY <1>3, MessageFields DEF Unsubscribe
  <1>8. Records'[r] = msg
    BY <1>6, <1>7 DEF Records, Recorded
  <1>9. RecordsFit'
    <2>1. ASSUME NEW l \in Links
          PROVE  /\ cls'[l] = "none" => rreq'[l] = {}
                 /\ l \in revt' <=> (cls'[l] # "none" /\ rreq'[l] = {})
      <3>1. CASE l = r
        BY <1>3, <1>6, <1>7, <3>1
      <3>2. CASE l # r
        BY <1>1, <1>6, <3>2 DEF RecordsFit
      <3> QED
        BY <3>1, <3>2
    <2> QED
      BY <2>1 DEF RecordsFit
  <1>10. LinksFit'
    <2>1. ASSUME NEW l \in Links
          PROVE  /\ l \in dead => Rev(l) \in dead /\ (l \in reg <=> Rev(l) \notin reg)
                 /\ l \notin reg => cls'[l] = "none"
                 /\ Rev(l) \notin reg /\ l \notin dead => chan'[Rev(l)] = <<>> /\ cls'[l] = "none"
      <3>1. Rev(l) \in Links /\ Rev(Rev(l)) = l
        BY LinkFacts
      <3>2. /\ l \in dead => Rev(l) \in dead /\ (l \in reg <=> Rev(l) \notin reg)
            /\ l \notin reg => cls[l] = "none"
            /\ Rev(l) \notin reg /\ l \notin dead => chan[Rev(l)] = <<>> /\ cls[l] = "none"
        BY <1>1 DEF LinksFit
      <3>3. CASE l = r
        BY <1>3, <3>2, <3>3
      <3>4. CASE l # r
        <4>1. Rev(l) # Rev(r)
          BY <1>2, <3>1, <3>4
        <4>2. Rev(l) \notin reg => chan'[Rev(l)] = chan[Rev(l)]
          BY <1>3, <1>4, <1>5, <3>1, <4>1 DEF Told
        <4> QED
          BY <1>6, <3>2, <3>4, <4>2
      <3> QED
        BY <3>3, <3>4
    <2> QED
      BY <1>3, <2>1 DEF LinksFit, Rev
  <1>11. SyncedOn'
    <2>1. ASSUME NEW l \in Links, l \in (reg' \ dead') \ lost', l \notin T
          PROVE  /\ l \in reg \ dead
                 /\ Adverts'[l] = Adverts[l]
                 /\ Word(q[l], Records'[Rev(l)]) = Word(chan[l], Records[Rev(l)])
      <3>1. Adverts'[l] = Adverts[l]
        <4>1. ~(l[1] = r[1] /\ l[2] # r[2]) /\ UNCHANGED <<req, evt>>
          BY <1>3, <1>5, <2>1
        <4> QED
          BY <1>6, <4>1, OtherOffersStay
      <3>2. Rev(l) \in Links /\ Rev(Rev(l)) = l
        BY LinkFacts
      <3>3. CASE l = Rev(r)
        <4>1. q[l] = Tail(chan[l]) /\ Records'[Rev(l)] = Head(chan[l]) /\ chan[l] \in Seq(Message) /\ chan[l] # <<>>
          BY <1>1, <1>2, <1>3, <1>4, <1>8, <3>3 DEF msg
        <4>2. Word(Tail(chan[l]), Head(chan[l])) = Word(chan[l], Records[Rev(l)])
          BY <4>1, LastOfTail
        <4> QED
          BY <1>3, <2>1, <3>1, <4>1, <4>2
      <3>4. CASE l # Rev(r)
        <4>1. Rev(l) # r
          BY <3>2, <3>4
        <4> QED
          BY <1>3, <1>4, <1>6, <2>1, <3>1, <3>2, <3>4, <4>1
      <3> QED
        BY <3>3, <3>4
    <2>2. NoNews(T, q)
      BY <2>1 DEF NoNews
    <2> QED
      BY <1>3, <1>4, <1>5, <2>2, SyncPush, Zenon
  <1> QED
    BY <1>3, <1>5, <1>9, <1>10, <1>11, SyncParts

\* What a bus has recorded of a connected peer, or will have once the messages
\* in flight have arrived, is what the peer offers now; of any other peer
\* nothing is left.
THEOREM SyncInvariant == Spec => []SyncInv
  <1>1. Init => SyncInv
    <2> SUFFICES ASSUME Init PROVE SyncInv
      OBVIOUS
    <2>1. TypeOK
      BY AdvertisedAssumption DEF Init, TypeOK, Classes
    <2>2. RecordsFit /\ LinksFit /\ Synced
      BY LinkFacts DEF Init, RecordsFit, LinksFit, Synced
    <2> QED
      BY <2>1, <2>2 DEF SyncInv
  <1>2. ASSUME SyncInv, UNCHANGED vars PROVE SyncInv'
    <2>1. /\ req' = req /\ evt' = evt /\ reg' = reg /\ dead' = dead /\ rreq' = rreq /\ revt' = revt
          /\ cls' = cls /\ chan' = chan /\ lost' = lost /\ ops' = ops
      BY <1>2 DEF vars
    <2>2. RecTyped' /\ chan' \in [Links -> Seq(Message)] /\ lost' \in SUBSET Links /\ RecordsFit' /\ LinksFit'
      BY <1>2, <2>1, TypeSplit DEF SyncInv, RecTyped, RecordsFit, LinksFit, Rev
    <2>3. SyncedOn /\ Adverts' = Adverts /\ Records' = Records
      BY <1>2, <2>1, SyncedForm DEF SyncInv, Adverts, Advert, Relayed, Records, Recorded
    <2>4. SyncedOn'
      BY <2>1, <2>3 DEF SyncedOn, Word, Rev
    <2> QED
      BY <2>2, <2>4, SyncParts
  <1>3. SyncInv /\ [Next]_vars => SyncInv'
    BY <1>2, ToggleSync, RegisterSync, UnregisterSync, ReplaceSync, ReceiveSync DEF Next
  <1> QED
    BY <1>1, <1>3, PTL DEF Spec

-----------------------------------------------------------------------------
(* Convergence: when nothing is in flight the records agree with the       *)
(* handlers and paths there are.  Every bus repeats what its peers say, so *)
(* the argument is an induction over the part of the tree behind a link.   *)

\* When all is quiet a bus has recorded the offer of every connected peer and
\* has no record of any other.
LEMMA QuietRecord ==
  ASSUME SyncInv, Quiet, NEW l \in Links
  PROVE  /\ Up(l) => Recorded(l) = Advert(l[2], l[1])
         /\ ~Up(l) => cls[l] = "none"
  <1>1. Rev(l) \in Links /\ Rev(Rev(l)) = l
    BY LinkFacts
  <1>2. /\ chan[Rev(l)] = <<>> /\ (l \in reg <=> Rev(l) \in reg)
        /\ l \in dead => Rev(l) \in dead /\ (l \in reg <=> Rev(l) \notin reg)
        /\ Rev(l) \in dead => l \in dead
        /\ l \notin reg => cls[l] = "none"
    BY <1>1 DEF Quiet, SyncInv, LinksFit
  <1>3. ASSUME Up(l) PROVE Recorded(l) = Advert(l[2], l[1])
    <2>1. Rev(l) \in (reg \ dead) \ lost
      BY <1>2, <1>3 DEF Up, Quiet
    <2> QED
      BY <1>2, <2>1 DEF SyncInv, Synced, LastWord
  <1>4. ASSUME ~Up(l) PROVE cls[l] = "none"
    BY <1>2, <1>4 DEF Up
  <1> QED
    BY <1>3, <1>4

\* The record of a connected peer, field by field.
LEMMA QuietFields ==
  ASSUME SyncInv, Quiet, NEW l \in Links, Up(l)
  PROVE  /\ rreq[l] = OfferedPrios(l[2], l[1])
         /\ l \in revt <=> OfferedPrios(l[2], l[1]) = {} /\ OfferedEvents(l[2], l[1])
         /\ cls[l] # "none" => cls[l] = OfferedClass(l[2])
  <1> DEFINE m == l[2]
             n == l[1]
  <1>1. n \in Nodes /\ m \in Nodes
    BY LinkFacts
  <1>2. Recorded(l) = Advert(m, n)
    BY QuietRecord
  <1>3. Advert(m, n) = IF OfferedPrios(m, n) = {} /\ ~OfferedEvents(m, n) THEN Unsubscribe
                       ELSE [type |-> "subscribe", prios |-> OfferedPrios(m, n), cls |-> OfferedClass(m)]
    BY <1>1, AdvertForm
  <1>4. cls[l] = "none" => rreq[l] = {} /\ l \notin revt
    BY DEF SyncInv, RecordsFit
  <1>5. l \in revt <=> (cls[l] # "none" /\ rreq[l] = {})
    BY DEF SyncInv, RecordsFit
  <1> HIDE DEF m, n
  <1>6. CASE cls[l] = "none"
    <2>1. Recorded(l) = Unsubscribe
      BY <1>6 DEF Recorded
    <2>2. OfferedPrios(m, n) = {} /\ ~OfferedEvents(m, n)
      BY <1>2, <1>3, <2>1 DEF Unsubscribe
    <2> QED
      BY <1>4, <1>6, <2>2 DEF m, n
  <1>7. CASE cls[l] # "none"
    <2>1. Recorded(l) = [type |-> "subscribe", prios |-> rreq[l], cls |-> cls[l]]
      BY <1>7 DEF Recorded
    <2>2. ~(OfferedPrios(m, n) = {} /\ ~OfferedEvents(m, n))
      BY <1>2, <1>3, <2>1 DEF Unsubscribe
    <2>3. [type |-> "subscribe", prios |-> rreq[l], cls |-> cls[l]]
            = [type |-> "subscribe", prios |-> OfferedPrios(m, n), cls |-> OfferedClass(m)]
      BY <1>2, <1>3, <2>1, <2>2
    <2>4. rreq[l] = OfferedPrios(m, n) /\ cls[l] = OfferedClass(m)
      BY <2>3
    <2> QED
      BY <1>5, <1>7, <2>2, <2>4 DEF m, n
  <1> QED
    BY <1>6, <1>7

\* The tree, seen from a link l towards k: the path from its far end is the
\* path from its near end without that.
LEMMA TreeStep ==
  ASSUME NEW l \in Links, NEW k \in Nodes, k # l[1], Via[l[1]][k] = l[2]
  PROVE  /\ Via[l[2]][k] # l[1]
         /\ OnPath(l[2], l[1], k) /\ ~OnPath(l[1], l[2], k)
         /\ \A j \in Nodes \ {k} : OnPath(j, l[1], k) <=> j = l[1] \/ OnPath(j, l[2], k)
  <1>1. l[1] \in Nodes /\ l[2] \in Nodes /\ l[1] # l[2] /\ Rev(l) \in Links /\ Rev(l) = <<l[2], l[1]>>
    BY LinkFacts DEF Rev
  <1>2. Via[l[2]][k] # l[1]
    BY TreeAssumption
  <1>3. Via[l[1]][l[1]] = l[1] /\ Via[l[2]][l[2]] = l[2]
    BY <1>1, TreeAssumption
  <1>4. Via[l[1]][l[2]] = l[2] /\ Via[l[2]][l[1]] = l[1]
    BY <1>1, TreeAssumption
  <1>5. ~OnPath(l[1], l[2], k)
    BY <1>4 DEF OnPath
  <1>6. OnPath(l[2], l[1], k)
    BY <1>2, <1>4 DEF OnPath
  <1>7. ASSUME k # l[2] PROVE OnPath(l[2], l[2], k)
    <2>1. <<l[2], Via[l[2]][k]>> \in Links
      BY <1>1, <1>7, TreeAssumption
    <2>2. <<l[2], Via[l[2]][k]>>[1] # <<l[2], Via[l[2]][k]>>[2]
      BY <2>1, LinkFacts
    <2>3. Via[l[2]][k] # l[2]
      BY <2>2
    <2> QED
      BY <1>3, <2>3 DEF OnPath
  <1>8. ASSUME NEW j \in Nodes \ {k}
        PROVE  OnPath(j, l[1], k) <=> j = l[1] \/ OnPath(j, l[2], k)
    <2>1. CASE j = l[1]
      BY <1>1, <1>3, <2>1 DEF OnPath
    <2>2. CASE j = l[2]
      BY <1>6, <1>7, <2>2
    <2>3. CASE j # l[1] /\ j # l[2]
      <3>1. Via[j][l[1]] = Via[j][l[2]]
        BY <2>3, TreeAssumption
      <3> QED
        BY <2>3, <3>1 DEF OnPath
    <2> QED
      BY <2>1, <2>2, <2>3
  <1> QED
    BY <1>2, <1>5, <1>6, <1>8

\* The path to k is up when its first link is and the rest is.
LEMMA PathStep ==
  ASSUME NEW l \in Links, NEW k \in Nodes, k # l[1], Via[l[1]][k] = l[2]
  PROVE  PathUp(l[1], k) <=> Up(l) /\ PathUp(l[2], k)
  <1>1. l[1] \in Nodes /\ l = <<l[1], l[2]>>
    BY LinkFacts
  <1>2. /\ \A j \in Nodes \ {k} : OnPath(j, l[1], k) <=> j = l[1] \/ OnPath(j, l[2], k)
        /\ ~OnPath(l[1], l[2], k)
    BY TreeStep
  <1>3. Up(<<l[1], Via[l[1]][k]>>) <=> Up(l)
    BY <1>1
  <1> QED
    BY <1>1, <1>2, <1>3 DEF PathUp

\* A bus has no path to itself to keep up.
LEMMA PathEnds == \A k \in Nodes : PathUp(k, k)
  BY DEF PathUp, OnPath

\* The hop to a handler that is known and not host-local is not host-local.
LEMMA HopNotHostLocal ==
  ASSUME NEW l \in Links, NEW k \in Nodes, k \notin HostLocal, MayLearn(l[1], k), Via[l[1]][k] = l[2]
  PROVE  l[2] \notin HostLocal
  <1>1. k # l[1] /\ l[1] # l[2]
    BY LinkFacts DEF MayLearn
  <1>2. OnPath(l[2], l[1], k)
    BY <1>1, TreeStep
  <1> QED
    BY <1>1, <1>2 DEF MayLearn

\* A host-local handler that is known is the neighbour's own.
LEMMA HostLocalIsNext ==
  ASSUME NEW l \in Links, NEW k \in Nodes, k \in HostLocal, MayLearn(l[1], k), Via[l[1]][k] = l[2]
  PROVE  k = l[2]
  <1>1. <<l[1], k>> \in Links
    BY DEF MayLearn
  <1>2. Via[l[1]][k] = k
    <2>1. Via[<<l[1], k>>[1]][<<l[1], k>>[2]] = <<l[1], k>>[2]
      BY <1>1, TreeAssumption
    <2> QED
      BY <2>1
  <1> QED
    BY <1>2

\* What is behind a link that is up: the neighbour itself, and what it may pass
\* on of what is behind its other links.
LEMMA BehindStep ==
  ASSUME NEW l \in Links, Up(l), NEW S \in SUBSET Nodes, NEW k \in Nodes
  PROVE  k \in Behind(l, S) <=>
            \/ k = l[2] /\ l[2] \in S
            \/ /\ l[2] \notin HostLocal /\ k \notin HostLocal
               /\ \E j \in Nodes : <<l[2], j>> \in Links /\ j # l[1] /\ k \in Behind(<<l[2], j>>, S)
  <1> DEFINE n == l[1]
             m == l[2]
  <1>1. /\ n \in Nodes /\ m \in Nodes /\ n # m /\ l = <<n, m>>
        /\ Rev(l) \in Links /\ Rev(l)[1] = m /\ Rev(l)[2] = n
    BY LinkFacts
  <1>2. ASSUME k = m, m \in S PROVE k \in Behind(l, S)
    <2>1. MayLearn(n, m) /\ Via[n][m] = m
      BY <1>1, OwnHandlerLegal
    <2>2. PathUp(n, m)
      BY <1>1, <2>1, PathStep, PathEnds
    <2> QED
      BY <1>2, <2>1, <2>2 DEF Behind
  <1>3. ASSUME m \notin HostLocal, k \notin HostLocal, NEW j \in Nodes, <<m, j>> \in Links, j # n,
               k \in Behind(<<m, j>>, S)
        PROVE  k \in Behind(l, S)
    <2>1. k \in S /\ MayLearn(m, k) /\ Via[m][k] = j /\ PathUp(m, k)
      BY <1>3 DEF Behind
    <2>2. MayLearn(n, k) /\ Via[n][k] = m
      BY <1>1, <1>3, <2>1, PassedOnLegal
    <2>3. PathUp(n, k)
      BY <2>1, <2>2, PathStep DEF MayLearn
    <2> QED
      BY <2>1, <2>2, <2>3 DEF Behind
  <1>4. ASSUME k \in Behind(l, S), k # m
        PROVE  /\ m \notin HostLocal /\ k \notin HostLocal
               /\ \E j \in Nodes : <<m, j>> \in Links /\ j # n /\ k \in Behind(<<m, j>>, S)
    <2>1. k \in S /\ MayLearn(n, k) /\ Via[n][k] = m /\ PathUp(n, k) /\ k # n
      BY <1>4 DEF Behind, MayLearn
    <2>2. k \notin HostLocal
      BY <1>4, <2>1, HostLocalIsNext
    <2>3. m \notin HostLocal
      BY <2>1, <2>2, HopNotHostLocal
    <2>4. Via[m][k] # n /\ ~OnPath(n, m, k)
      BY <2>1, TreeStep
    <2>5. Via[m][k] \in Nodes /\ <<m, Via[m][k]>> \in Links
      BY <1>1, <1>4, TreeAssumption, AdvertisedAssumption
    <2>6. MayLearn(m, k)
      <3>1. ASSUME NEW j \in HostLocal \ {m, k} PROVE ~OnPath(j, m, k)
        <4>1. j \in Nodes \ {k}
          BY AdvertisedAssumption
        <4>2. j # n => ~OnPath(j, n, k)
          BY <2>1 DEF MayLearn
        <4>3. OnPath(j, n, k) <=> j = n \/ OnPath(j, m, k)
          BY <2>1, <4>1, TreeStep
        <4> QED
          BY <2>4, <4>2, <4>3
      <3> QED
        BY <1>4, <2>2, <3>1 DEF MayLearn
    <2>7. PathUp(m, k)
      BY <2>1, PathStep
    <2>8. k \in Behind(<<m, Via[m][k]>>, S)
      BY <2>1, <2>6, <2>7 DEF Behind
    <2> QED
      BY <2>2, <2>3, <2>4, <2>5, <2>8
  <1>5. ASSUME k \in Behind(l, S), k = m PROVE m \in S
    BY <1>5 DEF Behind
  <1> QED
    BY <1>2, <1>3, <1>4, <1>5

\* what Converged says of one link
Knows(l) ==
    /\ rreq[l] = Behind(l, req)
    /\ l \in revt <=> (Behind(l, req) = {} /\ Behind(l, evt) # {})

\* What is behind a link is behind it only while it is up.
LEMMA BehindUp ==
  ASSUME NEW l \in Links, NEW S, NEW k \in Behind(l, S), S \subseteq Nodes
  PROVE  Up(l) /\ k \in Nodes /\ k \in S /\ MayLearn(l[1], k) /\ Via[l[1]][k] = l[2] /\ PathUp(l[1], k)
  <1>1. k \in S /\ MayLearn(l[1], k) /\ Via[l[1]][k] = l[2] /\ PathUp(l[1], k) /\ k \in Nodes
    BY DEF Behind
  <1>2. k # l[1]
    BY <1>1 DEF MayLearn
  <1> QED
    BY <1>1, <1>2, PathStep

\* A record that may be passed on is of no host-local handler.
LEMMA RelayableNotHostLocal ==
  ASSUME SyncInv, Quiet, NEW r \in Links, cls[r] = "relayable", NEW S, S \subseteq req \union evt,
         NEW k \in Behind(r, S)
  PROVE  k \notin HostLocal
  <1>1. req \subseteq Nodes /\ evt \subseteq Nodes
    BY DEF SyncInv, TypeOK
  <1>2. Up(r) /\ k \in Nodes /\ k \in S /\ MayLearn(r[1], k) /\ Via[r[1]][k] = r[2]
    BY <1>1, BehindUp
  <1>3. OfferedClass(r[2]) = "relayable"
    BY <1>2, QuietFields
  <1>4. ASSUME k \in HostLocal PROVE FALSE
    <2>1. k = r[2]
      BY <1>2, <1>4, HostLocalIsNext
    <2> QED
      BY <1>2, <1>3, <1>4, <2>1 DEF OfferedClass
  <1> QED
    BY <1>4

\* A record of a handler that is not host-local may be passed on.
LEMMA RecordRelayable ==
  ASSUME SyncInv, Quiet, NEW r \in Links, cls[r] # "none", NEW S, S \subseteq req \union evt,
         NEW k \in Behind(r, S), k \notin HostLocal
  PROVE  cls[r] = "relayable" /\ r[2] \notin HostLocal
  <1>1. req \subseteq Nodes /\ evt \subseteq Nodes
    BY DEF SyncInv, TypeOK
  <1>2. Up(r) /\ k \in Nodes /\ MayLearn(r[1], k) /\ Via[r[1]][k] = r[2]
    BY <1>1, BehindUp
  <1>3. r[2] \notin HostLocal
    BY <1>2, HopNotHostLocal
  <1>4. cls[r] = OfferedClass(r[2])
    BY <1>2, QuietFields
  <1> QED
    BY <1>3, <1>4 DEF OfferedClass

\* The links that lead on from l.
Onward(l) == {r \in Links : r[1] = l[2] /\ r[2] # l[1]}

\* A bus knows what is behind a link when its peer knows what is behind the
\* links that lead on: the request handlers.
LEMMA KnowsHandlers ==
  ASSUME SyncInv, Quiet, NEW l \in Links, Up(l), \A r \in Onward(l) : Knows(r)
  PROVE  OfferedPrios(l[2], l[1]) = Behind(l, req)
  <1> DEFINE n == l[1]
             m == l[2]
  <1>1. n \in Nodes /\ m \in Nodes
    BY LinkFacts
  <1>2. req \subseteq Nodes /\ RecTyped
    BY TypeSplit DEF SyncInv, TypeOK
  <1>3. OfferedPrios(m, n) \subseteq Nodes /\ Behind(l, req) \subseteq Nodes
    BY <1>1, <1>2, OfferedTyped DEF Behind
  <1>4. ASSUME NEW k \in OfferedPrios(m, n) PROVE k \in Behind(l, req)
    <2>1. (k = m /\ m \in req) \/ \E j \in Relayed(m, n) : k \in rreq[<<m, j>>]
      BY <1>4 DEF OfferedPrios
    <2>2. CASE k = m /\ m \in req
      BY <1>1, <1>2, <2>2, BehindStep
    <2>3. ASSUME NEW j \in Relayed(m, n), k \in rreq[<<m, j>>] PROVE k \in Behind(l, req)
      <3>1. m \notin HostLocal /\ <<m, j>> \in Links /\ j # n /\ cls[<<m, j>>] = "relayable" /\ j \in Nodes
        BY <2>3 DEF Relayed
      <3>2. Knows(<<m, j>>)
        BY <3>1 DEF Onward
      <3>3. k \in Behind(<<m, j>>, req)
        BY <2>3, <3>2 DEF Knows
      <3>4. k \notin HostLocal
        BY <3>1, <3>3, RelayableNotHostLocal
      <3>5. k \in Nodes
        BY <1>3
      <3> QED
        BY <1>2, <3>1, <3>3, <3>4, <3>5, BehindStep
    <2> QED
      BY <2>1, <2>2, <2>3
  <1>5. ASSUME NEW k \in Behind(l, req) PROVE k \in OfferedPrios(m, n)
    <2>1. k \in Nodes
      BY <1>3
    <2>2. \/ k = m /\ m \in req
          \/ /\ m \notin HostLocal /\ k \notin HostLocal
             /\ \E j \in Nodes : <<m, j>> \in Links /\ j # n /\ k \in Behind(<<m, j>>, req)
      BY <1>2, <1>5, <2>1, BehindStep
    <2>3. CASE k = m /\ m \in req
      BY <2>3 DEF OfferedPrios
    <2>4. ASSUME m \notin HostLocal, k \notin HostLocal, NEW j \in Nodes,
                 <<m, j>> \in Links, j # n, k \in Behind(<<m, j>>, req)
          PROVE  k \in OfferedPrios(m, n)
      <3>1. Knows(<<m, j>>)
        BY <2>4 DEF Onward
      <3>2. k \in rreq[<<m, j>>]
        BY <2>4, <3>1 DEF Knows
      <3>3. cls[<<m, j>>] # "none"
        BY <2>4, <3>2 DEF SyncInv, RecordsFit
      <3>4. cls[<<m, j>>] = "relayable"
        BY <2>4, <3>3, RecordRelayable
      <3>5. j \in Relayed(m, n)
        BY <2>4, <3>4 DEF Relayed
      <3> QED
        BY <3>2, <3>5 DEF OfferedPrios
    <2> QED
      BY <2>2, <2>3, <2>4
  <1> QED
    BY <1>4, <1>5

\* The same for the event handlers, which count where there is no request
\* handler.
LEMMA KnowsEvents ==
  ASSUME SyncInv, Quiet, NEW l \in Links, Up(l), \A r \in Onward(l) : Knows(r), Behind(l, req) = {}
  PROVE  OfferedEvents(l[2], l[1]) <=> Behind(l, evt) # {}
  <1> DEFINE n == l[1]
             m == l[2]
  <1>1. n \in Nodes /\ m \in Nodes
    BY LinkFacts
  <1>2. req \subseteq Nodes /\ evt \subseteq Nodes
    BY DEF SyncInv, TypeOK
  <1>3. ASSUME OfferedEvents(m, n) PROVE \E k \in Nodes : k \in Behind(l, evt)
    <2>1. CASE m \in evt
      BY <1>1, <1>2, <2>1, BehindStep
    <2>2. ASSUME NEW j \in Relayed(m, n), <<m, j>> \in revt PROVE \E k \in Nodes : k \in Behind(l, evt)
      <3>1. m \notin HostLocal /\ <<m, j>> \in Links /\ j # n /\ cls[<<m, j>>] = "relayable" /\ j \in Nodes
        BY <2>2 DEF Relayed
      <3>2. Knows(<<m, j>>)
        BY <3>1 DEF Onward
      <3>3. PICK k \in Behind(<<m, j>>, evt) : TRUE
        BY <2>2, <3>2 DEF Knows
      <3>4. k \notin HostLocal
        BY <3>1, <3>3, RelayableNotHostLocal
      <3>5. k \in Nodes
        BY <1>2, <3>3 DEF Behind
      <3>6. k \in Behind(l, evt)
        BY <1>2, <3>1, <3>3, <3>4, <3>5, BehindStep
      <3> QED
        BY <3>5, <3>6
    <2> QED
      BY <1>3, <2>1, <2>2 DEF OfferedEvents
  <1>4. ASSUME NEW k \in Behind(l, evt) PROVE OfferedEvents(m, n)
    <2>1. k \in Nodes
      BY <1>2 DEF Behind
    <2>2. \/ k = m /\ m \in evt
          \/ /\ m \notin HostLocal /\ k \notin HostLocal
             /\ \E j \in Nodes : <<m, j>> \in Links /\ j # n /\ k \in Behind(<<m, j>>, evt)
      BY <1>2, <1>4, <2>1, BehindStep
    <2>3. CASE k = m /\ m \in evt
      BY <2>3 DEF OfferedEvents
    <2>4. ASSUME m \notin HostLocal, k \notin HostLocal, NEW j \in Nodes,
                 <<m, j>> \in Links, j # n, k \in Behind(<<m, j>>, evt)
          PROVE  OfferedEvents(m, n)
      <3>1. Knows(<<m, j>>)
        BY <2>4 DEF Onward
      <3>2. j \notin HostLocal
        <4>1. MayLearn(m, k) /\ Via[m][k] = j
          BY <2>4 DEF Behind
        <4> QED
          BY <2>1, <2>4, <4>1, HopNotHostLocal
      <3>3. ASSUME NEW i \in Behind(<<m, j>>, req) PROVE FALSE
        <4>1. i \in Nodes /\ MayLearn(m, i) /\ Via[m][i] = j
          BY <1>2, <3>3 DEF Behind
        <4>2. i \notin HostLocal
          BY <2>4, <3>2, <4>1, HostLocalIsNext
        <4>3. i \in Behind(l, req)
          BY <1>2, <2>4, <3>3, <4>1, <4>2, BehindStep
        <4> QED
          BY <4>3
      <3>4. <<m, j>> \in revt
        BY <2>4, <3>1, <3>3 DEF Knows
      <3>5. cls[<<m, j>>] # "none"
        BY <2>4, <3>4 DEF SyncInv, RecordsFit
      <3>6. cls[<<m, j>>] = "relayable"
        BY <2>4, <3>5, RecordRelayable
      <3>7. j \in Relayed(m, n)
        BY <2>4, <3>6 DEF Relayed
      <3> QED
        BY <3>4, <3>7 DEF OfferedEvents
    <2> QED
      BY <2>2, <2>3, <2>4
  <1> QED
    BY <1>3, <1>4

LEMMA KnowsStep ==
  ASSUME SyncInv, Quiet, NEW l \in Links, \A r \in Onward(l) : Knows(r)
  PROVE  Knows(l)
  <1>1. req \subseteq Nodes /\ evt \subseteq Nodes
    BY DEF SyncInv, TypeOK
  <1>2. CASE Up(l)
    <2>1. /\ rreq[l] = OfferedPrios(l[2], l[1])
          /\ l \in revt <=> OfferedPrios(l[2], l[1]) = {} /\ OfferedEvents(l[2], l[1])
      BY <1>2, QuietFields
    <2>2. OfferedPrios(l[2], l[1]) = Behind(l, req)
      BY <1>2, KnowsHandlers
    <2>3. Behind(l, req) = {} => (OfferedEvents(l[2], l[1]) <=> Behind(l, evt) # {})
      BY <1>2, KnowsEvents
    <2> QED
      BY <2>1, <2>2, <2>3 DEF Knows
  <1>3. CASE ~Up(l)
    <2>1. Behind(l, req) = {} /\ Behind(l, evt) = {}
      BY <1>1, <1>3, BehindUp
    <2>2. cls[l] = "none"
      BY <1>3, QuietRecord
    <2>3. rreq[l] = {} /\ l \notin revt
      BY <2>2 DEF SyncInv, RecordsFit
    <2> QED
      BY <2>1, <2>3 DEF Knows
  <1> QED
    BY <1>2, <1>3

-----------------------------------------------------------------------------
\* the buses behind a link, connected or not
Side(l) == {k \in Nodes : Via[l[1]][k] = l[2]}

\* The part of the tree behind a link gets smaller on the way on.
LEMMA SideShrinks ==
  ASSUME NEW l \in Links, NEW r \in Onward(l)
  PROVE  Cardinality(Side(r)) \in Nat /\ Cardinality(Side(l)) \in Nat
         /\ Cardinality(Side(r)) < Cardinality(Side(l))
  <1>1. /\ r \in Links /\ r[1] = l[2] /\ r[2] # l[1]
        /\ l[1] \in Nodes /\ l[2] \in Nodes /\ l[1] # l[2] /\ r[1] # r[2]
        /\ Rev(l) \in Links /\ Rev(l) = <<l[2], l[1]>>
    BY LinkFacts DEF Onward, Rev
  <1>2. ASSUME NEW k \in Side(r) PROVE k \in Side(l) /\ k # l[2]
    <2>1. k \in Nodes /\ Via[l[2]][k] = r[2]
      BY <1>1 DEF Side
    <2>2. Via[l[2]][l[1]] = l[1] /\ Via[l[2]][l[2]] = l[2]
      BY <1>1, TreeAssumption
    <2>3. k # l[1] /\ k # l[2]
      BY <1>1, <2>1, <2>2
    <2>4. Via[l[1]][k] = l[2]
      BY <1>1, <2>1, <2>3, TreeAssumption
    <2> QED
      BY <2>1, <2>3, <2>4 DEF Side
  <1>3. l[2] \in Side(l)
    BY <1>1, TreeAssumption DEF Side
  <1>4. Side(r) \subseteq Side(l) /\ Side(r) # Side(l)
    BY <1>2, <1>3
  <1>5. IsFiniteSet(Side(l))
    <2>1. Side(l) \subseteq Nodes
      BY DEF Side
    <2> QED
      BY <2>1, TreeAssumption, FS_Subset
  <1>6. IsFiniteSet(Side(r))
    BY <1>4, <1>5, FS_Subset
  <1>7. Cardinality(Side(l)) \in Nat /\ Cardinality(Side(r)) \in Nat
    BY <1>5, <1>6, FS_CardinalityType
  <1>8. Cardinality(Side(r)) <= Cardinality(Side(l))
        /\ (Cardinality(Side(r)) = Cardinality(Side(l)) => Side(r) = Side(l))
    BY <1>4, <1>5, FS_Subset
  <1> QED
    BY <1>4, <1>7, <1>8

\* the order of the naturals as a relation
NatLess == {ss \in Nat \X Nat : ss[1] < ss[2]}

\* There is no infinite descent in the naturals.
LEMMA NatLessWellFounded == IsWellFoundedOn(NatLess, Nat)
  <1>1. NatLess = OpToRel(<, Nat)
    BY Zenon DEF OpToRel, NatLess
  <1> QED
    BY <1>1, NatLessThanWellFounded, Zenon

\* Every nonempty set of naturals has an element below which it has none.
LEMMA LeastExists ==
  ASSUME NEW S \in SUBSET Nat, S # {}
  PROVE  \E x \in S : \A y \in S : ~(y < x)
  <1>1. PICK x \in S : \A y \in S : ~(<<y, x>> \in NatLess)
    BY NatLessWellFounded, WFMin
  <1>2. \A a, b \in Nat : a < b => <<a, b>> \in NatLess
    BY Zenon DEF NatLess
  <1>3. ASSUME NEW y \in S PROVE ~(y < x)
    <2>1. x \in Nat /\ y \in Nat
      OBVIOUS
    <2> QED
      BY <1>1, <1>2, <2>1, Zenon
  <1> QED
    BY <1>3

\* By induction over the part of the tree behind it, every link is known.
LEMMA AllKnow ==
  ASSUME SyncInv, Quiet
  PROVE  \A l \in Links : Knows(l)
  <1> DEFINE Unknown == {l \in Links : ~Knows(l)}
             Sizes == {Cardinality(Side(l)) : l \in Unknown}
  <1>1. SUFFICES ASSUME Unknown # {} PROVE FALSE
    BY Zenon
  <1>2. ASSUME NEW l \in Links PROVE Cardinality(Side(l)) \in Nat
    <2>1. Side(l) \subseteq Nodes
      BY DEF Side
    <2> QED
      BY <2>1, TreeAssumption, FS_Subset, FS_CardinalityType
  <1>3. Sizes \in SUBSET Nat /\ Sizes # {}
    BY <1>1, <1>2
  <1>4. PICK x \in Sizes : \A y \in Sizes : ~(y < x)
    <2> HIDE DEF Sizes
    <2> QED
      BY <1>3, LeastExists
  <1>5. PICK l \in Unknown : Cardinality(Side(l)) = x
    BY <1>4
  <1>6. l \in Links /\ ~Knows(l)
    BY <1>5
  <1>7. ASSUME NEW r \in Onward(l), ~Knows(r) PROVE FALSE
    <2>1. r \in Links
      BY DEF Onward
    <2>2. Cardinality(Side(r)) \in Sizes
      BY <1>7, <2>1
    <2>3. Cardinality(Side(r)) < Cardinality(Side(l))
      BY <1>6, SideShrinks
    <2> QED
      BY <1>4, <1>5, <2>2, <2>3
  <1> QED
    BY <1>6, <1>7, KnowsStep

\* Once all messages have arrived, and every rejected push has been followed by
\* one that was not, every bus of the tree knows exactly the handlers it may
\* know of and can reach, whatever was delayed, disconnected and reconnected
\* before: no handler is missing and no ghost route is left.
THEOREM RoutesConverge == Spec => []Converged
  <1>1. SyncInv => Converged
    BY AllKnow DEF Converged, Knows
  <1> QED
    BY <1>1, SyncInvariant, PTL
=============================================================================
