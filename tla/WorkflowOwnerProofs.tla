------------------------ MODULE WorkflowOwnerProofs ------------------------
(* The owner's invariant and what follows from it, for any number of runner  *)
(* tasks, submissions, faults and crashes, with and without a finalizer.     *)
EXTENDS WorkflowOwner, TLAPS

\* Storing a status is monotone in what the owner has taken.
LEMMA StoreTakes ==
    ASSUME TypeOK, TakenInv, NEW status \in Statuses, Store(status), outcome' = outcome
    PROVE  /\ owner' \in Statuses
           /\ taken' \in [Attempts -> BOOLEAN]
           /\ TakenInv'
           /\ \A b \in Attempts : taken[b] => taken'[b]
<1>1. owner' = status /\ taken' = [b \in Attempts |-> taken[b] \/ Accepts(status, outcome[b])]
    BY DEF Store
<1>2. \A b \in Attempts : (taken[b] \/ Accepts(status, outcome[b])) \in BOOLEAN
    BY DEF TypeOK, Accepts
<1>3. \A b \in Attempts : taken'[b] = (taken[b] \/ Accepts(status, outcome[b]))
    BY <1>1
<1>4. \A b \in Attempts : Accepts(status, outcome[b]) => outcome[b] # "none"
    BY DEF Accepts, Statuses, Terminal
<1>5. \A b \in Attempts : Accepts(owner, outcome[b])' = Accepts(status, outcome[b])
    BY <1>1 DEF Accepts
<1>6. TakenInv'
    BY <1>3, <1>4, <1>5 DEF TakenInv
<1> QED BY <1>1, <1>2, <1>3, <1>6

\* A reserved publication is one more at the end of the queue, or none.
LEMMA ReserveKeeps ==
    ASSUME pubs \in Seq(Publication), NEW who \in Awaiters, NEW hasEvent \in BOOLEAN,
           Reserve(who, hasEvent)
    PROVE  pubs' \in Seq(Publication) /\ (pubs # <<>> => pubs' # <<>>)
<1>1. AwaitedBy(who) \in Awaiters
    BY DEF AwaitedBy, Awaiters, Nobody
<1>2. [by |-> AwaitedBy(who), event |-> hasEvent] \in Publication
    BY <1>1 DEF Publication
<1> QED BY <1>2 DEF Reserve

\* A step that leaves the owner, the attempts, the submissions, the waiters and the
\* queue alone keeps the invariant if it keeps the types.
LEMMA BystanderKeeps ==
    ASSUME OwnerInv, TypeOK',
           UNCHANGED <<owner, active, settled, outcome, intent, answer, waiter, sub, cancel,
                       lock, pubs, publishing, taken, requested>>
    PROVE  OwnerInv'
<1>1. QueueInv' /\ CancelReachesEveryAttempt'
    BY DEF OwnerInv, QueueInv, CancelReachesEveryAttempt, Exists
<1>2. TakenInv' /\ SubmissionInv' /\ AcceptanceIsHonest'
    BY DEF OwnerInv, TakenInv, SubmissionInv, AcceptanceIsHonest, Accepts
<1> QED BY <1>1, <1>2 DEF OwnerInv

\* A response that ends keeps the types of the responses and of the subscriber.
LEMMA ResponseReturnsTypes ==
    ASSUME TypeOK, NEW r \in Responses, ResponseReturns(r)
    PROVE  /\ resume' \in [Responses -> [pc : ResponseStates, gate : 0 .. MaxAttempts]]
           /\ handler' \in {"none", "cancel"} \cup Responses
<1>1. NoResponse \in [pc : ResponseStates, gate : 0 .. MaxAttempts]
    BY OwnerAssumption DEF NoResponse, ResponseStates
<1> QED BY <1>1 DEF TypeOK, ResponseReturns

\* A publication starts.
LEMMA StartPublicationKeeps ==
    ASSUME OwnerInv, StartPublication
    PROVE  OwnerInv'
<1>1. TypeOK'
    BY OwnerAssumption DEF OwnerInv, StartPublication, durableVars, pubVars, historyVars,
       faultVars, TypeOK, QueueInv, Statuses, Terminal, Settlements, Attempts, TaskStates,
       WaiterStates, SubStates
<1>2. QueueInv'
    BY OwnerAssumption DEF OwnerInv, StartPublication, durableVars, pubVars, historyVars,
       faultVars, TypeOK, QueueInv, Exists, Statuses, Terminal, Settlements, Attempts
<1>3. TakenInv'
    BY OwnerAssumption DEF OwnerInv, StartPublication, durableVars, pubVars, historyVars,
       faultVars, TypeOK, TakenInv, Accepts, Statuses, Terminal, Settlements, Attempts
<1>4. SubmissionInv'
    BY <1>3, OwnerAssumption DEF OwnerInv, StartPublication, durableVars, pubVars,
       historyVars, faultVars, TypeOK, SubmissionInv, TakenInv, QueueInv, Accepts,
       SubStates, Statuses, Terminal, Settlements, Attempts
<1>5. CancelReachesEveryAttempt'
    BY OwnerAssumption DEF OwnerInv, StartPublication, durableVars, pubVars, historyVars,
       faultVars, TypeOK, QueueInv, CancelReachesEveryAttempt, Exists, Statuses, Terminal,
       Settlements, Attempts
<1>6. AcceptanceIsHonest'
    BY OwnerAssumption DEF OwnerInv, StartPublication, durableVars, pubVars, historyVars,
       faultVars, TypeOK, QueueInv, TakenInv, SubmissionInv, AcceptanceIsHonest, Accepts,
       WaiterStates, Statuses, Terminal, Settlements, Attempts
<1> QED BY <1>1, <1>2, <1>3, <1>4, <1>5, <1>6 DEF OwnerInv

\* A publication ends.
LEMMA EndPublicationKeeps ==
    ASSUME OwnerInv, EndPublication
    PROVE  OwnerInv'
<1>1. TypeOK'
  <2>1. pubs' \in Seq(Publication)
      BY DEF OwnerInv, EndPublication, durableVars, pubVars, historyVars, faultVars, TypeOK,
         QueueInv
  <2> QED
      BY <2>1, OwnerAssumption DEF OwnerInv, EndPublication, durableVars, pubVars,
         historyVars, faultVars, TypeOK, Settlements
<1>2. QueueInv'
    BY OwnerAssumption DEF OwnerInv, EndPublication, durableVars, pubVars, historyVars,
       faultVars, TypeOK, QueueInv, Exists, Statuses, Terminal, Settlements, Attempts
<1>3. TakenInv'
    BY OwnerAssumption DEF OwnerInv, EndPublication, durableVars, pubVars, historyVars,
       faultVars, TypeOK, TakenInv, Accepts, Statuses, Terminal, Settlements, Attempts
<1>4. SubmissionInv'
    BY <1>3, OwnerAssumption DEF OwnerInv, EndPublication, durableVars, pubVars,
       historyVars, faultVars, TypeOK, SubmissionInv, TakenInv, QueueInv, Accepts,
       SubStates, Statuses, Terminal, Settlements, Attempts
<1>5. CancelReachesEveryAttempt'
    BY OwnerAssumption DEF OwnerInv, EndPublication, durableVars, pubVars, historyVars,
       faultVars, TypeOK, QueueInv, CancelReachesEveryAttempt, Exists, Statuses, Terminal,
       Settlements, Attempts
<1>6. AcceptanceIsHonest'
    BY OwnerAssumption DEF OwnerInv, EndPublication, durableVars, pubVars, historyVars,
       faultVars, TypeOK, QueueInv, TakenInv, SubmissionInv, AcceptanceIsHonest, Accepts,
       WaiterStates, Statuses, Terminal, Settlements, Attempts
<1> QED BY <1>1, <1>2, <1>3, <1>4, <1>5, <1>6 DEF OwnerInv

\* An admitted attempt is created.
LEMMA CreateAttemptKeeps ==
    ASSUME OwnerInv, NEW a \in Attempts, CreateAttempt(a)
    PROVE  OwnerInv'
<1>1. TypeOK'
    BY OwnerAssumption DEF OwnerInv, CreateAttempt, durableVars, pubVars, historyVars,
       faultVars, TypeOK, QueueInv, Statuses, Terminal, Settlements, Attempts, TaskStates,
       WaiterStates, SubStates
<1>2. QueueInv'
    BY OwnerAssumption DEF OwnerInv, CreateAttempt, durableVars, pubVars, historyVars,
       faultVars, TypeOK, QueueInv, Exists, Statuses, Terminal, Settlements, Attempts
<1>3. TakenInv'
    BY OwnerAssumption DEF OwnerInv, CreateAttempt, durableVars, pubVars, historyVars,
       faultVars, TypeOK, TakenInv, Accepts, Statuses, Terminal, Settlements, Attempts
<1>4. SubmissionInv'
    BY <1>3, OwnerAssumption DEF OwnerInv, CreateAttempt, durableVars, pubVars,
       historyVars, faultVars, TypeOK, SubmissionInv, TakenInv, QueueInv, Accepts,
       SubStates, Statuses, Terminal, Settlements, Attempts
<1>5. CancelReachesEveryAttempt'
    BY OwnerAssumption DEF OwnerInv, CreateAttempt, durableVars, pubVars, historyVars,
       faultVars, TypeOK, QueueInv, CancelReachesEveryAttempt, Exists, Statuses, Terminal,
       Settlements, Attempts
<1>6. AcceptanceIsHonest'
    BY OwnerAssumption DEF OwnerInv, CreateAttempt, durableVars, pubVars, historyVars,
       faultVars, TypeOK, QueueInv, TakenInv, SubmissionInv, AcceptanceIsHonest, Accepts,
       WaiterStates, Statuses, Terminal, Settlements, Attempts
<1> QED BY <1>1, <1>2, <1>3, <1>4, <1>5, <1>6 DEF OwnerInv

\* Creation is refused.
LEMMA CreationRefusedKeeps ==
    ASSUME OwnerInv, NEW a \in Attempts, CreationRefused(a)
    PROVE  OwnerInv'
<1>1. TypeOK'
    BY OwnerAssumption DEF OwnerInv, CreationRefused, durableVars, pubVars, historyVars,
       faultVars, TypeOK, QueueInv, Statuses, Terminal, Settlements, Attempts, TaskStates,
       WaiterStates, SubStates
<1>2. QueueInv'
    BY OwnerAssumption DEF OwnerInv, CreationRefused, durableVars, pubVars, historyVars,
       faultVars, TypeOK, QueueInv, Exists, Statuses, Terminal, Settlements, Attempts
<1>3. TakenInv'
    BY OwnerAssumption DEF OwnerInv, CreationRefused, durableVars, pubVars, historyVars,
       faultVars, TypeOK, TakenInv, Accepts, Statuses, Terminal, Settlements, Attempts
<1>4. SubmissionInv'
    BY <1>3, OwnerAssumption DEF OwnerInv, CreationRefused, durableVars, pubVars,
       historyVars, faultVars, TypeOK, SubmissionInv, TakenInv, QueueInv, Accepts,
       SubStates, Statuses, Terminal, Settlements, Attempts
<1>5. CancelReachesEveryAttempt'
    BY OwnerAssumption DEF OwnerInv, CreationRefused, durableVars, pubVars, historyVars,
       faultVars, TypeOK, QueueInv, CancelReachesEveryAttempt, Exists, Statuses, Terminal,
       Settlements, Attempts
<1>6. AcceptanceIsHonest'
    BY OwnerAssumption DEF OwnerInv, CreationRefused, durableVars, pubVars, historyVars,
       faultVars, TypeOK, QueueInv, TakenInv, SubmissionInv, AcceptanceIsHonest, Accepts,
       WaiterStates, Statuses, Terminal, Settlements, Attempts
<1> QED BY <1>1, <1>2, <1>3, <1>4, <1>5, <1>6 DEF OwnerInv

\* The creation of an attempt fails.
LEMMA CreationFailsKeeps ==
    ASSUME OwnerInv, NEW a \in Attempts, CreationFails(a)
    PROVE  OwnerInv'
<1>1. task' \in [Attempts -> TaskStates] /\ faults' \in 0 .. MaxFaults
    BY OwnerAssumption DEF OwnerInv, TypeOK, CreationFails, TaskStates
<1>2. TypeOK'
    BY <1>1 DEF OwnerInv, TypeOK, CreationFails, durableVars, pubVars, historyVars
<1> QED BY <1>2, BystanderKeeps DEF CreationFails, durableVars, pubVars, historyVars

\* The dispatch request returns.
LEMMA DispatchKeeps ==
    ASSUME OwnerInv, NEW a \in Attempts, NEW accepted \in BOOLEAN, Dispatch(a, accepted)
    PROVE  OwnerInv'
<1>1. TypeOK'
    BY OwnerAssumption DEF OwnerInv, Dispatch, durableVars, pubVars, historyVars,
       faultVars, TypeOK, QueueInv, Statuses, Terminal, Settlements, Attempts, TaskStates,
       WaiterStates, SubStates
<1>2. QueueInv'
    BY OwnerAssumption DEF OwnerInv, Dispatch, durableVars, pubVars, historyVars,
       faultVars, TypeOK, QueueInv, Exists, Statuses, Terminal, Settlements, Attempts
<1>3. TakenInv'
    BY OwnerAssumption DEF OwnerInv, Dispatch, durableVars, pubVars, historyVars,
       faultVars, TypeOK, TakenInv, Accepts, Statuses, Terminal, Settlements, Attempts
<1>4. SubmissionInv'
    BY <1>3, OwnerAssumption DEF OwnerInv, Dispatch, durableVars, pubVars, historyVars,
       faultVars, TypeOK, SubmissionInv, TakenInv, QueueInv, Accepts, SubStates, Statuses,
       Terminal, Settlements, Attempts
<1>5. CancelReachesEveryAttempt'
    BY OwnerAssumption DEF OwnerInv, Dispatch, durableVars, pubVars, historyVars,
       faultVars, TypeOK, QueueInv, CancelReachesEveryAttempt, Exists, Statuses, Terminal,
       Settlements, Attempts
<1>6. AcceptanceIsHonest'
    BY OwnerAssumption DEF OwnerInv, Dispatch, durableVars, pubVars, historyVars,
       faultVars, TypeOK, QueueInv, TakenInv, SubmissionInv, AcceptanceIsHonest, Accepts,
       WaiterStates, Statuses, Terminal, Settlements, Attempts
<1> QED BY <1>1, <1>2, <1>3, <1>4, <1>5, <1>6 DEF OwnerInv

\* A rejected dispatch is decided.
LEMMA HandleUnacknowledgedDispatchFailureKeeps ==
    ASSUME OwnerInv, NEW a \in Attempts, HandleUnacknowledgedDispatchFailure(a)
    PROVE  OwnerInv'
<1>1. TypeOK'
  <2>0. waiter \in [Attempts -> WaiterStates]
      BY DEF OwnerInv, TypeOK
  <2>1. waiter' \in [Attempts -> WaiterStates]
      BY <2>0 DEF HandleUnacknowledgedDispatchFailure, RejectWaiter, DiscardWaiter,
         WaiterStates
  <2>2. \E t \in TaskStates : task' = [task EXCEPT ![a] = t]
      BY DEF OwnerInv, HandleUnacknowledgedDispatchFailure, RejectWaiter, DiscardWaiter,
         durableVars, pubVars, historyVars, faultVars, TypeOK, TaskStates
  <2>3. task' \in [Attempts -> TaskStates]
      BY <2>2 DEF OwnerInv, HandleUnacknowledgedDispatchFailure, RejectWaiter,
         DiscardWaiter, durableVars, pubVars, historyVars, faultVars, TypeOK
  <2>4. settled' \in [Attempts -> Settlements]
      BY DEF OwnerInv, HandleUnacknowledgedDispatchFailure, RejectWaiter, DiscardWaiter,
         durableVars, pubVars, historyVars, faultVars, TypeOK, Settlements
  <2> QED
      BY <2>1, <2>2, <2>3, <2>4, OwnerAssumption DEF OwnerInv,
         HandleUnacknowledgedDispatchFailure, durableVars, pubVars, historyVars, faultVars,
         TypeOK, Settlements
<1>2. QueueInv'
    BY OwnerAssumption DEF OwnerInv, HandleUnacknowledgedDispatchFailure, RejectWaiter,
       DiscardWaiter, durableVars, pubVars, historyVars, faultVars, TypeOK, QueueInv,
       Exists, Statuses, Terminal, Settlements, Attempts
<1>3. TakenInv'
    BY OwnerAssumption DEF OwnerInv, HandleUnacknowledgedDispatchFailure, RejectWaiter,
       DiscardWaiter, durableVars, pubVars, historyVars, faultVars, TypeOK, TakenInv,
       Accepts, Statuses, Terminal, Settlements, Attempts
<1>4. SubmissionInv'
    BY <1>3, OwnerAssumption DEF OwnerInv, HandleUnacknowledgedDispatchFailure,
       RejectWaiter, DiscardWaiter, durableVars, pubVars, historyVars, faultVars, TypeOK,
       SubmissionInv, TakenInv, QueueInv, Accepts, SubStates, Statuses, Terminal,
       Settlements, Attempts
<1>5. CancelReachesEveryAttempt'
    BY OwnerAssumption DEF OwnerInv, HandleUnacknowledgedDispatchFailure, RejectWaiter,
       DiscardWaiter, durableVars, pubVars, historyVars, faultVars, TypeOK, QueueInv,
       CancelReachesEveryAttempt, Exists, Statuses, Terminal, Settlements, Attempts
<1>6. AcceptanceIsHonest'
    BY OwnerAssumption DEF OwnerInv, HandleUnacknowledgedDispatchFailure, RejectWaiter,
       DiscardWaiter, durableVars, pubVars, historyVars, faultVars, TypeOK, QueueInv,
       TakenInv, SubmissionInv, AcceptanceIsHonest, Accepts, WaiterStates, Statuses,
       Terminal, Settlements, Attempts
<1> QED BY <1>1, <1>2, <1>3, <1>4, <1>5, <1>6 DEF OwnerInv

\* Deciding a rejected dispatch fails.
LEMMA AbandonmentFailsKeeps ==
    ASSUME OwnerInv, NEW a \in Attempts, AbandonmentFails(a)
    PROVE  OwnerInv'
<1>1. TypeOK'
    BY OwnerAssumption DEF OwnerInv, AbandonmentFails, DiscardWaiter, durableVars,
       pubVars, historyVars, faultVars, TypeOK, QueueInv, Statuses, Terminal, Settlements,
       Attempts, TaskStates, WaiterStates, SubStates
<1>2. QueueInv'
    BY OwnerAssumption DEF OwnerInv, AbandonmentFails, DiscardWaiter, durableVars,
       pubVars, historyVars, faultVars, TypeOK, QueueInv, Exists, Statuses, Terminal,
       Settlements, Attempts
<1>3. TakenInv'
    BY OwnerAssumption DEF OwnerInv, AbandonmentFails, DiscardWaiter, durableVars,
       pubVars, historyVars, faultVars, TypeOK, TakenInv, Accepts, Statuses, Terminal,
       Settlements, Attempts
<1>4. SubmissionInv'
    BY <1>3, OwnerAssumption DEF OwnerInv, AbandonmentFails, DiscardWaiter, durableVars,
       pubVars, historyVars, faultVars, TypeOK, SubmissionInv, TakenInv, QueueInv,
       Accepts, SubStates, Statuses, Terminal, Settlements, Attempts
<1>5. CancelReachesEveryAttempt'
    BY OwnerAssumption DEF OwnerInv, AbandonmentFails, DiscardWaiter, durableVars,
       pubVars, historyVars, faultVars, TypeOK, QueueInv, CancelReachesEveryAttempt,
       Exists, Statuses, Terminal, Settlements, Attempts
<1>6. AcceptanceIsHonest'
    BY OwnerAssumption DEF OwnerInv, AbandonmentFails, DiscardWaiter, durableVars,
       pubVars, historyVars, faultVars, TypeOK, QueueInv, TakenInv, SubmissionInv,
       AcceptanceIsHonest, Accepts, WaiterStates, Statuses, Terminal, Settlements,
       Attempts
<1> QED BY <1>1, <1>2, <1>3, <1>4, <1>5, <1>6 DEF OwnerInv

\* The runner is told its outcome.
LEMMA AwaitOutcomeKeeps ==
    ASSUME OwnerInv, NEW a \in Attempts, AwaitOutcome(a)
    PROVE  OwnerInv'
<1>1. TypeOK'
  <2>1. entry' \in 0 .. MaxAttempts
      BY OwnerAssumption DEF OwnerInv, AwaitOutcome, Release, durableVars, pubVars,
         historyVars, faultVars, TypeOK, Attempts
  <2>2. \E t \in TaskStates : task' = [task EXCEPT ![a] = t]
      BY DEF OwnerInv, AwaitOutcome, Release, durableVars, pubVars, historyVars, faultVars,
         TypeOK, TaskStates
  <2>3. task' \in [Attempts -> TaskStates]
      BY <2>2 DEF OwnerInv, AwaitOutcome, Release, durableVars, pubVars, historyVars,
         faultVars, TypeOK
  <2> QED
      BY <2>1, <2>2, <2>3, OwnerAssumption DEF OwnerInv, AwaitOutcome, durableVars, pubVars,
         historyVars, faultVars, TypeOK, Settlements
<1>2. QueueInv'
    BY OwnerAssumption DEF OwnerInv, AwaitOutcome, Release, durableVars, pubVars,
       historyVars, faultVars, TypeOK, QueueInv, Exists, Statuses, Terminal, Settlements,
       Attempts
<1>3. TakenInv'
    BY OwnerAssumption DEF OwnerInv, AwaitOutcome, Release, durableVars, pubVars,
       historyVars, faultVars, TypeOK, TakenInv, Accepts, Statuses, Terminal, Settlements,
       Attempts
<1>4. SubmissionInv'
    BY <1>3, OwnerAssumption DEF OwnerInv, AwaitOutcome, Release, durableVars, pubVars,
       historyVars, faultVars, TypeOK, SubmissionInv, TakenInv, QueueInv, Accepts,
       SubStates, Statuses, Terminal, Settlements, Attempts
<1>5. CancelReachesEveryAttempt'
    BY OwnerAssumption DEF OwnerInv, AwaitOutcome, Release, durableVars, pubVars,
       historyVars, faultVars, TypeOK, QueueInv, CancelReachesEveryAttempt, Exists,
       Statuses, Terminal, Settlements, Attempts
<1>6. AcceptanceIsHonest'
    BY OwnerAssumption DEF OwnerInv, AwaitOutcome, Release, durableVars, pubVars,
       historyVars, faultVars, TypeOK, QueueInv, TakenInv, SubmissionInv,
       AcceptanceIsHonest, Accepts, WaiterStates, Statuses, Terminal, Settlements,
       Attempts
<1> QED BY <1>1, <1>2, <1>3, <1>4, <1>5, <1>6 DEF OwnerInv

\* The runner rejects.
LEMMA RunnerRejectedKeeps ==
    ASSUME OwnerInv, NEW a \in Attempts, RunnerRejected(a)
    PROVE  OwnerInv'
<1>1. TypeOK'
    BY OwnerAssumption DEF OwnerInv, RunnerRejected, durableVars, pubVars, historyVars,
       faultVars, TypeOK, QueueInv, Statuses, Terminal, Settlements, Attempts, TaskStates,
       WaiterStates, SubStates
<1>2. QueueInv'
    BY OwnerAssumption DEF OwnerInv, RunnerRejected, durableVars, pubVars, historyVars,
       faultVars, TypeOK, QueueInv, Exists, Statuses, Terminal, Settlements, Attempts
<1>3. TakenInv'
    BY OwnerAssumption DEF OwnerInv, RunnerRejected, durableVars, pubVars, historyVars,
       faultVars, TypeOK, TakenInv, Accepts, Statuses, Terminal, Settlements, Attempts
<1>4. SubmissionInv'
    BY <1>3, OwnerAssumption DEF OwnerInv, RunnerRejected, durableVars, pubVars,
       historyVars, faultVars, TypeOK, SubmissionInv, TakenInv, QueueInv, Accepts,
       SubStates, Statuses, Terminal, Settlements, Attempts
<1>5. CancelReachesEveryAttempt'
    BY OwnerAssumption DEF OwnerInv, RunnerRejected, durableVars, pubVars, historyVars,
       faultVars, TypeOK, QueueInv, CancelReachesEveryAttempt, Exists, Statuses, Terminal,
       Settlements, Attempts
<1>6. AcceptanceIsHonest'
    BY OwnerAssumption DEF OwnerInv, RunnerRejected, durableVars, pubVars, historyVars,
       faultVars, TypeOK, QueueInv, TakenInv, SubmissionInv, AcceptanceIsHonest, Accepts,
       WaiterStates, Statuses, Terminal, Settlements, Attempts
<1> QED BY <1>1, <1>2, <1>3, <1>4, <1>5, <1>6 DEF OwnerInv

\* A rejected runner fails its owner.
LEMMA CompleteExecutionWithFailureKeeps ==
    ASSUME OwnerInv, NEW a \in Attempts, CompleteExecutionWithFailure(a)
    PROVE  OwnerInv'
<1>1. pubs' \in Seq(Publication) /\ (pubs # <<>> => pubs' # <<>>)
    BY ReserveKeeps DEF OwnerInv, CompleteExecutionWithFailure, TypeOK, Awaiters
<1>2. /\ owner' \in Statuses /\ taken' \in [Attempts -> BOOLEAN] /\ TakenInv'
      /\ \A b \in Attempts : taken[b] => taken'[b]
    BY StoreTakes, OwnerAssumption DEF OwnerInv, CompleteExecutionWithFailure, TypeOK,
       Statuses, Terminal, TakenInv
<1>3. TypeOK'
  <2>1. entry' \in 0 .. MaxAttempts
      BY OwnerAssumption DEF OwnerInv, CompleteExecutionWithFailure, Store, durableVars,
         pubVars, historyVars, faultVars, TypeOK
  <2>2. task' \in [Attempts -> TaskStates]
      BY DEF OwnerInv, CompleteExecutionWithFailure, Store, durableVars, pubVars,
         historyVars, faultVars, TypeOK, TaskStates
  <2> QED
      BY <2>1, <2>2, <1>1, <1>2, OwnerAssumption DEF OwnerInv, CompleteExecutionWithFailure,
         durableVars, pubVars, historyVars, faultVars, TypeOK, Settlements
<1>4. QueueInv'
    BY <1>1, <1>2, OwnerAssumption DEF OwnerInv, CompleteExecutionWithFailure, Store,
       durableVars, pubVars, historyVars, faultVars, TypeOK, QueueInv, Exists, Statuses,
       Terminal, Settlements, Attempts
<1>5. SubmissionInv'
    BY <1>1, <1>2, OwnerAssumption DEF OwnerInv, CompleteExecutionWithFailure, Store,
       durableVars, pubVars, historyVars, faultVars, TypeOK, SubmissionInv, TakenInv,
       QueueInv, Accepts, SubStates, Statuses, Terminal, Settlements, Attempts
<1>6. CancelReachesEveryAttempt'
    BY <1>1, <1>2, OwnerAssumption DEF OwnerInv, CompleteExecutionWithFailure, Store,
       durableVars, pubVars, historyVars, faultVars, TypeOK, QueueInv,
       CancelReachesEveryAttempt, Exists, Statuses, Terminal, Settlements, Attempts
<1>7. AcceptanceIsHonest'
    BY <1>1, <1>2, OwnerAssumption DEF OwnerInv, CompleteExecutionWithFailure, Store,
       durableVars, pubVars, historyVars, faultVars, TypeOK, QueueInv, TakenInv,
       SubmissionInv, AcceptanceIsHonest, Accepts, WaiterStates, Statuses, Terminal,
       Settlements, Attempts
<1> QED BY <1>3, <1>4, <1>2, <1>5, <1>6, <1>7 DEF OwnerInv

\* The failure cannot be stored.
LEMMA FailureNotStoredKeeps ==
    ASSUME OwnerInv, NEW a \in Attempts, FailureNotStored(a)
    PROVE  OwnerInv'
<1>1. TypeOK'
    BY OwnerAssumption DEF OwnerInv, FailureNotStored, Release, durableVars, pubVars,
       historyVars, faultVars, TypeOK, QueueInv, Statuses, Terminal, Settlements,
       Attempts, TaskStates, WaiterStates, SubStates
<1>2. QueueInv'
    BY OwnerAssumption DEF OwnerInv, FailureNotStored, Release, durableVars, pubVars,
       historyVars, faultVars, TypeOK, QueueInv, Exists, Statuses, Terminal, Settlements,
       Attempts
<1>3. TakenInv'
    BY OwnerAssumption DEF OwnerInv, FailureNotStored, Release, durableVars, pubVars,
       historyVars, faultVars, TypeOK, TakenInv, Accepts, Statuses, Terminal, Settlements,
       Attempts
<1>4. SubmissionInv'
    BY <1>3, OwnerAssumption DEF OwnerInv, FailureNotStored, Release, durableVars,
       pubVars, historyVars, faultVars, TypeOK, SubmissionInv, TakenInv, QueueInv,
       Accepts, SubStates, Statuses, Terminal, Settlements, Attempts
<1>5. CancelReachesEveryAttempt'
    BY OwnerAssumption DEF OwnerInv, FailureNotStored, Release, durableVars, pubVars,
       historyVars, faultVars, TypeOK, QueueInv, CancelReachesEveryAttempt, Exists,
       Statuses, Terminal, Settlements, Attempts
<1>6. AcceptanceIsHonest'
    BY OwnerAssumption DEF OwnerInv, FailureNotStored, Release, durableVars, pubVars,
       historyVars, faultVars, TypeOK, QueueInv, TakenInv, SubmissionInv,
       AcceptanceIsHonest, Accepts, WaiterStates, Statuses, Terminal, Settlements,
       Attempts
<1> QED BY <1>1, <1>2, <1>3, <1>4, <1>5, <1>6 DEF OwnerInv

\* The failing task ends.
LEMMA FailureReturnsKeeps ==
    ASSUME OwnerInv, NEW a \in Attempts, FailureReturns(a)
    PROVE  OwnerInv'
<1>1. TypeOK'
    BY OwnerAssumption DEF OwnerInv, FailureReturns, Release, durableVars, pubVars,
       historyVars, faultVars, TypeOK, QueueInv, Statuses, Terminal, Settlements,
       Attempts, TaskStates, WaiterStates, SubStates
<1>2. QueueInv'
    BY OwnerAssumption DEF OwnerInv, FailureReturns, Release, durableVars, pubVars,
       historyVars, faultVars, TypeOK, QueueInv, Exists, Statuses, Terminal, Settlements,
       Attempts
<1>3. TakenInv'
    BY OwnerAssumption DEF OwnerInv, FailureReturns, Release, durableVars, pubVars,
       historyVars, faultVars, TypeOK, TakenInv, Accepts, Statuses, Terminal, Settlements,
       Attempts
<1>4. SubmissionInv'
    BY <1>3, OwnerAssumption DEF OwnerInv, FailureReturns, Release, durableVars, pubVars,
       historyVars, faultVars, TypeOK, SubmissionInv, TakenInv, QueueInv, Accepts,
       SubStates, Statuses, Terminal, Settlements, Attempts
<1>5. CancelReachesEveryAttempt'
    BY OwnerAssumption DEF OwnerInv, FailureReturns, Release, durableVars, pubVars,
       historyVars, faultVars, TypeOK, QueueInv, CancelReachesEveryAttempt, Exists,
       Statuses, Terminal, Settlements, Attempts
<1>6. AcceptanceIsHonest'
    BY OwnerAssumption DEF OwnerInv, FailureReturns, Release, durableVars, pubVars,
       historyVars, faultVars, TypeOK, QueueInv, TakenInv, SubmissionInv,
       AcceptanceIsHonest, Accepts, WaiterStates, Statuses, Terminal, Settlements,
       Attempts
<1> QED BY <1>1, <1>2, <1>3, <1>4, <1>5, <1>6 DEF OwnerInv

\* An attempt is provisioned.
LEMMA ProvisionKeeps ==
    ASSUME OwnerInv, NEW a \in Attempts, Provision(a)
    PROVE  OwnerInv'
<1>1. TypeOK'
    BY OwnerAssumption DEF OwnerInv, Provision, durableVars, pubVars, historyVars,
       faultVars, TypeOK, QueueInv, Statuses, Terminal, Settlements, Attempts, TaskStates,
       WaiterStates, SubStates
<1>2. QueueInv'
    BY OwnerAssumption DEF OwnerInv, Provision, durableVars, pubVars, historyVars,
       faultVars, TypeOK, QueueInv, Exists, Statuses, Terminal, Settlements, Attempts
<1>3. TakenInv'
    BY OwnerAssumption DEF OwnerInv, Provision, durableVars, pubVars, historyVars,
       faultVars, TypeOK, TakenInv, Accepts, Statuses, Terminal, Settlements, Attempts
<1>4. SubmissionInv'
    BY <1>3, OwnerAssumption DEF OwnerInv, Provision, durableVars, pubVars, historyVars,
       faultVars, TypeOK, SubmissionInv, TakenInv, QueueInv, Accepts, SubStates, Statuses,
       Terminal, Settlements, Attempts
<1>5. CancelReachesEveryAttempt'
    BY OwnerAssumption DEF OwnerInv, Provision, durableVars, pubVars, historyVars,
       faultVars, TypeOK, QueueInv, CancelReachesEveryAttempt, Exists, Statuses, Terminal,
       Settlements, Attempts
<1>6. AcceptanceIsHonest'
    BY OwnerAssumption DEF OwnerInv, Provision, durableVars, pubVars, historyVars,
       faultVars, TypeOK, QueueInv, TakenInv, SubmissionInv, AcceptanceIsHonest, Accepts,
       WaiterStates, Statuses, Terminal, Settlements, Attempts
<1> QED BY <1>1, <1>2, <1>3, <1>4, <1>5, <1>6 DEF OwnerInv

\* Provisioning is proven absent.
LEMMA ProvisioningAbsentKeeps ==
    ASSUME OwnerInv, NEW a \in Attempts, ProvisioningAbsent(a)
    PROVE  OwnerInv'
<1>1. TypeOK'
    BY OwnerAssumption DEF OwnerInv, ProvisioningAbsent, RejectWaiter, durableVars, pubVars,
       historyVars, faultVars, TypeOK, QueueInv, Statuses, Terminal, Settlements,
       Attempts, TaskStates, WaiterStates, SubStates
<1>2. QueueInv'
    BY OwnerAssumption DEF OwnerInv, ProvisioningAbsent, RejectWaiter, durableVars, pubVars,
       historyVars, faultVars, TypeOK, QueueInv, Exists, Statuses, Terminal, Settlements,
       Attempts
<1>3. TakenInv'
    BY OwnerAssumption DEF OwnerInv, ProvisioningAbsent, RejectWaiter, durableVars, pubVars,
       historyVars, faultVars, TypeOK, TakenInv, Accepts, Statuses, Terminal, Settlements,
       Attempts
<1>4. SubmissionInv'
    BY <1>3, OwnerAssumption DEF OwnerInv, ProvisioningAbsent, RejectWaiter, durableVars,
       pubVars, historyVars, faultVars, TypeOK, SubmissionInv, TakenInv, QueueInv,
       Accepts, SubStates, Statuses, Terminal, Settlements, Attempts
<1>5. CancelReachesEveryAttempt'
    BY OwnerAssumption DEF OwnerInv, ProvisioningAbsent, RejectWaiter, durableVars, pubVars,
       historyVars, faultVars, TypeOK, QueueInv, CancelReachesEveryAttempt, Exists,
       Statuses, Terminal, Settlements, Attempts
<1>6. AcceptanceIsHonest'
    BY OwnerAssumption DEF OwnerInv, ProvisioningAbsent, RejectWaiter, durableVars, pubVars,
       historyVars, faultVars, TypeOK, QueueInv, TakenInv, SubmissionInv,
       AcceptanceIsHonest, Accepts, WaiterStates, Statuses, Terminal, Settlements,
       Attempts
<1> QED BY <1>1, <1>2, <1>3, <1>4, <1>5, <1>6 DEF OwnerInv

\* The infrastructure of an attempt fails.
LEMMA InfrastructureFailureKeeps ==
    ASSUME OwnerInv, NEW a \in Attempts, InfrastructureFailure(a)
    PROVE  OwnerInv'
<1>1. TypeOK'
    BY OwnerAssumption DEF OwnerInv, InfrastructureFailure, RejectWaiter, durableVars, pubVars,
       historyVars, faultVars, TypeOK, QueueInv, Statuses, Terminal, Settlements,
       Attempts, TaskStates, WaiterStates, SubStates
<1>2. QueueInv'
    BY OwnerAssumption DEF OwnerInv, InfrastructureFailure, RejectWaiter, durableVars, pubVars,
       historyVars, faultVars, TypeOK, QueueInv, Exists, Statuses, Terminal, Settlements,
       Attempts
<1>3. TakenInv'
    BY OwnerAssumption DEF OwnerInv, InfrastructureFailure, RejectWaiter, durableVars, pubVars,
       historyVars, faultVars, TypeOK, TakenInv, Accepts, Statuses, Terminal, Settlements,
       Attempts
<1>4. SubmissionInv'
    BY <1>3, OwnerAssumption DEF OwnerInv, InfrastructureFailure, RejectWaiter, durableVars,
       pubVars, historyVars, faultVars, TypeOK, SubmissionInv, TakenInv, QueueInv,
       Accepts, SubStates, Statuses, Terminal, Settlements, Attempts
<1>5. CancelReachesEveryAttempt'
    BY OwnerAssumption DEF OwnerInv, InfrastructureFailure, RejectWaiter, durableVars, pubVars,
       historyVars, faultVars, TypeOK, QueueInv, CancelReachesEveryAttempt, Exists,
       Statuses, Terminal, Settlements, Attempts
<1>6. AcceptanceIsHonest'
    BY OwnerAssumption DEF OwnerInv, InfrastructureFailure, RejectWaiter, durableVars, pubVars,
       historyVars, faultVars, TypeOK, QueueInv, TakenInv, SubmissionInv,
       AcceptanceIsHonest, Accepts, WaiterStates, Statuses, Terminal, Settlements,
       Attempts
<1> QED BY <1>1, <1>2, <1>3, <1>4, <1>5, <1>6 DEF OwnerInv

\* A worker decides its answer.
LEMMA WorkerFinishesKeeps ==
    ASSUME OwnerInv, NEW a \in Attempts, NEW v \in Answers, WorkerFinishes(a, v)
    PROVE  OwnerInv'
<1>1. TypeOK'
    BY OwnerAssumption DEF OwnerInv, WorkerFinishes, durableVars, pubVars, historyVars,
       faultVars, TypeOK, QueueInv, Statuses, Terminal, Settlements, Attempts, TaskStates,
       WaiterStates, SubStates
<1>2. QueueInv'
    BY OwnerAssumption DEF OwnerInv, WorkerFinishes, durableVars, pubVars, historyVars,
       faultVars, TypeOK, QueueInv, Exists, Statuses, Terminal, Settlements, Attempts
<1>3. TakenInv'
    BY OwnerAssumption DEF OwnerInv, WorkerFinishes, durableVars, pubVars, historyVars,
       faultVars, TypeOK, TakenInv, Accepts, Statuses, Terminal, Settlements, Attempts
<1>4. SubmissionInv'
    BY <1>3, OwnerAssumption DEF OwnerInv, WorkerFinishes, durableVars, pubVars,
       historyVars, faultVars, TypeOK, SubmissionInv, TakenInv, QueueInv, Accepts,
       SubStates, Statuses, Terminal, Settlements, Attempts
<1>5. CancelReachesEveryAttempt'
    BY OwnerAssumption DEF OwnerInv, WorkerFinishes, durableVars, pubVars, historyVars,
       faultVars, TypeOK, QueueInv, CancelReachesEveryAttempt, Exists, Statuses, Terminal,
       Settlements, Attempts
<1>6. AcceptanceIsHonest'
    BY OwnerAssumption DEF OwnerInv, WorkerFinishes, durableVars, pubVars, historyVars,
       faultVars, TypeOK, QueueInv, TakenInv, SubmissionInv, AcceptanceIsHonest, Accepts,
       WaiterStates, Statuses, Terminal, Settlements, Attempts
<1> QED BY <1>1, <1>2, <1>3, <1>4, <1>5, <1>6 DEF OwnerInv

\* A worker submits.
LEMMA SubmitKeeps ==
    ASSUME OwnerInv, NEW a \in Attempts, NEW s \in Slots, Submit(a, s)
    PROVE  OwnerInv'
<1>1. TypeOK'
    BY OwnerAssumption DEF OwnerInv, Submit, durableVars, pubVars, historyVars, faultVars,
       TypeOK, QueueInv, Statuses, Terminal, Settlements, Attempts, TaskStates,
       WaiterStates, SubStates
<1>2. QueueInv'
    BY OwnerAssumption DEF OwnerInv, Submit, durableVars, pubVars, historyVars, faultVars,
       TypeOK, QueueInv, Exists, Statuses, Terminal, Settlements, Attempts
<1>3. TakenInv'
    BY OwnerAssumption DEF OwnerInv, Submit, durableVars, pubVars, historyVars, faultVars,
       TypeOK, TakenInv, Accepts, Statuses, Terminal, Settlements, Attempts
<1>4. SubmissionInv'
    BY <1>3, OwnerAssumption DEF OwnerInv, Submit, durableVars, pubVars, historyVars,
       faultVars, TypeOK, SubmissionInv, TakenInv, QueueInv, Accepts, SubStates, Statuses,
       Terminal, Settlements, Attempts
<1>5. CancelReachesEveryAttempt'
    BY OwnerAssumption DEF OwnerInv, Submit, durableVars, pubVars, historyVars, faultVars,
       TypeOK, QueueInv, CancelReachesEveryAttempt, Exists, Statuses, Terminal,
       Settlements, Attempts
<1>6. AcceptanceIsHonest'
    BY OwnerAssumption DEF OwnerInv, Submit, durableVars, pubVars, historyVars, faultVars,
       TypeOK, QueueInv, TakenInv, SubmissionInv, AcceptanceIsHonest, Accepts,
       WaiterStates, Statuses, Terminal, Settlements, Attempts
<1> QED BY <1>1, <1>2, <1>3, <1>4, <1>5, <1>6 DEF OwnerInv

\* An outcome is committed, repeated or fenced.
LEMMA CommitOutcomeKeeps ==
    ASSUME OwnerInv, NEW a \in Attempts, NEW s \in Slots, CommitOutcome(a, s)
    PROVE  OwnerInv'
<1>1. TypeOK'
  <2>0. waiter \in [Attempts -> WaiterStates]
      BY DEF OwnerInv, TypeOK
  <2>1. waiter' \in [Attempts -> WaiterStates]
      BY <2>0 DEF CommitOutcome, RejectWaiter, WaiterStates
  <2>2. \E p \in SubStates : sub' = [sub EXCEPT ![a][s] = p]
      BY DEF OwnerInv, CommitOutcome, RejectWaiter, Goto, durableVars, pubVars, historyVars,
         faultVars, TypeOK, SubStates
  <2>3. sub' \in [Attempts -> [Slots -> SubStates]]
      BY <2>2 DEF OwnerInv, CommitOutcome, RejectWaiter, Goto, durableVars, pubVars,
         historyVars, faultVars, TypeOK
  <2>4. settled' \in [Attempts -> Settlements]
      BY DEF OwnerInv, CommitOutcome, RejectWaiter, Goto, durableVars, pubVars, historyVars,
         faultVars, TypeOK, Settlements
  <2>5. outcome' \in [Attempts -> Answers \cup {"none"}]
      BY DEF OwnerInv, CommitOutcome, RejectWaiter, Goto, durableVars, pubVars, historyVars,
         faultVars, TypeOK
  <2>6. observed' \in [Attempts -> BOOLEAN]
      BY DEF OwnerInv, CommitOutcome, RejectWaiter, Goto, durableVars, pubVars, historyVars,
         faultVars, TypeOK
  <2>7. taken' \in [Attempts -> BOOLEAN]
      BY DEF OwnerInv, CommitOutcome, RejectWaiter, Goto, durableVars, pubVars, historyVars,
         faultVars, TypeOK, Accepts
  <2> QED
      BY <2>1, <2>2, <2>3, <2>4, <2>5, <2>6, <2>7, OwnerAssumption DEF OwnerInv,
         CommitOutcome, durableVars, pubVars, historyVars, faultVars, TypeOK, Settlements
<1>2. QueueInv'
    BY OwnerAssumption DEF OwnerInv, CommitOutcome, RejectWaiter, Goto, durableVars,
       pubVars, historyVars, faultVars, TypeOK, QueueInv, Exists, Statuses, Terminal,
       Settlements, Attempts
<1>3. TakenInv'
  <2>1. \/ UNCHANGED <<outcome, taken>>
        \/ /\ outcome[a] = "none"
           /\ outcome' = [outcome EXCEPT ![a] = answer[a]]
           /\ taken' = [taken EXCEPT ![a] = Accepts(owner, answer[a])]
      BY DEF CommitOutcome
  <2>2. owner' = owner
      BY DEF CommitOutcome
  <2>3. CASE UNCHANGED <<outcome, taken>>
      BY <2>2, <2>3 DEF OwnerInv, TakenInv, Accepts
  <2>4. ~Accepts(owner, "none")
      BY DEF OwnerInv, TypeOK, Accepts, Statuses, Terminal
  <2>5. CASE /\ outcome' = [outcome EXCEPT ![a] = answer[a]]
             /\ taken' = [taken EXCEPT ![a] = Accepts(owner, answer[a])]
    <3>1. outcome'[a] = answer[a] /\ taken'[a] = Accepts(owner, answer[a])
        BY <2>5 DEF OwnerInv, TypeOK
    <3>2. \A b \in Attempts : b # a => outcome'[b] = outcome[b] /\ taken'[b] = taken[b]
        BY <2>5 DEF OwnerInv, TypeOK
    <3>3. Accepts(owner, outcome[a])' = Accepts(owner, answer[a])
        BY <2>2, <3>1 DEF Accepts
    <3>4. \A b \in Attempts : b # a => Accepts(owner, outcome[b])' = Accepts(owner, outcome[b])
        BY <2>2, <3>2 DEF Accepts
    <3>5. taken'[a] => outcome'[a] # "none"
        BY <3>1, <2>4
    <3> QED BY <3>1, <3>2, <3>3, <3>4, <3>5 DEF OwnerInv, TakenInv
  <2> QED BY <2>1, <2>3, <2>5
<1>4. SubmissionInv'
  <2>1. owner' = owner /\ answer' = answer /\ answer[a] # "none"
      BY DEF CommitOutcome, OwnerInv, SubmissionInv
  <2>2. \A b \in Attempts : waiter'[b] = waiter[b] \/ waiter'[b] = "rejected"
      BY DEF OwnerInv, CommitOutcome, RejectWaiter, TypeOK
  <2>3. PICK p \in {"idle", "read"} : sub' = [sub EXCEPT ![a][s] = p]
      BY DEF CommitOutcome, Goto
  <2>4. \A b \in Attempts, t \in Slots : sub'[b][t] = IF b = a /\ t = s THEN p ELSE sub[b][t]
      BY <2>3 DEF OwnerInv, TypeOK
  <2>5. CASE UNCHANGED <<outcome, taken>>
    <3>1. sub' = [sub EXCEPT ![a][s] = "idle"] \/ outcome[a] # "none"
        BY <2>1, <2>5 DEF OwnerInv, CommitOutcome, Goto, TypeOK
    <3>2. sub'[a][s] = "idle" \/ outcome[a] # "none"
        BY <3>1 DEF OwnerInv, TypeOK
    <3> QED BY <2>1, <2>2, <2>5, <2>4, <3>2 DEF OwnerInv, SubmissionInv
  <2>6. CASE /\ outcome[a] = "none"
             /\ answer[a] # "none"
             /\ outcome' = [outcome EXCEPT ![a] = answer[a]]
             /\ taken' = [taken EXCEPT ![a] = Accepts(owner, answer[a])]
    <3>1. outcome'[a] = answer[a]
        BY <2>6 DEF OwnerInv, TypeOK
    <3>2. \A b \in Attempts : b # a => outcome'[b] = outcome[b] /\ taken'[b] = taken[b]
        BY <2>6 DEF OwnerInv, TypeOK
    <3>3. \A t \in Slots : sub[a][t] \in {"idle", "commit"}
        BY <2>6 DEF OwnerInv, SubmissionInv
    <3> QED BY <2>1, <2>2, <2>6, <2>4, <3>1, <3>2, <3>3 DEF OwnerInv, SubmissionInv
  <2>7. \/ UNCHANGED <<outcome, taken>>
        \/ /\ outcome[a] = "none"
           /\ answer[a] # "none"
           /\ outcome' = [outcome EXCEPT ![a] = answer[a]]
           /\ taken' = [taken EXCEPT ![a] = Accepts(owner, answer[a])]
      BY DEF CommitOutcome, OwnerInv, SubmissionInv
  <2> QED BY <2>5, <2>6, <2>7
<1>5. CancelReachesEveryAttempt'
    BY OwnerAssumption DEF OwnerInv, CommitOutcome, RejectWaiter, Goto, durableVars,
       pubVars, historyVars, faultVars, TypeOK, QueueInv, CancelReachesEveryAttempt,
       Exists, Statuses, Terminal, Settlements, Attempts
<1>6. AcceptanceIsHonest'
    BY OwnerAssumption DEF OwnerInv, CommitOutcome, RejectWaiter, Goto, durableVars,
       pubVars, historyVars, faultVars, TypeOK, QueueInv, TakenInv, SubmissionInv,
       AcceptanceIsHonest, Accepts, WaiterStates, Statuses, Terminal, Settlements,
       Attempts
<1> QED BY <1>1, <1>2, <1>3, <1>4, <1>5, <1>6 DEF OwnerInv

\* The owner is read before the projection.
LEMMA ReadOwnerKeeps ==
    ASSUME OwnerInv, NEW a \in Attempts, NEW s \in Slots, ReadOwner(a, s)
    PROVE  OwnerInv'
<1>1. TypeOK'
    BY OwnerAssumption DEF OwnerInv, ReadOwner, Goto, durableVars, pubVars, historyVars,
       faultVars, TypeOK, QueueInv, Statuses, Terminal, Settlements, Attempts, TaskStates,
       WaiterStates, SubStates
<1>2. QueueInv'
    BY OwnerAssumption DEF OwnerInv, ReadOwner, Goto, durableVars, pubVars, historyVars,
       faultVars, TypeOK, QueueInv, Exists, Statuses, Terminal, Settlements, Attempts
<1>3. TakenInv'
    BY OwnerAssumption DEF OwnerInv, ReadOwner, Goto, durableVars, pubVars, historyVars,
       faultVars, TypeOK, TakenInv, Accepts, Statuses, Terminal, Settlements, Attempts
<1>4. SubmissionInv'
    BY <1>3, OwnerAssumption DEF OwnerInv, ReadOwner, Goto, durableVars, pubVars,
       historyVars, faultVars, TypeOK, SubmissionInv, TakenInv, QueueInv, Accepts,
       SubStates, Statuses, Terminal, Settlements, Attempts
<1>5. CancelReachesEveryAttempt'
    BY OwnerAssumption DEF OwnerInv, ReadOwner, Goto, durableVars, pubVars, historyVars,
       faultVars, TypeOK, QueueInv, CancelReachesEveryAttempt, Exists, Statuses, Terminal,
       Settlements, Attempts
<1>6. AcceptanceIsHonest'
    BY OwnerAssumption DEF OwnerInv, ReadOwner, Goto, durableVars, pubVars, historyVars,
       faultVars, TypeOK, QueueInv, TakenInv, SubmissionInv, AcceptanceIsHonest, Accepts,
       WaiterStates, Statuses, Terminal, Settlements, Attempts
<1> QED BY <1>1, <1>2, <1>3, <1>4, <1>5, <1>6 DEF OwnerInv

\* A terminal outcome reads the owner.
LEMMA ProjectTerminalKeeps ==
    ASSUME OwnerInv, NEW a \in Attempts, NEW s \in Slots, ProjectTerminal(a, s)
    PROVE  OwnerInv'
<1>0. StatusRead(outcome[a]) \in SubStates
    BY DEF StatusRead, RunnerResultRead, TechnicalFailureRead, CancellationRead, SubStates
<1>1. TypeOK'
  <2>1. sub' \in [Attempts -> [Slots -> SubStates]]
      BY <1>0 DEF OwnerInv, TypeOK, ProjectTerminal, Goto
  <2>2. holder' \in (Attempts \X Slots) \cup {Nobody}
      BY DEF OwnerInv, TypeOK, ProjectTerminal
  <2> QED
      BY <2>1, <2>2 DEF OwnerInv, TypeOK, ProjectTerminal, durableVars, pubVars,
         historyVars, faultVars
<1>2. QueueInv'
    BY OwnerAssumption DEF OwnerInv, ProjectTerminal, Goto, durableVars, pubVars,
       historyVars, faultVars, TypeOK, QueueInv, Exists, Statuses, Terminal, Settlements,
       Attempts
<1>3. TakenInv'
    BY OwnerAssumption DEF OwnerInv, ProjectTerminal, Goto, durableVars, pubVars,
       historyVars, faultVars, TypeOK, TakenInv, Accepts, Statuses, Terminal, Settlements,
       Attempts
<1>4. SubmissionInv'
  <2>1. ASSUME StatusRead(outcome[a]) = "accepted" PROVE taken[a] \/ owner = "cancelled"
      BY <2>1 DEF StatusRead, RunnerResultRead, TechnicalFailureRead, CancellationRead,
         OwnerInv, TakenInv, Accepts
  <2>2. StatusRead(outcome[a]) \notin {"commit", "projected", "recorded-only"}
      BY DEF StatusRead, RunnerResultRead, TechnicalFailureRead, CancellationRead
  <2> HIDE DEF StatusRead
  <2> QED
      BY <2>1, <2>2 DEF OwnerInv, ProjectTerminal, Goto, durableVars, pubVars, historyVars,
         faultVars, TypeOK, SubmissionInv
<1>5. CancelReachesEveryAttempt'
    BY OwnerAssumption DEF OwnerInv, ProjectTerminal, Goto, durableVars, pubVars,
       historyVars, faultVars, TypeOK, QueueInv, CancelReachesEveryAttempt, Exists,
       Statuses, Terminal, Settlements, Attempts
<1>6. AcceptanceIsHonest'
    BY OwnerAssumption DEF OwnerInv, ProjectTerminal, Goto, durableVars, pubVars,
       historyVars, faultVars, TypeOK, QueueInv, TakenInv, SubmissionInv,
       AcceptanceIsHonest, Accepts, WaiterStates, Statuses, Terminal, Settlements,
       Attempts
<1> QED BY <1>1, <1>2, <1>3, <1>4, <1>5, <1>6 DEF OwnerInv

\* The finalizer is looked up.
LEMMA SelectFinalizerKeeps ==
    ASSUME OwnerInv, NEW a \in Attempts, NEW s \in Slots, SelectFinalizer(a, s)
    PROVE  OwnerInv'
<1>1. sub' \in [Attempts -> [Slots -> SubStates]]
    BY DEF OwnerInv, TypeOK, SelectFinalizer, Goto, SubStates
<1>2. TypeOK'
    BY <1>1 DEF OwnerInv, TypeOK, SelectFinalizer, durableVars, pubVars, historyVars,
       faultVars
<1>3. SubmissionInv'
    BY DEF OwnerInv, TypeOK, SelectFinalizer, Goto, SubmissionInv, durableVars, historyVars
<1>4. QueueInv' /\ CancelReachesEveryAttempt'
    BY DEF OwnerInv, SelectFinalizer, QueueInv, CancelReachesEveryAttempt, Exists,
       durableVars, pubVars, historyVars
<1>5. TakenInv' /\ AcceptanceIsHonest'
    BY DEF OwnerInv, SelectFinalizer, TakenInv, AcceptanceIsHonest, Accepts, durableVars,
       historyVars
<1> QED BY <1>2, <1>3, <1>4, <1>5 DEF OwnerInv

\* A submission takes back its registration of the finalizer.
LEMMA UnregisterFinalizerKeeps ==
    ASSUME OwnerInv, NEW a \in Attempts, NEW s \in Slots, UnregisterFinalizer(a, s)
    PROVE  OwnerInv'
<1>1. TypeOK'
    BY DEF OwnerInv, TypeOK, UnregisterFinalizer, Unregister, durableVars, pubVars,
       historyVars, faultVars
<1> QED BY <1>1, BystanderKeeps DEF UnregisterFinalizer, durableVars, pubVars, historyVars

\* A terminal outcome is projected.
LEMMA TerminalTransitionKeeps ==
    ASSUME OwnerInv, NEW a \in Attempts, NEW s \in Slots, TerminalTransition(a, s)
    PROVE  OwnerInv'
<1>1. pubs' \in Seq(Publication) /\ (pubs # <<>> => pubs' # <<>>)
    BY ReserveKeeps DEF OwnerInv, TerminalTransition, TypeOK, Awaiters, CanProject
<1>2. /\ owner' \in Statuses /\ taken' \in [Attempts -> BOOLEAN] /\ TakenInv'
      /\ \A b \in Attempts : taken[b] => taken'[b]
    BY StoreTakes, OwnerAssumption DEF OwnerInv, TerminalTransition, TypeOK, Statuses,
       Terminal, TakenInv, CanProject, Projection
<1>3. TypeOK'
  <2>1. entry' \in 0 .. MaxAttempts
      BY OwnerAssumption DEF OwnerInv, TerminalTransition, Goto, Store, CanProject,
         Projection, CancelGates, durableVars, pubVars, historyVars, faultVars, TypeOK
  <2>2. sub' \in [Attempts -> [Slots -> SubStates]]
      BY DEF OwnerInv, TerminalTransition, Goto, Store, CanProject, Projection, CancelGates,
         durableVars, pubVars, historyVars, faultVars, TypeOK, SubStates
  <2>3. gate' \in [Attempts -> {"none", "waiting", "resolved", "cancelled"}]
      BY DEF OwnerInv, TerminalTransition, Goto, Store, CanProject, Projection, CancelGates,
         durableVars, pubVars, historyVars, faultVars, TypeOK
  <2> QED
      BY <2>1, <2>2, <2>3, <1>1, <1>2, OwnerAssumption DEF OwnerInv, TerminalTransition,
         durableVars, pubVars, historyVars, faultVars, TypeOK, Settlements
<1>4. QueueInv'
    BY <1>1, <1>2, OwnerAssumption DEF OwnerInv, TerminalTransition, Store, CanProject,
       Goto, durableVars, pubVars, historyVars, faultVars, TypeOK, QueueInv, Exists,
       Statuses, Terminal, Settlements, Attempts
<1>5. SubmissionInv'
    BY <1>1, <1>2, OwnerAssumption DEF OwnerInv, TerminalTransition, Store, CanProject,
       Goto, durableVars, pubVars, historyVars, faultVars, TypeOK, SubmissionInv,
       TakenInv, QueueInv, Accepts, SubStates, Statuses, Terminal, Settlements, Attempts
<1>6. CancelReachesEveryAttempt'
    BY <1>1, <1>2, OwnerAssumption DEF OwnerInv, TerminalTransition, Store, CanProject,
       Goto, durableVars, pubVars, historyVars, faultVars, TypeOK, QueueInv,
       CancelReachesEveryAttempt, Exists, Statuses, Terminal, Settlements, Attempts
<1>7. AcceptanceIsHonest'
    BY <1>1, <1>2, OwnerAssumption DEF OwnerInv, TerminalTransition, Store, CanProject,
       Goto, durableVars, pubVars, historyVars, faultVars, TypeOK, QueueInv, TakenInv,
       SubmissionInv, AcceptanceIsHonest, Accepts, WaiterStates, Statuses, Terminal,
       Settlements, Attempts
<1> QED BY <1>3, <1>4, <1>2, <1>5, <1>6, <1>7 DEF OwnerInv

\* The projection reads what the owner settled as.
LEMMA TerminalSettledKeeps ==
    ASSUME OwnerInv, NEW a \in Attempts, NEW s \in Slots, TerminalSettled(a, s)
    PROVE  OwnerInv'
<1>0. (IF owner = "running" THEN "idle" ELSE StatusRead(outcome[a])) \in SubStates
    BY DEF StatusRead, RunnerResultRead, TechnicalFailureRead, CancellationRead, SubStates
<1>1. TypeOK'
  <2>1. sub' \in [Attempts -> [Slots -> SubStates]]
      BY <1>0 DEF OwnerInv, TypeOK, TerminalSettled, Goto
  <2> QED
      BY <2>1 DEF OwnerInv, TypeOK, TerminalSettled, durableVars, pubVars, historyVars,
         faultVars
<1>2. QueueInv'
    BY OwnerAssumption DEF OwnerInv, TerminalSettled, Goto, durableVars, pubVars,
       historyVars, faultVars, TypeOK, QueueInv, Exists, Statuses, Terminal, Settlements,
       Attempts
<1>3. TakenInv'
    BY OwnerAssumption DEF OwnerInv, TerminalSettled, Goto, durableVars, pubVars,
       historyVars, faultVars, TypeOK, TakenInv, Accepts, Statuses, Terminal, Settlements,
       Attempts
<1>4. SubmissionInv'
  <2>1. ASSUME StatusRead(outcome[a]) = "accepted" PROVE taken[a] \/ owner = "cancelled"
      BY <2>1 DEF StatusRead, RunnerResultRead, TechnicalFailureRead, CancellationRead,
         OwnerInv, TakenInv, Accepts
  <2>2. StatusRead(outcome[a]) \notin {"commit", "projected", "recorded-only"}
      BY DEF StatusRead, RunnerResultRead, TechnicalFailureRead, CancellationRead
  <2> HIDE DEF StatusRead
  <2> QED
      BY <2>1, <2>2 DEF OwnerInv, TerminalSettled, Goto, durableVars, pubVars, historyVars,
         faultVars, TypeOK, SubmissionInv
<1>5. CancelReachesEveryAttempt'
    BY OwnerAssumption DEF OwnerInv, TerminalSettled, Goto, durableVars, pubVars,
       historyVars, faultVars, TypeOK, QueueInv, CancelReachesEveryAttempt, Exists,
       Statuses, Terminal, Settlements, Attempts
<1>6. AcceptanceIsHonest'
    BY OwnerAssumption DEF OwnerInv, TerminalSettled, Goto, durableVars, pubVars,
       historyVars, faultVars, TypeOK, QueueInv, TakenInv, SubmissionInv,
       AcceptanceIsHonest, Accepts, WaiterStates, Statuses, Terminal, Settlements,
       Attempts
<1> QED BY <1>1, <1>2, <1>3, <1>4, <1>5, <1>6 DEF OwnerInv

\* A paused outcome parks the owner.
LEMMA ParkExecutionKeeps ==
    ASSUME OwnerInv, NEW a \in Attempts, NEW s \in Slots, ParkExecution(a, s)
    PROVE  OwnerInv'
<1>1. pubs' \in Seq(Publication) /\ (pubs # <<>> => pubs' # <<>>)
    BY ReserveKeeps DEF OwnerInv, ParkExecution, TypeOK, Awaiters
<1>2. /\ owner' \in Statuses /\ taken' \in [Attempts -> BOOLEAN] /\ TakenInv'
      /\ \A b \in Attempts : taken[b] => taken'[b]
    BY StoreTakes, OwnerAssumption DEF OwnerInv, ParkExecution, TypeOK, Statuses,
       Terminal, TakenInv
<1>3. TypeOK'
  <2>1. entry' \in 0 .. MaxAttempts
      BY OwnerAssumption DEF OwnerInv, ParkExecution, Goto, Store, durableVars, pubVars,
         historyVars, faultVars, TypeOK
  <2>2. sub' \in [Attempts -> [Slots -> SubStates]]
      BY DEF OwnerInv, ParkExecution, Goto, Store, durableVars, pubVars, historyVars,
         faultVars, TypeOK, SubStates
  <2> QED
      BY <2>1, <2>2, <1>1, <1>2, OwnerAssumption DEF OwnerInv, ParkExecution, durableVars,
         pubVars, historyVars, faultVars, TypeOK, Settlements
<1>4. QueueInv'
    BY <1>1, <1>2, OwnerAssumption DEF OwnerInv, ParkExecution, Store, Goto, durableVars,
       pubVars, historyVars, faultVars, TypeOK, QueueInv, Exists, Statuses, Terminal,
       Settlements, Attempts
<1>5. SubmissionInv'
    BY <1>1, <1>2, OwnerAssumption DEF OwnerInv, ParkExecution, Store, Goto, durableVars,
       pubVars, historyVars, faultVars, TypeOK, SubmissionInv, TakenInv, QueueInv,
       Accepts, SubStates, Statuses, Terminal, Settlements, Attempts
<1>6. CancelReachesEveryAttempt'
    BY <1>1, <1>2, OwnerAssumption DEF OwnerInv, ParkExecution, Store, Goto, durableVars,
       pubVars, historyVars, faultVars, TypeOK, QueueInv, CancelReachesEveryAttempt,
       Exists, Statuses, Terminal, Settlements, Attempts
<1>7. AcceptanceIsHonest'
    BY <1>1, <1>2, OwnerAssumption DEF OwnerInv, ParkExecution, Store, Goto, durableVars,
       pubVars, historyVars, faultVars, TypeOK, QueueInv, TakenInv, SubmissionInv,
       AcceptanceIsHonest, Accepts, WaiterStates, Statuses, Terminal, Settlements,
       Attempts
<1> QED BY <1>3, <1>4, <1>2, <1>5, <1>6, <1>7 DEF OwnerInv

\* The owner is read after the projection.
LEMMA ReadSettledKeeps ==
    ASSUME OwnerInv, NEW a \in Attempts, NEW s \in Slots, ReadSettled(a, s)
    PROVE  OwnerInv'
<1>1. TypeOK'
    BY OwnerAssumption DEF OwnerInv, ReadSettled, Goto, durableVars, pubVars, historyVars,
       faultVars, TypeOK, QueueInv, Statuses, Terminal, Settlements, Attempts, TaskStates,
       WaiterStates, SubStates
<1>2. QueueInv'
    BY OwnerAssumption DEF OwnerInv, ReadSettled, Goto, durableVars, pubVars, historyVars,
       faultVars, TypeOK, QueueInv, Exists, Statuses, Terminal, Settlements, Attempts
<1>3. TakenInv'
    BY OwnerAssumption DEF OwnerInv, ReadSettled, Goto, durableVars, pubVars, historyVars,
       faultVars, TypeOK, TakenInv, Accepts, Statuses, Terminal, Settlements, Attempts
<1>4. SubmissionInv'
    BY <1>3, OwnerAssumption DEF OwnerInv, ReadSettled, Goto, durableVars, pubVars,
       historyVars, faultVars, TypeOK, SubmissionInv, TakenInv, QueueInv, Accepts,
       SubStates, Statuses, Terminal, Settlements, Attempts
<1>5. CancelReachesEveryAttempt'
    BY OwnerAssumption DEF OwnerInv, ReadSettled, Goto, durableVars, pubVars, historyVars,
       faultVars, TypeOK, QueueInv, CancelReachesEveryAttempt, Exists, Statuses, Terminal,
       Settlements, Attempts
<1>6. AcceptanceIsHonest'
    BY OwnerAssumption DEF OwnerInv, ReadSettled, Goto, durableVars, pubVars, historyVars,
       faultVars, TypeOK, QueueInv, TakenInv, SubmissionInv, AcceptanceIsHonest, Accepts,
       WaiterStates, Statuses, Terminal, Settlements, Attempts
<1> QED BY <1>1, <1>2, <1>3, <1>4, <1>5, <1>6 DEF OwnerInv

\* The waiter is settled.
LEMMA SettleOutcomeKeeps ==
    ASSUME OwnerInv, NEW a \in Attempts, NEW s \in Slots, SettleOutcome(a, s)
    PROVE  OwnerInv'
<1>1. TypeOK'
  <2>1. waiter' \in [Attempts -> WaiterStates]
      BY DEF OwnerInv, SettleOutcome, Goto, durableVars, pubVars, historyVars, faultVars,
         TypeOK, WaiterStates
  <2>2. sub' \in [Attempts -> [Slots -> SubStates]]
      BY DEF OwnerInv, SettleOutcome, Goto, durableVars, pubVars, historyVars, faultVars,
         TypeOK, SubStates
  <2> QED
      BY <2>1, <2>2, OwnerAssumption DEF OwnerInv, SettleOutcome, durableVars, pubVars,
         historyVars, faultVars, TypeOK, Settlements
<1>2. QueueInv'
    BY OwnerAssumption DEF OwnerInv, SettleOutcome, Goto, durableVars, pubVars,
       historyVars, faultVars, TypeOK, QueueInv, Exists, Statuses, Terminal, Settlements,
       Attempts
<1>3. TakenInv'
    BY OwnerAssumption DEF OwnerInv, SettleOutcome, Goto, durableVars, pubVars,
       historyVars, faultVars, TypeOK, TakenInv, Accepts, Statuses, Terminal, Settlements,
       Attempts
<1>4. SubmissionInv'
  <2>1. \A b \in Attempts, t \in Slots : sub'[b][t] = sub[b][t] \/ sub'[b][t] = "idle"
      BY DEF OwnerInv, SettleOutcome, Goto, TypeOK
  <2>2. outcome[a] # "none"
      BY DEF OwnerInv, SettleOutcome, SubmissionInv
  <2>3. \A b \in Attempts : b # a => waiter'[b] = waiter[b]
      BY DEF OwnerInv, SettleOutcome, TypeOK
  <2>4. UNCHANGED <<outcome, owner, taken>>
      BY DEF SettleOutcome, durableVars, historyVars
  <2>5. answer' = answer
      BY DEF SettleOutcome
  <2> QED BY <2>1, <2>2, <2>3, <2>4, <2>5 DEF OwnerInv, SubmissionInv
<1>5. CancelReachesEveryAttempt'
    BY OwnerAssumption DEF OwnerInv, SettleOutcome, Goto, durableVars, pubVars,
       historyVars, faultVars, TypeOK, QueueInv, CancelReachesEveryAttempt, Exists,
       Statuses, Terminal, Settlements, Attempts
<1>6. AcceptanceIsHonest'
    BY OwnerAssumption DEF OwnerInv, SettleOutcome, Goto, durableVars, pubVars,
       historyVars, faultVars, TypeOK, QueueInv, TakenInv, SubmissionInv,
       AcceptanceIsHonest, Accepts, WaiterStates, Statuses, Terminal, Settlements,
       Attempts
<1> QED BY <1>1, <1>2, <1>3, <1>4, <1>5, <1>6 DEF OwnerInv

\* A submission fails.
LEMMA SubmissionFailsKeeps ==
    ASSUME OwnerInv, NEW a \in Attempts, NEW s \in Slots, SubmissionFails(a, s)
    PROVE  OwnerInv'
<1>1. TypeOK'
    BY OwnerAssumption DEF OwnerInv, SubmissionFails, Goto, Unregister, durableVars, pubVars,
       historyVars, faultVars, TypeOK, QueueInv, Statuses, Terminal, Settlements,
       Attempts, TaskStates, WaiterStates, SubStates
<1>2. QueueInv'
    BY OwnerAssumption DEF OwnerInv, SubmissionFails, Goto, durableVars, pubVars,
       historyVars, faultVars, TypeOK, QueueInv, Exists, Statuses, Terminal, Settlements,
       Attempts
<1>3. TakenInv'
    BY OwnerAssumption DEF OwnerInv, SubmissionFails, Goto, durableVars, pubVars,
       historyVars, faultVars, TypeOK, TakenInv, Accepts, Statuses, Terminal, Settlements,
       Attempts
<1>4. SubmissionInv'
    BY <1>3, OwnerAssumption DEF OwnerInv, SubmissionFails, Goto, durableVars, pubVars,
       historyVars, faultVars, TypeOK, SubmissionInv, TakenInv, QueueInv, Accepts,
       SubStates, Statuses, Terminal, Settlements, Attempts
<1>5. CancelReachesEveryAttempt'
    BY OwnerAssumption DEF OwnerInv, SubmissionFails, Goto, durableVars, pubVars,
       historyVars, faultVars, TypeOK, QueueInv, CancelReachesEveryAttempt, Exists,
       Statuses, Terminal, Settlements, Attempts
<1>6. AcceptanceIsHonest'
    BY OwnerAssumption DEF OwnerInv, SubmissionFails, Goto, durableVars, pubVars,
       historyVars, faultVars, TypeOK, QueueInv, TakenInv, SubmissionInv,
       AcceptanceIsHonest, Accepts, WaiterStates, Statuses, Terminal, Settlements,
       Attempts
<1> QED BY <1>1, <1>2, <1>3, <1>4, <1>5, <1>6 DEF OwnerInv

\* The write of a projection fails.
LEMMA ProjectionFailsKeeps ==
    ASSUME OwnerInv, NEW a \in Attempts, NEW s \in Slots, ProjectionFails(a, s)
    PROVE  OwnerInv'
<1>1. TypeOK'
    BY OwnerAssumption DEF OwnerInv, ProjectionFails, Goto, Unregister, CanProject, Projection,
       durableVars, pubVars, historyVars, faultVars, TypeOK, QueueInv, Statuses, Terminal,
       Settlements, Attempts, TaskStates, WaiterStates, SubStates
<1>2. QueueInv'
    BY OwnerAssumption DEF OwnerInv, ProjectionFails, Goto, durableVars, pubVars,
       historyVars, faultVars, TypeOK, QueueInv, Exists, Statuses, Terminal, Settlements,
       Attempts
<1>3. TakenInv'
    BY OwnerAssumption DEF OwnerInv, ProjectionFails, Goto, durableVars, pubVars,
       historyVars, faultVars, TypeOK, TakenInv, Accepts, Statuses, Terminal, Settlements,
       Attempts
<1>4. SubmissionInv'
    BY <1>3, OwnerAssumption DEF OwnerInv, ProjectionFails, Goto, durableVars, pubVars,
       historyVars, faultVars, TypeOK, SubmissionInv, TakenInv, QueueInv, Accepts,
       SubStates, Statuses, Terminal, Settlements, Attempts
<1>5. CancelReachesEveryAttempt'
    BY OwnerAssumption DEF OwnerInv, ProjectionFails, Goto, durableVars, pubVars,
       historyVars, faultVars, TypeOK, QueueInv, CancelReachesEveryAttempt, Exists,
       Statuses, Terminal, Settlements, Attempts
<1>6. AcceptanceIsHonest'
    BY OwnerAssumption DEF OwnerInv, ProjectionFails, Goto, durableVars, pubVars,
       historyVars, faultVars, TypeOK, QueueInv, TakenInv, SubmissionInv,
       AcceptanceIsHonest, Accepts, WaiterStates, Statuses, Terminal, Settlements,
       Attempts
<1> QED BY <1>1, <1>2, <1>3, <1>4, <1>5, <1>6 DEF OwnerInv

\* A finalizer settles its claim.
LEMMA FinalizerSettlesKeeps ==
    ASSUME OwnerInv, NEW status \in {"completed", "failed"}, FinalizerSettles(status)
    PROVE  OwnerInv'
<1>1. /\ owner' \in Statuses /\ taken' \in [Attempts -> BOOLEAN] /\ TakenInv'
      /\ \A b \in Attempts : taken[b] => taken'[b]
    BY StoreTakes, OwnerAssumption DEF OwnerInv, FinalizerSettles, TypeOK, Statuses,
       Terminal, TakenInv
<1>2. TypeOK'
    BY <1>1, OwnerAssumption DEF OwnerInv, FinalizerSettles, Store, durableVars, pubVars,
       historyVars, faultVars, TypeOK, QueueInv, Statuses, Terminal, Settlements,
       Attempts, TaskStates, WaiterStates, SubStates
<1>3. QueueInv'
    BY <1>1, OwnerAssumption DEF OwnerInv, FinalizerSettles, Store, durableVars, pubVars,
       historyVars, faultVars, TypeOK, QueueInv, Exists, Statuses, Terminal, Settlements,
       Attempts
<1>4. SubmissionInv'
    BY <1>1, OwnerAssumption DEF OwnerInv, FinalizerSettles, Store, durableVars, pubVars,
       historyVars, faultVars, TypeOK, SubmissionInv, TakenInv, QueueInv, Accepts,
       SubStates, Statuses, Terminal, Settlements, Attempts
<1>5. CancelReachesEveryAttempt'
    BY <1>1, OwnerAssumption DEF OwnerInv, FinalizerSettles, Store, durableVars, pubVars,
       historyVars, faultVars, TypeOK, QueueInv, CancelReachesEveryAttempt, Exists,
       Statuses, Terminal, Settlements, Attempts
<1>6. AcceptanceIsHonest'
    BY <1>1, OwnerAssumption DEF OwnerInv, FinalizerSettles, Store, durableVars, pubVars,
       historyVars, faultVars, TypeOK, QueueInv, TakenInv, SubmissionInv,
       AcceptanceIsHonest, Accepts, WaiterStates, Statuses, Terminal, Settlements,
       Attempts
<1> QED BY <1>2, <1>3, <1>1, <1>4, <1>5, <1>6 DEF OwnerInv

\* A cancel is requested.
LEMMA RequestCancelKeeps ==
    ASSUME OwnerInv, NEW by \in Callers, RequestCancel(by)
    PROVE  OwnerInv'
<1>1. TypeOK'
    BY OwnerAssumption DEF OwnerInv, RequestCancel, durableVars, pubVars, historyVars,
       faultVars, TypeOK, QueueInv, Statuses, Terminal, Settlements, Attempts, TaskStates,
       WaiterStates, SubStates
<1>2. QueueInv'
    BY OwnerAssumption DEF OwnerInv, RequestCancel, durableVars, pubVars, historyVars,
       faultVars, TypeOK, QueueInv, Exists, Statuses, Terminal, Settlements, Attempts
<1>3. TakenInv'
    BY OwnerAssumption DEF OwnerInv, RequestCancel, durableVars, pubVars, historyVars,
       faultVars, TypeOK, TakenInv, Accepts, Statuses, Terminal, Settlements, Attempts
<1>4. SubmissionInv'
    BY <1>3, OwnerAssumption DEF OwnerInv, RequestCancel, durableVars, pubVars,
       historyVars, faultVars, TypeOK, SubmissionInv, TakenInv, QueueInv, Accepts,
       SubStates, Statuses, Terminal, Settlements, Attempts
<1>5. CancelReachesEveryAttempt'
    BY OwnerAssumption DEF OwnerInv, RequestCancel, durableVars, pubVars, historyVars,
       faultVars, TypeOK, QueueInv, CancelReachesEveryAttempt, Exists, Statuses, Terminal,
       Settlements, Attempts
<1>6. AcceptanceIsHonest'
    BY OwnerAssumption DEF OwnerInv, RequestCancel, durableVars, pubVars, historyVars,
       faultVars, TypeOK, QueueInv, TakenInv, SubmissionInv, AcceptanceIsHonest, Accepts,
       WaiterStates, Statuses, Terminal, Settlements, Attempts
<1> QED BY <1>1, <1>2, <1>3, <1>4, <1>5, <1>6 DEF OwnerInv

\* The intent is stored.
LEMMA CancelAttemptsKeeps ==
    ASSUME OwnerInv, CancelAttempts
    PROVE  OwnerInv'
<1>1. TypeOK'
    BY OwnerAssumption DEF OwnerInv, CancelAttempts, durableVars, pubVars, historyVars,
       faultVars, TypeOK, QueueInv, Statuses, Terminal, Settlements, Attempts, TaskStates,
       WaiterStates, SubStates
<1>2. QueueInv'
    BY OwnerAssumption DEF OwnerInv, CancelAttempts, durableVars, pubVars, historyVars,
       faultVars, TypeOK, QueueInv, Exists, Statuses, Terminal, Settlements, Attempts
<1>3. TakenInv'
    BY OwnerAssumption DEF OwnerInv, CancelAttempts, durableVars, pubVars, historyVars,
       faultVars, TypeOK, TakenInv, Accepts, Statuses, Terminal, Settlements, Attempts
<1>4. SubmissionInv'
    BY <1>3, OwnerAssumption DEF OwnerInv, CancelAttempts, durableVars, pubVars,
       historyVars, faultVars, TypeOK, SubmissionInv, TakenInv, QueueInv, Accepts,
       SubStates, Statuses, Terminal, Settlements, Attempts
<1>5. CancelReachesEveryAttempt'
    BY OwnerAssumption DEF OwnerInv, CancelAttempts, durableVars, pubVars, historyVars,
       faultVars, TypeOK, QueueInv, CancelReachesEveryAttempt, Exists, Statuses, Terminal,
       Settlements, Attempts
<1>6. AcceptanceIsHonest'
    BY OwnerAssumption DEF OwnerInv, CancelAttempts, durableVars, pubVars, historyVars,
       faultVars, TypeOK, QueueInv, TakenInv, SubmissionInv, AcceptanceIsHonest, Accepts,
       WaiterStates, Statuses, Terminal, Settlements, Attempts
<1> QED BY <1>1, <1>2, <1>3, <1>4, <1>5, <1>6 DEF OwnerInv

\* An ended owner refuses a cancel.
LEMMA CancelRefusedKeeps ==
    ASSUME OwnerInv, CancelRefused
    PROVE  OwnerInv'
<1>1. pubs' \in Seq(Publication) /\ (pubs # <<>> => pubs' # <<>>)
    BY ReserveKeeps DEF OwnerInv, CancelRefused, TypeOK, Awaiters
<1>2. TypeOK'
  <2> QED
      BY <1>1, OwnerAssumption DEF OwnerInv, CancelRefused, durableVars, pubVars,
         historyVars, faultVars, TypeOK, Settlements
<1>3. QueueInv'
    BY <1>1, OwnerAssumption DEF OwnerInv, CancelRefused, durableVars, pubVars,
       historyVars, faultVars, TypeOK, QueueInv, Exists, Statuses, Terminal, Settlements,
       Attempts
<1>4. TakenInv'
    BY <1>1, OwnerAssumption DEF OwnerInv, CancelRefused, durableVars, pubVars,
       historyVars, faultVars, TypeOK, TakenInv, Accepts, Statuses, Terminal, Settlements,
       Attempts
<1>5. SubmissionInv'
    BY <1>4, <1>1, OwnerAssumption DEF OwnerInv, CancelRefused, durableVars, pubVars,
       historyVars, faultVars, TypeOK, SubmissionInv, TakenInv, QueueInv, Accepts,
       SubStates, Statuses, Terminal, Settlements, Attempts
<1>6. CancelReachesEveryAttempt'
    BY <1>1, OwnerAssumption DEF OwnerInv, CancelRefused, durableVars, pubVars,
       historyVars, faultVars, TypeOK, QueueInv, CancelReachesEveryAttempt, Exists,
       Statuses, Terminal, Settlements, Attempts
<1>7. AcceptanceIsHonest'
    BY <1>1, OwnerAssumption DEF OwnerInv, CancelRefused, durableVars, pubVars,
       historyVars, faultVars, TypeOK, QueueInv, TakenInv, SubmissionInv,
       AcceptanceIsHonest, Accepts, WaiterStates, Statuses, Terminal, Settlements,
       Attempts
<1> QED BY <1>2, <1>3, <1>4, <1>5, <1>6, <1>7 DEF OwnerInv

\* The owner is cancelled.
LEMMA CancelOwnerKeeps ==
    ASSUME OwnerInv, CancelOwner
    PROVE  OwnerInv'
<1>1. pubs' \in Seq(Publication) /\ (pubs # <<>> => pubs' # <<>>)
    BY ReserveKeeps DEF OwnerInv, CancelOwner, TypeOK, Awaiters
<1>2. /\ owner' \in Statuses /\ taken' \in [Attempts -> BOOLEAN] /\ TakenInv'
      /\ \A b \in Attempts : taken[b] => taken'[b]
    BY StoreTakes, OwnerAssumption DEF OwnerInv, CancelOwner, TypeOK, Statuses, Terminal,
       TakenInv
<1>3. TypeOK'
  <2>1. gate' \in [Attempts -> {"none", "waiting", "resolved", "cancelled"}]
      BY DEF OwnerInv, CancelOwner, Store, CancelGates, durableVars, pubVars, historyVars,
         faultVars, TypeOK
  <2>2. entry' \in 0 .. MaxAttempts
      BY OwnerAssumption DEF OwnerInv, CancelOwner, Store, CancelGates, durableVars,
         pubVars, historyVars, faultVars, TypeOK
  <2> QED
      BY <2>1, <2>2, <1>1, <1>2, OwnerAssumption DEF OwnerInv, CancelOwner, durableVars,
         pubVars, historyVars, faultVars, TypeOK, Settlements
<1>4. QueueInv'
    BY <1>1, <1>2, OwnerAssumption DEF OwnerInv, CancelOwner, Store, durableVars, pubVars,
       historyVars, faultVars, TypeOK, QueueInv, Exists, Statuses, Terminal, Settlements,
       Attempts
<1>5. SubmissionInv'
    BY <1>1, <1>2, OwnerAssumption DEF OwnerInv, CancelOwner, Store, durableVars, pubVars,
       historyVars, faultVars, TypeOK, SubmissionInv, TakenInv, QueueInv, Accepts,
       SubStates, Statuses, Terminal, Settlements, Attempts
<1>6. CancelReachesEveryAttempt'
    BY <1>1, <1>2, OwnerAssumption DEF OwnerInv, CancelOwner, Store, durableVars, pubVars,
       historyVars, faultVars, TypeOK, QueueInv, CancelReachesEveryAttempt, Exists,
       Statuses, Terminal, Settlements, Attempts
<1>7. AcceptanceIsHonest'
    BY <1>1, <1>2, OwnerAssumption DEF OwnerInv, CancelOwner, Store, durableVars, pubVars,
       historyVars, faultVars, TypeOK, QueueInv, TakenInv, SubmissionInv,
       AcceptanceIsHonest, Accepts, WaiterStates, Statuses, Terminal, Settlements,
       Attempts
<1> QED BY <1>3, <1>4, <1>2, <1>5, <1>6, <1>7 DEF OwnerInv

\* The owner's write of a cancel fails.
LEMMA CancelOwnerFailsKeeps ==
    ASSUME OwnerInv, CancelOwnerFails
    PROVE  OwnerInv'
<1>1. TypeOK'
  <2>1. entry' \in 0 .. MaxAttempts
      BY OwnerAssumption DEF OwnerInv, CancelOwnerFails, durableVars, pubVars, historyVars,
         faultVars, TypeOK
  <2>2. handler' \in {"none", "cancel"} \cup Responses
      BY DEF OwnerInv, CancelOwnerFails, durableVars, pubVars, historyVars, faultVars,
         TypeOK
  <2>3. faults' \in 0 .. MaxFaults
      BY OwnerAssumption DEF OwnerInv, CancelOwnerFails, durableVars, pubVars, historyVars,
         faultVars, TypeOK
  <2> QED
      BY <2>1, <2>2, <2>3, OwnerAssumption DEF OwnerInv, CancelOwnerFails, durableVars,
         pubVars, historyVars, faultVars, TypeOK, Settlements
<1>2. QueueInv'
    BY OwnerAssumption DEF OwnerInv, CancelOwnerFails, durableVars, pubVars, historyVars,
       faultVars, TypeOK, QueueInv, Exists, Statuses, Terminal, Settlements, Attempts
<1>3. TakenInv'
    BY OwnerAssumption DEF OwnerInv, CancelOwnerFails, durableVars, pubVars, historyVars,
       faultVars, TypeOK, TakenInv, Accepts, Statuses, Terminal, Settlements, Attempts
<1>4. SubmissionInv'
    BY <1>3, OwnerAssumption DEF OwnerInv, CancelOwnerFails, durableVars, pubVars,
       historyVars, faultVars, TypeOK, SubmissionInv, TakenInv, QueueInv, Accepts,
       SubStates, Statuses, Terminal, Settlements, Attempts
<1>5. CancelReachesEveryAttempt'
    BY OwnerAssumption DEF OwnerInv, CancelOwnerFails, durableVars, pubVars, historyVars,
       faultVars, TypeOK, QueueInv, CancelReachesEveryAttempt, Exists, Statuses, Terminal,
       Settlements, Attempts
<1>6. AcceptanceIsHonest'
    BY OwnerAssumption DEF OwnerInv, CancelOwnerFails, durableVars, pubVars, historyVars,
       faultVars, TypeOK, QueueInv, TakenInv, SubmissionInv, AcceptanceIsHonest, Accepts,
       WaiterStates, Statuses, Terminal, Settlements, Attempts
<1> QED BY <1>1, <1>2, <1>3, <1>4, <1>5, <1>6 DEF OwnerInv

\* The control subscribers return.
LEMMA NotifyAttemptCancellationKeeps ==
    ASSUME OwnerInv, NotifyAttemptCancellation
    PROVE  OwnerInv'
<1>1. TypeOK'
    BY OwnerAssumption DEF OwnerInv, NotifyAttemptCancellation, durableVars, pubVars,
       historyVars, faultVars, TypeOK, QueueInv, Statuses, Terminal, Settlements,
       Attempts, TaskStates, WaiterStates, SubStates
<1>2. QueueInv'
    BY OwnerAssumption DEF OwnerInv, NotifyAttemptCancellation, durableVars, pubVars,
       historyVars, faultVars, TypeOK, QueueInv, Exists, Statuses, Terminal, Settlements,
       Attempts
<1>3. TakenInv'
    BY OwnerAssumption DEF OwnerInv, NotifyAttemptCancellation, durableVars, pubVars,
       historyVars, faultVars, TypeOK, TakenInv, Accepts, Statuses, Terminal, Settlements,
       Attempts
<1>4. SubmissionInv'
    BY <1>3, OwnerAssumption DEF OwnerInv, NotifyAttemptCancellation, durableVars,
       pubVars, historyVars, faultVars, TypeOK, SubmissionInv, TakenInv, QueueInv,
       Accepts, SubStates, Statuses, Terminal, Settlements, Attempts
<1>5. CancelReachesEveryAttempt'
    BY OwnerAssumption DEF OwnerInv, NotifyAttemptCancellation, durableVars, pubVars,
       historyVars, faultVars, TypeOK, QueueInv, CancelReachesEveryAttempt, Exists,
       Statuses, Terminal, Settlements, Attempts
<1>6. AcceptanceIsHonest'
    BY OwnerAssumption DEF OwnerInv, NotifyAttemptCancellation, durableVars, pubVars,
       historyVars, faultVars, TypeOK, QueueInv, TakenInv, SubmissionInv,
       AcceptanceIsHonest, Accepts, WaiterStates, Statuses, Terminal, Settlements,
       Attempts
<1> QED BY <1>1, <1>2, <1>3, <1>4, <1>5, <1>6 DEF OwnerInv

\* A cancel returns.
LEMMA CancelReturnsKeeps ==
    ASSUME OwnerInv, CancelReturns
    PROVE  OwnerInv'
<1>1. TypeOK'
    BY OwnerAssumption DEF OwnerInv, CancelReturns, durableVars, pubVars, historyVars,
       faultVars, TypeOK, QueueInv, Statuses, Terminal, Settlements, Attempts, TaskStates,
       WaiterStates, SubStates
<1>2. QueueInv'
    BY OwnerAssumption DEF OwnerInv, CancelReturns, durableVars, pubVars, historyVars,
       faultVars, TypeOK, QueueInv, Exists, Statuses, Terminal, Settlements, Attempts
<1>3. TakenInv'
    BY OwnerAssumption DEF OwnerInv, CancelReturns, durableVars, pubVars, historyVars,
       faultVars, TypeOK, TakenInv, Accepts, Statuses, Terminal, Settlements, Attempts
<1>4. SubmissionInv'
    BY <1>3, OwnerAssumption DEF OwnerInv, CancelReturns, durableVars, pubVars,
       historyVars, faultVars, TypeOK, SubmissionInv, TakenInv, QueueInv, Accepts,
       SubStates, Statuses, Terminal, Settlements, Attempts
<1>5. CancelReachesEveryAttempt'
    BY OwnerAssumption DEF OwnerInv, CancelReturns, durableVars, pubVars, historyVars,
       faultVars, TypeOK, QueueInv, CancelReachesEveryAttempt, Exists, Statuses, Terminal,
       Settlements, Attempts
<1>6. AcceptanceIsHonest'
    BY OwnerAssumption DEF OwnerInv, CancelReturns, durableVars, pubVars, historyVars,
       faultVars, TypeOK, QueueInv, TakenInv, SubmissionInv, AcceptanceIsHonest, Accepts,
       WaiterStates, Statuses, Terminal, Settlements, Attempts
<1> QED BY <1>1, <1>2, <1>3, <1>4, <1>5, <1>6 DEF OwnerInv

\* A response reads the paused owner and its gate.
LEMMA RespondToPausedGateKeeps ==
    ASSUME OwnerInv, NEW r \in Responses, NEW a \in Attempts, NEW by \in Callers,
           RespondToPausedGate(r, a, by)
    PROVE  OwnerInv'
<1>1. [pc |-> "reading", gate |-> a] \in [pc : ResponseStates, gate : 0 .. MaxAttempts]
    BY OwnerAssumption DEF ResponseStates, Attempts
<1>2. /\ resume' \in [Responses -> [pc : ResponseStates, gate : 0 .. MaxAttempts]]
      /\ handler' \in {"none", "cancel"} \cup Responses
    BY <1>1 DEF OwnerInv, TypeOK, RespondToPausedGate
<1>3. TypeOK'
    BY <1>2 DEF OwnerInv, TypeOK, RespondToPausedGate, durableVars, historyVars, faultVars
<1> QED BY <1>3, BystanderKeeps DEF RespondToPausedGate, durableVars, historyVars

\* A waiting gate accepts the response.
LEMMA ResolveWaitingGateKeeps ==
    ASSUME OwnerInv, NEW r \in Responses, ResolveWaitingGate(r)
    PROVE  OwnerInv'
<1>0. gate \in [Attempts -> {"none", "waiting", "resolved", "cancelled"}]
    BY DEF OwnerInv, TypeOK
<1>1. gate' \in [Attempts -> {"none", "waiting", "resolved", "cancelled"}]
    BY <1>0 DEF ResolveWaitingGate
<1>2. /\ resume' \in [Responses -> [pc : ResponseStates, gate : 0 .. MaxAttempts]]
      /\ handler' \in {"none", "cancel"} \cup Responses
  <2>1. CASE gate[resume[r].gate] = "waiting"
    <3>1. [resume[r] EXCEPT !.pc = "resuming"]
              \in [pc : ResponseStates, gate : 0 .. MaxAttempts]
        BY DEF OwnerInv, TypeOK, ResponseStates
    <3>2. resume' = [resume EXCEPT ![r] = [resume[r] EXCEPT !.pc = "resuming"]]
          /\ handler' = handler
        BY <2>1 DEF ResolveWaitingGate
    <3>3. /\ resume \in [Responses -> [pc : ResponseStates, gate : 0 .. MaxAttempts]]
          /\ handler \in {"none", "cancel"} \cup Responses
        BY DEF OwnerInv, TypeOK
    <3> QED BY <3>1, <3>2, <3>3
  <2>2. CASE gate[resume[r].gate] # "waiting"
      BY <2>2, ResponseReturnsTypes DEF OwnerInv, ResolveWaitingGate
  <2> QED BY <2>1, <2>2
<1>3. TypeOK'
    BY <1>1, <1>2 DEF OwnerInv, TypeOK, ResolveWaitingGate, historyVars, faultVars
<1> QED BY <1>3, BystanderKeeps DEF ResolveWaitingGate, historyVars

\* A response fails before its gate is resolved.
LEMMA ResponseFailsKeeps ==
    ASSUME OwnerInv, NEW r \in Responses, ResponseFails(r)
    PROVE  OwnerInv'
<1>1. /\ resume' \in [Responses -> [pc : ResponseStates, gate : 0 .. MaxAttempts]]
      /\ handler' \in {"none", "cancel"} \cup Responses
    BY ResponseReturnsTypes DEF OwnerInv, ResponseFails
<1>2. faults' \in 0 .. MaxFaults
    BY OwnerAssumption DEF OwnerInv, TypeOK, ResponseFails
<1>3. TypeOK'
    BY <1>1, <1>2 DEF OwnerInv, TypeOK, ResponseFails, durableVars, historyVars
<1> QED BY <1>3, BystanderKeeps DEF ResponseFails, durableVars, historyVars

\* A paused owner resumes.
LEMMA ResumePausedExecutionKeeps ==
    ASSUME OwnerInv, NEW r \in Responses, NEW n \in Attempts, ResumePausedExecution(r, n)
    PROVE  OwnerInv'
<1>1. /\ owner' \in Statuses /\ taken' \in [Attempts -> BOOLEAN] /\ TakenInv'
      /\ \A b \in Attempts : taken[b] => taken'[b]
    BY StoreTakes, OwnerAssumption DEF OwnerInv, ResumePausedExecution, TypeOK, Statuses,
       Terminal, TakenInv
<1>2. TypeOK'
  <2>1. entry' \in 0 .. MaxAttempts
      BY OwnerAssumption DEF OwnerInv, ResumePausedExecution, Store, ResponseReturns,
         NextTask, durableVars, pubVars, historyVars, faultVars, TypeOK, Attempts
  <2>0. task \in [Attempts -> TaskStates]
      BY DEF OwnerInv, TypeOK
  <2>2. task' \in [Attempts -> TaskStates]
      BY <2>0 DEF ResumePausedExecution, TaskStates
  <2>3. /\ resume' \in [Responses -> [pc : ResponseStates, gate : 0 .. MaxAttempts]]
        /\ handler' \in {"none", "cancel"} \cup Responses
      BY ResponseReturnsTypes DEF OwnerInv, ResumePausedExecution
  <2> QED
      BY <2>1, <2>2, <2>3, <1>1, OwnerAssumption DEF OwnerInv, ResumePausedExecution,
         durableVars, pubVars, historyVars, faultVars, TypeOK, Settlements
<1>3. QueueInv'
    BY <1>1, OwnerAssumption DEF OwnerInv, ResumePausedExecution, Store, ResponseReturns,
       durableVars, pubVars, historyVars, faultVars, TypeOK, QueueInv, Exists, Statuses,
       Terminal, Settlements, Attempts
<1>4. SubmissionInv'
    BY <1>1, OwnerAssumption DEF OwnerInv, ResumePausedExecution, Store, ResponseReturns,
       durableVars, pubVars, historyVars, faultVars, TypeOK, SubmissionInv, TakenInv,
       QueueInv, Accepts, SubStates, Statuses, Terminal, Settlements, Attempts
<1>5. CancelReachesEveryAttempt'
    BY <1>1, OwnerAssumption DEF OwnerInv, ResumePausedExecution, Store, ResponseReturns,
       durableVars, pubVars, historyVars, faultVars, TypeOK, QueueInv,
       CancelReachesEveryAttempt, Exists, Statuses, Terminal, Settlements, Attempts
<1>6. AcceptanceIsHonest'
    BY <1>1, OwnerAssumption DEF OwnerInv, ResumePausedExecution, Store, ResponseReturns,
       durableVars, pubVars, historyVars, faultVars, TypeOK, QueueInv, TakenInv,
       SubmissionInv, AcceptanceIsHonest, Accepts, WaiterStates, Statuses, Terminal,
       Settlements, Attempts
<1> QED BY <1>2, <1>3, <1>1, <1>4, <1>5, <1>6 DEF OwnerInv

\* A resume fails before or after the owner is written.
LEMMA ResumeFailsKeeps ==
    ASSUME OwnerInv, NEW r \in Responses, NEW n \in Attempts, ResumeFails(r, n)
    PROVE  OwnerInv'
<1>1. /\ owner' \in Statuses /\ taken' \in [Attempts -> BOOLEAN] /\ TakenInv'
      /\ \A b \in Attempts : taken[b] => taken'[b]
    BY StoreTakes, OwnerAssumption DEF OwnerInv, ResumeFails, TypeOK, Statuses,
       Terminal, TakenInv
<1>2. TypeOK'
  <2>1. entry' \in 0 .. MaxAttempts /\ faults' \in 0 .. MaxFaults
      BY OwnerAssumption DEF OwnerInv, ResumeFails, TypeOK, Attempts
  <2>2. [resume[r] EXCEPT !.pc = "restoring"]
            \in [pc : ResponseStates, gate : 0 .. MaxAttempts]
      BY DEF OwnerInv, TypeOK, ResponseStates
  <2>3. resume' \in [Responses -> [pc : ResponseStates, gate : 0 .. MaxAttempts]]
      BY <2>2 DEF OwnerInv, TypeOK, ResumeFails
  <2> QED
      BY <2>1, <2>3, <1>1 DEF OwnerInv, ResumeFails, pubVars, TypeOK
<1>3. QueueInv'
    BY <1>1, OwnerAssumption DEF OwnerInv, ResumeFails, Store,
       durableVars, pubVars, historyVars, faultVars, TypeOK, QueueInv, Exists, Statuses,
       Terminal, Settlements, Attempts
<1>4. SubmissionInv'
    BY <1>1, OwnerAssumption DEF OwnerInv, ResumeFails, Store,
       durableVars, pubVars, historyVars, faultVars, TypeOK, SubmissionInv, TakenInv,
       QueueInv, Accepts, SubStates, Statuses, Terminal, Settlements, Attempts
<1>5. CancelReachesEveryAttempt'
    BY <1>1, OwnerAssumption DEF OwnerInv, ResumeFails, Store,
       durableVars, pubVars, historyVars, faultVars, TypeOK, QueueInv,
       CancelReachesEveryAttempt, Exists, Statuses, Terminal, Settlements, Attempts
<1>6. AcceptanceIsHonest'
    BY <1>1, OwnerAssumption DEF OwnerInv, ResumeFails, Store,
       durableVars, pubVars, historyVars, faultVars, TypeOK, QueueInv, TakenInv,
       SubmissionInv, AcceptanceIsHonest, Accepts, WaiterStates, Statuses, Terminal,
       Settlements, Attempts
<1> QED BY <1>2, <1>3, <1>1, <1>4, <1>5, <1>6 DEF OwnerInv

\* A failed resume is undone.
LEMMA RestorePausedGateKeeps ==
    ASSUME OwnerInv, NEW r \in Responses, RestorePausedGate(r)
    PROVE  OwnerInv'
<1>1. /\ owner' \in Statuses /\ taken' \in [Attempts -> BOOLEAN] /\ TakenInv'
      /\ \A b \in Attempts : taken[b] => taken'[b]
    BY StoreTakes, OwnerAssumption DEF OwnerInv, RestorePausedGate, TypeOK, Statuses,
       Terminal, TakenInv
<1>2. TypeOK'
  <2>1. entry' \in 0 .. MaxAttempts
      BY OwnerAssumption DEF OwnerInv, RestorePausedGate, Store, ResponseReturns,
         durableVars, pubVars, historyVars, faultVars, TypeOK
  <2>2. gate' \in [Attempts -> {"none", "waiting", "resolved", "cancelled"}]
      BY DEF OwnerInv, RestorePausedGate, Store, ResponseReturns, durableVars, pubVars,
         historyVars, faultVars, TypeOK
  <2>3. /\ resume' \in [Responses -> [pc : ResponseStates, gate : 0 .. MaxAttempts]]
        /\ handler' \in {"none", "cancel"} \cup Responses
      BY ResponseReturnsTypes DEF OwnerInv, RestorePausedGate
  <2> QED
      BY <2>1, <2>2, <2>3, <1>1, OwnerAssumption DEF OwnerInv, RestorePausedGate,
         durableVars, pubVars, historyVars, faultVars, TypeOK, Settlements
<1>3. QueueInv'
    BY <1>1, OwnerAssumption DEF OwnerInv, RestorePausedGate, Store, ResponseReturns,
       durableVars, pubVars, historyVars, faultVars, TypeOK, QueueInv, Exists, Statuses,
       Terminal, Settlements, Attempts
<1>4. SubmissionInv'
    BY <1>1, OwnerAssumption DEF OwnerInv, RestorePausedGate, Store, ResponseReturns,
       durableVars, pubVars, historyVars, faultVars, TypeOK, SubmissionInv, TakenInv,
       QueueInv, Accepts, SubStates, Statuses, Terminal, Settlements, Attempts
<1>5. CancelReachesEveryAttempt'
    BY <1>1, OwnerAssumption DEF OwnerInv, RestorePausedGate, Store, ResponseReturns,
       durableVars, pubVars, historyVars, faultVars, TypeOK, QueueInv,
       CancelReachesEveryAttempt, Exists, Statuses, Terminal, Settlements, Attempts
<1>6. AcceptanceIsHonest'
    BY <1>1, OwnerAssumption DEF OwnerInv, RestorePausedGate, Store, ResponseReturns,
       durableVars, pubVars, historyVars, faultVars, TypeOK, QueueInv, TakenInv,
       SubmissionInv, AcceptanceIsHonest, Accepts, WaiterStates, Statuses, Terminal,
       Settlements, Attempts
<1> QED BY <1>2, <1>3, <1>1, <1>4, <1>5, <1>6 DEF OwnerInv

\* The restore fails too.
LEMMA RestoreFailsKeeps ==
    ASSUME OwnerInv, NEW r \in Responses, RestoreFails(r)
    PROVE  OwnerInv'
<1>1. /\ resume' \in [Responses -> [pc : ResponseStates, gate : 0 .. MaxAttempts]]
      /\ handler' \in {"none", "cancel"} \cup Responses
    BY ResponseReturnsTypes DEF OwnerInv, RestoreFails
<1>2. entry' \in 0 .. MaxAttempts /\ faults' \in 0 .. MaxFaults
    BY OwnerAssumption DEF OwnerInv, TypeOK, RestoreFails
<1>3. TypeOK'
    BY <1>1, <1>2 DEF OwnerInv, TypeOK, RestoreFails, durableVars, historyVars
<1> QED BY <1>3, BystanderKeeps DEF RestoreFails, durableVars, historyVars

\* The host crashes.
LEMMA CrashKeeps ==
    ASSUME OwnerInv, Crash
    PROVE  OwnerInv'
<1>1. TypeOK'
  <2>1. entry' \in 0 .. MaxAttempts
      BY OwnerAssumption DEF OwnerInv, Crash, durableVars, pubVars, historyVars, faultVars,
         TypeOK
  <2>2. crashes' \in 0 .. MaxCrashes
      BY OwnerAssumption DEF OwnerInv, Crash, durableVars, pubVars, historyVars, faultVars,
         TypeOK
  <2>3. pubs' \in Seq(Publication)
      BY DEF OwnerInv, Crash, durableVars, pubVars, historyVars, faultVars, TypeOK
  <2>4. task' \in [Attempts -> TaskStates]
      BY DEF OwnerInv, Crash, durableVars, pubVars, historyVars, faultVars, TypeOK,
         TaskStates
  <2>5. waiter' \in [Attempts -> WaiterStates]
      BY DEF OwnerInv, Crash, durableVars, pubVars, historyVars, faultVars, TypeOK,
         WaiterStates
  <2>6. sub' \in [Attempts -> [Slots -> SubStates]]
      BY DEF OwnerInv, Crash, durableVars, pubVars, historyVars, faultVars, TypeOK,
         SubStates
  <2>7. /\ resume' \in [Responses -> [pc : ResponseStates, gate : 0 .. MaxAttempts]]
        /\ handler' \in {"none", "cancel"} \cup Responses
        /\ holder' \in (Attempts \X Slots) \cup {Nobody}
      BY OwnerAssumption DEF Crash, NoResponse, ResponseStates
  <2> QED
      BY <2>1, <2>2, <2>3, <2>4, <2>5, <2>6, <2>7, OwnerAssumption DEF OwnerInv, Crash,
         durableVars, pubVars, historyVars, faultVars, TypeOK, Settlements
<1>2. QueueInv'
    BY OwnerAssumption DEF OwnerInv, Crash, durableVars, pubVars, historyVars, faultVars,
       TypeOK, QueueInv, Exists, Statuses, Terminal, Settlements, Attempts
<1>3. TakenInv'
    BY OwnerAssumption DEF OwnerInv, Crash, durableVars, pubVars, historyVars, faultVars,
       TypeOK, TakenInv, Accepts, Statuses, Terminal, Settlements, Attempts
<1>4. SubmissionInv'
    BY <1>3, OwnerAssumption DEF OwnerInv, Crash, durableVars, pubVars, historyVars,
       faultVars, TypeOK, SubmissionInv, TakenInv, QueueInv, Accepts, SubStates, Statuses,
       Terminal, Settlements, Attempts
<1>5. CancelReachesEveryAttempt'
    BY OwnerAssumption DEF OwnerInv, Crash, durableVars, pubVars, historyVars, faultVars,
       TypeOK, QueueInv, CancelReachesEveryAttempt, Exists, Statuses, Terminal,
       Settlements, Attempts
<1>6. AcceptanceIsHonest'
    BY OwnerAssumption DEF OwnerInv, Crash, durableVars, pubVars, historyVars, faultVars,
       TypeOK, QueueInv, TakenInv, SubmissionInv, AcceptanceIsHonest, Accepts,
       WaiterStates, Statuses, Terminal, Settlements, Attempts
<1> QED BY <1>1, <1>2, <1>3, <1>4, <1>5, <1>6 DEF OwnerInv

\* The initial state satisfies the invariant.
LEMMA InitEstablishes == Init => OwnerInv
<1> SUFFICES ASSUME Init PROVE OwnerInv
    OBVIOUS
<1>1. TypeOK
  <2>1. settled \in [Attempts -> Settlements] /\ waiter \in [Attempts -> WaiterStates]
      BY DEF Init, Settlements, WaiterStates
  <2>2. task \in [Attempts -> TaskStates] /\ sub \in [Attempts -> [Slots -> SubStates]]
      BY DEF Init, TaskStates, SubStates
  <2>3. entry \in 0 .. MaxAttempts /\ faults \in 0 .. MaxFaults /\ crashes \in 0 .. MaxCrashes
      BY OwnerAssumption DEF Init
  <2>4. /\ resume \in [Responses -> [pc : ResponseStates, gate : 0 .. MaxAttempts]]
        /\ holder \in (Attempts \X Slots) \cup {Nobody}
      BY OwnerAssumption DEF Init, NoResponse, ResponseStates
  <2>5. active \in 0 .. MaxAttempts /\ stale \in 0 .. MaxAttempts
      BY OwnerAssumption DEF Init
  <2>6. /\ answer \in [Attempts -> Answers \cup {"none"}]
        /\ outcome \in [Attempts -> Answers \cup {"none"}]
      BY DEF Init
  <2>7. /\ intent \in [Attempts -> BOOLEAN] /\ observed \in [Attempts -> BOOLEAN]
        /\ taken \in [Attempts -> BOOLEAN]
      BY DEF Init
  <2>8. gate \in [Attempts -> {"none", "waiting", "resolved", "cancelled"}]
      BY DEF Init
  <2>9. /\ owner \in Statuses
        /\ cancel \in {"idle", "asked", "persisting", "notifying", "published"}
        /\ lock \in BOOLEAN /\ publishing \in BOOLEAN /\ requested \in BOOLEAN
        /\ handler \in {"none", "cancel"} \cup Responses
      BY Zenon DEF Init, Statuses
  <2>10. pubs \in Seq(Publication)
      BY DEF Init
  <2> QED
      BY <2>1, <2>2, <2>3, <2>4, <2>5, <2>6, <2>7, <2>8, <2>9, <2>10 DEF TypeOK
<1>2. QueueInv /\ CancelReachesEveryAttempt
    BY DEF Init, QueueInv, CancelReachesEveryAttempt
<1>3. TakenInv
    BY DEF Init, TakenInv, Accepts
<1>4. SubmissionInv /\ AcceptanceIsHonest
    BY DEF Init, SubmissionInv, AcceptanceIsHonest
<1> QED BY <1>1, <1>2, <1>3, <1>4 DEF OwnerInv

\* The invariant is inductive: it holds in every reachable state, whatever the
\* order of runner tasks, submissions, cancels, gate responses, faults and
\* crashes.
THEOREM OwnerInvariance == Spec => []OwnerInv
<1>1. OwnerInv /\ [Next]_vars => OwnerInv'
  <2> SUFFICES ASSUME OwnerInv, [Next]_vars PROVE OwnerInv'
      OBVIOUS
  <2>1. CASE StartPublication
    BY <2>1, StartPublicationKeeps
  <2>2. CASE EndPublication
    BY <2>2, EndPublicationKeeps
  <2>3. CASE \E a \in Attempts : CreateAttempt(a)
    BY <2>3, CreateAttemptKeeps
  <2>4. CASE \E a \in Attempts : CreationRefused(a) \/ CreationFails(a)
    BY <2>4, CreationRefusedKeeps, CreationFailsKeeps
  <2>5. CASE \E a \in Attempts, accepted \in BOOLEAN : Dispatch(a, accepted)
    BY <2>5, DispatchKeeps
  <2>6. CASE \E a \in Attempts : HandleUnacknowledgedDispatchFailure(a)
    BY <2>6, HandleUnacknowledgedDispatchFailureKeeps
  <2>7. CASE \E a \in Attempts : AbandonmentFails(a)
    BY <2>7, AbandonmentFailsKeeps
  <2>8. CASE \E a \in Attempts : AwaitOutcome(a)
    BY <2>8, AwaitOutcomeKeeps
  <2>9. CASE \E a \in Attempts : RunnerRejected(a)
    BY <2>9, RunnerRejectedKeeps
  <2>10. CASE \E a \in Attempts : CompleteExecutionWithFailure(a)
    BY <2>10, CompleteExecutionWithFailureKeeps
  <2>11. CASE \E a \in Attempts : FailureNotStored(a)
    BY <2>11, FailureNotStoredKeeps
  <2>12. CASE \E a \in Attempts : FailureReturns(a)
    BY <2>12, FailureReturnsKeeps
  <2>13. CASE \E a \in Attempts : Provision(a)
    BY <2>13, ProvisionKeeps
  <2>14. CASE \E a \in Attempts : ProvisioningAbsent(a) \/ InfrastructureFailure(a)
    BY <2>14, ProvisioningAbsentKeeps, InfrastructureFailureKeeps
  <2>15. CASE \E a \in Attempts, v \in Answers : WorkerFinishes(a, v)
    BY <2>15, WorkerFinishesKeeps
  <2>16. CASE \E a \in Attempts, s \in Slots : Submit(a, s)
    BY <2>16, SubmitKeeps
  <2>17. CASE \E a \in Attempts, s \in Slots : CommitOutcome(a, s)
    BY <2>17, CommitOutcomeKeeps
  <2>18. CASE \E a \in Attempts, s \in Slots : ReadOwner(a, s)
    BY <2>18, ReadOwnerKeeps
  <2>19. CASE \E a \in Attempts, s \in Slots : ProjectTerminal(a, s) \/ SelectFinalizer(a, s)
    BY <2>19, ProjectTerminalKeeps, SelectFinalizerKeeps
  <2>20. CASE \E a \in Attempts, s \in Slots : TerminalTransition(a, s)
    BY <2>20, TerminalTransitionKeeps
  <2>21. CASE \E a \in Attempts, s \in Slots : UnregisterFinalizer(a, s) \/ TerminalSettled(a, s)
    BY <2>21, UnregisterFinalizerKeeps, TerminalSettledKeeps
  <2>22. CASE \E a \in Attempts, s \in Slots : ParkExecution(a, s)
    BY <2>22, ParkExecutionKeeps
  <2>23. CASE \E a \in Attempts, s \in Slots : ReadSettled(a, s)
    BY <2>23, ReadSettledKeeps
  <2>24. CASE \E a \in Attempts, s \in Slots : SettleOutcome(a, s)
    BY <2>24, SettleOutcomeKeeps
  <2>25. CASE \E a \in Attempts, s \in Slots : SubmissionFails(a, s)
    BY <2>25, SubmissionFailsKeeps
  <2>26. CASE \E a \in Attempts, s \in Slots : ProjectionFails(a, s)
    BY <2>26, ProjectionFailsKeeps
  <2>27. CASE \E status \in {"completed", "failed"} : FinalizerSettles(status)
    BY <2>27, FinalizerSettlesKeeps
  <2>28. CASE \E by \in Callers : RequestCancel(by)
    BY <2>28, RequestCancelKeeps
  <2>29. CASE CancelAttempts
    BY <2>29, CancelAttemptsKeeps
  <2>30. CASE CancelRefused
    BY <2>30, CancelRefusedKeeps
  <2>31. CASE CancelOwner
    BY <2>31, CancelOwnerKeeps
  <2>32. CASE CancelOwnerFails
    BY <2>32, CancelOwnerFailsKeeps
  <2>33. CASE NotifyAttemptCancellation
    BY <2>33, NotifyAttemptCancellationKeeps
  <2>34. CASE CancelReturns
    BY <2>34, CancelReturnsKeeps
  <2>35. CASE \E r \in Responses, a \in Attempts, by \in Callers : RespondToPausedGate(r, a, by)
    BY <2>35, RespondToPausedGateKeeps
  <2>36. CASE \E r \in Responses, n \in Attempts : ResumePausedExecution(r, n)
    BY <2>36, ResumePausedExecutionKeeps
  <2>37. CASE \E r \in Responses, n \in Attempts : ResumeFails(r, n)
    BY <2>37, ResumeFailsKeeps
  <2>38. CASE \E r \in Responses : \/ ResolveWaitingGate(r) \/ ResponseFails(r)
                                  \/ RestorePausedGate(r) \/ RestoreFails(r)
    BY <2>38, ResolveWaitingGateKeeps, ResponseFailsKeeps, RestorePausedGateKeeps,
       RestoreFailsKeeps
  <2>39. CASE Crash
    BY <2>39, CrashKeeps
  <2>40. CASE UNCHANGED vars
    BY <2>40 DEF vars, OwnerInv, TypeOK, QueueInv, TakenInv, SubmissionInv, Accepts, Exists,
           CancelReachesEveryAttempt, AcceptanceIsHonest
  <2> QED
    BY <2>1, <2>2, <2>3, <2>4, <2>5, <2>6, <2>7, <2>8, <2>9, <2>10, <2>11, <2>12, <2>13, <2>14, <2>15, <2>16, <2>17, <2>18, <2>19, <2>20, <2>21, <2>22, <2>23, <2>24, <2>25, <2>26, <2>27, <2>28, <2>29, <2>30, <2>31, <2>32, <2>33, <2>34, <2>35, <2>36, <2>37, <2>38, <2>39, <2>40
       DEF Next, TaskStep, SubmissionStep, CancelStep, ResumeStep, PublicationStep
<1> QED BY InitEstablishes, <1>1, PTL DEF Spec

\* Every attempt of an execution whose cancel was committed has been asked to
\* stop (cancelExecutionDurably against withAttemptCreation).
THEOREM CancelIsComplete == Spec => []CancelReachesEveryAttempt
<1>1. OwnerInv => CancelReachesEveryAttempt
    BY DEF OwnerInv
<1> QED BY <1>1, OwnerInvariance, PTL

\* A runner is told 'projected' or 'recorded-only' only when that is what its
\* owner made of the outcome (acceptWorkflowOwnerOutcome).
THEOREM AcceptanceIsTrue == Spec => []AcceptanceIsHonest
<1>1. OwnerInv => AcceptanceIsHonest
    BY DEF OwnerInv
<1> QED BY <1>1, OwnerInvariance, PTL

\* No step leaves a terminal status, and only the finalizer leaves its claim
\* (commitExecutionLifecycleTransition and the status checks inside it).
THEOREM TerminalStays == Spec => TerminalIsFinal
<1> DEFINE Final == /\ owner \in Terminal => owner' = owner
                    /\ owner = "finalizing" => owner' \in {"finalizing", "completed", "failed"}
<1>1. OwnerInv /\ [Next]_vars => [Final]_vars
  <2> SUFFICES ASSUME OwnerInv, Next PROVE Final
      BY DEF vars
  <2>1. ASSUME NEW a \in Attempts, CompleteExecutionWithFailure(a) PROVE Final
      BY <2>1 DEF CompleteExecutionWithFailure, Store, Terminal
  <2>2. ASSUME NEW a \in Attempts, NEW s \in Slots, TerminalTransition(a, s) PROVE Final
      BY <2>2 DEF TerminalTransition, CanProject, Store, Terminal
  <2>3. ASSUME NEW a \in Attempts, NEW s \in Slots, ParkExecution(a, s) PROVE Final
      BY <2>3 DEF ParkExecution, Store, Terminal
  <2>4. ASSUME NEW status \in {"completed", "failed"}, FinalizerSettles(status) PROVE Final
      BY <2>4 DEF FinalizerSettles, Store, Terminal
  <2>5. ASSUME CancelOwner PROVE Final
      BY <2>5 DEF OwnerInv, QueueInv, CancelOwner, Store, Terminal
  <2>6. ASSUME NEW r \in Responses, NEW n \in Attempts,
               ResumePausedExecution(r, n) \/ ResumeFails(r, n)
        PROVE  Final
      BY <2>6 DEF ResumePausedExecution, ResumeFails, Store, Terminal
  <2>7. ASSUME NEW r \in Responses, RestorePausedGate(r) PROVE Final
      BY <2>7 DEF RestorePausedGate, Store, Terminal
  <2>8. owner' = owner => Final
      OBVIOUS
  <2> HIDE DEF Final
  <2>9. ASSUME NEW a \in Attempts, TaskStep(a) PROVE Final
      BY <2>1, <2>8, <2>9
         DEF TaskStep, CreateAttempt, CreationRefused, Dispatch, AwaitOutcome,
             HandleUnacknowledgedDispatchFailure, RunnerRejected, FailureReturns, durableVars
  <2>10. ASSUME NEW a \in Attempts, NEW s \in Slots, SubmissionStep(a, s) PROVE Final
      BY <2>2, <2>3, <2>8, <2>10
         DEF SubmissionStep, CommitOutcome, ReadOwner, ProjectTerminal, SelectFinalizer,
             UnregisterFinalizer, TerminalSettled, ReadSettled, SettleOutcome, durableVars
  <2>11. ASSUME CancelStep PROVE Final
      BY <2>5, <2>8, <2>11
         DEF CancelStep, CancelAttempts, CancelRefused, NotifyAttemptCancellation,
             CancelReturns, durableVars
  <2>12. ASSUME NEW r \in Responses,
                \/ ResumeStep(r) \/ ResponseFails(r) \/ RestoreFails(r)
                \/ \E a \in Attempts, by \in Callers : RespondToPausedGate(r, a, by)
                \/ \E n \in Attempts : ResumeFails(r, n)
         PROVE  Final
      BY <2>6, <2>7, <2>8, <2>12
         DEF ResumeStep, ResolveWaitingGate, ResponseFails, RestoreFails, RespondToPausedGate,
             durableVars
  <2>13. ASSUME NEW a \in Attempts,
                \/ CreationFails(a) \/ AbandonmentFails(a) \/ FailureNotStored(a)
                \/ Provision(a) \/ ProvisioningAbsent(a) \/ InfrastructureFailure(a)
                \/ \E v \in Answers : WorkerFinishes(a, v)
         PROVE  Final
      BY <2>8, <2>13
         DEF CreationFails, AbandonmentFails, FailureNotStored, Provision, ProvisioningAbsent,
             InfrastructureFailure, WorkerFinishes, durableVars
  <2>14. ASSUME NEW a \in Attempts, NEW s \in Slots,
                Submit(a, s) \/ SubmissionFails(a, s) \/ ProjectionFails(a, s)
         PROVE  Final
      BY <2>8, <2>14 DEF Submit, SubmissionFails, ProjectionFails, durableVars
  <2>15. ASSUME \/ \E by \in Callers : RequestCancel(by)
                \/ CancelOwnerFails \/ PublicationStep \/ Crash
         PROVE  Final
      BY <2>8, <2>15
         DEF RequestCancel, CancelOwnerFails, PublicationStep,
             StartPublication, EndPublication, Crash, durableVars
  <2> QED
      BY <2>4, <2>9, <2>10, <2>11, <2>12, <2>13, <2>14, <2>15 DEF Next
<1> QED BY <1>1, OwnerInvariance, PTL DEF Spec, TerminalIsFinal

-----------------------------------------------------------------------------
(* Gates and the responses to them. *)

\* A step that gives nobody the turn keeps it single.
LEMMA TurnsEnd ==
    ASSUME OneTurn,
           \A n \in Attempts : AttemptTurn(n)' => AttemptTurn(n),
           \A a \in Attempts : GateTurn(a)' => GateTurn(a),
           \A r \in Responses : ResponseTurn(r)' => ResponseTurn(r)
    PROVE  OneTurn'
BY DEF OneTurn

\* A step that leaves gates, responses, tasks, attempts and answers alone keeps
\* everybody's turn.
LEMMA TurnsUntouched ==
    ASSUME TurnInv, UNCHANGED <<gate, resume, task, settled, answer>>
    PROVE  TurnInv'
BY DEF TurnInv, OneTurn, CreatedByTask, GateRead, AttemptTurn, GateTurn, ResponseTurn, Exists

\* A step of one task, or the settlement of its attempt, gives nobody the turn.
LEMMA TaskKeepsTurns ==
    ASSUME TurnInv, NEW a \in Attempts,
           UNCHANGED <<gate, resume, answer>>,
           \A n \in Attempts : n # a => task'[n] = task[n] /\ settled'[n] = settled[n],
           task'[a] \notin {"none", "starting"} \/ task'[a] = task[a],
           Exists(a)' => Exists(a) \/ task[a] = "starting",
           Exists(a)' => task'[a] \notin {"none", "starting"}
    PROVE  TurnInv'
<1>1. \A n \in Attempts : AttemptTurn(n)' => AttemptTurn(n)
    BY DEF AttemptTurn, Exists
<1>2. \A b \in Attempts : GateTurn(b)' => GateTurn(b)
    BY DEF GateTurn
<1>3. \A r \in Responses : ResponseTurn(r)' => ResponseTurn(r)
    BY DEF ResponseTurn
<1>4. CreatedByTask'
    BY DEF TurnInv, CreatedByTask, Exists
<1>5. GateRead'
    BY DEF TurnInv, GateRead
<1> QED BY <1>1, <1>2, <1>3, <1>4, <1>5, TurnsEnd DEF TurnInv

\* The worker's report hands the turn to the gate it stopped at, or to nobody.
LEMMA ReportPassesTurn ==
    ASSUME TypeOK, TurnInv, NEW a \in Attempts, NEW v \in Answers, WorkerFinishes(a, v)
    PROVE  TurnInv'
<1>1. AttemptTurn(a) /\ task[a] # "starting"
    BY DEF WorkerFinishes, AttemptTurn, Exists, TurnInv, CreatedByTask
<1>2. v # "none"
    BY OwnerAssumption
<1>3. \A n \in Attempts : ~AttemptTurn(n)'
    BY <1>1, <1>2 DEF WorkerFinishes, TurnInv, OneTurn, AttemptTurn, Exists, TypeOK
<1>4. \A b \in Attempts : GateTurn(b)' => b = a
    BY <1>1 DEF WorkerFinishes, TurnInv, OneTurn, GateTurn, TypeOK
<1>5. \A r \in Responses : ~ResponseTurn(r)'
    BY <1>1 DEF WorkerFinishes, TurnInv, OneTurn, ResponseTurn
<1>6. CreatedByTask' /\ GateRead'
    BY DEF WorkerFinishes, TurnInv, CreatedByTask, GateRead, Exists
<1> QED BY <1>3, <1>4, <1>5, <1>6 DEF TurnInv, OneTurn

\* A response that ends has no turn any more; the others keep what they have.
LEMMA ReturnEndsTurn ==
    ASSUME TypeOK, NEW r \in Responses, ResponseReturns(r)
    PROVE  /\ ~ResponseTurn(r)'
           /\ \A q \in Responses : q # r => (ResponseTurn(q)' <=> ResponseTurn(q))
           /\ GateRead => GateRead'
<1>1. resume'[r] = NoResponse /\ \A q \in Responses : q # r => resume'[q] = resume[q]
    BY DEF ResponseReturns, TypeOK
<1>2. resume'[r].pc = "idle"
    BY <1>1 DEF NoResponse
<1> QED BY <1>1, <1>2 DEF ResponseTurn, GateRead

\* A response takes the turn from the gate it resolves.
LEMMA ResolveTakesTurn ==
    ASSUME TypeOK, TurnInv, NEW r \in Responses, ResolveWaitingGate(r)
    PROVE  TurnInv'
<1> DEFINE g == resume[r].gate
<1>1. g \in Attempts
    BY DEF TurnInv, GateRead, ResolveWaitingGate
<1>2. CreatedByTask' /\ \A n \in Attempts : AttemptTurn(n)' <=> AttemptTurn(n)
    BY DEF ResolveWaitingGate, TurnInv, CreatedByTask, AttemptTurn, Exists
<1>3. CASE gate[g] = "waiting"
  <2>1. GateTurn(g)
      BY <1>3 DEF GateTurn
  <2>2. /\ \A n \in Attempts : ~AttemptTurn(n)
        /\ \A b \in Attempts : GateTurn(b) => b = g
        /\ \A q \in Responses : ~ResponseTurn(q)
      BY <1>1, <2>1 DEF TurnInv, OneTurn
  <2>3. \A b \in Attempts : ~GateTurn(b)'
      BY <1>1, <1>3, <2>2 DEF ResolveWaitingGate, GateTurn, TypeOK
  <2>4. \A q \in Responses : q # r => resume'[q] = resume[q]
      BY <1>3 DEF ResolveWaitingGate, TypeOK
  <2>5. \A q \in Responses : ResponseTurn(q)' => q = r
      BY <2>2, <2>4 DEF ResponseTurn
  <2>6. resume'[r] = [resume[r] EXCEPT !.pc = "resuming"]
      BY <1>3 DEF ResolveWaitingGate, TypeOK
  <2>7. resume'[r].gate = g
      BY <2>6 DEF TypeOK
  <2>8. GateRead'
      BY <1>1, <2>4, <2>7 DEF TurnInv, GateRead
  <2> QED BY <1>2, <2>2, <2>3, <2>5, <2>8 DEF TurnInv, OneTurn
<1>4. CASE gate[g] # "waiting"
  <2>1. ResponseReturns(r) /\ gate' = gate
      BY <1>4 DEF ResolveWaitingGate
  <2> QED BY <1>2, <2>1, ReturnEndsTurn, TurnsEnd DEF TurnInv, GateTurn
<1> QED BY <1>3, <1>4

\* A resume passes the turn of the response to the next task, or drops it.
LEMMA ResumePassesTurn ==
    ASSUME TypeOK, TurnInv, NEW r \in Responses, NEW n \in Attempts, ResumePausedExecution(r, n)
    PROVE  TurnInv'
<1>1. ResponseTurn(r) /\ ResponseReturns(r)
    BY DEF ResumePausedExecution, ResponseTurn
<1>2. /\ \A m \in Attempts : ~AttemptTurn(m)
      /\ \A b \in Attempts : ~GateTurn(b)
      /\ \A q \in Responses : ResponseTurn(q) => q = r
    BY <1>1 DEF TurnInv, OneTurn
<1>3. \A m \in Attempts : m # n => task'[m] = task[m]
    BY DEF ResumePausedExecution, TypeOK
<1>4. task[n] = "none" /\ UNCHANGED <<settled, answer, gate>>
    BY DEF ResumePausedExecution, NextTask
<1>5. \A m \in Attempts : AttemptTurn(m)' => m = n
    BY <1>2, <1>3, <1>4 DEF AttemptTurn, Exists
<1>6. \A b \in Attempts : ~GateTurn(b)'
    BY <1>2, <1>4 DEF GateTurn
<1>7. \A q \in Responses : ~ResponseTurn(q)'
    BY <1>1, <1>2, ReturnEndsTurn
<1>8. CreatedByTask'
    BY <1>3, <1>4 DEF TurnInv, CreatedByTask, Exists
<1>9. GateRead'
    BY <1>1, ReturnEndsTurn DEF TurnInv
<1> QED BY <1>5, <1>6, <1>7, <1>8, <1>9 DEF TurnInv, OneTurn

\* A failed resume keeps the turn with its response.
LEMMA FailedResumeKeepsTurn ==
    ASSUME TypeOK, TurnInv, NEW r \in Responses, NEW n \in Attempts, ResumeFails(r, n)
    PROVE  TurnInv'
<1>1. UNCHANGED <<gate, task, settled, answer>>
    BY DEF ResumeFails
<1>2. /\ resume'[r].gate = resume[r].gate /\ resume[r].pc = "resuming"
      /\ \A q \in Responses : q # r => resume'[q] = resume[q]
    BY DEF ResumeFails, TypeOK
<1>3. \A q \in Responses : ResponseTurn(q)' => ResponseTurn(q)
    BY <1>2 DEF ResponseTurn
<1>4. \A m \in Attempts : AttemptTurn(m)' <=> AttemptTurn(m)
    BY <1>1 DEF AttemptTurn, Exists
<1>5. \A b \in Attempts : GateTurn(b)' <=> GateTurn(b)
    BY <1>1 DEF GateTurn
<1>6. CreatedByTask' /\ GateRead'
    BY <1>1, <1>2 DEF TurnInv, CreatedByTask, GateRead, Exists
<1> QED BY <1>3, <1>4, <1>5, <1>6, TurnsEnd DEF TurnInv

\* A restore passes the turn of the response back to its gate, or drops it.
LEMMA RestorePassesTurn ==
    ASSUME TypeOK, TurnInv, NEW r \in Responses, RestorePausedGate(r) \/ RestoreFails(r)
    PROVE  TurnInv'
<1>1. ResponseTurn(r) /\ ResponseReturns(r) /\ UNCHANGED <<task, settled, answer>>
    BY DEF RestorePausedGate, RestoreFails, ResponseTurn, durableVars
<1>2. /\ \A m \in Attempts : ~AttemptTurn(m)
      /\ \A b \in Attempts : ~GateTurn(b)
      /\ \A q \in Responses : ResponseTurn(q) => q = r
    BY <1>1 DEF TurnInv, OneTurn
<1>3. \A m \in Attempts : ~AttemptTurn(m)'
    BY <1>1, <1>2 DEF AttemptTurn, Exists
<1>4. \A b \in Attempts : GateTurn(b)' => b = resume[r].gate
    BY <1>2 DEF RestorePausedGate, RestoreFails, durableVars, GateTurn, TypeOK
<1>5. \A q \in Responses : ~ResponseTurn(q)'
    BY <1>1, <1>2, ReturnEndsTurn
<1>6. CreatedByTask' /\ GateRead'
    BY <1>1, ReturnEndsTurn DEF TurnInv, CreatedByTask, Exists
<1> QED BY <1>3, <1>4, <1>5, <1>6 DEF TurnInv, OneTurn

\* The steps of a runner task and of the provider of its attempt.
LEMMA TaskStepsKeepTurns ==
    ASSUME TypeOK, TurnInv, NEW a \in Attempts,
           \/ TaskStep(a) \/ CreationFails(a) \/ AbandonmentFails(a) \/ FailureNotStored(a)
           \/ Provision(a) \/ ProvisioningAbsent(a) \/ InfrastructureFailure(a)
    PROVE  TurnInv'
<1>1. CASE CreateAttempt(a)
    BY <1>1, TaskKeepsTurns DEF CreateAttempt, Exists, TypeOK
<1>2. ASSUME NEW accepted \in BOOLEAN, Dispatch(a, accepted) PROVE TurnInv'
    BY <1>2, TaskKeepsTurns DEF Dispatch, durableVars, Exists, TypeOK, TurnInv, CreatedByTask
<1>3. CASE CreationRefused(a) \/ CreationFails(a)
    BY <1>3, TaskKeepsTurns
       DEF CreationRefused, CreationFails, durableVars, Exists, TypeOK, TurnInv, CreatedByTask
<1>4. CASE HandleUnacknowledgedDispatchFailure(a) \/ AbandonmentFails(a)
    BY <1>4, TaskKeepsTurns
       DEF HandleUnacknowledgedDispatchFailure, AbandonmentFails, durableVars, Exists, TypeOK,
           TurnInv, CreatedByTask
<1>5. CASE AwaitOutcome(a) \/ RunnerRejected(a)
    BY <1>5, TaskKeepsTurns
       DEF AwaitOutcome, RunnerRejected, durableVars, Exists, TypeOK, TurnInv, CreatedByTask
<1>6. CASE CompleteExecutionWithFailure(a) \/ FailureReturns(a) \/ FailureNotStored(a)
  <2>1. UNCHANGED <<gate, resume, answer, settled>> /\ task[a] \notin {"none", "starting"}
      BY <1>6 DEF CompleteExecutionWithFailure, FailureReturns, FailureNotStored, durableVars
  <2>2. /\ task'[a] \in {"publishing", "done"}
        /\ \A n \in Attempts : n # a => task'[n] = task[n]
      BY <1>6 DEF CompleteExecutionWithFailure, FailureReturns, FailureNotStored, TypeOK
  <2> QED BY <2>1, <2>2, TaskKeepsTurns DEF Exists
<1>7. CASE Provision(a) \/ ProvisioningAbsent(a) \/ InfrastructureFailure(a)
    BY <1>7, TaskKeepsTurns
       DEF Provision, ProvisioningAbsent, InfrastructureFailure, Exists, TypeOK, TurnInv,
           CreatedByTask
<1> QED BY <1>1, <1>2, <1>3, <1>4, <1>5, <1>6, <1>7 DEF TaskStep

\* The steps of a submission: committing settles an attempt that exists, a
\* projected cancellation takes the turn from waiting gates.
LEMMA SubmissionStepsKeepTurns ==
    ASSUME OwnerInv, TurnInv, NEW a \in Attempts, NEW s \in Slots,
           \/ Submit(a, s) \/ SubmissionStep(a, s)
           \/ SubmissionFails(a, s) \/ ProjectionFails(a, s)
    PROVE  TurnInv'
<1>1. CASE CommitOutcome(a, s)
  <2>1. answer[a] # "none" /\ UNCHANGED <<gate, resume, task, answer>>
      BY <1>1 DEF CommitOutcome, OwnerInv, SubmissionInv
  <2>2. \A n \in Attempts : n # a => settled'[n] = settled[n]
      BY <1>1 DEF CommitOutcome, OwnerInv, TypeOK
  <2>3. Exists(a)' => Exists(a)
    <3>1. a # 0
        BY OwnerAssumption DEF Attempts
    <3> QED BY <1>1, <3>1 DEF CommitOutcome, Exists, OwnerInv, QueueInv
  <2> QED BY <2>1, <2>2, <2>3, TaskKeepsTurns DEF TurnInv, CreatedByTask, Exists
<1>2. CASE TerminalTransition(a, s)
  <2>1. UNCHANGED <<resume, task, settled, answer>>
      BY <1>2 DEF TerminalTransition
  <2>2. \A b \in Attempts : GateTurn(b)' => GateTurn(b)
      BY <1>2 DEF TerminalTransition, CancelGates, GateTurn
  <2>3. /\ \A n \in Attempts : AttemptTurn(n)' <=> AttemptTurn(n)
        /\ \A r \in Responses : ResponseTurn(r)' <=> ResponseTurn(r)
        /\ CreatedByTask' /\ GateRead'
      BY <2>1 DEF TurnInv, AttemptTurn, ResponseTurn, CreatedByTask, GateRead, Exists
  <2> QED BY <2>2, <2>3, TurnsEnd DEF TurnInv
<1>3. CASE ~CommitOutcome(a, s) /\ ~TerminalTransition(a, s)
  <2>1. UNCHANGED <<gate, resume, task, settled, answer>>
      BY <1>3 DEF SubmissionStep, Submit, SubmissionFails, ProjectionFails, ReadOwner,
         ProjectTerminal, SelectFinalizer, UnregisterFinalizer, TerminalSettled,
         ParkExecution, ReadSettled, SettleOutcome, durableVars
  <2> QED BY <2>1, TurnsUntouched
<1> QED BY <1>1, <1>2, <1>3

\* A cancelled owner's gates stop waiting.
LEMMA CancelEndsTurns ==
    ASSUME TurnInv, CancelOwner
    PROVE  TurnInv'
<1>1. UNCHANGED <<resume, task, settled, answer>>
    BY DEF CancelOwner
<1>2. \A b \in Attempts : GateTurn(b)' => GateTurn(b)
    BY DEF CancelOwner, CancelGates, GateTurn
<1>3. /\ \A n \in Attempts : AttemptTurn(n)' <=> AttemptTurn(n)
      /\ \A r \in Responses : ResponseTurn(r)' <=> ResponseTurn(r)
      /\ CreatedByTask' /\ GateRead'
    BY <1>1 DEF TurnInv, AttemptTurn, ResponseTurn, CreatedByTask, GateRead, Exists
<1> QED BY <1>2, <1>3, TurnsEnd DEF TurnInv

\* A response that reads a gate, or fails before it resolves it, has no turn.
LEMMA ReadingTakesNoTurn ==
    ASSUME TypeOK, TurnInv, NEW r \in Responses,
           \/ \E a \in Attempts, by \in Callers : RespondToPausedGate(r, a, by)
           \/ ResponseFails(r)
    PROVE  TurnInv'
<1>1. UNCHANGED <<gate, task, settled, answer>>
    BY DEF RespondToPausedGate, ResponseFails, durableVars
<1>2. /\ \A n \in Attempts : AttemptTurn(n)' <=> AttemptTurn(n)
      /\ \A b \in Attempts : GateTurn(b)' <=> GateTurn(b)
      /\ CreatedByTask'
    BY <1>1 DEF TurnInv, AttemptTurn, GateTurn, CreatedByTask, Exists
<1>3. CASE ResponseFails(r)
  <2>1. ResponseReturns(r)
      BY <1>3 DEF ResponseFails
  <2> QED BY <1>2, <2>1, ReturnEndsTurn, TurnsEnd DEF TurnInv
<1>4. ASSUME NEW a \in Attempts, NEW by \in Callers, RespondToPausedGate(r, a, by)
      PROVE  TurnInv'
  <2>1. /\ resume'[r] = [pc |-> "reading", gate |-> a]
        /\ \A q \in Responses : q # r => resume'[q] = resume[q]
      BY <1>4 DEF RespondToPausedGate, TypeOK
  <2>2. resume'[r].pc = "reading" /\ resume'[r].gate = a
      BY <2>1
  <2>3. \A q \in Responses : ResponseTurn(q)' => ResponseTurn(q)
      BY <2>1, <2>2 DEF ResponseTurn
  <2>4. GateRead'
      BY <2>1, <2>2 DEF TurnInv, GateRead
  <2> QED BY <1>2, <2>3, <2>4, TurnsEnd DEF TurnInv
<1> QED BY <1>3, <1>4

\* A crash ends every response and every task.
LEMMA CrashEndsTurns ==
    ASSUME TypeOK, TurnInv, Crash
    PROVE  TurnInv'
<1>1. UNCHANGED <<gate, settled, answer>>
    BY DEF Crash, durableVars
<1>2. \A n \in Attempts : task'[n] = IF task[n] = "none" THEN "none" ELSE "done"
    BY DEF Crash
<1>3. \A n \in Attempts : AttemptTurn(n)' => AttemptTurn(n)
    BY <1>1, <1>2 DEF AttemptTurn, Exists
<1>4. \A r \in Responses : resume'[r].pc = "idle"
    BY DEF Crash, NoResponse
<1>5. CreatedByTask'
    BY <1>1, <1>2 DEF TurnInv, CreatedByTask, Exists
<1> QED BY <1>1, <1>3, <1>4, <1>5, TurnsEnd DEF TurnInv, GateTurn, ResponseTurn, GateRead

\* The turn is never held twice: of an attempt at work, a waiting gate and a response
\* that has resolved one there is at most one at any time (respondToPausedGate).
THEOREM TurnInvariance == Spec => []TurnInv
<1>1. Init => TurnInv
    BY DEF Init, TurnInv, OneTurn, CreatedByTask, GateRead, AttemptTurn, GateTurn, ResponseTurn,
       Exists, NoResponse
<1>2. OwnerInv /\ TurnInv /\ [Next]_vars => TurnInv'
  <2> SUFFICES ASSUME OwnerInv, TurnInv, [Next]_vars PROVE TurnInv'
      OBVIOUS
  <2>1. TypeOK
      BY DEF OwnerInv
  <2>2. ASSUME NEW a \in Attempts,
               \/ TaskStep(a) \/ CreationFails(a) \/ AbandonmentFails(a) \/ FailureNotStored(a)
               \/ Provision(a) \/ ProvisioningAbsent(a) \/ InfrastructureFailure(a)
        PROVE  TurnInv'
      BY <2>1, <2>2, TaskStepsKeepTurns
  <2>3. ASSUME NEW a \in Attempts, NEW v \in Answers, WorkerFinishes(a, v) PROVE TurnInv'
      BY <2>1, <2>3, ReportPassesTurn
  <2>4. ASSUME NEW a \in Attempts, NEW s \in Slots,
               \/ Submit(a, s) \/ SubmissionStep(a, s)
               \/ SubmissionFails(a, s) \/ ProjectionFails(a, s)
        PROVE  TurnInv'
      BY <2>4, SubmissionStepsKeepTurns
  <2>5. CASE \/ \E status \in {"completed", "failed"} : FinalizerSettles(status)
             \/ \E by \in Callers : RequestCancel(by)
             \/ CancelAttempts \/ CancelRefused \/ NotifyAttemptCancellation \/ CancelReturns
             \/ CancelOwnerFails \/ PublicationStep \/ UNCHANGED vars
    <3>1. UNCHANGED <<gate, resume, task, settled, answer>>
        BY <2>5 DEF FinalizerSettles, RequestCancel, CancelAttempts, CancelRefused,
           NotifyAttemptCancellation, CancelReturns, CancelOwnerFails, PublicationStep,
           StartPublication, EndPublication, durableVars, vars
    <3> QED BY <3>1, TurnsUntouched
  <2>6. CASE CancelOwner
      BY <2>6, CancelEndsTurns
  <2>7. ASSUME NEW r \in Responses,
               \/ \E a \in Attempts, by \in Callers : RespondToPausedGate(r, a, by)
               \/ ResponseFails(r)
        PROVE  TurnInv'
      BY <2>1, <2>7, ReadingTakesNoTurn
  <2>8. ASSUME NEW r \in Responses, ResumeStep(r) \/ RestoreFails(r) PROVE TurnInv'
      BY <2>1, <2>8, ResolveTakesTurn, ResumePassesTurn, RestorePassesTurn DEF ResumeStep
  <2>9. ASSUME NEW r \in Responses, NEW n \in Attempts, ResumeFails(r, n) PROVE TurnInv'
      BY <2>1, <2>9, FailedResumeKeepsTurn
  <2>10. CASE Crash
      BY <2>1, <2>10, CrashEndsTurns
  <2> QED BY <2>2, <2>3, <2>4, <2>5, <2>6, <2>7, <2>8, <2>9, <2>10 DEF Next, CancelStep
<1> QED BY <1>1, <1>2, OwnerInvariance, PTL DEF Spec

\* A paused owner is resumed only when no gate waits (resumePausedExecution).
THEOREM GatesAreAnswered == Spec => ResumeAnswersEveryGate
<1> DEFINE Answered == owner = "paused" /\ owner' = "running" =>
                           \A a \in Attempts : gate[a] # "waiting"
<1>1. TurnInv /\ [Next]_vars => [Answered]_vars
  <2> SUFFICES ASSUME TurnInv, Next, owner = "paused", owner' = "running"
               PROVE  \A a \in Attempts : gate[a] # "waiting"
      BY DEF vars
  <2>1. \E r \in Responses, n \in Attempts : ResumePausedExecution(r, n) \/ ResumeFails(r, n)
    <3>1. ASSUME NEW a \in Attempts, TaskStep(a) PROVE FALSE
        BY <3>1 DEF TaskStep, CreateAttempt, CreationRefused, Dispatch, AwaitOutcome,
           HandleUnacknowledgedDispatchFailure, RunnerRejected, FailureReturns,
           CompleteExecutionWithFailure, durableVars
    <3>2. ASSUME NEW a \in Attempts,
                 \/ CreationFails(a) \/ AbandonmentFails(a) \/ FailureNotStored(a)
                 \/ Provision(a) \/ ProvisioningAbsent(a) \/ InfrastructureFailure(a)
                 \/ \E v \in Answers : WorkerFinishes(a, v)
          PROVE  FALSE
        BY <3>2 DEF CreationFails, AbandonmentFails, FailureNotStored, Provision,
           ProvisioningAbsent, InfrastructureFailure, WorkerFinishes, durableVars
    <3>3. ASSUME NEW a \in Attempts, NEW s \in Slots, TerminalTransition(a, s) PROVE FALSE
      <4>1. CanProject(outcome[a]) => Projection(outcome[a], sub[a][s]) # "running"
          BY DEF CanProject, Projection
      <4> QED BY <3>3, <4>1 DEF TerminalTransition, Store
    <3>4. ASSUME NEW a \in Attempts, NEW s \in Slots,
                 \/ Submit(a, s) \/ SubmissionStep(a, s)
                 \/ SubmissionFails(a, s) \/ ProjectionFails(a, s)
          PROVE  FALSE
        BY <3>3, <3>4 DEF SubmissionStep, Submit, SubmissionFails, ProjectionFails,
           CommitOutcome, ReadOwner, ProjectTerminal, SelectFinalizer, UnregisterFinalizer,
           TerminalSettled, ParkExecution, ReadSettled, SettleOutcome, durableVars
    <3>5. CASE \/ \E status \in {"completed", "failed"} : FinalizerSettles(status)
               \/ \E by \in Callers : RequestCancel(by)
               \/ CancelStep \/ CancelOwnerFails \/ PublicationStep \/ Crash
        BY <3>5 DEF FinalizerSettles, RequestCancel, CancelStep, CancelAttempts, CancelRefused,
           CancelOwner, NotifyAttemptCancellation, CancelReturns, CancelOwnerFails,
           PublicationStep, StartPublication, EndPublication, Crash, Store, durableVars
    <3>6. ASSUME NEW r \in Responses,
                 \/ \E a \in Attempts, by \in Callers : RespondToPausedGate(r, a, by)
                 \/ ResolveWaitingGate(r) \/ ResponseFails(r)
                 \/ RestorePausedGate(r) \/ RestoreFails(r)
          PROVE  FALSE
        BY <3>6 DEF RespondToPausedGate, ResolveWaitingGate, ResponseFails, RestorePausedGate,
           RestoreFails, Store, durableVars
    <3> QED BY <3>1, <3>2, <3>4, <3>5, <3>6 DEF Next, ResumeStep
  <2>2. \E r \in Responses : ResponseTurn(r)
      BY <2>1 DEF ResumePausedExecution, ResumeFails, ResponseTurn
  <2> QED BY <2>2 DEF TurnInv, OneTurn, GateTurn
<1> QED BY <1>1, TurnInvariance, PTL DEF Spec, ResumeAnswersEveryGate

=============================================================================
