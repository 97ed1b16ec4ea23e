------------------------ MODULE RequestDispatchProofs ------------------------
(***************************************************************************)
(* Proofs about RequestDispatch for merged lists of every length.          *)
(***************************************************************************)
EXTENDS RequestDispatch, WellFoundedInduction, TLAPS

\* the order of the naturals as a relation
NatLess == {ss \in Nat \X Nat : ss[1] < ss[2]}

\* There is no infinite descent in the naturals.
LEMMA NatLessWellFounded == IsWellFoundedOn(NatLess, Nat)
  <1>1. NatLess = OpToRel(<, Nat)
    BY Zenon DEF OpToRel, NatLess
  <1> QED
    BY <1>1, NatLessThanWellFounded, Zenon

\* Least(S) is the minimum of every nonempty set of naturals.
LEMMA LeastExists ==
  ASSUME NEW S \in SUBSET Nat, S # {}
  PROVE  Least(S) \in S /\ \A y \in S : Least(S) <= y
  <1>1. PICK x \in S : \A y \in S : ~(<<y, x>> \in NatLess)
    BY NatLessWellFounded, WFMin
  <1>2. \A a, b \in Nat : a < b => <<a, b>> \in NatLess
    BY Zenon DEF NatLess
  <1>3. ASSUME NEW y \in S PROVE x <= y
    <2>1. x \in Nat /\ y \in Nat
      OBVIOUS
    <2>2. ~(y < x)
      BY <1>1, <1>2, <2>1, Zenon
    <2> QED
      BY <2>1, <2>2
  <1> QED
    BY <1>3 DEF Least

\* stepDispatch(i) gets to a position from i on, passing over gone transports only.
LEMMA TargetInRange ==
  ASSUME TypeOK, NEW i \in 1..End
  PROVE  /\ Target(i) \in i..End
         /\ \A k \in Positions : i <= k /\ k < Target(i) => k \in gone
  <1> USE DispatchAssumption DEF End, Positions
  <1>1. CASE i <= N /\ expired
    BY <1>1 DEF Target
  <1>2. CASE ~(i <= N /\ expired)
    <2> DEFINE S == {j \in i..End : j = End \/ kind[j] = "local" \/ j \notin gone}
    <2>1. S \in SUBSET Nat /\ S # {}
      OBVIOUS
    <2>2. Target(i) = Least(S)
      BY <1>2 DEF Target
    <2>3. Least(S) \in S /\ \A y \in S : Least(S) <= y
      BY <2>1, LeastExists
    <2>4. \A k \in Positions : i <= k /\ k \notin S => k \in gone
      OBVIOUS
    <2> HIDE DEF S
    <2>5. Least(S) \in i..End
      BY <2>3 DEF S
    <2>6. ASSUME NEW k \in Positions, i <= k, k < Least(S) PROVE k \in gone
      BY <2>3, <2>4, <2>5, <2>6
    <2> QED
      BY <2>2, <2>5, <2>6
  <1> QED
    BY <1>1, <1>2

-----------------------------------------------------------------------------
Errors == {"none", "timeout", "error"}

\* What stepDispatch() makes of its target: a fresh execution without a result
\* or an answer, unhandled only at the end of the chain and without an error.
LEMMA StartedShape ==
  ASSUME TypeOK, NEW j \in 1..End, NEW e \in Errors
  PROVE  /\ Started(j, e) \in Execution
         /\ Started(j, e).st \in {"running", "sent", "done"}
         /\ ~Started(j, e).has /\ Started(j, e).ans = "none"
         /\ Started(j, e).out = "unhandled" => j = End /\ e = "none"
         /\ Started(j, e).st # "done" => Started(j, e).err = e /\ Started(j, e).out = "none"
         /\ j = End => Started(j, e).st = "done"
  <1> USE DEF Idle, Execution, Outcomes, Failures, Errors
  <1>1. \A o \in Outcomes : /\ Done(o) \in Execution /\ Done(o).st = "done" /\ ~Done(o).has
                            /\ Done(o).ans = "none" /\ Done(o).out = o
    BY DEF Done
  <1>2. CASE j = End
    <2>1. Started(j, e) = AtEnd(e)
      BY <1>2 DEF Started
    <2>2. \E o \in Outcomes : AtEnd(e) = Done(o) /\ (o = "unhandled" => e = "none")
      BY DEF AtEnd
    <2> QED
      BY <1>1, <1>2, <2>1, <2>2
  <1>3. CASE j # End
    <2>1. CASE expired \/ (kind[j] = "remote" /\ aborted)
      <3>1. Started(j, e) = Done("timeout") \/ Started(j, e) = Done("abort")
        BY <1>3, <2>1 DEF Started, Execute
      <3> QED
        BY <1>1, <1>3, <3>1
    <2>2. CASE ~(expired \/ (kind[j] = "remote" /\ aborted))
      <3>1. Started(j, e) = [Idle EXCEPT !.st = IF kind[j] = "local" THEN "running" ELSE "sent", !.err = e]
        BY <1>3, <2>2 DEF Started, Execute
      <3> QED
        BY <1>3, <3>1
    <2> QED
      BY <2>1, <2>2
  <1> QED
    BY <1>2, <1>3

\* The frontier p, the last position reached, calls stepDispatch(p + 1, e): the
\* invariant is kept when p keeps its result, its answer and its error, and e
\* carries every failure met up to p.
LEMMA StepInv ==
  ASSUME DispatchInv,
         NEW p \in 0..N, NEW mine \in Execution, NEW e \in Errors,
         down[p] = 0, Reached(p), p # 0 => ent[p].st \in {"running", "sent"},
         p # 0 => /\ mine.st \in {"running", "waiting"} /\ mine.out = "none"
                  /\ mine.has = ent[p].has /\ mine.err = ent[p].err /\ mine.ans = ent[p].ans
                  /\ mine.ans \in {"none", "nohandler", "timeout", "error"}
                  /\ mine.st = "running" => mine.ans = "none",
         \A i \in Positions : i <= p /\ ent[i].ans \in {"timeout", "error"} => e # "none",
         Step(p, mine, p + 1, e),
         gate' \in {gate, "passed"}, p = 0 => gate' = "passed", caller' \in {caller, "abort"},
         UNCHANGED <<kind, timed, gone, expired, aborted, dispatched>>
  PROVE  DispatchInv'
  <1> USE DispatchAssumption DEF Positions, End
  <1> DEFINE j == Target(p + 1)
             s == Started(j, e)
  <1>1. /\ j \in (p + 1)..End
        /\ \A k \in Positions : p < k /\ k < j => k \in gone
    BY TargetInRange DEF DispatchInv
  <1>2. j \in 1..End
    BY <1>1
  <1>3. /\ s \in Execution /\ s.st \in {"running", "sent", "done"} /\ ~s.has /\ s.ans = "none"
        /\ s.out = "unhandled" => j = End /\ e = "none"
        /\ s.st # "done" => s.err = e /\ s.out = "none"
        /\ j = End => s.st = "done"
    BY <1>2, StartedShape DEF DispatchInv
  <1>4. /\ down' = [down EXCEPT ![p] = j]
        /\ ent' = [k \in 1..End |-> IF k = j THEN s ELSE IF k = p THEN mine ELSE ent[k]]
        /\ cancelled' \in {cancelled, cancelled \union {j}} /\ (j = End => cancelled' = cancelled)
    BY DEF Step
  <1> HIDE DEF j, s
  <1>5. \A k \in 1..End : k > p => ent[k] = Idle
    BY DEF DispatchInv, Chain
  <1>6. ent'[j] = s /\ (p # 0 => ent'[p] = mine)
    BY <1>1, <1>2, <1>4
  <1>7. \A k \in 1..End : k # j /\ k # p => ent'[k] = ent[k]
    BY <1>4
  <1>8. /\ down'[p] = j /\ \A k \in 0..N : k # p => down'[k] = down[k]
        /\ down' \in [0..N -> 0..End] /\ ent' \in [1..End -> Execution]
    BY <1>1, <1>2, <1>3, <1>4 DEF DispatchInv, TypeOK
  <1>9. cancelled \subseteq cancelled' /\ cancelled' \in SUBSET Positions
    BY <1>2, <1>4 DEF DispatchInv, TypeOK
  <1>10. TypeOK'
    BY <1>8, <1>9 DEF DispatchInv, TypeOK, Outcomes, Failures
  <1>11. Chain'
    <2>1. (gate # "passed" => down[0] = 0)'
      BY <1>8 DEF DispatchInv, Chain
    <2>2. ASSUME NEW i \in 0..N, down'[i] # 0
          PROVE  /\ down'[i] > i /\ ent'[down'[i]].st # "idle"
                 /\ \A k \in Positions : i < k /\ k < down'[i] => k \in gone' /\ ent'[k] = Idle
      <3>1. CASE i = p
        BY <1>1, <1>2, <1>3, <1>5, <1>6, <1>7, <1>8, <3>1
      <3>2. CASE i # p
        <4>1. /\ down[i] # 0 /\ down'[i] = down[i] /\ down[i] \in 1..End /\ down[i] > i /\ ent[down[i]].st # "idle"
              /\ \A k \in Positions : i < k /\ k < down[i] => k \in gone /\ ent[k] = Idle
          BY <1>8, <2>2, <3>2 DEF DispatchInv, Chain, TypeOK
        <4>2. down[i] <= p
          BY <1>5, <4>1 DEF Idle
        <4>3. ent'[down[i]].st # "idle"
          BY <1>1, <1>6, <1>7, <4>1, <4>2
        <4>4. \A k \in Positions : i < k /\ k < down[i] => k # j /\ k # p
          BY <1>1, <4>1, <4>2
        <4> QED
          BY <1>7, <4>1, <4>3, <4>4
      <3> QED
        BY <3>1, <3>2
    <2>3. ASSUME NEW i \in 0..N, Reached(i)', down'[i] = 0, NEW k \in 1..End, k > i
          PROVE  ent'[k] = Idle
      <3>1. i # p
        BY <1>1, <1>8, <2>3
      <3>2. CASE i = j
        BY <1>1, <1>5, <1>7, <2>3, <3>2
      <3>3. CASE i # j
        <4>1. Reached(i) /\ down[i] = 0
          BY <1>7, <1>8, <2>3, <3>1, <3>3 DEF Reached
        <4>2. i < p
          BY <1>5, <3>1, <4>1 DEF Reached, Idle
        <4>3. ent[p] = Idle
          BY <4>1, <4>2 DEF DispatchInv, Chain
        <4> QED
          BY <4>2, <4>3 DEF Idle
      <3> QED
        BY <3>2, <3>3
    <2>4. ASSUME NEW i \in Positions, ent'[i].st \in {"idle", "sent"} PROVE down'[i] = 0
      <3>1. i # p
        BY <1>1, <1>6, <2>4
      <3>2. ent[i].st \in {"idle", "sent"}
        BY <1>5, <1>1, <1>7, <2>4, <3>1 DEF Idle
      <3> QED
        BY <1>8, <3>1, <3>2 DEF DispatchInv, Chain
    <2>5. ASSUME NEW i \in Positions, ent'[i].st = "waiting" PROVE down'[i] # 0
      <3>1. CASE i = p
        BY <1>1, <1>8, <3>1
      <3>2. CASE i # p
        <4>1. i # j
          BY <1>3, <1>6, <2>5
        <4>2. ent[i].st = "waiting" /\ down'[i] = down[i]
          BY <1>7, <1>8, <2>5, <3>2, <4>1
        <4> QED
          BY <4>2 DEF DispatchInv, Chain
      <3> QED
        BY <3>1, <3>2
    <2>6. ent'[End].st \in {"idle", "done"}
      BY <1>1, <1>3, <1>5, <1>6, <1>7 DEF Idle
    <2> QED
      BY <2>1, <2>2, <2>3, <2>4, <2>5, <2>6 DEF Chain
  <1>12. Answered'
    <2> SUFFICES ASSUME NEW i \in Positions
                 PROVE  /\ ent'[i].st \in {"idle", "running"} => ent'[i].ans = "none"
                        /\ ent'[i].st = "waiting" => ent'[i].ans \in {"none", "nohandler", "timeout", "error"}
                        /\ ent'[i].ans = "ok" /\ ent'[i].st = "done" => ent'[i].out = "handled"
                        /\ ent'[i].ans = "abort" /\ ent'[i].st = "done" => ent'[i].out = "abort" /\ i \in cancelled'
      BY DEF Answered
    <2>1. CASE i = j
      BY <1>3, <1>6, <2>1
    <2>2. CASE i = p
      BY <1>6, <2>2
    <2>3. CASE i # j /\ i # p
      BY <1>7, <1>9, <2>3 DEF DispatchInv, Answered
    <2> QED
      BY <2>1, <2>2, <2>3
  <1>13. FailureCarried'
    <2> SUFFICES ASSUME NEW i \in Positions, ent'[i].ans \in {"timeout", "error"}, NEW k \in 1..End, k > i
                 PROVE  /\ ent'[k].out # "unhandled"
                        /\ ent'[k].st \in {"running", "waiting", "sent"} => ent'[k].err # "none"
      BY DEF FailureCarried
    <2>1. i <= p /\ ent[i].ans \in {"timeout", "error"}
      BY <1>1, <1>3, <1>5, <1>6, <1>7 DEF Idle
    <2>2. e # "none"
      BY <2>1
    <2>3. CASE k = j
      BY <1>3, <1>6, <2>2, <2>3
    <2>4. CASE k = p
      BY <1>6, <2>1, <2>4 DEF DispatchInv, FailureCarried
    <2>5. CASE k # j /\ k # p
      BY <1>7, <2>1, <2>5 DEF DispatchInv, FailureCarried
    <2> QED
      BY <2>3, <2>4, <2>5
  <1>14. UnhandledMeansDeclined'
    <2> SUFFICES ASSUME NEW i \in 1..End, ent'[i].out = "unhandled"
                 PROVE  /\ ent'[i].st = "done" /\ ent'[End].st = "done"
                        /\ \A k \in Positions : k >= i => Declined(k)'
      BY DEF UnhandledMeansDeclined
    <2>1. ent[End] = Idle
      BY <1>5
    <2>2. i = j
      BY <1>6, <1>7, <2>1 DEF DispatchInv, UnhandledMeansDeclined, Idle
    <2> QED
      BY <1>3, <1>6, <2>2
  <1>15. Settled'
    <2>1. ASSUME NEW i \in 1..End, ent'[i].st # "done" PROVE ent'[i].out = "none"
      BY <1>3, <1>6, <1>7, <2>1 DEF DispatchInv, Settled
    <2>2. ASSUME NEW o \in {dispatched', caller'}, o = "unhandled"
          PROVE  down'[0] # 0 /\ ent'[down'[0]].out = "unhandled"
      <3>1. o \in {dispatched, caller}
        BY <2>2
      <3>2. down[0] # 0 /\ ent[down[0]].out = "unhandled" /\ down[0] \in 1..End
        BY <2>2, <3>1 DEF DispatchInv, Settled, TypeOK
      <3>3. ent[down[0]].st = "done"
        BY <3>2 DEF DispatchInv, UnhandledMeansDeclined
      <3>4. p # 0 /\ down[0] # p /\ down[0] # j
        BY <1>1, <1>5, <3>2, <3>3 DEF Idle
      <3> QED
        BY <1>7, <1>8, <3>2, <3>4
    <2> QED
      BY <2>1, <2>2 DEF Settled
  <1> QED
    BY <1>10, <1>11, <1>12, <1>13, <1>14, <1>15 DEF DispatchInv

\* One entry i that is under way changes to r and nobody steps: the invariant
\* is kept when r's answer fits its state, and r is unhandled only because an
\* entry d further on was, with nothing but gone transports between.
LEMMA EntryInv ==
  ASSUME DispatchInv, NEW i \in Positions, NEW r \in Execution,
         ent[i].st \in {"running", "waiting", "sent"}, ent' = [ent EXCEPT ![i] = r],
         r.st # "idle", r.st = "sent" => ent[i].st = "sent", r.st = "waiting" => down[i] # 0,
         r.st = "running" => r.ans = "none",
         r.st = "waiting" => r.ans \in {"none", "nohandler", "timeout", "error"},
         r.ans = "ok" /\ r.st = "done" => r.out = "handled",
         r.ans = "abort" /\ r.st = "done" => r.out = "abort" /\ i \in cancelled',
         r.ans = ent[i].ans \/ ent[i].st = "sent",
         r.st # "done" => r.err = ent[i].err /\ r.out = "none",
         r.out = "unhandled" =>
            /\ r.st = "done" /\ ~r.has /\ r.ans \in {"none", "nohandler"}
            /\ \E d \in 1..End : /\ d > i /\ ent[d].out = "unhandled"
                                 /\ \A k \in Positions : i < k /\ k < d => k \in gone /\ ent[k] = Idle,
         cancelled \subseteq cancelled', cancelled' \in SUBSET Positions,
         UNCHANGED <<kind, timed, gone, gate, down, expired, aborted, dispatched, caller>>
  PROVE  DispatchInv'
  <1> USE DispatchAssumption DEF Positions, End
  <1>1. /\ ent' \in [1..End -> Execution] /\ ent'[i] = r
        /\ \A k \in 1..End : k # i => ent'[k] = ent[k]
    BY DEF DispatchInv, TypeOK
  <1>2. TypeOK'
    BY <1>1 DEF DispatchInv, TypeOK
  <1>3. \A k \in 1..End : ent'[k].st = "idle" <=> ent[k].st = "idle"
    BY <1>1
  <1>4. \A k \in 1..End : ent[k] = Idle => ent'[k] = Idle
    <2>1. Idle.st = "idle"
      BY DEF Idle
    <2> QED
      BY <1>1, <2>1
  <1>5. Chain'
    <2>1. (gate # "passed" => down[0] = 0)'
      BY DEF DispatchInv, Chain
    <2>2. ASSUME NEW n \in 0..N, down'[n] # 0
          PROVE  /\ down'[n] > n /\ ent'[down'[n]].st # "idle"
                 /\ \A k \in Positions : n < k /\ k < down'[n] => k \in gone' /\ ent'[k] = Idle
      <3>1. down[n] \in 1..End
        BY <2>2 DEF DispatchInv, TypeOK
      <3> QED
        BY <1>3, <1>4, <2>2, <3>1 DEF DispatchInv, Chain
    <2>3. ASSUME NEW n \in 0..N, Reached(n)', down'[n] = 0, NEW k \in 1..End, k > n
          PROVE  ent'[k] = Idle
      <3>1. Reached(n)
        BY <1>3, <2>3 DEF Reached
      <3> QED
        BY <1>4, <2>3, <3>1 DEF DispatchInv, Chain
    <2>4. ASSUME NEW n \in Positions, ent'[n].st \in {"idle", "sent"} PROVE down'[n] = 0
      BY <1>1, <2>4 DEF DispatchInv, Chain
    <2>5. ASSUME NEW n \in Positions, ent'[n].st = "waiting" PROVE down'[n] # 0
      BY <1>1, <2>5 DEF DispatchInv, Chain
    <2>6. ent'[End].st \in {"idle", "done"}
      BY <1>1 DEF DispatchInv, Chain
    <2> QED
      BY <2>1, <2>2, <2>3, <2>4, <2>5, <2>6 DEF Chain
  <1>6. Answered'
    <2> SUFFICES ASSUME NEW n \in Positions
                 PROVE  /\ ent'[n].st \in {"idle", "running"} => ent'[n].ans = "none"
                        /\ ent'[n].st = "waiting" => ent'[n].ans \in {"none", "nohandler", "timeout", "error"}
                        /\ ent'[n].ans = "ok" /\ ent'[n].st = "done" => ent'[n].out = "handled"
                        /\ ent'[n].ans = "abort" /\ ent'[n].st = "done" => ent'[n].out = "abort" /\ n \in cancelled'
      BY DEF Answered
    <2>1. CASE n = i
      BY <1>1, <2>1
    <2>2. CASE n # i
      BY <1>1, <2>2 DEF DispatchInv, Answered
    <2> QED
      BY <2>1, <2>2
  <1>7. FailureCarried'
    <2> SUFFICES ASSUME NEW n \in Positions, ent'[n].ans \in {"timeout", "error"}, NEW k \in 1..End, k > n
                 PROVE  /\ ent'[k].out # "unhandled"
                        /\ ent'[k].st \in {"running", "waiting", "sent"} => ent'[k].err # "none"
      BY DEF FailureCarried
    <2>1. CASE n = i
      <3>1. CASE r.ans = ent[i].ans
        BY <1>1, <2>1, <3>1 DEF DispatchInv, FailureCarried
      <3>2. CASE ent[i].st = "sent"
        <4>1. down[i] = 0 /\ Reached(i)
          BY <3>2 DEF DispatchInv, Chain, Reached
        <4>2. ent[k] = Idle
          BY <2>1, <4>1 DEF DispatchInv, Chain
        <4> QED
          BY <1>4, <4>2 DEF Idle
      <3> QED
        BY <3>1, <3>2
    <2>2. CASE n # i /\ k # i
      BY <1>1, <2>2 DEF DispatchInv, FailureCarried
    <2>3. CASE n # i /\ k = i
      <3>1. ent[n].ans \in {"timeout", "error"}
        BY <1>1, <2>3
      <3>2. ent[i].err # "none"
        BY <2>3, <3>1 DEF DispatchInv, FailureCarried
      <3>3. ASSUME r.out = "unhandled" PROVE FALSE
        <4>1. PICK d \in 1..End : d > i /\ ent[d].out = "unhandled"
          BY <3>3
        <4> QED
          BY <2>3, <3>1, <4>1 DEF DispatchInv, FailureCarried
      <3> QED
        BY <1>1, <2>3, <3>2, <3>3
    <2> QED
      BY <2>1, <2>2, <2>3
  <1>8. UnhandledMeansDeclined'
    <2> SUFFICES ASSUME NEW n \in 1..End, ent'[n].out = "unhandled"
                 PROVE  /\ ent'[n].st = "done" /\ ent'[End].st = "done"
                        /\ \A k \in Positions : k >= n => Declined(k)'
      BY DEF UnhandledMeansDeclined
    <2>0. ASSUME NEW m \in 1..End, m > i, ent[m].out = "unhandled"
          PROVE  /\ ent'[m].st = "done" /\ ent'[End].st = "done"
                 /\ \A k \in Positions : k >= m => Declined(k)'
      <3>1. /\ ent[m].st = "done" /\ ent[End].st = "done"
            /\ \A k \in Positions : k >= m => Declined(k)
        BY <2>0 DEF DispatchInv, UnhandledMeansDeclined
      <3>2. \A k \in Positions : k >= m => ent'[k] = ent[k]
        BY <1>1, <2>0
      <3> QED
        BY <1>1, <2>0, <3>1, <3>2 DEF Declined
    <2>1. CASE n # i
      <3>1. ent[n].out = "unhandled"
        BY <1>1, <2>1
      <3>2. n > i
        <4>1. CASE n < i
          <5>1. Declined(i)
            BY <3>1, <4>1 DEF DispatchInv, UnhandledMeansDeclined
          <5> QED
            BY <5>1 DEF Declined, Idle
        <4> QED
          BY <2>1, <4>1
      <3> QED
        BY <2>0, <3>1, <3>2
    <2>2. CASE n = i
      <3>1. PICK d \in 1..End : /\ d > i /\ ent[d].out = "unhandled"
                                /\ \A k \in Positions : i < k /\ k < d => k \in gone /\ ent[k] = Idle
        BY <1>1, <2>2
      <3>2. /\ ent'[End].st = "done"
            /\ \A k \in Positions : k >= d => Declined(k)'
        BY <2>0, <3>1
      <3>3. \A k \in Positions : i < k /\ k < d => Declined(k)'
        BY <1>4, <3>1 DEF Declined, Idle
      <3>4. Declined(i)' /\ ent'[n].st = "done"
        BY <1>1, <2>2 DEF Declined
      <3>5. ASSUME NEW k \in Positions, k >= n PROVE Declined(k)'
        <4>1. k = i \/ (i < k /\ k < d) \/ k >= d
          BY <2>2, <3>5
        <4> QED
          BY <3>2, <3>3, <3>4, <4>1
      <3> QED
        BY <3>2, <3>4, <3>5
    <2> QED
      BY <2>1, <2>2
  <1>9. Settled'
    <2>1. ASSUME NEW n \in 1..End, ent'[n].st # "done" PROVE ent'[n].out = "none"
      BY <1>1, <2>1 DEF DispatchInv, Settled
    <2>2. ASSUME NEW o \in {dispatched', caller'}, o = "unhandled"
          PROVE  down'[0] # 0 /\ ent'[down'[0]].out = "unhandled"
      <3>1. down[0] # 0 /\ ent[down[0]].out = "unhandled" /\ down[0] \in 1..End
        BY <2>2 DEF DispatchInv, Settled, TypeOK
      <3>2. ent[down[0]].st = "done"
        BY <3>1 DEF DispatchInv, UnhandledMeansDeclined
      <3> QED
        BY <1>1, <3>1, <3>2
    <2> QED
      BY <2>1, <2>2 DEF Settled
  <1> QED
    BY <1>2, <1>5, <1>6, <1>7, <1>8, <1>9 DEF DispatchInv

\* The initial state satisfies the invariant: nothing has started.
LEMMA InitInv == Init => DispatchInv
  <1> USE DispatchAssumption DEF Positions, End
  <1> SUFFICES ASSUME Init PROVE DispatchInv
    OBVIOUS
  <1>1. \A k \in 1..End : ent[k] = Idle
    BY DEF Init
  <1>2. \A k \in 0..N : down[k] = 0
    BY DEF Init
  <1>3. Idle \in Execution /\ Idle.st = "idle" /\ Idle.ans = "none" /\ Idle.out = "none"
    BY DEF Idle, Execution, Outcomes
  <1>4. TypeOK
    <2>1. down \in [0..N -> 0..End] /\ ent \in [1..End -> Execution]
      BY <1>3 DEF Init
    <2>2. timed \in BOOLEAN
      BY DEF Init
    <2> QED
      BY <2>1, <2>2 DEF Init, TypeOK, Outcomes
  <1>5. Chain
    BY <1>1, <1>2, <1>3 DEF Init, Chain, Reached
  <1>6. Answered /\ FailureCarried /\ UnhandledMeansDeclined
    BY <1>1, <1>3 DEF Answered, FailureCarried, UnhandledMeansDeclined
  <1>7. Settled
    BY <1>1, <1>3 DEF Init, Settled
  <1> QED
    BY <1>4, <1>5, <1>6, <1>7 DEF DispatchInv

\* Nothing but the outcomes, the gate, the deadline or the registry changes.
LEMMA QuietInv ==
  ASSUME DispatchInv, UNCHANGED <<kind, timed, down, ent, aborted, cancelled>>,
         gone \subseteq gone', gone' \in SUBSET Positions,
         gate' \in {"new", "pending", "open", "abort", "passed"}, gate = "passed" => gate' = "passed",
         expired' \in BOOLEAN, dispatched' \in Outcomes, caller' \in Outcomes,
         \A o \in {dispatched', caller'} : o = "unhandled" =>
            o \in {dispatched, caller} \/ (down[0] # 0 /\ ent[down[0]].out = "unhandled")
  PROVE  DispatchInv'
  <1> USE DispatchAssumption DEF Positions, End
  <1>1. TypeOK'
    BY DEF DispatchInv, TypeOK
  <1>2. Chain'
    BY DEF DispatchInv, Chain, Reached
  <1>3. Answered' /\ FailureCarried'
    BY DEF DispatchInv, Answered, FailureCarried
  <1>4. UnhandledMeansDeclined'
    BY DEF DispatchInv, UnhandledMeansDeclined, Declined
  <1>5. Settled'
    BY DEF DispatchInv, Settled
  <1> QED
    BY <1>1, <1>2, <1>3, <1>4, <1>5 DEF DispatchInv

\* request() and the gate keep the invariant.
LEMMA GateInv ==
  ASSUME DispatchInv, Begin \/ TransportsReady \/ GateTimer \/ GateResumes
  PROVE  DispatchInv'
  <1> USE DispatchAssumption DEF Positions, End
  <1>0. Idle \in Execution
    BY DEF Idle, Execution, Outcomes
  <1>1. ASSUME gate # "passed", Step(0, Idle, 1, "none"), gate' = "passed", caller' \in {caller, "abort"},
               UNCHANGED <<kind, timed, gone, expired, aborted, dispatched>>
        PROVE  DispatchInv'
    <2>1. down[0] = 0 /\ Reached(0)
      BY <1>1 DEF DispatchInv, Chain, Reached
    <2>2. Step(0, Idle, 0 + 1, "none")
      BY <1>1
    <2>3. "none" \in Errors /\ 0 \in 0..N
      BY DEF Errors
    <2> QED
      BY <1>0, <1>1, <2>1, <2>2, <2>3, StepInv
  <1>2. CASE Begin
    <2>1. CASE UNCHANGED <<down, ent, cancelled>>
      BY <1>2, <2>1, QuietInv DEF Begin, DispatchInv, TypeOK, Outcomes, Failures
    <2>2. CASE gate' = "passed" /\ Step(0, Idle, 1, "none")
      BY <1>1, <1>2, <2>2 DEF Begin
    <2> QED
      BY <1>2, <2>1, <2>2 DEF Begin
  <1>3. CASE TransportsReady \/ GateTimer
    BY <1>3, QuietInv DEF TransportsReady, GateTimer, DispatchInv, TypeOK
  <1>4. CASE GateResumes
    <2>1. CASE gate = "abort" \/ expired
      BY <1>4, <2>1, QuietInv DEF GateResumes, DispatchInv, TypeOK, Outcomes, Failures
    <2>2. CASE ~(gate = "abort" \/ expired)
      BY <1>1, <1>4, <2>2 DEF GateResumes
    <2> QED
      BY <2>1, <2>2
  <1> QED
    BY <1>2, <1>3, <1>4

\* Local handlers keep the invariant.
LEMMA HandlerInv ==
  ASSUME DispatchInv, NEW i \in Positions,
         HandlerSetsResult(i) \/ HandlerCallsNext(i) \/ HandlerReturns(i)
            \/ \E o \in Failures : HandlerThrows(i, o)
  PROVE  DispatchInv'
  <1> USE DispatchAssumption DEF Positions, End
  <1>1. /\ ent[i] \in Execution /\ ent[i].st = "running" /\ ent[i].ans = "none" /\ ent[i].out = "none"
        /\ ent[i].err \in Errors /\ ent[i].has \in BOOLEAN
    BY DEF HandlerSetsResult, HandlerCallsNext, HandlerReturns, HandlerThrows, Running,
           DispatchInv, TypeOK, Answered, Settled, Execution, Errors
  <1>2. cancelled \in SUBSET Positions
    BY DEF DispatchInv, TypeOK
  <1>3. CASE HandlerSetsResult(i)
    <2> DEFINE r == [ent[i] EXCEPT !.has = TRUE]
    <2>1. /\ r \in Execution /\ r.st = "running" /\ r.ans = "none" /\ r.out = "none" /\ r.err = ent[i].err
          /\ ent' = [ent EXCEPT ![i] = r]
      BY <1>1, <1>3 DEF HandlerSetsResult, Execution
    <2> HIDE DEF r
    <2> QED
      BY <1>1, <1>2, <1>3, <2>1, EntryInv DEF HandlerSetsResult
  <1>4. ASSUME down[i] = 0, NEW mine \in {ent[i], [ent[i] EXCEPT !.st = "waiting"]},
               Step(i, mine, i + 1, ent[i].err),
               UNCHANGED <<kind, timed, gone, gate, expired, aborted, dispatched, caller>>
        PROVE  DispatchInv'
    <2>1. /\ mine \in Execution /\ mine.st \in {"running", "waiting"} /\ mine.out = "none"
          /\ mine.has = ent[i].has /\ mine.err = ent[i].err /\ mine.ans = ent[i].ans
      BY <1>1 DEF Execution
    <2>2. \A k \in Positions : k <= i /\ ent[k].ans \in {"timeout", "error"} => ent[i].err # "none"
      <3> SUFFICES ASSUME NEW k \in Positions, k <= i, ent[k].ans \in {"timeout", "error"}
                   PROVE  ent[i].err # "none"
        OBVIOUS
      <3>1. k # i
        BY <1>1
      <3>2. k < i
        BY <3>1
      <3> QED
        BY <1>1, <3>2 DEF DispatchInv, FailureCarried
    <2>3. i \in 0..N /\ Reached(i)
      BY <1>1 DEF Reached
    <2> QED
      BY <1>1, <1>4, <2>1, <2>2, <2>3, StepInv
  <1>5. CASE HandlerCallsNext(i)
    BY <1>4, <1>5 DEF HandlerCallsNext
  <1>6. CASE HandlerReturns(i)
    <2>1. CASE down[i] # 0
      <3> DEFINE r == [ent[i] EXCEPT !.st = "waiting"]
      <3>1. /\ r \in Execution /\ r.st = "waiting" /\ r.ans = "none" /\ r.out = "none" /\ r.err = ent[i].err
            /\ ent' = [ent EXCEPT ![i] = r]
        BY <1>1, <1>6, <2>1 DEF HandlerReturns, Execution
      <3> HIDE DEF r
      <3> QED
        BY <1>1, <1>2, <1>6, <2>1, <3>1, EntryInv DEF HandlerReturns
    <2>2. CASE down[i] = 0 /\ ent[i].has
      <3> DEFINE r == [ent[i] EXCEPT !.st = "done", !.out = "handled"]
      <3>1. /\ r \in Execution /\ r.st = "done" /\ r.ans = "none" /\ r.out = "handled"
            /\ ent' = [ent EXCEPT ![i] = r]
        BY <1>1, <1>6, <2>2 DEF HandlerReturns, Execution, Outcomes
      <3> HIDE DEF r
      <3> QED
        BY <1>1, <1>2, <1>6, <2>2, <3>1, EntryInv DEF HandlerReturns
    <2>3. CASE down[i] = 0 /\ ~ent[i].has
      BY <1>4, <1>6, <2>3 DEF HandlerReturns
    <2> QED
      BY <1>1, <2>1, <2>2, <2>3
  <1>7. ASSUME NEW o \in Failures, HandlerThrows(i, o) PROVE DispatchInv'
    <2> DEFINE r == [ent[i] EXCEPT !.st = "done", !.out = o]
    <2>1. /\ r \in Execution /\ r.st = "done" /\ r.ans = "none" /\ r.out # "unhandled"
          /\ ent' = [ent EXCEPT ![i] = r]
      BY <1>1, <1>7 DEF HandlerThrows, Execution, Outcomes, Failures
    <2> HIDE DEF r
    <2> QED
      BY <1>1, <1>2, <1>7, <2>1, EntryInv DEF HandlerThrows
  <1> QED
    BY <1>3, <1>5, <1>6, <1>7

\* An entry that takes the outcome of the position it awaits keeps the invariant.
LEMMA DownstreamInv ==
  ASSUME DispatchInv, NEW i \in Positions, DownstreamSettles(i)
  PROVE  DispatchInv'
  <1> USE DispatchAssumption DEF Positions, End
  <1> DEFINE d == down[i]
             r == [ent[i] EXCEPT !.st = "done", !.out = Merge(ent[i], ent[d].out)]
  <1>1. /\ ent[i] \in Execution /\ ent[i].st = "waiting" /\ ent[i].ans \in {"none", "nohandler", "timeout", "error"}
        /\ ent[i].has \in BOOLEAN
    BY DEF DownstreamSettles, DispatchInv, TypeOK, Answered, Execution
  <1>2. /\ d \in 1..End /\ d > i /\ ent[d].out \in Outcomes
        /\ \A k \in Positions : i < k /\ k < d => k \in gone /\ ent[k] = Idle
    <2>1. d # 0 /\ d \in 0..End /\ i \in 0..N
      BY <1>1 DEF DispatchInv, Chain, TypeOK
    <2> QED
      BY <2>1 DEF DispatchInv, Chain, TypeOK, Execution
  <1>3. ent[i].ans \in {"timeout", "error"} => ent[d].out # "unhandled"
    BY <1>2 DEF DispatchInv, FailureCarried
  <1>4. /\ r \in Execution /\ r.st = "done" /\ r.ans = ent[i].ans /\ r.has = ent[i].has
        /\ r.out = "unhandled" => ent[d].out = "unhandled" /\ ~ent[i].has
        /\ ent' = [ent EXCEPT ![i] = r]
    BY <1>1, <1>2 DEF DownstreamSettles, Merge, Execution, Outcomes
  <1>5. cancelled \in SUBSET Positions
    BY DEF DispatchInv, TypeOK
  <1> HIDE DEF d, r
  <1>6. r.out = "unhandled" =>
          /\ r.st = "done" /\ ~r.has /\ r.ans \in {"none", "nohandler"}
          /\ \E n \in 1..End : /\ n > i /\ ent[n].out = "unhandled"
                               /\ \A k \in Positions : i < k /\ k < n => k \in gone /\ ent[k] = Idle
    BY <1>1, <1>2, <1>3, <1>4
  <1> QED
    BY <1>1, <1>4, <1>5, <1>6, EntryInv DEF DownstreamSettles

\* Remote entries keep the invariant.
LEMMA RemoteInv ==
  ASSUME DispatchInv, NEW i \in Positions,
         (\E a \in {"ok", "nohandler", "error"} : PeerAnswers(i, a)) \/ SendTimesOut(i) \/ Remote(i)
  PROVE  DispatchInv'
  <1> USE DispatchAssumption DEF Positions, End
  <1>1. /\ ent[i] \in Execution /\ ent[i].st = "sent" /\ ent[i].out = "none"
        /\ ent[i].err \in Errors /\ ent[i].has \in BOOLEAN /\ down[i] = 0
    BY DEF PeerAnswers, SendTimesOut, Remote, RemoteCancelled, RemoteAnswered, RemoteFailed,
           DispatchInv, TypeOK, Chain, Settled, Execution, Errors
  <1>2. cancelled \in SUBSET Positions
    BY DEF DispatchInv, TypeOK
  <1>3. ASSUME NEW a \in {"ok", "nohandler", "timeout", "error"}, ent' = [ent EXCEPT ![i].ans = a],
               UNCHANGED <<kind, timed, gone, gate, down, expired, aborted, cancelled, dispatched, caller>>
        PROVE  DispatchInv'
    <2> DEFINE r == [ent[i] EXCEPT !.ans = a]
    <2>1. /\ r \in Execution /\ r.st = "sent" /\ r.out = "none" /\ r.err = ent[i].err
          /\ ent' = [ent EXCEPT ![i] = r]
      BY <1>1, <1>3 DEF Execution
    <2> HIDE DEF r
    <2> QED
      BY <1>1, <1>2, <1>3, <2>1, EntryInv
  <1>4. ASSUME NEW o \in {"handled", "abort", "timeout", "error"},
               ent' = [ent EXCEPT ![i].st = "done", ![i].out = o],
               ent[i].ans = "ok" => o = "handled",
               ent[i].ans = "abort" => o = "abort" /\ i \in cancelled',
               cancelled' \in {cancelled, cancelled \union {i}},
               UNCHANGED <<kind, timed, gone, gate, down, expired, aborted, dispatched, caller>>
        PROVE  DispatchInv'
    <2> DEFINE r == [ent[i] EXCEPT !.st = "done", !.out = o]
    <2>1. /\ r \in Execution /\ r.st = "done" /\ r.out = o /\ r.ans = ent[i].ans
          /\ ent' = [ent EXCEPT ![i] = r]
      BY <1>1, <1>4 DEF Execution, Outcomes, Failures
    <2>2. cancelled \subseteq cancelled' /\ cancelled' \in SUBSET Positions
      BY <1>2, <1>4
    <2> HIDE DEF r
    <2> QED
      BY <1>1, <1>4, <2>1, <2>2, EntryInv
  <1>5. CASE (\E a \in {"ok", "nohandler", "error"} : PeerAnswers(i, a)) \/ SendTimesOut(i)
    BY <1>3, <1>5 DEF PeerAnswers, SendTimesOut
  <1>6. CASE RemoteCancelled(i) \/ RemoteAnswered(i)
    BY <1>4, <1>6 DEF RemoteCancelled, RemoteAnswered
  <1>7. CASE RemoteFailed(i)
    <2> DEFINE a == ent[i].ans
               e == IF a = "nohandler" THEN ent[i].err ELSE First(ent[i].err, a)
               mine == [ent[i] EXCEPT !.st = "waiting"]
    <2>1. a \in {"nohandler", "timeout", "error"}
      BY <1>7 DEF RemoteFailed
    <2>2. CASE aborted
      BY <1>4, <1>7, <2>1, <2>2 DEF RemoteFailed
    <2>3. CASE ~aborted
      <3>1. /\ Step(i, mine, i + 1, e)
            /\ UNCHANGED <<kind, timed, gone, gate, expired, aborted, dispatched, caller>>
        BY <1>7, <2>3 DEF RemoteFailed
      <3>2. e \in Errors /\ (a \in {"timeout", "error"} \/ ent[i].err # "none" => e # "none")
        BY <1>1, <2>1 DEF Errors, First
      <3>3. \A k \in Positions : k <= i /\ ent[k].ans \in {"timeout", "error"} => e # "none"
        <4> SUFFICES ASSUME NEW k \in Positions, k <= i, ent[k].ans \in {"timeout", "error"}
                     PROVE  e # "none"
          OBVIOUS
        <4>1. CASE k = i
          BY <3>2, <4>1
        <4>2. CASE k < i
          <5>1. ent[i].err # "none"
            BY <1>1, <4>2 DEF DispatchInv, FailureCarried
          <5> QED
            BY <3>2, <5>1
        <4> QED
          BY <4>1, <4>2
      <3>4. /\ mine \in Execution /\ mine.st = "waiting" /\ mine.out = "none"
            /\ mine.has = ent[i].has /\ mine.err = ent[i].err /\ mine.ans = ent[i].ans
        BY <1>1 DEF Execution
      <3>5. i \in 0..N /\ i # 0 /\ Reached(i)
        BY <1>1 DEF Reached
      <3> HIDE DEF e, mine
      <3> QED
        BY <1>1, <2>1, <3>1, <3>2, <3>3, <3>4, <3>5, StepInv
    <2> QED
      BY <1>7, <2>2, <2>3 DEF DispatchInv, TypeOK
  <1> QED
    BY <1>5, <1>6, <1>7 DEF Remote

\* The caller's abort keeps the invariant: it turns unanswered sends into
\* aborted ones, which are still to resume.
LEMMA AbortInv ==
  ASSUME DispatchInv, Abort
  PROVE  DispatchInv'
  <1> USE DispatchAssumption DEF Positions, End
  <1>1. /\ ent' = [k \in 1..End |-> Rejected(ent[k])]
        /\ gate' = IF gate = "pending" THEN "abort" ELSE gate
        /\ caller' \in {caller, "abort"} /\ aborted' = TRUE
        /\ UNCHANGED <<kind, timed, gone, down, expired, cancelled, dispatched>>
    BY DEF Abort, RejectAwaits
  <1>2. \A r \in Execution :
          /\ Rejected(r) \in Execution /\ Rejected(r).st = r.st /\ Rejected(r).has = r.has
          /\ Rejected(r).err = r.err /\ Rejected(r).out = r.out
          /\ Rejected(r).ans \in {r.ans, "abort"} /\ (r.st # "sent" => Rejected(r) = r)
    BY DEF Rejected, Execution
  <1>3. \A k \in 1..End : ent[k] \in Execution /\ ent'[k] = Rejected(ent[k])
    BY <1>1 DEF DispatchInv, TypeOK
  <1>4. \A k \in 1..End :
          /\ ent'[k].st = ent[k].st /\ ent'[k].has = ent[k].has /\ ent'[k].err = ent[k].err
          /\ ent'[k].out = ent[k].out /\ ent'[k].ans \in {ent[k].ans, "abort"}
          /\ ent[k].st # "sent" => ent'[k] = ent[k]
    BY <1>2, <1>3
  <1>5. Idle.st = "idle"
    BY DEF Idle
  <1>6. TypeOK'
    <2>1. ent' \in [1..End -> Execution]
      BY <1>1, <1>2, <1>3
    <2> QED
      BY <1>1, <2>1 DEF DispatchInv, TypeOK, Outcomes, Failures
  <1>7. Chain'
    <2>1. \A i \in 0..N : down[i] # 0 => down[i] \in 1..End
      BY DEF DispatchInv, TypeOK
    <2>2. \A k \in 1..End : ent[k] = Idle => ent'[k] = Idle
      BY <1>4, <1>5
    <2>3. \A i \in 0..N : Reached(i)' <=> Reached(i)
      BY <1>4 DEF Reached
    <2> QED
      BY <1>1, <1>4, <2>1, <2>2, <2>3 DEF DispatchInv, Chain
  <1>8. Answered'
    BY <1>1, <1>4 DEF DispatchInv, Answered
  <1>9. FailureCarried'
    BY <1>4 DEF DispatchInv, FailureCarried
  <1>10. UnhandledMeansDeclined'
    <2>1. \A k \in 1..End : ent[k] = Idle => ent'[k] = Idle
      BY <1>4, <1>5
    <2>2. \A k \in Positions : ent[k].st = "done" => ent'[k] = ent[k]
      BY <1>4
    <2>3. ASSUME NEW k \in Positions, Declined(k) PROVE Declined(k)'
      <3>1. k \in 1..End /\ gone' = gone
        BY <1>1
      <3>2. CASE ent[k].st = "done"
        BY <2>2, <2>3, <3>1, <3>2 DEF Declined, Idle
      <3>3. CASE ent[k].st # "done"
        BY <2>1, <2>3, <3>1, <3>3 DEF Declined
      <3> QED
        BY <3>2, <3>3
    <2> QED
      BY <1>4, <2>3 DEF DispatchInv, UnhandledMeansDeclined
  <1>11. Settled'
    <2>1. down[0] # 0 => down[0] \in 1..End
      BY DEF DispatchInv, TypeOK
    <2> QED
      BY <1>1, <1>4, <2>1 DEF DispatchInv, Settled
  <1> QED
    BY <1>6, <1>7, <1>8, <1>9, <1>10, <1>11 DEF DispatchInv

\* DispatchInv is preserved by every step.
LEMMA NextInv == DispatchInv /\ [Next]_vars => DispatchInv'
  <1> SUFFICES ASSUME DispatchInv, [Next]_vars PROVE DispatchInv'
    OBVIOUS
  <1>1. CASE Begin \/ TransportsReady \/ GateTimer \/ GateResumes
    BY <1>1, GateInv
  <1>2. CASE \E i \in Positions : HandlerSetsResult(i) \/ HandlerCallsNext(i) \/ HandlerReturns(i)
                                    \/ \E o \in Failures : HandlerThrows(i, o)
    BY <1>2, HandlerInv
  <1>3. CASE \E i \in Positions : DownstreamSettles(i)
    BY <1>3, DownstreamInv
  <1>4. CASE \E i \in Positions :
               (\E a \in {"ok", "nohandler", "error"} : PeerAnswers(i, a)) \/ SendTimesOut(i) \/ Remote(i)
    BY <1>4, RemoteInv
  <1>5. CASE \E i \in Positions : TransportGone(i)
    BY <1>5, QuietInv DEF TransportGone, DispatchInv, TypeOK
  <1>6. CASE DispatchSettles
    <2>1. ent[down[0]].out \in Outcomes
      BY <1>6, DispatchAssumption DEF DispatchSettles, DispatchInv, TypeOK, Execution, End
    <2> QED
      BY <1>6, <2>1, QuietInv DEF DispatchSettles, DispatchInv, TypeOK
  <1>7. CASE CallerSettles
    BY <1>7, QuietInv DEF CallerSettles, DispatchInv, TypeOK, Outcomes, Failures
  <1>8. CASE Expire
    BY <1>8, QuietInv DEF Expire, DispatchInv, TypeOK
  <1>9. CASE Abort
    BY <1>9, AbortInv
  <1>10. CASE UNCHANGED vars
    BY <1>10, QuietInv DEF vars, DispatchInv, TypeOK
  <1> QED
    BY <1>1, <1>2, <1>3, <1>4, <1>5, <1>6, <1>7, <1>8, <1>9, <1>10 DEF Next

-----------------------------------------------------------------------------
\* The inductive invariant, and with it the type invariant, holds of every
\* request on a merged list of every length.
THEOREM DispatchInvariant == Spec => []DispatchInv
  BY InitInv, NextInv, PTL DEF Spec

\* request() reports a missing handler only when every entry of the merged list
\* declined or lost its transport: no result and no transport's failure is
\* taken for "nobody there", however many entries there are.
THEOREM MissingHandlerIsReal == Spec => []NoHandlerMeansDeclined
  <1>1. DispatchInv => NoHandlerMeansDeclined
    <2> USE DispatchAssumption DEF Positions, End
    <2> SUFFICES ASSUME DispatchInv, caller = "unhandled", NEW i \in Positions
                 PROVE  /\ ent[i].st = "done" \/ i \in gone
                        /\ ~ent[i].has /\ ent[i].ans \notin {"ok", "timeout", "error", "abort"}
      BY DEF NoHandlerMeansDeclined
    <2>1. down[0] # 0 /\ ent[down[0]].out = "unhandled" /\ down[0] \in 1..End
      BY DEF DispatchInv, Settled, TypeOK
    <2>2. CASE i < down[0]
      <3>1. i \in gone /\ ent[i] = Idle
        BY <2>1, <2>2 DEF DispatchInv, Chain
      <3> QED
        BY <3>1 DEF Idle
    <2>3. CASE i >= down[0]
      <3>1. Declined(i)
        BY <2>1, <2>3 DEF DispatchInv, UnhandledMeansDeclined
      <3> QED
        BY <3>1 DEF Declined, Idle
    <2> QED
      BY <2>1, <2>2, <2>3
  <1> QED
    BY <1>1, DispatchInvariant, PTL

\* A remote hop given up because of the caller's abort has told its transport.
THEOREM AbortReachesTransports == Spec => []AbortIsForwarded
  <1>1. DispatchInv => AbortIsForwarded
    BY DEF DispatchInv, Answered, AbortIsForwarded
  <1> QED
    BY <1>1, DispatchInvariant, PTL

\* An entry that starts in a step is the target of that step's stepDispatch():
\* it runs before the deadline, and is sent before the abort.
LEMMA StartsInTime ==
  ASSUME DispatchInv, NEW p \in 0..N, NEW mine \in Execution, NEW i \in 1..End, NEW e \in Errors,
         Step(p, mine, i, e), p # 0 => ent[p].st # "idle", NEW k \in Positions, ent[k].st = "idle"
  PROVE  /\ expired => ent'[k].st # "running" /\ ent'[k].st # "sent"
         /\ aborted => ent'[k].st # "sent"
  <1> USE DispatchAssumption DEF Positions, End
  <1> DEFINE j == Target(i)
  <1>1. ent'[k] = IF k = j THEN Started(j, e) ELSE IF k = p THEN mine ELSE ent[k]
    BY DEF Step
  <1>2. k # p
    OBVIOUS
  <1>3. CASE k = j
    <2>1. k # End /\ kind[k] \in {"local", "remote"}
      BY DEF DispatchInv, TypeOK
    <2>2. expired => ent'[k].st = "done"
      BY <1>1, <1>3, <2>1 DEF Started, Done, Idle
    <2>3. aborted /\ ~expired => ent'[k].st \in {"done", "running"}
      BY <1>1, <1>3, <2>1 DEF Started, Execute, Done, Idle
    <2> QED
      BY <2>2, <2>3
  <1>4. CASE k # j
    BY <1>1, <1>2, <1>4
  <1> QED
    BY <1>3, <1>4

\* Only a step of the chain starts an entry.
LEMMA EntriesStartInTime ==
  ASSUME DispatchInv, [Next]_vars, NEW k \in Positions, ent[k].st = "idle"
  PROVE  /\ expired => ent'[k].st # "running" /\ ent'[k].st # "sent"
         /\ aborted => ent'[k].st # "sent"
  <1> USE DispatchAssumption DEF Positions, End
  <1> DEFINE InTime == /\ expired => ent'[k].st # "running" /\ ent'[k].st # "sent"
                       /\ aborted => ent'[k].st # "sent"
  <1>0. \A i \in 1..End : ent[i] \in Execution /\ ent[i].err \in Errors
    BY DEF DispatchInv, TypeOK, Execution, Errors
  <1>1. ASSUME NEW p \in 0..N, NEW mine \in Execution, NEW i \in 1..End, NEW e \in Errors,
               Step(p, mine, i, e), p # 0 => ent[p].st # "idle"
        PROVE  InTime
    BY <1>1, StartsInTime
  <1>2. ASSUME NEW i \in Positions, ent[i].st # "idle", NEW r, ent' = [ent EXCEPT ![i] = r]
        PROVE  InTime
    <2>1. ent'[k] = ent[k]
      BY <1>2 DEF DispatchInv, TypeOK
    <2> QED
      BY <2>1
  <1>3. CASE Step(0, Idle, 1, "none")
    <2>1. Idle \in Execution /\ "none" \in Errors /\ 0 \in 0..N /\ 1 \in 1..End
      BY DEF Idle, Execution, Outcomes, Errors
    <2> QED
      BY <1>1, <1>3, <2>1
  <1>4. ASSUME NEW i \in Positions, ent[i].st # "idle", NEW e \in Errors,
               NEW mine \in {ent[i], [ent[i] EXCEPT !.st = "waiting"]}, Step(i, mine, i + 1, e)
        PROVE  InTime
    <2>1. mine \in Execution /\ i \in 0..N /\ i + 1 \in 1..End
      BY <1>0 DEF Execution
    <2> QED
      BY <1>1, <1>4, <2>1
  <1>5. CASE UNCHANGED ent
    BY <1>5
  <1>6. CASE Begin \/ GateResumes
    BY <1>3, <1>5, <1>6 DEF Begin, GateResumes
  <1>7. ASSUME NEW i \in Positions,
               HandlerSetsResult(i) \/ HandlerCallsNext(i) \/ HandlerReturns(i)
                  \/ \E o \in Failures : HandlerThrows(i, o)
        PROVE  InTime
    <2>1. ent[i].st = "running" /\ ent[i].err \in Errors
      BY <1>0, <1>7 DEF HandlerSetsResult, HandlerCallsNext, HandlerReturns, HandlerThrows, Running
    <2>2. CASE \E m \in {ent[i], [ent[i] EXCEPT !.st = "waiting"]} : Step(i, m, i + 1, ent[i].err)
      BY <1>4, <2>1, <2>2
    <2>3. CASE \E r : ent' = [ent EXCEPT ![i] = r]
      BY <1>2, <2>1, <2>3
    <2> QED
      BY <1>7, <2>2, <2>3 DEF HandlerSetsResult, HandlerCallsNext, HandlerReturns, HandlerThrows
  <1>8. ASSUME NEW i \in Positions,
               DownstreamSettles(i) \/ (\E a \in {"ok", "nohandler", "error"} : PeerAnswers(i, a))
                  \/ SendTimesOut(i) \/ RemoteCancelled(i) \/ RemoteAnswered(i)
        PROVE  InTime
    <2>1. ent[i].st # "idle" /\ \E r : ent' = [ent EXCEPT ![i] = r]
      BY <1>8 DEF DownstreamSettles, PeerAnswers, SendTimesOut, RemoteCancelled, RemoteAnswered
    <2> QED
      BY <1>2, <2>1
  <1>9. ASSUME NEW i \in Positions, RemoteFailed(i) PROVE InTime
    <2>1. ent[i].st # "idle"
      BY <1>9 DEF RemoteFailed
    <2>2. CASE aborted
      <3>1. \E r : ent' = [ent EXCEPT ![i] = r]
        BY <1>9, <2>2 DEF RemoteFailed
      <3> QED
        BY <1>2, <2>1, <3>1
    <2>3. CASE ~aborted
      <3>1. (IF ent[i].ans = "nohandler" THEN ent[i].err ELSE First(ent[i].err, ent[i].ans)) \in Errors
        BY <1>0, <1>9 DEF RemoteFailed, First, Errors
      <3> QED
        BY <1>4, <1>9, <2>1, <2>3, <3>1 DEF RemoteFailed
    <2> QED
      BY <2>2, <2>3
  <1>10. CASE Abort
    <2>1. ent'[k] = Rejected(ent[k])
      BY <1>10 DEF Abort, RejectAwaits
    <2> QED
      BY <2>1 DEF Rejected
  <1>11. CASE TransportsReady \/ GateTimer \/ DispatchSettles \/ CallerSettles \/ Expire
                \/ \E i \in Positions : TransportGone(i)
    BY <1>5, <1>11 DEF TransportsReady, GateTimer, DispatchSettles, CallerSettles, Expire, TransportGone
  <1>12. CASE UNCHANGED vars
    BY <1>5, <1>12 DEF vars
  <1> QED
    BY <1>6, <1>7, <1>8, <1>9, <1>10, <1>11, <1>12 DEF Next, Remote

\* Once the deadline has passed no further handler or remote hop starts.
THEOREM DeadlineHolds == Spec => NothingStartsLate
  <1>1. DispatchInv /\ [Next]_vars =>
          [expired => \A i \in Positions : ent[i].st = "idle" => ent'[i].st # "running" /\ ent'[i].st # "sent"]_vars
    BY EntriesStartInTime
  <1> QED
    BY <1>1, DispatchInvariant, PTL DEF Spec, NothingStartsLate

\* Nothing is sent after the caller has aborted.
THEOREM NoSendAfterAbort == Spec => NothingSentAfterAbort
  <1>1. DispatchInv /\ [Next]_vars =>
          [aborted => \A i \in Positions : ent[i].st = "idle" => ent'[i].st # "sent"]_vars
    BY EntriesStartInTime
  <1> QED
    BY <1>1, DispatchInvariant, PTL DEF Spec, NothingSentAfterAbort
=============================================================================
