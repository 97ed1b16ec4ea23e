----------------------- MODULE WorkloadRuntimeProofs -----------------------
(* The runtime side of an attempt, for any number of runtime processes,      *)
(* overlapping registrations, generations and operations.                    *)
EXTENDS WorkloadRuntime, TLAPS

\* The types of what a runtime keeps, apart from its reports.
LocalTypes ==
    /\ pc \in [Incarnations -> Places]
    /\ bound \in [Incarnations -> 0 .. MaxGeneration]
    /\ admitted \in [Incarnations -> Operations \union {NoOp}]
    /\ asked \in [Incarnations -> SUBSET {Preparation, Invocation, "report"}]
    /\ aborted \in [Incarnations -> BOOLEAN]
    /\ noticed \in [Incarnations -> BOOLEAN]
    /\ closedOut \in [Incarnations -> BOOLEAN]
    /\ setup \in [Incarnations -> {None, "achieved", "unconfirmed"}]
    /\ submission \in [Incarnations -> Submissions \union {None}]
    /\ correlated \in [Incarnations -> BOOLEAN]

\* The derivation adds at most what the runtime's new state supports.
LEMMA DeriveKeeps ==
    ASSUME TypeOK, Witnessed, NEW i \in Incarnations, Derive(i),
           LocalTypes', Course', Work',
           bound' = bound, evidence' = evidence,
           \A j \in Incarnations : Calm(j) => Calm(j)'
    PROVE  Witnessed' /\ reports' \in [Incarnations -> SUBSET Conclusions]
<1>1. Conclusion(i)' \in Conclusions \union {None}
    BY DEF LocalTypes, Conclusion, Conclusions, Operations, NoOp
<1>2. Conclusion(i)' # None /\ Conclusion(i)'.status = "achieved" => Calm(i)'
    BY ControlAssumption DEF LocalTypes, Conclusion, Course, Work, Calm, Places, Over, Ended,
           Finished, Setting, Unbound
<1>3. reports' \in [Incarnations -> SUBSET Conclusions]
    BY <1>1 DEF Derive, TypeOK
<1>4. \A j \in Incarnations :
         (\E c \in reports'[j] : c.status = "achieved") => Calm(j)'
    BY <1>2 DEF Derive, TypeOK, Witnessed
<1> QED BY <1>3, <1>4 DEF Witnessed

\* A step of a runtime's own leaves ownership and the slot alone.
LEMMA LocalStepKeeps ==
    ASSUME RuntimeInv, NEW i \in Incarnations, Derive(i), UNCHANGED <<controlVars, bound>>,
           LocalTypes', Course', Work', Verdict',
           \A j \in Incarnations : Calm(j) => Calm(j)'
    PROVE  RuntimeInv'
<1>1. Witnessed' /\ reports' \in [Incarnations -> SUBSET Conclusions]
    BY DeriveKeeps DEF RuntimeInv, controlVars
<1>2. TypeOK'
    BY <1>1 DEF RuntimeInv, TypeOK, ControlTypeOK, LocalTypes, controlVars
<1>3. Ownership'
    BY DEF RuntimeInv, Ownership, Holds, controlVars
<1>4. Slot'
    BY DEF RuntimeInv, Slot, SlotIsFenced, ReadyIsProven, Mutating, Prepared, controlVars
<1> QED BY <1>1, <1>2, <1>3, <1>4 DEF RuntimeInv

\* A terminal report of a runtime has the type of one.
LEMMA SubmitType ==
    ASSUME TypeOK, NEW i \in Incarnations, NEW what \in {"result", "failure", "cancelled"},
           NEW o, o = 0 \/ o = admitted[i].id, Submit(i, what, o)
    PROVE  /\ submission' \in [Incarnations -> Submissions \union {None}]
           /\ pc' = [pc EXCEPT ![i] = "submitting"]
           /\ UNCHANGED correlated
<1>1. admitted[i].id \in Nat
    BY DEF TypeOK, Operations, NoOp
<1>2. [what |-> what, op |-> o] \in Submissions
    BY <1>1 DEF Submissions
<1> QED BY <1>2 DEF TypeOK, Submit, Move

\* The verdict does not depend on what a runtime does before it has reported.
LEMMA LocalVerdict ==
    ASSUME RuntimeInv, NEW i \in Incarnations,
           pc[i] \notin Over \/ submission' = submission,
           \A j \in Incarnations \ {i} : submission'[j] = submission[j] /\ pc'[j] = pc[j],
           Working(i)' => Working(i),
           UNCHANGED <<controlVars, bound, correlated>>
    PROVE  Verdict'
<1>1. OutcomeMeansQuiet'
    BY DEF RuntimeInv, Verdict, OutcomeMeansQuiet, Working, controlVars
<1>2. ASSUME outcome' # None
      PROVE  /\ settlement' = "outcome"
             /\ correlated'[outcome'.by]
             /\ Matches(outcome.by)'
             /\ outcome'.what = submission'[outcome'.by].what
  <2>1. outcome' = outcome /\ outcome.by \in Incarnations
      BY <1>2 DEF RuntimeInv, TypeOK, controlVars
  <2>2. submission'[outcome.by] = submission[outcome.by]
      BY <1>2, <2>1 DEF RuntimeInv, Verdict, Course
  <2> QED BY <1>2, <2>1, <2>2 DEF RuntimeInv, Verdict, Matches, controlVars
<1> QED BY <1>1, <1>2 DEF Verdict

\* A request once sent stays sent.
LEMMA AskedType ==
    ASSUME TypeOK, NEW i \in Incarnations, NEW k \in {Preparation, Invocation, "report"}
    PROVE  [asked EXCEPT ![i] = @ \union {k}]
              \in [Incarnations -> SUBSET {Preparation, Invocation, "report"}]
<1>1. asked[i] \union {k} \in SUBSET {Preparation, Invocation, "report"}
    BY DEF TypeOK
<1> QED BY <1>1 DEF TypeOK

\* The start of a runtime preserves the invariant.
LEMMA StartKeeps ==
    ASSUME RuntimeInv, NEW i \in Incarnations, Start(i), Derive(i)
    PROVE  RuntimeInv'
<1>1. LocalTypes'
    BY ControlAssumption DEF RuntimeInv, Start, Move, controlVars, signalVars,
           observerVars, LocalTypes, TypeOK, Places, Ended, Finished
<1>2. Course'
    BY ControlAssumption DEF RuntimeInv, Start, Move, controlVars, signalVars,
           observerVars, Course, TypeOK, Derive, Conclusion, Places, Over, Ended,
           Finished, Setting, Unbound
<1>3. Work'
    BY ControlAssumption DEF RuntimeInv, Start, Move, controlVars, signalVars,
           observerVars, Work, TypeOK
<1>4. Verdict'
    BY LocalVerdict DEF RuntimeInv, Start, Move, controlVars, signalVars, observerVars,
           Working, TypeOK, Over, Ended, Finished
<1>5. \A j \in Incarnations : Calm(j) => Calm(j)'
    BY ControlAssumption DEF RuntimeInv, Start, Move, controlVars, signalVars,
           observerVars, Calm, TypeOK, Over, Ended, Finished
<1>6. UNCHANGED <<controlVars, bound>>
    BY DEF Start
<1> QED BY <1>1, <1>2, <1>3, <1>4, <1>5, <1>6, LocalStepKeeps

\* Reading the instruction preserves the invariant.
LEMMA ReadInstructionKeeps ==
    ASSUME RuntimeInv, NEW i \in Incarnations, ReadInstruction(i), Derive(i)
    PROVE  RuntimeInv'
<1>1. LocalTypes'
  <2>1. /\ pc' \in [Incarnations -> Places]
        /\ submission' \in [Incarnations -> Submissions \union {None}]
        /\ UNCHANGED correlated
      BY SubmitType DEF RuntimeInv, ReadInstruction, Move, TypeOK, Places, Ended, Finished
  <2> QED
      BY <2>1 DEF RuntimeInv, ReadInstruction, controlVars, signalVars, observerVars,
           LocalTypes, TypeOK
<1>2. Course'
    BY ControlAssumption DEF RuntimeInv, ReadInstruction, Submit, Move, controlVars,
           signalVars, observerVars, Course, TypeOK, Derive, Conclusion, Places, Over,
           Ended, Finished, Setting, Unbound
<1>3. Work'
    BY ControlAssumption DEF RuntimeInv, ReadInstruction, Submit, Move, controlVars,
           signalVars, observerVars, Work, TypeOK
<1>4. Verdict'
    BY LocalVerdict DEF RuntimeInv, ReadInstruction, Submit, Move, controlVars,
           signalVars, observerVars, Working, TypeOK, Over, Ended, Finished
<1>5. \A j \in Incarnations : Calm(j) => Calm(j)'
    BY ControlAssumption DEF RuntimeInv, ReadInstruction, Submit, Move, controlVars,
           signalVars, observerVars, Calm, TypeOK, Over, Ended, Finished
<1>6. UNCHANGED <<controlVars, bound>>
    BY DEF ReadInstruction, Submit
<1> QED BY <1>1, <1>2, <1>3, <1>4, <1>5, <1>6, LocalStepKeeps

\* Asking for the preparation preserves the invariant.
LEMMA AskPreparationKeeps ==
    ASSUME RuntimeInv, NEW i \in Incarnations, AskAdmission(i, "beforePreparation", Preparation, "admitPreparation"), Derive(i)
    PROVE  RuntimeInv'
<1>1. LocalTypes'
  <2>1. /\ pc' \in [Incarnations -> Places]
        /\ submission' \in [Incarnations -> Submissions \union {None}]
        /\ UNCHANGED correlated
      BY SubmitType DEF RuntimeInv, AskAdmission, Move, TypeOK, Places, Ended, Finished
  <2>2. asked' \in [Incarnations -> SUBSET {Preparation, Invocation, "report"}]
    <3>1. asked' = asked \/ asked' = [asked EXCEPT ![i] = @ \union {Preparation}]
        BY DEF AskAdmission
    <3>2. [asked EXCEPT ![i] = @ \union {Preparation}]
             \in [Incarnations -> SUBSET {Preparation, Invocation, "report"}]
        BY AskedType DEF RuntimeInv
    <3> QED BY <3>1, <3>2 DEF RuntimeInv, TypeOK
  <2> QED
      BY <2>1, <2>2 DEF RuntimeInv, AskAdmission, controlVars, signalVars, observerVars,
           LocalTypes, TypeOK
<1>2. Course'
    BY ControlAssumption DEF RuntimeInv, AskAdmission, Submit, Preparation, Move,
           controlVars, signalVars, observerVars, Course, TypeOK, Derive, Conclusion,
           Places, Over, Ended, Finished, Setting, Unbound
<1>3. Work'
    BY ControlAssumption DEF RuntimeInv, AskAdmission, Submit, Preparation, Move,
           controlVars, signalVars, observerVars, Work, TypeOK
<1>4. Verdict'
    BY LocalVerdict DEF RuntimeInv, AskAdmission, Submit, Preparation, Move, controlVars,
           signalVars, observerVars, Working, TypeOK, Over, Ended, Finished
<1>5. \A j \in Incarnations : Calm(j) => Calm(j)'
    BY ControlAssumption DEF RuntimeInv, AskAdmission, Submit, Preparation, Move,
           controlVars, signalVars, observerVars, Calm, TypeOK, Over, Ended, Finished
<1>6. UNCHANGED <<controlVars, bound>>
    BY DEF AskAdmission, Submit, Preparation
<1> QED BY <1>1, <1>2, <1>3, <1>4, <1>5, <1>6, LocalStepKeeps

\* Starting the preparation preserves the invariant.
LEMMA StartPreparationKeeps ==
    ASSUME RuntimeInv, NEW i \in Incarnations, StartPreparation(i), Derive(i)
    PROVE  RuntimeInv'
<1>1. LocalTypes'
  <2>1. /\ pc' \in [Incarnations -> Places]
        /\ submission' \in [Incarnations -> Submissions \union {None}]
        /\ UNCHANGED correlated
      BY SubmitType DEF RuntimeInv, StartPreparation, Move, TypeOK, Places, Ended, Finished
  <2> QED
      BY <2>1 DEF RuntimeInv, StartPreparation, controlVars, signalVars, observerVars,
           LocalTypes, TypeOK
<1>2. Course'
    BY ControlAssumption DEF RuntimeInv, StartPreparation, Submit, Move, controlVars,
           signalVars, observerVars, Course, TypeOK, Derive, Conclusion, Places, Over,
           Ended, Finished, Setting, Unbound
<1>3. Work'
    BY ControlAssumption DEF RuntimeInv, StartPreparation, Submit, Move, controlVars,
           signalVars, observerVars, Work, TypeOK
<1>4. Verdict'
    BY LocalVerdict DEF RuntimeInv, StartPreparation, Submit, Move, controlVars,
           signalVars, observerVars, Working, TypeOK, Over, Ended, Finished
<1>5. \A j \in Incarnations : Calm(j) => Calm(j)'
    BY ControlAssumption DEF RuntimeInv, StartPreparation, Submit, Move, controlVars,
           signalVars, observerVars, Calm, TypeOK, Over, Ended, Finished
<1>6. UNCHANGED <<controlVars, bound>>
    BY DEF StartPreparation, Submit
<1> QED BY <1>1, <1>2, <1>3, <1>4, <1>5, <1>6, LocalStepKeeps

\* The end of the preparation preserves the invariant.
LEMMA EndPreparationKeeps ==
    ASSUME RuntimeInv, NEW i \in Incarnations, EndPreparation(i), Derive(i)
    PROVE  RuntimeInv'
<1>1. LocalTypes'
  <2>1. /\ pc' \in [Incarnations -> Places]
        /\ submission' \in [Incarnations -> Submissions \union {None}]
        /\ UNCHANGED correlated
      BY SubmitType DEF RuntimeInv, EndPreparation, Move, TypeOK, Places, Ended, Finished
  <2>2. asked' \in [Incarnations -> SUBSET {Preparation, Invocation, "report"}]
    <3>1. asked' = asked \/ asked' = [asked EXCEPT ![i] = @ \union {"report"}]
        BY DEF EndPreparation
    <3>2. [asked EXCEPT ![i] = @ \union {"report"}]
             \in [Incarnations -> SUBSET {Preparation, Invocation, "report"}]
        BY AskedType DEF RuntimeInv
    <3> QED BY <3>1, <3>2 DEF RuntimeInv, TypeOK
  <2> QED
      BY <2>1, <2>2 DEF RuntimeInv, EndPreparation, controlVars, signalVars, observerVars,
           LocalTypes, TypeOK
<1>2. Course'
    BY ControlAssumption DEF RuntimeInv, EndPreparation, Submit, Move, controlVars,
           signalVars, observerVars, Course, TypeOK, Derive, Conclusion, Places, Over,
           Ended, Finished, Setting, Unbound
<1>3. Work'
    BY ControlAssumption DEF RuntimeInv, EndPreparation, Submit, Move, controlVars,
           signalVars, observerVars, Work, TypeOK
<1>4. Verdict'
    BY LocalVerdict DEF RuntimeInv, EndPreparation, Submit, Move, controlVars, signalVars,
           observerVars, Working, TypeOK, Over, Ended, Finished
<1>5. \A j \in Incarnations : Calm(j) => Calm(j)'
    BY ControlAssumption DEF RuntimeInv, EndPreparation, Submit, Move, controlVars,
           signalVars, observerVars, Calm, TypeOK, Over, Ended, Finished
<1>6. UNCHANGED <<controlVars, bound>>
    BY DEF EndPreparation, Submit
<1> QED BY <1>1, <1>2, <1>3, <1>4, <1>5, <1>6, LocalStepKeeps

\* Asking for the invocation preserves the invariant.
LEMMA AskInvocationKeeps ==
    ASSUME RuntimeInv, NEW i \in Incarnations, AskAdmission(i, "beforeInvocation", Invocation, "admitInvocation"), Derive(i)
    PROVE  RuntimeInv'
<1>1. LocalTypes'
  <2>1. /\ pc' \in [Incarnations -> Places]
        /\ submission' \in [Incarnations -> Submissions \union {None}]
        /\ UNCHANGED correlated
      BY SubmitType DEF RuntimeInv, AskAdmission, Move, TypeOK, Places, Ended, Finished
  <2>2. asked' \in [Incarnations -> SUBSET {Preparation, Invocation, "report"}]
    <3>1. asked' = asked \/ asked' = [asked EXCEPT ![i] = @ \union {Invocation}]
        BY DEF AskAdmission
    <3>2. [asked EXCEPT ![i] = @ \union {Invocation}]
             \in [Incarnations -> SUBSET {Preparation, Invocation, "report"}]
        BY AskedType DEF RuntimeInv
    <3> QED BY <3>1, <3>2 DEF RuntimeInv, TypeOK
  <2> QED
      BY <2>1, <2>2 DEF RuntimeInv, AskAdmission, controlVars, signalVars, observerVars,
           LocalTypes, TypeOK
<1>2. Course'
    BY ControlAssumption DEF RuntimeInv, AskAdmission, Submit, Invocation, Move,
           controlVars, signalVars, observerVars, Course, TypeOK, Derive, Conclusion,
           Places, Over, Ended, Finished, Setting, Unbound
<1>3. Work'
    BY ControlAssumption DEF RuntimeInv, AskAdmission, Submit, Invocation, Move,
           controlVars, signalVars, observerVars, Work, TypeOK
<1>4. Verdict'
    BY LocalVerdict DEF RuntimeInv, AskAdmission, Submit, Invocation, Move, controlVars,
           signalVars, observerVars, Working, TypeOK, Over, Ended, Finished
<1>5. \A j \in Incarnations : Calm(j) => Calm(j)'
    BY ControlAssumption DEF RuntimeInv, AskAdmission, Submit, Invocation, Move,
           controlVars, signalVars, observerVars, Calm, TypeOK, Over, Ended, Finished
<1>6. UNCHANGED <<controlVars, bound>>
    BY DEF AskAdmission, Submit, Invocation
<1> QED BY <1>1, <1>2, <1>3, <1>4, <1>5, <1>6, LocalStepKeeps

\* Starting the workload preserves the invariant.
LEMMA StartInvocationKeeps ==
    ASSUME RuntimeInv, NEW i \in Incarnations, StartInvocation(i), Derive(i)
    PROVE  RuntimeInv'
<1>1. LocalTypes'
  <2>1. /\ pc' \in [Incarnations -> Places]
        /\ submission' \in [Incarnations -> Submissions \union {None}]
        /\ UNCHANGED correlated
      BY SubmitType DEF RuntimeInv, StartInvocation, Move, TypeOK, Places, Ended, Finished
  <2> QED
      BY <2>1 DEF RuntimeInv, StartInvocation, controlVars, signalVars, observerVars,
           LocalTypes, TypeOK
<1>2. Course'
    BY ControlAssumption DEF RuntimeInv, StartInvocation, Submit, Move, controlVars,
           signalVars, observerVars, Course, TypeOK, Derive, Conclusion, Places, Over,
           Ended, Finished, Setting, Unbound
<1>3. Work'
    BY ControlAssumption DEF RuntimeInv, StartInvocation, Submit, Move, controlVars,
           signalVars, observerVars, Work, TypeOK
<1>4. Verdict'
    BY LocalVerdict DEF RuntimeInv, StartInvocation, Submit, Move, controlVars,
           signalVars, observerVars, Working, TypeOK, Over, Ended, Finished
<1>5. \A j \in Incarnations : Calm(j) => Calm(j)'
    BY ControlAssumption DEF RuntimeInv, StartInvocation, Submit, Move, controlVars,
           signalVars, observerVars, Calm, TypeOK, Over, Ended, Finished
<1>6. UNCHANGED <<controlVars, bound>>
    BY DEF StartInvocation, Submit
<1> QED BY <1>1, <1>2, <1>3, <1>4, <1>5, <1>6, LocalStepKeeps

\* The end of the workload preserves the invariant.
LEMMA EndInvocationKeeps ==
    ASSUME RuntimeInv, NEW i \in Incarnations, EndInvocation(i), Derive(i)
    PROVE  RuntimeInv'
<1>1. LocalTypes'
  <2>1. /\ pc' \in [Incarnations -> Places]
        /\ submission' \in [Incarnations -> Submissions \union {None}]
        /\ UNCHANGED correlated
      BY SubmitType DEF RuntimeInv, EndInvocation, Move, TypeOK, Places, Ended, Finished
  <2> QED
      BY <2>1 DEF RuntimeInv, EndInvocation, controlVars, signalVars, observerVars,
           LocalTypes, TypeOK
<1>2. Course'
    BY ControlAssumption DEF RuntimeInv, EndInvocation, Submit, Move, controlVars,
           signalVars, observerVars, Course, TypeOK, Derive, Conclusion, Places, Over,
           Ended, Finished, Setting, Unbound
<1>3. Work'
    BY ControlAssumption DEF RuntimeInv, EndInvocation, Submit, Move, controlVars,
           signalVars, observerVars, Work, TypeOK
<1>4. Verdict'
    BY LocalVerdict DEF RuntimeInv, EndInvocation, Submit, Move, controlVars, signalVars,
           observerVars, Working, TypeOK, Over, Ended, Finished
<1>5. \A j \in Incarnations : Calm(j) => Calm(j)'
    BY ControlAssumption DEF RuntimeInv, EndInvocation, Submit, Move, controlVars,
           signalVars, observerVars, Calm, TypeOK, Over, Ended, Finished
<1>6. UNCHANGED <<controlVars, bound>>
    BY DEF EndInvocation, Submit
<1> QED BY <1>1, <1>2, <1>3, <1>4, <1>5, <1>6, LocalStepKeeps

\* A request that is given up preserves the invariant.
LEMMA GiveUpKeeps ==
    ASSUME RuntimeInv, NEW i \in Incarnations, GiveUp(i), Derive(i)
    PROVE  RuntimeInv'
<1>1. LocalTypes'
    BY ControlAssumption DEF RuntimeInv, GiveUp, Move, controlVars, signalVars,
           observerVars, LocalTypes, TypeOK, Places, Ended, Finished
<1>2. Course'
    BY ControlAssumption DEF RuntimeInv, GiveUp, Move, controlVars, signalVars,
           observerVars, Course, TypeOK, Derive, Conclusion, Places, Over, Ended,
           Finished, Setting, Unbound
<1>3. Work'
    BY ControlAssumption DEF RuntimeInv, GiveUp, Move, controlVars, signalVars,
           observerVars, Work, TypeOK
<1>4. Verdict'
    BY LocalVerdict DEF RuntimeInv, GiveUp, Move, controlVars, signalVars, observerVars,
           Working, TypeOK, Over, Ended, Finished
<1>5. \A j \in Incarnations : Calm(j) => Calm(j)'
    BY ControlAssumption DEF RuntimeInv, GiveUp, Move, controlVars, signalVars,
           observerVars, Calm, TypeOK, Over, Ended, Finished
<1>6. UNCHANGED <<controlVars, bound>>
    BY DEF GiveUp
<1> QED BY <1>1, <1>2, <1>3, <1>4, <1>5, <1>6, LocalStepKeeps

\* A crash preserves the invariant.
LEMMA CrashKeeps ==
    ASSUME RuntimeInv, NEW i \in Incarnations, Crash(i), Derive(i)
    PROVE  RuntimeInv'
<1>1. LocalTypes'
    BY ControlAssumption DEF RuntimeInv, Crash, Alive, Move, controlVars, signalVars,
           observerVars, LocalTypes, TypeOK, Places, Ended, Finished
<1>2. Course'
    BY ControlAssumption DEF RuntimeInv, Crash, Alive, Move, controlVars, signalVars,
           observerVars, Course, TypeOK, Derive, Conclusion, Places, Over, Ended,
           Finished, Setting, Unbound
<1>3. Work'
    BY ControlAssumption DEF RuntimeInv, Crash, Alive, Move, controlVars, signalVars,
           observerVars, Work, TypeOK
<1>4. Verdict'
    BY LocalVerdict DEF RuntimeInv, Crash, Alive, Move, controlVars, signalVars,
           observerVars, Working, TypeOK, Over, Ended, Finished
<1>5. \A j \in Incarnations : Calm(j) => Calm(j)'
    BY ControlAssumption DEF RuntimeInv, Crash, Alive, Move, controlVars, signalVars,
           observerVars, Calm, TypeOK, Over, Ended, Finished
<1>6. UNCHANGED <<controlVars, bound>>
    BY DEF Crash, Alive
<1> QED BY <1>1, <1>2, <1>3, <1>4, <1>5, <1>6, LocalStepKeeps

\* An abort preserves the invariant.
LEMMA AbortKeeps ==
    ASSUME RuntimeInv, NEW i \in Incarnations, Abort(i), Derive(i)
    PROVE  RuntimeInv'
<1>1. LocalTypes'
    BY ControlAssumption DEF RuntimeInv, Abort, Alive, controlVars, signalVars,
           observerVars, LocalTypes, TypeOK, Places, Ended, Finished
<1>2. Course'
    BY ControlAssumption DEF RuntimeInv, Abort, Alive, controlVars, signalVars,
           observerVars, Course, TypeOK, Derive, Conclusion, Places, Over, Ended,
           Finished, Setting, Unbound
<1>3. Work'
    BY ControlAssumption DEF RuntimeInv, Abort, Alive, controlVars, signalVars,
           observerVars, Work, TypeOK
<1>4. Verdict'
    BY LocalVerdict DEF RuntimeInv, Abort, Alive, controlVars, signalVars, observerVars,
           Working, TypeOK, Over, Ended, Finished
<1>5. \A j \in Incarnations : Calm(j) => Calm(j)'
    BY ControlAssumption DEF RuntimeInv, Abort, Alive, controlVars, signalVars,
           observerVars, Calm, TypeOK, Over, Ended, Finished
<1>6. UNCHANGED <<controlVars, bound>>
    BY DEF Abort, Alive
<1> QED BY <1>1, <1>2, <1>3, <1>4, <1>5, <1>6, LocalStepKeeps

-----------------------------------------------------------------------------
(* Cancellation and the owner's side. *)

\* The delivery of a cancel preserves the invariant.
LEMMA DeliverCancelKeeps ==
    ASSUME RuntimeInv, NEW i \in Incarnations, DeliverCancel(i)
    PROVE  RuntimeInv'
<1>1. /\ aborted' \in [Incarnations -> BOOLEAN]
      /\ noticed' \in [Incarnations -> BOOLEAN]
    BY DEF RuntimeInv, DeliverCancel, TypeOK
<1>2. Course'
    BY DEF RuntimeInv, DeliverCancel, observerVars, Course, TypeOK
<1>3. Work'
    BY DEF RuntimeInv, DeliverCancel, observerVars, controlVars, Work
<1>4. Verdict'
    BY DEF RuntimeInv, DeliverCancel, observerVars, controlVars, Verdict, OutcomeMeansQuiet,
           Working, Matches
<1>5. Conclusion(i)' \in Conclusions \union {None}
    BY DEF RuntimeInv, DeliverCancel, observerVars, TypeOK, Conclusion, Conclusions,
           Operations, NoOp
<1>6. Conclusion(i)' # None /\ Conclusion(i)'.status = "achieved" => Calm(i)'
    BY <1>2, <1>3, ControlAssumption DEF RuntimeInv, DeliverCancel, observerVars, TypeOK,
           Conclusion, Course, Work, Calm, Places, Over, Ended, Finished, Setting, Unbound
<1>7. reports' \in [Incarnations -> SUBSET Conclusions]
    BY <1>5 DEF RuntimeInv, DeliverCancel, TypeOK
<1>8. Witnessed'
  <2>1. \A j \in Incarnations : Calm(j) => Calm(j)'
      BY DEF RuntimeInv, DeliverCancel, TypeOK, Calm
  <2>2. \A j \in Incarnations :
           (\E c \in reports'[j] : c.status = "achieved") => Calm(j)'
      BY <1>6, <2>1 DEF RuntimeInv, DeliverCancel, TypeOK, Witnessed
  <2> QED BY <2>1, <2>2 DEF RuntimeInv, DeliverCancel, controlVars, Witnessed
<1>9. TypeOK'
    BY <1>1, <1>7 DEF RuntimeInv, DeliverCancel, observerVars, controlVars, TypeOK, ControlTypeOK
<1>10. Ownership'
    BY DEF RuntimeInv, DeliverCancel, controlVars, Ownership, Holds
<1>11. Slot'
    BY DEF RuntimeInv, DeliverCancel, controlVars, Slot, SlotIsFenced, ReadyIsProven, Mutating,
           Prepared
<1> QED BY <1>2, <1>3, <1>4, <1>8, <1>9, <1>10, <1>11 DEF RuntimeInv

\* What neither the runtimes nor the committed facts are touched by.
LEMMA RuntimesAlone ==
    ASSUME RuntimeInv, UNCHANGED runtimeVars
    PROVE  Course' /\ (UNCHANGED evidence => Witnessed')
BY DEF RuntimeInv, runtimeVars, signalVars, observerVars, Course, Witnessed, Calm

\* A stored final report preserves the invariant: its sender is the witness.
LEMMA ReportControlKeeps ==
    ASSUME RuntimeInv, NEW i \in Incarnations, NEW c \in reports[i], ReportControl(i, c)
    PROVE  RuntimeInv'
<1>1. bound[i] \in 1 .. MaxGeneration /\ c \in Conclusions
    BY DEF RuntimeInv, Course, TypeOK
<1>2. TypeOK'
    BY <1>1 DEF RuntimeInv, ReportControl, standingVars, slotVars, runtimeVars, signalVars,
           observerVars, TypeOK, ControlTypeOK
<1>3. Ownership' /\ Work'
    BY DEF RuntimeInv, ReportControl, slotVars, runtimeVars, observerVars, Ownership, Holds,
           Work
<1>4. Slot'
    BY DEF RuntimeInv, ReportControl, slotVars, Slot, SlotIsFenced, ReadyIsProven, Mutating,
           Prepared
<1>5. Verdict'
    BY DEF RuntimeInv, ReportControl, standingVars, slotVars, runtimeVars, Verdict,
           OutcomeMeansQuiet, Working, Matches
<1>6. Course'
    BY RuntimesAlone DEF ReportControl
<1>7. Witnessed'
    BY <1>1 DEF RuntimeInv, ReportControl, runtimeVars, signalVars, TypeOK, Witnessed, Calm
<1> QED BY <1>2, <1>3, <1>4, <1>5, <1>6, <1>7 DEF RuntimeInv

\* The owner and the provider side preserve the invariant.
LEMMA EnvironmentKeeps ==
    ASSUME RuntimeInv, Environment, UNCHANGED runtimeVars
    PROVE  RuntimeInv'
<1>1. /\ UNCHANGED <<slotVars, factVars, pass, proven>>
      /\ settlement' = settlement \/ (settlement = None /\ settlement' = "failure")
    BY DEF Environment, Supersede, Terminate, SettleAsFailed, Cancel
<1>2. TypeOK'
  <2>1. /\ superseded' \in BOOLEAN /\ terminated' \in BOOLEAN
        /\ settlement' \in {None, "outcome", "failure"}
        /\ gate' \in BOOLEAN /\ cancelled' \in BOOLEAN
      BY <1>1 DEF RuntimeInv, Environment, Supersede, Terminate, SettleAsFailed, Cancel, TypeOK,
             ControlTypeOK
  <2> QED BY <1>1, <2>1 DEF RuntimeInv, slotVars, factVars, runtimeVars, signalVars,
             observerVars, TypeOK, ControlTypeOK
<1>3. Ownership' /\ Work'
    BY <1>1 DEF RuntimeInv, slotVars, runtimeVars, observerVars, Ownership, Holds, Work
<1>4. Slot'
    BY <1>1 DEF RuntimeInv, slotVars, Slot, SlotIsFenced, ReadyIsProven, Mutating, Prepared
<1>5. Verdict'
    BY <1>1, ControlAssumption DEF RuntimeInv, slotVars, factVars, runtimeVars, Verdict,
           OutcomeMeansQuiet, Working, Matches
<1>6. Course' /\ Witnessed'
    BY <1>1, RuntimesAlone DEF factVars
<1> QED BY <1>2, <1>3, <1>4, <1>5, <1>6 DEF RuntimeInv

-----------------------------------------------------------------------------
(* The registration handler. *)

\* A pass that only moves on, with what it may have learned, preserves the
\* invariant.
LEMMA PassAlone ==
    ASSUME RuntimeInv, UNCHANGED <<standingVars, factVars, runtimeVars>>,
           UNCHANGED <<generation, incarnation>>,
           ControlTypeOK', Slot', Work', Verdict',
           \A p \in Passes : pass'[p] = Idle
                              \/ /\ pass'[p].incarnation = pass[p].incarnation
                                 /\ pass'[p].generation = pass[p].generation
    PROVE  RuntimeInv'
<1>1. TypeOK'
    BY DEF RuntimeInv, factVars, runtimeVars, signalVars, observerVars, TypeOK
<1>2. Ownership'
  <2>1. \A i \in Incarnations : \A g \in 1 .. MaxGeneration : Holds(i, g)' => Holds(i, g)
      BY ControlAssumption DEF Holds, Idle, runtimeVars
  <2> QED BY <2>1 DEF RuntimeInv, Ownership
<1>3. Course' /\ Witnessed'
    BY RuntimesAlone DEF factVars
<1> QED BY <1>1, <1>2, <1>3 DEF RuntimeInv

\* The admission of a probe preserves the invariant.
LEMMA AdmitProbeKeeps ==
    ASSUME RuntimeInv, NEW p \in Passes, AdmitProbe(p), UNCHANGED runtimeVars
    PROVE  RuntimeInv'
<1> DEFINE key == <<Probe, pass[p].incarnation>>
<1>1. pass[p] # Idle /\ key \in {Probe} \X Incarnations
    BY DEF RuntimeInv, AdmitProbe, TypeOK, ControlTypeOK, Idle, PassStates
<1>2. \/ UNCHANGED <<op, operations>>
      \/ /\ Reachable /\ op = NoOp
         /\ operations' = operations + 1
         /\ op' = [id |-> operations + 1, kind |-> Probe, key |-> key, generation |-> generation]
    BY ControlAssumption DEF AdmitProbe, Admit, Admission
<1>3. op' \in Operations \union {NoOp} /\ operations' \in Nat
    BY <1>1, <1>2 DEF RuntimeInv, TypeOK, ControlTypeOK, Operations
<1>4. pass'[p] \in [pc : PassStates, incarnation : Incarnations,
                    generation : 1 .. MaxGeneration, op : Nat]
  <2>1. op'.id \in Nat
      BY <1>3 DEF Operations, NoOp
  <2>2. pass[p] \in [pc : PassStates, incarnation : Incarnations,
                     generation : 1 .. MaxGeneration, op : Nat]
      BY <1>1 DEF RuntimeInv, TypeOK, ControlTypeOK
  <2>3. \E place \in {"deliver", "refuse"} : \E o \in Nat :
           pass' = [pass EXCEPT ![p] = [pass[p] EXCEPT !.pc = place, !.op = o]]
      BY <2>1 DEF AdmitProbe
  <2>4. p \in DOMAIN pass
      BY DEF RuntimeInv, TypeOK, ControlTypeOK
  <2>5. PICK place \in {"deliver", "refuse"}, o \in Nat :
           pass' = [pass EXCEPT ![p] = [pass[p] EXCEPT !.pc = place, !.op = o]]
      BY <2>3
  <2>6. pass'[p] = [pass[p] EXCEPT !.pc = place, !.op = o]
      BY <2>4, <2>5
  <2>7. place \in PassStates
      BY DEF PassStates
  <2> QED BY <2>2, <2>6, <2>7
<1>5. ControlTypeOK'
    BY <1>3, <1>4 DEF RuntimeInv, AdmitProbe, standingVars, TypeOK, ControlTypeOK
<1>6. Slot'
    BY <1>2, ControlAssumption DEF RuntimeInv, AdmitProbe, TypeOK, ControlTypeOK, Slot,
           SlotIsFenced, ReadyIsProven, Mutating, Prepared, Probe, Preparation, Invocation
<1>7. Work'
    BY <1>2, ControlAssumption DEF RuntimeInv, AdmitProbe, runtimeVars, observerVars, Work, NoOp
<1>8. Verdict'
    BY <1>2, ControlAssumption DEF RuntimeInv, AdmitProbe, standingVars, factVars, runtimeVars,
           Verdict, OutcomeMeansQuiet, Working, Matches, Reachable
<1>9. \A q \in Passes : /\ pass'[q].incarnation = pass[q].incarnation
                         /\ pass'[q].generation = pass[q].generation
    BY DEF RuntimeInv, AdmitProbe, TypeOK, ControlTypeOK, Idle
<1> QED BY <1>5, <1>6, <1>7, <1>8, <1>9, PassAlone DEF AdmitProbe

\* Moving a pass on keeps its registration.
LEMMA GotoKeeps ==
    ASSUME RuntimeInv, NEW p \in Passes, pass[p].pc # "idle", NEW place \in PassStates,
           Goto(p, place)
    PROVE  /\ pass' \in [Passes -> [pc : PassStates, incarnation : Incarnations,
                                    generation : 1 .. MaxGeneration, op : Nat] \union {Idle}]
           /\ \A q \in Passes : /\ pass'[q].incarnation = pass[q].incarnation
                                /\ pass'[q].generation = pass[q].generation
           /\ pass'[p].pc = place
           /\ \A q \in Passes : q # p => pass'[q] = pass[q]
<1>1. p \in DOMAIN pass
    BY DEF RuntimeInv, TypeOK, ControlTypeOK
<1>2. pass[p] \in [pc : PassStates, incarnation : Incarnations,
                   generation : 1 .. MaxGeneration, op : Nat]
    BY DEF RuntimeInv, TypeOK, ControlTypeOK, Idle
<1> QED BY <1>1, <1>2 DEF RuntimeInv, TypeOK, ControlTypeOK, Goto

\* An answered probe preserves the invariant.
LEMMA DeliverProbeKeeps ==
    ASSUME RuntimeInv, NEW p \in Passes, DeliverProbe(p)
    PROVE  RuntimeInv'
<1>1. "complete" \in PassStates
    BY DEF PassStates
<1>2. ControlTypeOK'
  <2>1. pass' \in [Passes -> [pc : PassStates, incarnation : Incarnations,
                              generation : 1 .. MaxGeneration, op : Nat] \union {Idle}]
      BY <1>1, GotoKeeps DEF DeliverProbe, ProbeAnswered
  <2>2. proven' \in BOOLEAN
      BY DEF RuntimeInv, DeliverProbe, ProbeAnswered, TypeOK, ControlTypeOK
  <2> QED BY <2>1, <2>2 DEF RuntimeInv, DeliverProbe, ProbeAnswered, standingVars, slotVars,
           TypeOK, ControlTypeOK
<1>3. Slot'
    BY <1>1, GotoKeeps DEF RuntimeInv, DeliverProbe, ProbeAnswered, slotVars, Slot,
           SlotIsFenced, ReadyIsProven, Mutating, Prepared
<1>4. Work' /\ Verdict'
    BY DEF RuntimeInv, DeliverProbe, ProbeAnswered, standingVars, slotVars, factVars,
           runtimeVars, observerVars, Work, Verdict, OutcomeMeansQuiet, Working, Matches
<1> QED BY <1>1, <1>2, <1>3, <1>4, GotoKeeps, PassAlone DEF DeliverProbe, ProbeAnswered,
           slotVars

\* An unanswered probe preserves the invariant.
LEMMA ProbeUnansweredKeeps ==
    ASSUME RuntimeInv, NEW p \in Passes, ProbeUnanswered(p), UNCHANGED runtimeVars
    PROVE  RuntimeInv'
<1>1. "release" \in PassStates
    BY DEF PassStates
<1>2. ControlTypeOK'
  <2>1. pass' \in [Passes -> [pc : PassStates, incarnation : Incarnations,
                              generation : 1 .. MaxGeneration, op : Nat] \union {Idle}]
      BY <1>1, GotoKeeps DEF ProbeUnanswered
  <2> QED BY <2>1 DEF RuntimeInv, ProbeUnanswered, standingVars, slotVars, TypeOK, ControlTypeOK
<1>3. Slot'
    BY <1>1, GotoKeeps DEF RuntimeInv, ProbeUnanswered, slotVars, Slot, SlotIsFenced,
           ReadyIsProven, Mutating, Prepared
<1>4. Work' /\ Verdict'
    BY DEF RuntimeInv, ProbeUnanswered, standingVars, slotVars, factVars, runtimeVars,
           observerVars, Work, Verdict, OutcomeMeansQuiet, Working, Matches
<1> QED BY <1>1, <1>2, <1>3, <1>4, GotoKeeps, PassAlone DEF ProbeUnanswered, slotVars

\* What the completion of a probe leaves of the slot.
LEMMA CompletionKeeps ==
    ASSUME RuntimeInv, NEW o \in Nat, NEW g,
           CompleteOperation(o, g) \/ UNCHANGED <<op, lastCompleted>>,
           UNCHANGED <<standingVars, generation, incarnation, ready, receipts, factVars,
                       runtimeVars>>
    PROVE  /\ op' \in Operations \union {NoOp} /\ lastCompleted' \in Nat
           /\ op' = op \/ op' = NoOp
           /\ Work' /\ Verdict'
<1>1. \/ UNCHANGED <<op, lastCompleted>>
      \/ settlement = None /\ ~Mutating /\ op' = NoOp /\ lastCompleted' = o
    BY DEF CompleteOperation, CompletionDecision
<1>2. Work'
    BY <1>1, ControlAssumption DEF RuntimeInv, runtimeVars, observerVars, Work, Mutating
<1>3. Verdict'
    BY <1>1, ControlAssumption DEF RuntimeInv, standingVars, factVars, runtimeVars, Verdict,
           OutcomeMeansQuiet, Working, Matches
<1> QED BY <1>1, <1>2, <1>3 DEF RuntimeInv, TypeOK, ControlTypeOK

\* Releasing a probe preserves the invariant.
LEMMA ReleaseProbeKeeps ==
    ASSUME RuntimeInv, NEW p \in Passes, ReleaseProbe(p), UNCHANGED runtimeVars
    PROVE  RuntimeInv'
<1>1. "refuse" \in PassStates /\ pass[p].op \in Nat
    BY DEF RuntimeInv, TypeOK, ControlTypeOK, PassStates, Idle
<1>2. /\ op' \in Operations \union {NoOp} /\ lastCompleted' \in Nat
      /\ op' = op \/ op' = NoOp
      /\ Work' /\ Verdict'
    BY <1>1, CompletionKeeps DEF ReleaseProbe
<1>3. ControlTypeOK'
    BY <1>1, <1>2, GotoKeeps DEF RuntimeInv, ReleaseProbe, standingVars, TypeOK, ControlTypeOK
<1>4. Slot'
    BY <1>1, <1>2, GotoKeeps, ControlAssumption DEF RuntimeInv, ReleaseProbe, Slot,
           SlotIsFenced, ReadyIsProven, Mutating, Prepared, NoOp
<1> QED BY <1>1, <1>2, <1>3, <1>4, GotoKeeps, PassAlone DEF ReleaseProbe

\* Completing a probe preserves the invariant.
LEMMA CompleteProbeKeeps ==
    ASSUME RuntimeInv, NEW p \in Passes, CompleteProbe(p), UNCHANGED runtimeVars
    PROVE  RuntimeInv'
<1>1. PICK place \in {"refuse", "mark"} : Goto(p, place)
    BY DEF CompleteProbe
<1>2. place \in PassStates /\ pass[p].op \in Nat
    BY DEF RuntimeInv, TypeOK, ControlTypeOK, PassStates, Idle
<1>3. /\ op' \in Operations \union {NoOp} /\ lastCompleted' \in Nat
      /\ op' = op \/ op' = NoOp
      /\ Work' /\ Verdict'
    BY <1>2, CompletionKeeps DEF CompleteProbe
<1>4. /\ pass' \in [Passes -> [pc : PassStates, incarnation : Incarnations,
                               generation : 1 .. MaxGeneration, op : Nat] \union {Idle}]
      /\ \A q \in Passes : /\ pass'[q].incarnation = pass[q].incarnation
                           /\ pass'[q].generation = pass[q].generation
      /\ \A q \in Passes : q # p => pass'[q] = pass[q]
    BY <1>1, <1>2, GotoKeeps DEF CompleteProbe
<1>5. ControlTypeOK'
    BY <1>3, <1>4 DEF RuntimeInv, CompleteProbe, standingVars, TypeOK, ControlTypeOK
<1>6. Slot'
    BY <1>3, <1>4, ControlAssumption DEF RuntimeInv, CompleteProbe, Slot, SlotIsFenced,
           ReadyIsProven, Mutating, Prepared, NoOp
<1> QED BY <1>3, <1>4, <1>5, <1>6, PassAlone DEF CompleteProbe

\* Recording readiness preserves the invariant: the pass has seen the answer.
LEMMA MarkRuntimeReadyKeeps ==
    ASSUME RuntimeInv, NEW p \in Passes, MarkRuntimeReady(p), UNCHANGED runtimeVars
    PROVE  RuntimeInv'
<1>1. PICK place \in {"announce", "refuse"} : Goto(p, place)
    BY DEF MarkRuntimeReady
<1>2. place \in PassStates
    BY DEF PassStates
<1>3. /\ pass' \in [Passes -> [pc : PassStates, incarnation : Incarnations,
                               generation : 1 .. MaxGeneration, op : Nat] \union {Idle}]
      /\ \A q \in Passes : /\ pass'[q].incarnation = pass[q].incarnation
                           /\ pass'[q].generation = pass[q].generation
      /\ pass'[p].pc = place
      /\ \A q \in Passes : q # p => pass'[q] = pass[q]
    BY <1>1, <1>2, GotoKeeps DEF MarkRuntimeReady
<1>4. /\ ready' \in BOOLEAN
      /\ ready => ready'
      /\ ready' => ready \/ generation = pass[p].generation
    BY DEF RuntimeInv, MarkRuntimeReady, TypeOK, ControlTypeOK
<1>5. ControlTypeOK'
    BY <1>3, <1>4 DEF RuntimeInv, MarkRuntimeReady, standingVars, TypeOK, ControlTypeOK
<1>6. Slot'
    BY <1>3, <1>4 DEF RuntimeInv, MarkRuntimeReady, Slot, SlotIsFenced, ReadyIsProven,
           Mutating, Prepared
<1>7. Work' /\ Verdict'
    BY DEF RuntimeInv, MarkRuntimeReady, standingVars, factVars, runtimeVars, observerVars,
           Work, Verdict, OutcomeMeansQuiet, Working, Matches
<1> QED BY <1>3, <1>5, <1>6, <1>7, PassAlone DEF MarkRuntimeReady

\* A pass that is lost preserves the invariant.
LEMMA LosePassKeeps ==
    ASSUME RuntimeInv, NEW p \in Passes, LosePass(p)
    PROVE  RuntimeInv'
<1>1. /\ pass' \in [Passes -> [pc : PassStates, incarnation : Incarnations,
                               generation : 1 .. MaxGeneration, op : Nat] \union {Idle}]
      /\ \A q \in Passes : pass'[q] \in {Idle, pass[q]}
    BY DEF RuntimeInv, TypeOK, ControlTypeOK, LosePass
<1>2. ControlTypeOK'
    BY <1>1 DEF RuntimeInv, LosePass, standingVars, slotVars, TypeOK, ControlTypeOK
<1>3. Slot'
    BY <1>1 DEF RuntimeInv, LosePass, slotVars, Slot, SlotIsFenced, ReadyIsProven, Mutating,
           Prepared, Idle
<1>4. Work' /\ Verdict'
    BY DEF RuntimeInv, LosePass, standingVars, slotVars, factVars, runtimeVars, observerVars,
           Work, Verdict, OutcomeMeansQuiet, Working, Matches
<1> QED BY <1>1, <1>2, <1>3, <1>4, PassAlone DEF LosePass, slotVars

\* A registration preserves the invariant: a replay claims what its incarnation
\* has, a takeover a generation nobody had before.
LEMMA HandleRegisterKeeps ==
    ASSUME RuntimeInv, NEW p \in Passes, NEW i \in Incarnations, HandleRegister(p, i)
    PROVE  RuntimeInv'
<1>1. \/ incarnation = i /\ UNCHANGED <<slotVars, proven>>
      \/ /\ ~Mutating /\ settlement = None
         /\ generation < MaxGeneration
         /\ generation' = generation + 1
         /\ incarnation' = i
         /\ ready' = FALSE /\ op' = NoOp /\ proven' = FALSE
         /\ UNCHANGED <<lastCompleted, receipts, operations>>
    BY DEF HandleRegister, RegisterRuntime, Reachable
<1>2. PICK place \in {"announce", "admit"} :
         pass' = [pass EXCEPT ![p] = [pc |-> place, incarnation |-> i,
                                      generation |-> generation', op |-> 0]]
    BY DEF HandleRegister, RegisterRuntime
<1>3. UNCHANGED <<standingVars, factVars, runtimeVars>>
    BY DEF HandleRegister, RegisterRuntime
<1>4. generation' \in 1 .. MaxGeneration /\ incarnation' = i
  <2>1. CASE incarnation = i /\ UNCHANGED <<slotVars, proven>>
      BY <2>1, ControlAssumption DEF RuntimeInv, Ownership, TypeOK, ControlTypeOK, slotVars
  <2>2. CASE generation < MaxGeneration /\ generation' = generation + 1 /\ incarnation' = i
      BY <2>2, ControlAssumption DEF RuntimeInv, TypeOK, ControlTypeOK
  <2> QED BY <1>1, <2>1, <2>2
<1>5. TypeOK'
  <2>1. pass' \in [Passes -> [pc : PassStates, incarnation : Incarnations,
                              generation : 1 .. MaxGeneration, op : Nat] \union {Idle}]
      BY <1>2, <1>4 DEF RuntimeInv, TypeOK, ControlTypeOK, PassStates
  <2>2. /\ op' \in Operations \union {NoOp} /\ ready' \in BOOLEAN /\ proven' \in BOOLEAN
        /\ UNCHANGED <<lastCompleted, receipts, operations>>
      BY <1>1 DEF RuntimeInv, TypeOK, ControlTypeOK, slotVars
  <2>3. ControlTypeOK'
      BY <1>3, <1>4, <2>1, <2>2 DEF RuntimeInv, TypeOK, ControlTypeOK, standingVars
  <2> QED BY <1>3, <2>3 DEF RuntimeInv, TypeOK, factVars, runtimeVars, signalVars, observerVars
<1>6. Ownership'
  <2>1. ASSUME NEW j \in Incarnations, NEW g \in 1 .. MaxGeneration, Holds(j, g)'
        PROVE  Holds(j, g) \/ (j = i /\ g = generation')
      BY <1>2, <1>3, <1>4, <2>1 DEF RuntimeInv, TypeOK, ControlTypeOK, Holds, runtimeVars
  <2>2. CASE UNCHANGED <<generation, incarnation>>
    <3>1. Holds(i, generation')
        BY <1>4, <2>2 DEF Holds
    <3> QED BY <1>4, <2>1, <2>2, <3>1 DEF RuntimeInv, Ownership
  <2>3. CASE generation' = generation + 1
    <3>1. \A j \in Incarnations : ~Holds(j, generation')
      <4>1. ~(generation' <= generation)
          BY <2>3, ControlAssumption DEF RuntimeInv, TypeOK, ControlTypeOK
      <4> QED BY <1>4, <4>1 DEF RuntimeInv, Ownership
    <3>2. generation \in Nat /\ i # None
        BY ControlAssumption DEF RuntimeInv, TypeOK, ControlTypeOK
    <3>3. incarnation' # None /\ generation' > 0
        BY <1>4, <3>2
    <3>4. ASSUME NEW j \in Incarnations, NEW g \in 1 .. MaxGeneration, Holds(j, g)'
          PROVE  g <= generation' /\ \A k \in Incarnations : Holds(k, g)' => j = k
        BY <1>4, <2>1, <2>3, <3>1, <3>2, <3>4 DEF RuntimeInv, Ownership
    <3> QED BY <3>3, <3>4 DEF Ownership
  <2> QED BY <1>1, <2>2, <2>3 DEF slotVars
<1>7. Slot'
  <2>1. CASE incarnation = i /\ UNCHANGED <<slotVars, proven>>
      BY <1>2, <2>1 DEF RuntimeInv, TypeOK, ControlTypeOK, slotVars, Slot, SlotIsFenced,
             ReadyIsProven, Mutating, Prepared
  <2>2. CASE /\ generation' = generation + 1 /\ ready' = FALSE /\ op' = NoOp
    <3>1. \A q \in Passes : pass[q] # Idle => pass[q].generation < generation'
      <4>1. SUFFICES ASSUME NEW q \in Passes, pass[q] # Idle
                     PROVE  pass[q].generation < generation'
          OBVIOUS
      <4>2. /\ pass[q].incarnation \in Incarnations
            /\ pass[q].generation \in 1 .. MaxGeneration
          BY <4>1 DEF RuntimeInv, TypeOK, ControlTypeOK
      <4>3. Holds(pass[q].incarnation, pass[q].generation)
          BY <4>1 DEF Holds
      <4> QED BY <2>2, <4>2, <4>3, ControlAssumption DEF RuntimeInv, Ownership, TypeOK,
                 ControlTypeOK
    <3>2. \A q \in Passes : pass'[q].pc \in {"complete", "mark"}
                              => pass'[q].generation # generation'
        BY <1>2, <1>4, <3>1 DEF RuntimeInv, TypeOK, ControlTypeOK, Idle
    <3> QED BY <2>2, <3>2, ControlAssumption DEF Slot, SlotIsFenced, ReadyIsProven, Mutating,
               NoOp
  <2> QED BY <1>1, <2>1, <2>2
<1>8. Work'
    BY <1>1, <1>3, ControlAssumption DEF RuntimeInv, slotVars, runtimeVars, observerVars, Work,
           Mutating
<1>9. Verdict'
    BY <1>1, <1>3, ControlAssumption DEF RuntimeInv, standingVars, slotVars, factVars,
           runtimeVars, Verdict, OutcomeMeansQuiet, Working, Matches
<1>10. Course' /\ Witnessed'
    BY <1>3, RuntimesAlone DEF factVars
<1> QED BY <1>5, <1>6, <1>7, <1>8, <1>9, <1>10 DEF RuntimeInv

\* The answer of a pass preserves the invariant: the runtime binds a generation
\* that was claimed for it.
LEMMA ReplyKeeps ==
    ASSUME RuntimeInv, NEW p \in Passes, ReplyRegistered(p) \/ ReplyRefused(p)
    PROVE  RuntimeInv'
<1>1. PICK i \in Incarnations, g \in 1 .. MaxGeneration :
         pass[p].incarnation = i /\ pass[p].generation = g
    BY DEF RuntimeInv, TypeOK, ControlTypeOK, Idle, ReplyRegistered, ReplyRefused
<1>2. /\ pass' = [pass EXCEPT ![p] = Idle]
      /\ UNCHANGED <<standingVars, slotVars, factVars, proven>>
    BY DEF ReplyRegistered, ReplyRefused
<1>3. \/ UNCHANGED runtimeVars
      \/ /\ pc[i] = "registering"
         /\ \/ /\ bound' = [bound EXCEPT ![i] = g]
               /\ pc' = [pc EXCEPT ![i] = "starting"]
            \/ bound' = bound /\ pc' = [pc EXCEPT ![i] = "finished"]
         /\ UNCHANGED <<asked, signalVars, observerVars, submission, reports, correlated>>
    BY <1>1 DEF ReplyRegistered, ReplyRefused, Move
<1>4. TypeOK'
  <2>1. pass' \in [Passes -> [pc : PassStates, incarnation : Incarnations,
                              generation : 1 .. MaxGeneration, op : Nat] \union {Idle}]
      BY <1>2 DEF RuntimeInv, TypeOK, ControlTypeOK
  <2>2. bound' = bound \/ bound' = [bound EXCEPT ![i] = g]
      BY <1>3 DEF runtimeVars
  <2>3. bound' \in [Incarnations -> 0 .. MaxGeneration]
    <3>1. bound \in [Incarnations -> 0 .. MaxGeneration] /\ g \in 0 .. MaxGeneration
        BY <1>1, ControlAssumption DEF RuntimeInv, TypeOK
    <3> QED BY <2>2, <3>1
  <2>4. pc' \in [Incarnations -> Places]
    <3>1. pc' = pc \/ \E place \in Places : pc' = [pc EXCEPT ![i] = place]
        BY <1>3 DEF runtimeVars, Places, Ended, Finished
    <3> QED BY <1>1, <3>1 DEF RuntimeInv, TypeOK
  <2> QED BY <1>2, <1>3, <2>1, <2>3, <2>4 DEF RuntimeInv, TypeOK, ControlTypeOK, standingVars,
             slotVars, factVars, runtimeVars, signalVars, observerVars
<1>5. Ownership'
  <2>1. \A j \in Incarnations : \A h \in 1 .. MaxGeneration : Holds(j, h)' => Holds(j, h)
      BY <1>1, <1>2, <1>3, ControlAssumption DEF RuntimeInv, TypeOK, ControlTypeOK, Holds, Idle,
             slotVars, runtimeVars
  <2> QED BY <1>2, <2>1 DEF RuntimeInv, Ownership, slotVars
<1>6. Slot'
    BY <1>2 DEF RuntimeInv, TypeOK, ControlTypeOK, slotVars, Slot, SlotIsFenced, ReadyIsProven,
           Mutating, Prepared, Idle
<1>7. CASE UNCHANGED runtimeVars
    BY <1>2, <1>4, <1>5, <1>6, <1>7, RuntimesAlone DEF RuntimeInv, Work, Verdict,
           OutcomeMeansQuiet, Working, Matches, standingVars, slotVars, factVars, runtimeVars,
           observerVars
<1>8. CASE ~UNCHANGED runtimeVars
  <2>1. /\ pc[i] = "registering"
        /\ bound[i] = 0 /\ admitted[i] = NoOp /\ asked[i] = {} /\ submission[i] = None
        /\ ~noticed[i] /\ reports[i] = {} /\ ~correlated[i] /\ ~closedOut[i]
      BY <1>1, <1>3, <1>8 DEF RuntimeInv, Course, Unbound, Over, Ended, Finished
  <2>2. /\ \A j \in Incarnations \ {i} : pc'[j] = pc[j] /\ bound'[j] = bound[j]
        /\ (pc'[i] = "starting" /\ bound'[i] > 0) \/ (pc'[i] = "finished" /\ bound'[i] = 0)
        /\ UNCHANGED <<asked, signalVars, observerVars, submission, reports, correlated>>
      BY <1>1, <1>3, <1>8, <2>1, ControlAssumption DEF RuntimeInv, TypeOK
  <2>3. Course'
    <3>1. setup[i] = None
        BY <1>1, <2>1 DEF RuntimeInv, Course, Unbound
    <3> QED BY <1>1, <2>1, <2>2, <3>1 DEF RuntimeInv, Course, signalVars, observerVars, Over,
               Ended, Finished, Setting, Unbound
  <2>4. Work'
      BY <1>1, <1>2, <2>1, <2>2, ControlAssumption DEF RuntimeInv, Work, slotVars, observerVars,
             NoOp
  <2>5. Verdict'
    <3>1. OutcomeMeansQuiet'
        BY <1>1, <1>2, <2>2 DEF RuntimeInv, Verdict, OutcomeMeansQuiet, Working, standingVars
    <3>2. outcome # None => outcome.by \in Incarnations \ {i}
        BY <2>1 DEF RuntimeInv, TypeOK, Verdict
    <3> QED BY <1>2, <2>2, <3>1, <3>2 DEF RuntimeInv, Verdict, Matches, standingVars, slotVars,
               factVars
  <2>6. Witnessed'
    <3>1. \A j \in Incarnations \ {i} : Calm(j) => Calm(j)'
        BY <2>2 DEF Calm, signalVars
    <3>2. \A h \in 1 .. MaxGeneration : \A j \in Incarnations : bound[j] = h => j # i
        BY <2>1
    <3> QED BY <1>2, <2>1, <2>2, <3>1, <3>2 DEF RuntimeInv, Witnessed, factVars
  <2> QED BY <1>4, <1>5, <1>6, <2>3, <2>4, <2>5, <2>6 DEF RuntimeInv
<1> QED BY <1>7, <1>8

-----------------------------------------------------------------------------
(* The handlers of what runtimes have sent. *)

\* An admission preserves the invariant: it goes to the current owner, while
\* nothing runs, or repeats what that owner already has.
LEMMA HandleAdmitKeeps ==
    ASSUME RuntimeInv, NEW i \in Incarnations, NEW kind \in {Preparation, Invocation},
           HandleAdmit(i, kind), Derive(i)
    PROVE  RuntimeInv'
<1> DEFINE key == <<kind, bound[i]>>
           decision == Admission(kind, key, bound[i])
<1>1. bound[i] \in 1 .. MaxGeneration
    BY DEF RuntimeInv, Course, HandleAdmit, TypeOK
<1>2. \/ decision # "admitted" /\ UNCHANGED <<op, operations>>
      \/ /\ decision = "admitted"
         /\ op = NoOp /\ ready /\ generation = bound[i]
         /\ kind = Invocation /\ RequiresPreparation => Prepared(generation)
         /\ operations' = operations + 1
         /\ op' = [id |-> operations + 1, kind |-> kind, key |-> key, generation |-> generation]
    BY ControlAssumption DEF HandleAdmit, Admit, Admission, Probe, Preparation, Invocation
<1>3. ASSUME decision \in {"admitted", "duplicate"}
      PROVE  settlement = None /\ op'.kind = kind /\ bound[i] = generation
  <2>1. Reachable
      BY <1>3 DEF Admission
  <2>2. CASE decision = "admitted"
      BY <1>2, <2>1, <2>2 DEF Reachable
  <2>3. CASE decision = "duplicate"
    <3>1. op # NoOp /\ op.key = key
        BY <2>3 DEF Admission
    <3>2. op.kind = kind
        BY <3>1 DEF RuntimeInv, Slot
    <3>3. op.key = <<kind, generation>>
        BY <3>2 DEF RuntimeInv, Slot, SlotIsFenced, Mutating
    <3> QED BY <1>2, <2>1, <2>3, <3>1, <3>2, <3>3 DEF Reachable
  <2> QED BY <1>3, <2>2, <2>3
<1>4. \/ decision = "admitted" /\ UNCHANGED <<pc, observerVars, submission>>
      \/ /\ pc[i] \in {"admitPreparation", "admitInvocation"}
         /\ decision \in {"admitted", "duplicate"}
         /\ admitted' = [admitted EXCEPT ![i] = op']
         /\ pc' = [pc EXCEPT ![i] = IF kind = Preparation THEN "holdPreparation"
                                                          ELSE "holdInvocation"]
         /\ pc[i] = "admitPreparation" <=> kind = Preparation
         /\ UNCHANGED <<closedOut, setup, submission>>
      \/ /\ pc[i] \in {"admitPreparation", "admitInvocation"}
         /\ closedOut' = [closedOut EXCEPT ![i] = TRUE]
         /\ \/ Submit(i, "cancelled", 0)
            \/ pc' = [pc EXCEPT ![i] = "finished"] /\ UNCHANGED submission
         /\ UNCHANGED <<admitted, setup>>
    BY DEF HandleAdmit, NoAnswer, Move, AdmitPlace, HoldPlace, Preparation, Invocation
<1>5. UNCHANGED <<standingVars, generation, incarnation, ready, lastCompleted, receipts, factVars,
                  pass, proven, bound, asked, signalVars, correlated>>
    BY DEF HandleAdmit, NoAnswer, Submit, Move
<1>6. op' \in Operations \union {NoOp} /\ operations' \in Nat
  <2>1. key \in {Preparation, Invocation} \X Nat
      BY <1>1
  <2> QED BY <1>2, <2>1 DEF RuntimeInv, TypeOK, ControlTypeOK, Operations
<1>7. LocalTypes'
  <2>1. pc' \in [Incarnations -> Places] /\ submission' \in [Incarnations -> Submissions \union {None}]
      BY <1>4, SubmitType DEF RuntimeInv, TypeOK, Places, Ended, Finished
  <2>2. /\ admitted' \in [Incarnations -> Operations \union {NoOp}]
        /\ closedOut' \in [Incarnations -> BOOLEAN]
        /\ setup' = setup
      BY <1>4, <1>6 DEF RuntimeInv, TypeOK, observerVars
  <2> QED BY <1>5, <2>1, <2>2 DEF RuntimeInv, TypeOK, LocalTypes, signalVars
<1>8. Course'
    BY <1>1, <1>4, <1>5 DEF RuntimeInv, TypeOK, Course, Derive, Conclusion, Submit, Move,
           signalVars, observerVars, Over, Ended, Finished, Setting, Unbound
<1>9. Work'
  <2>1. ASSUME NEW j \in Incarnations, op' # op
        PROVE  pc[j] \notin {"holdPreparation", "preparing", "holdInvocation", "invoking"}
               /\ admitted[j].kind # Invocation
      BY <1>2, <2>1, ControlAssumption DEF RuntimeInv, Work, NoOp
  <2> QED BY <1>3, <1>4, <1>5, <2>1, ControlAssumption DEF RuntimeInv, TypeOK, Work, Submit, Move,
             observerVars, Preparation, Invocation
<1>10. Verdict'
  <2>1. CASE settlement = None
      BY <1>5, <2>1, ControlAssumption DEF RuntimeInv, Verdict, OutcomeMeansQuiet, standingVars,
             factVars
  <2>2. CASE settlement # None
    <3>1. decision \notin {"admitted", "duplicate"}
        BY <1>3, <2>2
    <3>2. /\ \A j \in Incarnations \ {i} : submission'[j] = submission[j] /\ pc'[j] = pc[j]
          /\ ~Working(i)' /\ pc[i] \notin Over
        BY <1>4, <3>1 DEF RuntimeInv, TypeOK, Submit, Move, Working, Over, Ended, Finished
    <3>3. UNCHANGED <<controlVars, bound, correlated>>
        BY <1>2, <1>5, <3>1 DEF controlVars, standingVars, factVars
    <3> QED BY <3>2, <3>3, LocalVerdict
  <2> QED BY <2>1, <2>2
<1>11. \A j \in Incarnations : Calm(j) => Calm(j)'
    BY <1>4, <1>5 DEF RuntimeInv, TypeOK, Calm, Submit, Move, signalVars, Over, Ended, Finished
<1>12. Witnessed' /\ reports' \in [Incarnations -> SUBSET Conclusions]
    BY <1>5, <1>7, <1>8, <1>9, <1>11, DeriveKeeps DEF RuntimeInv, factVars
<1>13. TypeOK'
    BY <1>5, <1>6, <1>7, <1>12 DEF RuntimeInv, TypeOK, ControlTypeOK, LocalTypes, standingVars,
           factVars
<1>14. Ownership'
    BY <1>5 DEF RuntimeInv, Ownership, Holds
<1>15. Slot'
    BY <1>2, <1>5, ControlAssumption DEF RuntimeInv, Slot, SlotIsFenced, ReadyIsProven, Mutating,
           Prepared
<1> QED BY <1>8, <1>9, <1>10, <1>12, <1>13, <1>14, <1>15 DEF RuntimeInv

\* Nobody else has the generation a runtime is bound to.
LEMMA SoleOwner ==
    ASSUME RuntimeInv, NEW i \in Incarnations, NEW j \in Incarnations,
           bound[i] = bound[j], bound[i] > 0
    PROVE  i = j
<1>1. bound[i] \in 1 .. MaxGeneration
    BY DEF RuntimeInv, TypeOK
<1>2. Holds(i, bound[i]) /\ Holds(j, bound[i])
    BY DEF Holds
<1> QED BY <1>1, <1>2 DEF RuntimeInv, Ownership

\* The refusal of a report that does not fit the instruction preserves the
\* invariant.
LEMMA ReportMisfitKeeps ==
    ASSUME RuntimeInv, NEW i \in Incarnations, ReportMisfit(i), Derive(i)
    PROVE  RuntimeInv'
<1>1. LocalTypes'
  <2>1. /\ pc' \in [Incarnations -> Places]
        /\ submission' \in [Incarnations -> Submissions \union {None}]
        /\ UNCHANGED correlated
      BY SubmitType DEF RuntimeInv, ReportMisfit, Move, TypeOK, Places, Ended, Finished
  <2>2. asked' \in [Incarnations -> SUBSET {Preparation, Invocation, "report"}]
    <3>1. asked[i] \ {"report"} \in SUBSET {Preparation, Invocation, "report"}
        BY DEF RuntimeInv, TypeOK
    <3> QED BY <3>1 DEF RuntimeInv, TypeOK, ReportMisfit
  <2> QED
      BY <2>1, <2>2 DEF RuntimeInv, ReportMisfit, controlVars, signalVars, observerVars,
           LocalTypes, TypeOK
<1>2. Course'
    BY ControlAssumption DEF RuntimeInv, ReportMisfit, Submit, Move, controlVars,
           signalVars, observerVars, Course, TypeOK, Derive, Conclusion, Places, Over,
           Ended, Finished, Setting, Unbound
<1>3. Work'
    BY ControlAssumption DEF RuntimeInv, ReportMisfit, Submit, Move, controlVars,
           signalVars, observerVars, Work, TypeOK
<1>4. Verdict'
    BY LocalVerdict DEF RuntimeInv, ReportMisfit, Submit, Move, controlVars, signalVars,
           observerVars, Working, TypeOK, Over, Ended, Finished
<1>5. \A j \in Incarnations : Calm(j) => Calm(j)'
    BY ControlAssumption DEF RuntimeInv, ReportMisfit, Submit, Move, controlVars,
           signalVars, observerVars, Calm, TypeOK, Over, Ended, Finished
<1>6. UNCHANGED <<controlVars, bound>>
    BY DEF ReportMisfit, Submit
<1> QED BY <1>1, <1>2, <1>3, <1>4, <1>5, <1>6, LocalStepKeeps

\* A preparation report preserves the invariant: nobody holds the operation it
\* completes any more.
LEMMA HandleReportKeeps ==
    ASSUME RuntimeInv, NEW i \in Incarnations, HandleReport(i), Derive(i)
    PROVE  RuntimeInv'
<1> DEFINE receipt == [op |-> admitted[i].id, generation |-> bound[i]]
           decision == ReportDecision(i, receipt)
<1>1. /\ bound[i] \in 1 .. MaxGeneration
      /\ pc[i] \notin Setting
      /\ receipt \in [op : Nat, generation : Nat]
  <2>1. admitted[i].id \in Nat
      BY DEF RuntimeInv, TypeOK, Operations, NoOp
  <2> QED BY <2>1 DEF RuntimeInv, Course, HandleReport, TypeOK
<1>2. \/ UNCHANGED <<receipts, op, lastCompleted>>
      \/ /\ settlement = None /\ generation = bound[i] /\ op.kind = Preparation
         /\ receipts' = receipts \union {receipt}
         /\ op' = NoOp
         /\ lastCompleted' = receipt.op
    BY DEF HandleReport, ReportDecision, Reachable
<1>3. \/ UNCHANGED <<pc, submission>>
      \/ /\ pc[i] = "reporting"
         /\ \/ Submit(i, "failure", admitted[i].id)
            \/ pc' = [pc EXCEPT ![i] = "beforeInvocation"] /\ UNCHANGED submission
    BY DEF HandleReport, NoAnswer, Move
<1>4. UNCHANGED <<standingVars, generation, incarnation, ready, operations, factVars, pass,
                  proven, bound, asked, signalVars, observerVars, correlated>>
    BY DEF HandleReport, NoAnswer, Submit, Move
<1>5. LocalTypes'
  <2>1. pc' \in [Incarnations -> Places] /\ submission' \in [Incarnations -> Submissions \union {None}]
      BY <1>3, SubmitType DEF RuntimeInv, TypeOK, Places, Ended, Finished
  <2> QED BY <1>4, <2>1 DEF RuntimeInv, TypeOK, LocalTypes, signalVars, observerVars
<1>6. Course'
    BY <1>1, <1>3, <1>4 DEF RuntimeInv, TypeOK, Course, Derive, Conclusion, Submit, Move,
           signalVars, observerVars, Over, Ended, Finished, Setting, Unbound
<1>7. /\ \A j \in Incarnations \ {i} : submission'[j] = submission[j] /\ pc'[j] = pc[j]
      /\ pc'[i] = pc[i] \/ pc'[i] \in {"submitting", "beforeInvocation"}
      /\ pc[i] \notin Over \/ submission' = submission
    BY <1>3 DEF RuntimeInv, TypeOK, Submit, Move, Over, Ended, Finished
<1>8. Work'
  <2>1. CASE UNCHANGED <<receipts, op, lastCompleted>>
      BY <1>4, <1>7, <2>1 DEF RuntimeInv, Work, observerVars
  <2>2. CASE generation = bound[i] /\ op.kind = Preparation
    <3>1. \A j \in Incarnations : admitted[j].kind # Invocation
        BY <2>2 DEF RuntimeInv, Work, Preparation, Invocation
    <3>2. \A j \in Incarnations : pc[j] \notin {"holdPreparation", "preparing"}
        BY <1>1, <2>2, SoleOwner DEF RuntimeInv, Work, Setting
    <3> QED BY <1>4, <1>7, <3>1, <3>2 DEF RuntimeInv, Work, observerVars
  <2> QED BY <1>2, <2>1, <2>2
<1>9. Verdict'
  <2>1. CASE settlement = None
      BY <1>4, <2>1, ControlAssumption DEF RuntimeInv, Verdict, OutcomeMeansQuiet, standingVars,
             factVars
  <2>2. CASE settlement # None
    <3>1. UNCHANGED <<controlVars, bound, correlated>>
        BY <1>2, <1>4, <2>2 DEF controlVars, standingVars, factVars
    <3>2. Working(i)' => Working(i)
        BY <1>7 DEF Working
    <3> QED BY <1>7, <3>1, <3>2, LocalVerdict
  <2> QED BY <2>1, <2>2
<1>10. \A j \in Incarnations : Calm(j) => Calm(j)'
    BY <1>3, <1>4 DEF RuntimeInv, TypeOK, Calm, Submit, Move, signalVars, Over, Ended, Finished
<1>11. Witnessed' /\ reports' \in [Incarnations -> SUBSET Conclusions]
    BY <1>4, <1>5, <1>6, <1>8, <1>10, DeriveKeeps DEF RuntimeInv, factVars
<1>12. TypeOK'
  <2>1. op' \in Operations \union {NoOp}
      BY <1>2 DEF RuntimeInv, TypeOK, ControlTypeOK
  <2>2. lastCompleted' \in Nat /\ receipts' \in SUBSET [op : Nat, generation : Nat]
      BY <1>1, <1>2 DEF RuntimeInv, TypeOK, ControlTypeOK
  <2>3. ControlTypeOK'
      BY <1>4, <2>1, <2>2 DEF RuntimeInv, TypeOK, ControlTypeOK, standingVars
  <2> QED BY <1>4, <1>5, <1>11, <2>3 DEF RuntimeInv, TypeOK, LocalTypes, factVars
<1>13. Ownership'
    BY <1>4 DEF RuntimeInv, Ownership, Holds
<1>14. Slot'
    BY <1>2, <1>4, ControlAssumption DEF RuntimeInv, Slot, SlotIsFenced, ReadyIsProven, Mutating,
           Prepared, NoOp
<1> QED BY <1>6, <1>8, <1>9, <1>11, <1>12, <1>13, <1>14 DEF RuntimeInv

\* What the answer to a terminal report changes.
LEMMA AnswerKeeps ==
    ASSUME RuntimeInv, NEW i \in Incarnations, NEW decision, Answer(i, decision)
    PROVE  /\ pc' \in [Incarnations -> Places]
           /\ \A j \in Incarnations : \/ pc'[j] = pc[j]
                                      \/ pc[j] = "submitting" /\ pc'[j] \in Finished
BY DEF RuntimeInv, TypeOK, Answer, Places, Ended, Finished

\* Correlating a terminal report preserves the invariant.
LEMMA CorrelateOutcomeKeeps ==
    ASSUME RuntimeInv, NEW i \in Incarnations, CorrelateOutcome(i), Derive(i)
    PROVE  RuntimeInv'
<1>1. UNCHANGED <<controlVars, bound, asked, signalVars, observerVars, submission>>
    BY DEF CorrelateOutcome
<1>2. /\ pc' \in [Incarnations -> Places]
      /\ \A j \in Incarnations : \/ pc'[j] = pc[j]
                                 \/ pc[j] = "submitting" /\ pc'[j] \in Finished
    BY AnswerKeeps DEF CorrelateOutcome, RuntimeInv, TypeOK
<1>3. /\ correlated' \in [Incarnations -> BOOLEAN]
      /\ \A j \in Incarnations : /\ correlated[j] => correlated'[j]
                                 /\ correlated'[j] => correlated[j] \/ submission[j] # None
    BY DEF CorrelateOutcome, RuntimeInv, TypeOK
<1>4. LocalTypes'
    BY <1>1, <1>2, <1>3 DEF RuntimeInv, TypeOK, LocalTypes, signalVars, observerVars
<1>5. Course'
    BY <1>1, <1>2, <1>3 DEF RuntimeInv, TypeOK, Course, Derive, Conclusion, signalVars,
           observerVars, Over, Ended, Finished, Setting, Unbound
<1>6. Work'
    BY <1>1, <1>2 DEF RuntimeInv, Work, Finished, controlVars, observerVars
<1>7. Verdict'
    BY <1>1, <1>2, <1>3 DEF RuntimeInv, TypeOK, Verdict, OutcomeMeansQuiet, Working, Matches,
           Finished, controlVars
<1>8. \A j \in Incarnations : Calm(j) => Calm(j)'
    BY <1>1, <1>2 DEF Calm, Over, Ended, signalVars
<1> QED BY <1>1, <1>4, <1>5, <1>6, <1>7, <1>8, LocalStepKeeps

\* A commit preserves the invariant: its sender owns the attempt and has
\* stopped working.
LEMMA CommitOutcomeKeeps ==
    ASSUME RuntimeInv, NEW i \in Incarnations, CommitOutcome(i), Derive(i)
    PROVE  RuntimeInv'
<1>1. UNCHANGED <<superseded, terminated, cancelled, slotVars, evidence, pass, proven, bound,
                  asked, signalVars, observerVars, submission, correlated>>
    BY DEF CommitOutcome
<1>2. /\ pc' \in [Incarnations -> Places]
      /\ \A j \in Incarnations : \/ pc'[j] = pc[j]
                                 \/ pc[j] = "submitting" /\ pc'[j] \in Finished
    BY AnswerKeeps DEF CommitOutcome
<1>3. /\ correlated[i] /\ submission[i] # None /\ pc[i] \in Over
      /\ submission[i] \in Submissions /\ bound[i] > 0
    BY DEF CommitOutcome, RuntimeInv, TypeOK, Course
<1>4. \/ UNCHANGED <<outcome, settlement, gate>>
      \/ /\ outcome = None /\ settlement = None /\ Matches(i)
         /\ outcome' = [by |-> i, what |-> submission[i].what]
         /\ settlement' = "outcome"
         /\ gate' = FALSE
    BY DEF CommitOutcome, CommitDecision
<1>5. LocalTypes'
    BY <1>1, <1>2 DEF RuntimeInv, TypeOK, LocalTypes, signalVars, observerVars
<1>6. Course'
    BY <1>1, <1>2 DEF RuntimeInv, TypeOK, Course, Derive, Conclusion, signalVars, observerVars,
           Over, Ended, Finished, Setting, Unbound
<1>7. Work'
    BY <1>1, <1>2 DEF RuntimeInv, Work, Finished, slotVars, observerVars
<1>8. Verdict'
  <2>1. CASE UNCHANGED <<outcome, settlement, gate>>
      BY <1>1, <1>2, <2>1 DEF RuntimeInv, TypeOK, Verdict, OutcomeMeansQuiet, Working, Matches,
             Finished, slotVars
  <2>2. CASE /\ Matches(i)
             /\ outcome' = [by |-> i, what |-> submission[i].what]
             /\ settlement' = "outcome"
    <3>1. \A j \in Incarnations : Working(j) => bound[j] = generation
        BY DEF RuntimeInv, Work, Working
    <3>2. \A j \in Incarnations : ~Working(j)
        BY <1>3, <2>2, <3>1, SoleOwner DEF Matches, Working, Over, Ended, Finished
    <3>3. OutcomeMeansQuiet'
        BY <1>2, <3>2 DEF OutcomeMeansQuiet, Working, Finished
    <3> QED BY <1>1, <1>3, <2>2, <3>3 DEF Verdict, Matches, slotVars
  <2> QED BY <1>4, <2>1, <2>2
<1>9. \A j \in Incarnations : Calm(j) => Calm(j)'
    BY <1>1, <1>2 DEF Calm, Over, Ended, signalVars
<1>10. Witnessed' /\ reports' \in [Incarnations -> SUBSET Conclusions]
    BY <1>1, <1>5, <1>6, <1>7, <1>9, DeriveKeeps DEF RuntimeInv
<1>11. TypeOK'
  <2>1. submission[i].what \in {"result", "failure", "cancelled"}
      BY <1>3 DEF Submissions
  <2>2. outcome' \in [by : Incarnations, what : {"result", "failure", "cancelled"}] \union {None}
      BY <1>4, <2>1 DEF RuntimeInv, TypeOK
  <2>3. settlement' \in {None, "outcome", "failure"} /\ gate' \in BOOLEAN
      BY <1>4 DEF RuntimeInv, TypeOK, ControlTypeOK
  <2> QED BY <1>1, <1>5, <1>10, <2>2, <2>3 DEF RuntimeInv, TypeOK, ControlTypeOK, LocalTypes,
             slotVars
<1>12. Ownership'
    BY <1>1 DEF RuntimeInv, Ownership, Holds, slotVars
<1>13. Slot'
    BY <1>1 DEF RuntimeInv, Slot, SlotIsFenced, ReadyIsProven, Mutating, Prepared, slotVars
<1> QED BY <1>6, <1>7, <1>8, <1>10, <1>11, <1>12, <1>13 DEF RuntimeInv

-----------------------------------------------------------------------------
(* The theorems. *)

\* The initial state satisfies the invariant.
LEMMA InitEstablishes == Init => RuntimeInv
<1>1. SUFFICES ASSUME Init PROVE RuntimeInv
    OBVIOUS
<1>2. TypeOK
  <2>1. ControlTypeOK
    <3>1. /\ incarnation \in Incarnations \union {None} /\ op \in Operations \union {NoOp}
          /\ generation \in 0 .. MaxGeneration /\ lastCompleted \in Nat /\ operations \in Nat
        BY <1>1, ControlAssumption DEF Init, ControlInit
    <3>2. receipts \in SUBSET [op : Nat, generation : Nat]
        BY <1>1 DEF Init, ControlInit
    <3>3. pass \in [Passes -> [pc : PassStates, incarnation : Incarnations,
                               generation : 1 .. MaxGeneration, op : Nat] \union {Idle}]
        BY <1>1 DEF Init, ControlInit
    <3>4. settlement \in {None, "outcome", "failure"}
        BY <1>1 DEF Init, ControlInit
    <3> QED BY <1>1, <3>1, <3>2, <3>3, <3>4 DEF Init, ControlInit, ControlTypeOK
  <2> QED BY <1>1, <2>1, ControlAssumption DEF Init, ControlInit, TypeOK, Places
<1>3. Ownership
    BY <1>1, ControlAssumption DEF Init, ControlInit, Ownership, Holds, Idle
<1>4. Slot
    BY <1>1, ControlAssumption DEF Init, ControlInit, Slot, SlotIsFenced, ReadyIsProven, Mutating,
           NoOp, Idle
<1>5. Course
    BY <1>1 DEF Init, Course, Unbound, Setting, Over
<1>6. Work
    BY <1>1, ControlAssumption DEF Init, Work, NoOp
<1>7. Verdict /\ Witnessed
    BY <1>1, ControlAssumption DEF Init, ControlInit, Verdict, OutcomeMeansQuiet, Witnessed
<1> QED BY <1>2, <1>3, <1>4, <1>5, <1>6, <1>7 DEF RuntimeInv

\* Every step preserves the invariant.
LEMMA StepKeeps == RuntimeInv /\ [Next]_vars => RuntimeInv'
<1>1. SUFFICES ASSUME RuntimeInv, [Next]_vars PROVE RuntimeInv'
    OBVIOUS
<1>2. CASE UNCHANGED vars
    BY <1>1, <1>2 DEF vars, controlVars, runtimeVars, signalVars, observerVars, RuntimeInv, TypeOK,
           ControlTypeOK, Ownership, Holds, Slot, SlotIsFenced, ReadyIsProven, Mutating, Prepared,
           Course, Work, Verdict, OutcomeMeansQuiet, Working, Matches, Witnessed, Calm
<1>3. CASE Environment /\ UNCHANGED runtimeVars
    BY <1>1, <1>3, EnvironmentKeeps
<1>4. ASSUME NEW p \in Passes, PassStep(p)
      PROVE  RuntimeInv'
    BY <1>1, <1>4, HandleRegisterKeeps, DeliverProbeKeeps, AdmitProbeKeeps, ProbeUnansweredKeeps,
       ReleaseProbeKeeps, CompleteProbeKeeps, MarkRuntimeReadyKeeps, ReplyKeeps, LosePassKeeps
       DEF PassStep, InternalStep
<1>5. ASSUME NEW i \in Incarnations, RuntimeStep(i), Derive(i)
      PROVE  RuntimeInv'
    BY <1>1, <1>5, StartKeeps, ReadInstructionKeeps, AskPreparationKeeps, StartPreparationKeeps,
       EndPreparationKeeps, AskInvocationKeeps, StartInvocationKeeps, EndInvocationKeeps,
       GiveUpKeeps, CrashKeeps, AbortKeeps DEF RuntimeStep
<1>6. ASSUME NEW i \in Incarnations, HandlerStep(i), Derive(i)
      PROVE  RuntimeInv'
    BY <1>1, <1>6, HandleAdmitKeeps, HandleReportKeeps, ReportMisfitKeeps, CorrelateOutcomeKeeps, CommitOutcomeKeeps
       DEF HandlerStep
<1>7. ASSUME NEW i \in Incarnations, DeliverCancel(i) \/ \E c \in reports[i] : ReportControl(i, c)
      PROVE  RuntimeInv'
    BY <1>1, <1>7, DeliverCancelKeeps, ReportControlKeeps
<1> QED BY <1>1, <1>2, <1>3, <1>4, <1>5, <1>6, <1>7 DEF Next

\* The runtime side keeps its inductive invariant, with any number of
\* processes and of overlapping registration passes.
THEOREM RuntimeInvariance == Spec => []RuntimeInv
BY InitEstablishes, StepKeeps, PTL DEF Spec

\* However old, new and repeated registrations interleave, an incarnation that
\* counts as ready has itself answered a probe under its generation.
THEOREM ReadinessIsProven == Spec => []ReadyIsProven
BY RuntimeInvariance, PTL DEF RuntimeInv, Slot

\* Work is admitted for the current owner only.
THEOREM WorkIsFenced == Spec => []SlotIsFenced
BY RuntimeInvariance, PTL DEF RuntimeInv, Slot

\* No two processes work at a time, and one at most gets the workload.
THEOREM WorkIsExclusive == Spec => []ExclusiveWork
<1>1. RuntimeInv => ExclusiveWork
  <2>1. SUFFICES ASSUME RuntimeInv, NEW i \in Incarnations, NEW j \in Incarnations,
                        \/ Working(i) /\ Working(j)
                        \/ admitted[i].kind = Invocation /\ admitted[j].kind = Invocation
                 PROVE  i = j
      BY DEF ExclusiveWork
  <2>2. bound[i] = generation /\ bound[j] = generation
      BY <2>1 DEF RuntimeInv, Work, Working
  <2>3. bound[i] > 0
    <3>1. bound[i] = 0 => ~Working(i) /\ admitted[i].kind # Invocation
        BY ControlAssumption, <2>1 DEF RuntimeInv, Course, NoOp, Working, Unbound, Ended, Finished
    <3> QED BY <2>1, <3>1 DEF RuntimeInv, TypeOK
  <2> QED BY <2>1, <2>2, <2>3, SoleOwner
<1> QED BY <1>1, RuntimeInvariance, PTL

\* A committed outcome is about work that has stopped ...
THEOREM QuietAfterOutcome == Spec => []OutcomeMeansQuiet
BY RuntimeInvariance, PTL DEF RuntimeInv, Verdict

\* ... and came from the attempt's owner, ...
THEOREM OwnersOutcome == Spec => []OutcomeIsOwners
<1>1. RuntimeInv => OutcomeIsOwners
  <2>1. SUFFICES ASSUME RuntimeInv, outcome # None PROVE outcome.by = incarnation
      BY DEF OutcomeIsOwners
  <2>2. /\ outcome.by \in Incarnations
        /\ bound[outcome.by] = generation /\ generation > 0
      BY <2>1 DEF RuntimeInv, TypeOK, Verdict, Matches, Course
  <2>3. incarnation \in Incarnations /\ generation \in 1 .. MaxGeneration
      BY <2>1, <2>2 DEF RuntimeInv, Ownership, TypeOK, ControlTypeOK
  <2>4. Holds(incarnation, generation) /\ Holds(outcome.by, generation)
      BY <2>2 DEF Holds
  <2> QED BY <2>1, <2>2, <2>3, <2>4 DEF RuntimeInv, Ownership
<1> QED BY <1>1, RuntimeInvariance, PTL

\* Evidence that a cancellation reached its boundary is honest.
THEOREM HonestEvidence == Spec => []EvidenceHonest
<1>1. RuntimeInv => EvidenceHonest
  <2>1. SUFFICES ASSUME RuntimeInv, NEW i \in Incarnations, bound[i] > 0,
                        evidence[bound[i]] # None, evidence[bound[i]].status = "achieved"
                 PROVE  ~Working(i)
      BY DEF EvidenceHonest
  <2>2. PICK j \in Incarnations : bound[j] = bound[i] /\ Calm(j)
      BY <2>1 DEF RuntimeInv, TypeOK, Witnessed
  <2>3. j = i
      BY <2>1, <2>2, SoleOwner
  <2> QED BY <2>2, <2>3 DEF Calm, Working, Over, Ended, Finished
<1> QED BY <1>1, RuntimeInvariance, PTL

\* Retrying the committed report converges: the record it was correlated with
\* does not change any more.
THEOREM RetriesConverge == Spec => AckRetryConverges
<1> DEFINE Converges == \A i \in Incarnations :
                           /\ outcome # None /\ outcome.by = i
                           /\ ~superseded
                           /\ pc[i] = "submitting"
                           => pc'[i] # "rejected"
<1>1. RuntimeInv /\ [Next]_vars => [Converges]_vars
  <2>1. SUFFICES ASSUME RuntimeInv, Next, NEW i \in Incarnations, outcome # None,
                        outcome.by = i, ~superseded, pc[i] = "submitting"
                 PROVE  pc'[i] # "rejected"
      OBVIOUS
  <2>2. Matches(i) /\ outcome.what = submission[i].what /\ submission[i] # None
      BY <2>1 DEF RuntimeInv, Verdict, Course
  <2>3. CASE UNCHANGED pc
      BY <2>1, <2>3
  <2>4. ASSUME NEW p \in Passes, PassStep(p)
        PROVE  pc'[i] # "rejected"
    <3>1. \/ UNCHANGED pc
          \/ \E j \in Incarnations : \E place \in {"starting", "finished"} :
                pc' = [pc EXCEPT ![j] = place]
      <4>1. ReplyRegistered(p) \/ ReplyRefused(p) => pass[p].incarnation \in Incarnations
          BY <2>1 DEF RuntimeInv, TypeOK, ControlTypeOK, Idle, ReplyRegistered, ReplyRefused
      <4> QED BY <2>4, <4>1 DEF PassStep, HandleRegister, DeliverProbe, InternalStep,
                 ReplyRegistered, ReplyRefused, LosePass, Move, runtimeVars
    <3> QED BY <2>1, <3>1 DEF RuntimeInv, TypeOK
  <2>5. ASSUME NEW j \in Incarnations, RuntimeStep(j)
        PROVE  pc'[i] # "rejected"
    <3>1. UNCHANGED pc \/ \E place \in Places \ {"rejected"} : pc' = [pc EXCEPT ![j] = place]
        BY <2>5 DEF RuntimeStep, Start, ReadInstruction, AskAdmission, StartPreparation,
               EndPreparation, StartInvocation, EndInvocation, GiveUp, Crash, Abort, Submit, Move,
               Places, Ended, Finished
    <3> QED BY <2>1, <3>1 DEF RuntimeInv, TypeOK
  <2>6. ASSUME NEW j \in Incarnations, HandlerStep(j)
        PROVE  pc'[i] # "rejected"
    <3>1. CASE \E kind \in {Preparation, Invocation} : HandleAdmit(j, kind)
        BY <2>1, <3>1 DEF RuntimeInv, TypeOK, HandleAdmit, NoAnswer, Submit, Move, HoldPlace
    <3>2. CASE HandleReport(j)
        BY <2>1, <3>2 DEF RuntimeInv, TypeOK, HandleReport, NoAnswer, Submit, Move
    <3>3. CASE ReportMisfit(j)
        BY <2>1, <3>3 DEF RuntimeInv, TypeOK, ReportMisfit, Submit, Move
    <3>4. CASE CorrelateOutcome(j)
        BY <2>1, <2>2, <3>4 DEF RuntimeInv, TypeOK, CorrelateOutcome, Answer
    <3>5. CASE CommitOutcome(j)
      <4>1. j = i => CommitDecision(j) = "duplicate"
          BY <2>1, <2>2 DEF CommitDecision
      <4> QED BY <2>1, <3>5, <4>1 DEF RuntimeInv, TypeOK, CommitOutcome, Answer
    <3> QED BY <2>6, <3>1, <3>2, <3>3, <3>4, <3>5 DEF HandlerStep
  <2> QED BY <2>1, <2>3, <2>4, <2>5, <2>6 DEF Next, runtimeVars, DeliverCancel, ReportControl
<1> QED BY <1>1, RuntimeInvariance, PTL DEF Spec, AckRetryConverges
=============================================================================
