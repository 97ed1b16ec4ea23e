-------------------------- MODULE MCWorkflowOwner --------------------------
(* Instances of WorkflowOwner: the constants are plain numbers and sets, so  *)
(* the configurations give them directly.  The submissions of a worker are   *)
(* interchangeable, but runs that check liveness may not use the symmetry.   *)
EXTENDS WorkflowOwner, TLC

\* gate responses are interchangeable (safety runs only)
ResponsesAlike == Permutations(Responses)

\* Responses overlap until a cancel request is made; one that is overtaken by a
\* resume finds out before the resumed task has created its attempt.
ResponsesOverlap ==
    /\ \/ cancel = "idle" /\ ~requested
       \/ \A r, q \in Responses : r # q => NoResponse \in {resume[r], resume[q]}
    /\ \A r \in Responses : resume[r].pc = "reading" => ~Exists(MaxAttempts)

\* Of two faults the second is the restore after a failed resume.
SecondIsRestore ==
    faults' > 1 /\ faults' > faults =>
        \E r \in Responses : resume[r].pc = "restoring" /\ resume'[r] = NoResponse
=============================================================================
