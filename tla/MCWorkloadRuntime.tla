------------------------- MODULE MCWorkloadRuntime -------------------------
(* Symmetry and bounds for WorkloadRuntime. *)
EXTENDS WorkloadRuntime, TLC

Symmetry == {i @@ p : i \in Permutations(Incarnations), p \in Permutations(Passes)}

\* Each loss alone makes the attempt unreachable for good; histories go on
\* after one of them, not after both.
OneLoss == ~(superseded /\ terminated)

\* Two registrations are handled at a time, also one of a runtime that has been
\* replaced, until a runtime goes to work or the attempt is cancelled or lost.
\* From then on it is one at a time, of the runtime that owns the attempt.  A
\* history ends where the loss of the attempt finds a registration without an
\* operation, which could only be refused.
PassesOverlapEarly ==
    \/ /\ gate /\ ~terminated /\ operations <= 2
       /\ \A i \in Incarnations : asked[i] = {} /\ ~aborted[i] /\ pc[i] # "submitting"
    \/ /\ \A p, q \in Passes : p # q => Idle \in {pass[p], pass[q]}
       /\ \A p \in Passes : pass[p] = Idle \/ pass[p].generation = generation
       /\ ready => op.kind # Probe
       /\ superseded \/ terminated =>
             \A p \in Passes : pass[p] = Idle \/ pass[p].op = op.id
=============================================================================
