---------------------- MODULE MCExecutionAttempts ----------------------
(* Two attempts of one execution, two controllers, two generations.  The  *)
(* specification and its properties treat all of them alike.              *)
EXTENDS ExecutionAttempts, TLC

Symmetry == {p @@ q @@ r @@ s : p \in Permutations(Attempts), q \in Permutations(Controllers),
                                r \in Permutations(Refs), s \in Permutations(Outcomes)}
=============================================================================
