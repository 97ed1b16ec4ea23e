------------------------- MODULE MCRequestDispatch -------------------------
(* Instances of RequestDispatch for TLC. *)
EXTENDS RequestDispatch
=============================================================================
