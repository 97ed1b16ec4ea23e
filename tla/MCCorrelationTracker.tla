---------------------- MODULE MCCorrelationTracker ----------------------
(* Three calls over two correlation ids. *)
EXTENDS CorrelationTracker
=============================================================================
