-------------------------- MODULE MCBusLifecycle --------------------------
(* Instances of BusLifecycle for TLC: transports a1 and a2 share the name   *)
(* "a", b1 has the name "b".                                                *)
EXTENDS BusLifecycle, TLC

CONSTANTS a1, a2, b1

MCOneName == {a1, a2}
MCTwoNames == {a1, b1}
MCNameOfOneName == (a1 :> "a") @@ (a2 :> "a")
MCNameOfTwoNames == (a1 :> "a") @@ (b1 :> "b")

=============================================================================
