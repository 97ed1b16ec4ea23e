----------------------- MODULE MCCrossBusDispatch -----------------------
(* An instance of CrossBusDispatch for TLC: a line of three buses whose    *)
(* middle one is a relay or, when it issues the request, a hub.            *)
EXTENDS CrossBusDispatch, TLC

\* a - b - c
Line3 == ("a" :> [k \in Nodes |-> "b"])
         @@ ("b" :> [k \in Nodes |-> IF k = "c" THEN "c" ELSE "a"])
         @@ ("c" :> [k \in Nodes |-> "b"])

AlphabeticRank == [n \in Nodes |-> IF n = "a" THEN 1 ELSE IF n = "b" THEN 2 ELSE 3]
=============================================================================
