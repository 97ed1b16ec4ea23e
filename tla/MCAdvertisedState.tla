------------------------- MODULE MCAdvertisedState -------------------------
(* Topologies for TLC: a line a-b-c. *)
EXTENDS AdvertisedState, TLC

Line3Links == {<<"a", "b">>, <<"b", "a">>, <<"b", "c">>, <<"c", "b">>}
Line3Via == [n \in {"a", "b", "c"} |->
              [k \in {"a", "b", "c"} |-> IF n = "b" THEN k ELSE IF n = k THEN n ELSE "b"]]
TowardsC == {<<"b", "c">>}
=============================================================================
