----------------------------- MODULE SettleOnce -----------------------------
(***************************************************************************)
(* What a request tracker promises its callers: a tracked call gets a      *)
(* promise that settles at most once, resolved or rejected, and keeps that *)
(* outcome for ever.                                                       *)
(***************************************************************************)
CONSTANT Calls

VARIABLE promise

States == {"unused", "pending", "resolved", "rejected"}

SInit == promise = [c \in Calls |-> "unused"]

\* track(): a fresh promise, possibly rejected at once
Open(c, s) ==
    /\ promise[c] = "unused"
    /\ s \in {"pending", "rejected"}
    /\ promise' = [promise EXCEPT ![c] = s]

\* some set of pending promises settles, each its own way
Settle(S) ==
    /\ \A c \in S : promise[c] = "pending" /\ promise'[c] \in {"resolved", "rejected"}
    /\ promise' \in [Calls -> States]
    /\ \A c \in Calls \ S : promise'[c] = promise[c]

SNext ==
    \/ \E c \in Calls, s \in States : Open(c, s)
    \/ \E S \in SUBSET Calls : Settle(S)

SSpec == SInit /\ [][SNext]_promise
=============================================================================
