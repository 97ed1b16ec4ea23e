--------------------------- MODULE AttemptLedger ---------------------------
(***************************************************************************)
(* What the attempt repository promises the owner of one execution: the    *)
(* newest attempt is the current one, each attempt gets at most one        *)
(* verdict and keeps it, a workload's outcome becomes the verdict of the   *)
(* current attempt only, and permission to start work, once withdrawn, is  *)
(* never given back.                                                       *)
(***************************************************************************)
CONSTANTS Attempts, Outcomes, None

VARIABLES
    current,  \* the attempt that may answer for the execution, or None
    verdict,  \* per attempt, its kind and the outcome when there is one
    mayStart  \* attempts on which work may still be started

ledgerVars == <<current, verdict, mayStart>>

Failures == {"abandoned", "infrastructure-failure"}

Without(kind) == [kind |-> kind, outcome |-> None]

LInit ==
    /\ current = None
    /\ verdict = [a \in Attempts |-> Without("absent")]
    /\ mayStart = {}

\* a new attempt replaces the current one, which may start nothing any more
Supersede(a) ==
    /\ verdict[a] = Without("absent")
    /\ verdict' = [verdict EXCEPT ![a] = Without("open")]
    /\ current' = a
    /\ mayStart' = {a}

\* the workload of the current attempt has answered
Answer(a, v) ==
    /\ current = a
    /\ verdict[a] = Without("open")
    /\ verdict' = [verdict EXCEPT ![a] = [kind |-> "outcome", outcome |-> v]]
    /\ mayStart' = mayStart \ {a}
    /\ UNCHANGED current

\* an attempt, current or not, ends without an answer
Fail(a, f) ==
    /\ verdict[a] = Without("open")
    /\ verdict' = [verdict EXCEPT ![a] = Without(f)]
    /\ mayStart' = mayStart \ {a}
    /\ UNCHANGED current

\* a cancellation
Withdraw(S) ==
    /\ mayStart' = mayStart \ S
    /\ UNCHANGED <<current, verdict>>

LNext ==
    \/ \E a \in Attempts : Supersede(a)
    \/ \E a \in Attempts, v \in Outcomes : Answer(a, v)
    \/ \E a \in Attempts, f \in Failures : Fail(a, f)
    \/ \E S \in SUBSET Attempts : Withdraw(S)

LSpec == LInit /\ [][LNext]_ledgerVars
=============================================================================
