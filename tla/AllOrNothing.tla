----------------------------- MODULE AllOrNothing -----------------------------
(****************************************************************************)
(* What a saga promises of its recorded steps: they are done in order, and  *)
(* either all of them are or, newest first, they are taken back.            *)
(****************************************************************************)
EXTENDS Integers

CONSTANT N      \* number of steps

VARIABLES
    applied,    \* the steps that have been done and not been given up
    outcome     \* what has become of the whole

Init ==
    /\ applied = {}
    /\ outcome = "open"

Apply ==
    /\ outcome = "open"
    /\ \E k \in 1..N : applied = 1..(k - 1) /\ applied' = 1..k
    /\ UNCHANGED outcome

Commit ==
    /\ outcome = "open"
    /\ applied = 1..N
    /\ outcome' = "committed"
    /\ UNCHANGED applied

Abort ==
    /\ outcome = "open"
    /\ outcome' = "aborting"
    /\ UNCHANGED applied

Revoke ==
    /\ outcome = "aborting"
    /\ \E k \in 1..N : applied = 1..k /\ applied' = 1..(k - 1)
    /\ UNCHANGED outcome

Aborted ==
    /\ outcome = "aborting"
    /\ applied = {}
    /\ outcome' = "aborted"
    /\ UNCHANGED applied

Next == Apply \/ Commit \/ Abort \/ Revoke \/ Aborted

Spec == Init /\ [][Next]_<<applied, outcome>>

================================================================================
