------------------------------ MODULE PaidServers ------------------------------
(****************************************************************************)
(* What the approval of a request and the guard of its provisioning job     *)
(* promise together: a server is paid for only once its request has been    *)
(* approved, and no request is ever paid for twice.                         *)
(****************************************************************************)
CONSTANTS Accounts, Servers

VARIABLES
    stage,      \* how far the request for each account has got
    bought      \* the servers that have ever been paid for each account

vars == <<stage, bought>>

Init ==
    /\ stage = [a \in Accounts |-> "none"]
    /\ bought = [a \in Accounts |-> {}]

Request(a) ==
    /\ stage[a] = "none"
    /\ stage' = [stage EXCEPT ![a] = "requested"]
    /\ UNCHANGED bought

Approve(a) ==
    /\ stage[a] = "requested"
    /\ stage' = [stage EXCEPT ![a] = "approved"]
    /\ UNCHANGED bought

Buy(a, s) ==
    /\ stage[a] = "approved"
    /\ bought[a] = {}
    /\ \A b \in Accounts : s \notin bought[b]
    /\ bought' = [bought EXCEPT ![a] = {s}]
    /\ UNCHANGED stage

Next == \E a \in Accounts : Request(a) \/ Approve(a) \/ \E s \in Servers : Buy(a, s)

Spec == Init /\ [][Next]_vars

================================================================================
