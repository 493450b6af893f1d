------------------------------- MODULE Handlers -------------------------------
(****************************************************************************)
(* What the models of the domain, mailbox, certificate and reminder         *)
(* services share: handlers that advance from one await to the next.  A     *)
(* handler is a record with the field pc, the statement it is at.           *)
(****************************************************************************)
EXTENDS Integers

CONSTANTS
    Workers,    \* request handlers and jobs of one service that can be in progress at once
    None,       \* null
    MaxFaults   \* bound on failed calls, failed queries and handlers that break off

ASSUME FaultsAssumption == MaxFaults \in Nat

At(handler, w, step) == handler[w].pc = step

Goto(handler, w, step) == [handler EXCEPT ![w].pc = step]

Busy(handler) == {w \in Workers : handler[w].pc # "idle"}

================================================================================
