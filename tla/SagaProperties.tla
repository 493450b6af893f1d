---------------------------- MODULE SagaProperties ----------------------------
(****************************************************************************)
(* What the orchestrator makes of the steps it is given.                    *)
(****************************************************************************)
EXTENDS Sagas

SagaTypeOK ==
    /\ sagaStatus \in SagaStatus
    /\ sagaPc \in Forward \cup Backward \cup {"fail", "over"}
    /\ index \in SagaStep
    /\ completed \in 0..N
    /\ effects \subseteq SagaStep
    /\ unrecorded \subseteq SagaStep
    /\ kept \subseteq SagaStep

\* A saga shown as completed has executed all of its steps, and one shown as
\* compensated has undone all of them but those that it does not know of and those
\* whose compensation failed (completeSaga, compensationCompleteSaga).
StatusIsTrue ==
    /\ sagaStatus = "COMPLETED" => effects = SagaStep
    /\ sagaStatus = "COMPENSATED" => effects \subseteq unrecorded \cup kept

\* No step is undone before every later one has been, or has been given up
\* ("runs compensation for all previously completed steps in reverse order").
NewestFirst ==
    [][\A i \in effects \ effects' :
           \A k \in effects : k > i => k \in unrecorded \cup kept]_sagaVars

--------------------------------------------------------------------------------

\* The recorded steps whose effect is neither undone nor given up.
Applied == (effects \cap 1..completed) \ kept

Outcome == CASE sagaStatus = "COMPLETED" -> "committed"
             [] sagaStatus = "COMPENSATED" -> "aborted"
             [] sagaStatus \in {"FAILED", "COMPENSATING"} -> "aborting"
             [] OTHER -> "open"

Whole == INSTANCE AllOrNothing WITH applied <- Applied, outcome <- Outcome

\* Of its recorded steps a saga keeps all or, as far as it is not cut off, none.
ImplementsAllOrNothing == Whole!Spec

--------------------------------------------------------------------------------
\* Why these hold.

IsOpen == sagaStatus \in {"STARTED", "IN_PROGRESS"}

\* On the way forward every executed step is recorded, but for the one at hand.
GoingForward ==
    /\ sagaPc \in Forward => IsOpen /\ unrecorded = {} /\ kept = {}
    /\ sagaPc \in {"start", "begin", "execute"} =>
           completed = index - 1 /\ effects = 1..completed
    /\ SagaAt("record") => completed = index - 1 /\ effects = 1..index
    /\ SagaAt("complete") => completed = N /\ effects = 1..completed

\* When a step has failed, all that are recorded are there to be undone.
GivingUp ==
    /\ SagaAt("fail") => IsOpen
    /\ SagaAt("turn") => sagaStatus = "FAILED" /\ completed > 0
    /\ sagaPc \in {"fail", "turn"} =>
           /\ kept = {}
           /\ 1..completed \subseteq effects
           /\ effects \subseteq 1..completed \cup unrecorded

\* The steps that compensation has still to come to.
Left == IF sagaPc \in {"undo", "undoing"} THEN 1..index
        ELSE IF SagaAt("finish") THEN {} ELSE 1..(index - 1)

GoingBack ==
    sagaPc \in Backward \ {"turn"} =>
        /\ sagaStatus = "COMPENSATING"
        /\ index <= completed
        /\ Left \subseteq effects
        /\ effects \subseteq Left \cup unrecorded \cup kept
        /\ Left \cap kept = {}

SagaInv ==
    /\ \A k \in unrecorded : k > completed
    /\ GoingForward
    /\ GivingUp
    /\ GoingBack
    /\ SagaAt("over") => StatusIsTrue

================================================================================
