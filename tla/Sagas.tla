--------------------------------- MODULE Sagas ---------------------------------
(****************************************************************************)
(* executeSaga and runCompensation of the saga orchestrator, for one saga   *)
(* of N steps.  Every write to the database and every call of a step is a   *)
(* step of the model, and each may fail; a failed write in a catch clause   *)
(* ends executeSaga with an exception.  No saga is resumed:                 *)
(* getPendingSagas has no caller.                                           *)
(****************************************************************************)
EXTENDS Integers

CONSTANT N      \* number of steps

ASSUME SagaAssumption == N \in Nat \ {0}

VARIABLES
    sagaStatus,     \* the saga's row
    sagaPc,         \* where executeSaga is
    index,          \* the step it is at
    completed,      \* how many steps completedSteps holds
    effects,        \* the steps that have been executed and not undone
    unrecorded,     \* history: steps executed that never got into completedSteps
    kept            \* history: steps whose compensation failed

sagaVars == <<sagaStatus, sagaPc, index, completed, effects, unrecorded, kept>>

SagaStep == 1..N

SagaStatus == {"STARTED", "IN_PROGRESS", "COMPLETED", "FAILED", "COMPENSATING", "COMPENSATED"}

Forward == {"start", "begin", "execute", "record", "complete"}
Backward == {"turn", "undo", "undoing", "undone", "notUndone", "finish"}

SagaInit ==
    /\ sagaStatus = "STARTED"
    /\ sagaPc = "start"
    /\ index = 1
    /\ completed = 0
    /\ effects = {}
    /\ unrecorded = {}
    /\ kept = {}

--------------------------------------------------------------------------------

SagaAt(step) == sagaPc = step

\* A write that succeeds, after which only the status may have changed.
SagaMoves(status, next) ==
    /\ sagaStatus' = status
    /\ sagaPc' = next
    /\ UNCHANGED <<effects, unrecorded, kept>>

StartSaga ==
    /\ SagaAt("start")
    /\ SagaMoves("STARTED", "begin")
    /\ UNCHANGED <<index, completed>>

BeginStep ==
    /\ SagaAt("begin")
    /\ SagaMoves("IN_PROGRESS", "execute")
    /\ UNCHANGED <<index, completed>>

ExecuteStep ==
    /\ SagaAt("execute")
    /\ sagaPc' = "record"
    /\ effects' = effects \cup {index}
    /\ UNCHANGED <<sagaStatus, index, completed, unrecorded, kept>>

RecordStep ==
    /\ SagaAt("record")
    /\ completed' = index
    /\ index' = IF index = N THEN index ELSE index + 1
    /\ SagaMoves(sagaStatus, IF index = N THEN "complete" ELSE "begin")

\* A step throws, which may nevertheless have had its effect, or a write around it
\* fails: that the step has been executed is then known to nobody.
StepFails ==
    /\ sagaPc \in {"begin", "execute", "record"}
    /\ \/ effects' = effects
       \/ SagaAt("execute") /\ effects' = effects \cup {index}
    /\ unrecorded' = unrecorded \cup (effects' \cap {index})
    /\ sagaPc' = "fail"
    /\ UNCHANGED <<sagaStatus, index, completed, kept>>

\* Mutant: a saga is completed once its last step has failed.
CompleteSaga_Anyway ==
    /\ SagaAt("complete") \/ (SagaAt("fail") /\ index = N)
    /\ SagaMoves("COMPLETED", "over")
    /\ UNCHANGED <<index, completed>>

CompleteSaga ==
    /\ SagaAt("complete")
    /\ SagaMoves("COMPLETED", "over")
    /\ UNCHANGED <<index, completed>>

\* The catch clause of executeSaga, and the early return of runCompensation.
FailSaga ==
    /\ SagaAt("fail")
    /\ SagaMoves("FAILED", IF completed = 0 THEN "over" ELSE "turn")
    /\ UNCHANGED <<index, completed>>

\* Mutant: compensation starts with the oldest step.
Compensate_OldestFirst ==
    /\ SagaAt("turn")
    /\ index' = 1
    /\ SagaMoves("COMPENSATING", "undo")
    /\ UNCHANGED completed

Compensate ==
    /\ SagaAt("turn")
    /\ index' = completed
    /\ SagaMoves("COMPENSATING", "undo")
    /\ UNCHANGED completed

BeginUndo ==
    /\ SagaAt("undo")
    /\ SagaMoves(sagaStatus, "undoing")
    /\ UNCHANGED <<index, completed>>

UndoStep ==
    /\ SagaAt("undoing")
    /\ sagaPc' = "undone"
    /\ effects' = effects \ {index}
    /\ UNCHANGED <<sagaStatus, index, completed, unrecorded, kept>>

\* A write before the compensation fails, or the compensation: the step is kept.
UndoFails ==
    /\ sagaPc \in {"undo", "undoing"}
    /\ sagaPc' = "notUndone"
    /\ kept' = kept \cup {index}
    /\ UNCHANGED <<sagaStatus, index, completed, effects, unrecorded>>

\* Only the write after it fails.
RecordUndoFails ==
    /\ SagaAt("undone")
    /\ sagaPc' = "notUndone"
    /\ UNCHANGED <<sagaStatus, index, completed, effects, unrecorded, kept>>

\* The event of either outcome is written, and the loop goes on.
NextUndo ==
    /\ sagaPc \in {"undone", "notUndone"}
    /\ index' = IF index = 1 THEN index ELSE index - 1
    /\ SagaMoves(sagaStatus, IF index = 1 THEN "finish" ELSE "undo")
    /\ UNCHANGED completed

FinishCompensation ==
    /\ SagaAt("finish")
    /\ SagaMoves("COMPENSATED", "over")
    /\ UNCHANGED <<index, completed>>

\* A write outside the try blocks fails, and executeSaga ends with an exception that
\* nothing catches; or the process dies, anywhere.
BreakOff ==
    /\ sagaPc # "over"
    /\ sagaPc' = "over"
    /\ UNCHANGED <<sagaStatus, index, completed, effects, unrecorded, kept>>

--------------------------------------------------------------------------------

SagaNext ==
    \/ StartSaga \/ BeginStep \/ ExecuteStep \/ RecordStep \/ StepFails \/ CompleteSaga
    \/ FailSaga \/ Compensate \/ BeginUndo \/ UndoStep \/ UndoFails \/ RecordUndoFails
    \/ NextUndo \/ FinishCompensation \/ BreakOff

SagaSpec == SagaInit /\ [][SagaNext]_sagaVars

================================================================================
