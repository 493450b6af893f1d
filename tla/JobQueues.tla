------------------------------- MODULE JobQueues -------------------------------
(****************************************************************************)
(* The jobs of one Bull queue (email, ssl) that have not ended.  A job that *)
(* fails is tried again, Attempts times in all; its slot is free once it    *)
(* has ended.                                                               *)
(****************************************************************************)
EXTENDS Handlers, FiniteSets

CONSTANTS
    Jobs,       \* slots for jobs: a bound on the jobs that can be queued at once
    Attempts    \* how often a job is tried

ASSUME JobsAssumption ==
    /\ None \notin Jobs
    /\ Attempts \in Nat \ {0}

NoJob == [state |-> "none", kind |-> None, on |-> None, tries |-> 0]

QueuedJob(kind, on) == [state |-> "waiting", kind |-> kind, on |-> on, tries |-> 0]

IsLastTry(job) == job.tries + 1 >= Attempts

AfterFailure(job) == IF IsLastTry(job) THEN NoJob
                     ELSE [job EXCEPT !.state = "waiting", !.tries = @ + 1]

Free(queue) == {j \in Jobs : queue[j].state = "none"}

\* Every handler in progress can still queue a job, and so can one more.
Room(queue, handler) == Cardinality(Free(queue)) > Cardinality(Busy(handler))

================================================================================
