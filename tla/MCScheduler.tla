---------------------------- MODULE MCScheduler ----------------------------
(***************************************************************************)
(* Scheduler under TLC, with the refinement mapping onto TaskLifecycle.    *)
(* The .cfg files give the constants.                                      *)
(***************************************************************************)
EXTENDS Scheduler

\* What is left of an operation: its future, its stored result, or nothing.
ResultOf(op) ==
    IF op \notin Known THEN "none"
    ELSE IF op \in operations /\ future[op] = "pending" THEN "pending"
    ELSE IF op \in operations \cup completed_operations THEN "ready"
    ELSE "gone"

Results == [op \in OpIds |-> ResultOf(op)]

Lifecycle == INSTANCE TaskLifecycle WITH
    Tasks <- TaskIds, Ops <- OpIds, NoOperation <- NoOp,
    status <- state, awaited <- awaiting,
    result <- Results

\* Every step of the scheduler is one of the lifecycle's, or invisible to it:
\* scripts that await each future once get exactly the promise.
ImplementsLifecycle == Lifecycle!Spec
=============================================================================
