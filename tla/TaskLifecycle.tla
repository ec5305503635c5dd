--------------------------- MODULE TaskLifecycle ---------------------------
(***************************************************************************)
(* What the scheduler promises its embedder about tasks and futures,       *)
(* without its queues, its wakers or the polling: a result is produced     *)
(* once, goes to the one task that awaits it, and is gone afterwards; a    *)
(* cancelled task takes the operation it awaits with it; a task that has   *)
(* ended does not run again.                                               *)
(***************************************************************************)
CONSTANTS
    Tasks,
    Ops,
    NoOperation   \* not in Ops

VARIABLES
    status,    \* task -> what the embedder sees of TaskState
    awaited,   \* task -> the operation it waits for
    result     \* op -> "none" before it is registered, "gone" after use

vars == <<status, awaited, result>>

Init ==
    /\ status = [t \in Tasks |-> "Absent"]
    /\ awaited = [t \in Tasks |-> NoOperation]
    /\ result = [op \in Ops |-> "none"]

Spawn(t) ==
    /\ status[t] = "Absent"
    /\ status' = [status EXCEPT ![t] = "Ready"]
    /\ UNCHANGED <<awaited, result>>

Register(op) ==
    /\ result[op] = "none"
    /\ result' = [result EXCEPT ![op] = "pending"]
    /\ UNCHANGED <<status, awaited>>

\* The host finishes the future.
Resolve(op) ==
    /\ result[op] = "pending"
    /\ result' = [result EXCEPT ![op] = "ready"]
    /\ UNCHANGED <<status, awaited>>

\* A quantum ends the task, or not visibly.
End(t, outcome) ==
    /\ status[t] = "Ready"
    /\ outcome \in {"Completed", "Failed"}
    /\ status' = [status EXCEPT ![t] = outcome]
    /\ UNCHANGED <<awaited, result>>

\* A quantum calls the host: the task goes on, waits, or fails.
Call(t, op) ==
    /\ status[t] = "Ready"
    /\ result[op] = "none"
    /\ result' = [result EXCEPT ![op] = "pending"]
    /\ \/ /\ status' \in {status, [status EXCEPT ![t] = "Failed"]}
          /\ UNCHANGED awaited
       \/ /\ status' = [status EXCEPT ![t] = "Waiting"]
          /\ awaited' = [awaited EXCEPT ![t] = op]

\* One task at a time waits for an operation.
Await(t, op) ==
    /\ status[t] = "Ready"
    /\ result[op] \in {"pending", "ready"}
    /\ \A u \in Tasks : awaited[u] # op
    /\ status' = [status EXCEPT ![t] = "Waiting"]
    /\ awaited' = [awaited EXCEPT ![t] = op]
    /\ UNCHANGED result

\* The result is handed over: to the task that waits for it, or to one that
\* awaits it now while nobody waits for it.
Deliver(t, op) ==
    /\ result[op] = "ready"
    /\ \/ status[t] = "Waiting" /\ awaited[t] = op
       \/ status[t] = "Ready" /\ \A u \in Tasks : awaited[u] # op
    /\ result' = [result EXCEPT ![op] = "gone"]
    /\ \E s \in {"Ready", "Failed"} : status' = [status EXCEPT ![t] = s]
    /\ awaited' = [awaited EXCEPT ![t] = NoOperation]

Cancel(t) ==
    /\ status[t] # "Absent"
    /\ status' = [status EXCEPT ![t] = "Cancelled"]
    /\ awaited' = [awaited EXCEPT ![t] = NoOperation]
    /\ result' = [op \in Ops |-> IF awaited[t] = op THEN "gone" ELSE result[op]]

Next ==
    \/ \E t \in Tasks : Spawn(t) \/ Cancel(t)
    \/ \E t \in Tasks, outcome \in {"Completed", "Failed"} : End(t, outcome)
    \/ \E op \in Ops : Register(op) \/ Resolve(op)
    \/ \E t \in Tasks, op \in Ops : Call(t, op) \/ Await(t, op) \/ Deliver(t, op)

Spec == Init /\ [][Next]_vars
=============================================================================
