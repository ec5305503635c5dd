----------------------------- MODULE Scheduler -----------------------------
(***************************************************************************)
(* The cooperative task scheduler of src/runtime/scheduler.rs.             *)
(*                                                                         *)
(* Three kinds of actors take steps:                                       *)
(*   - the embedding application, which owns the Scheduler through &mut    *)
(*     self and therefore acts only between two scheduler calls            *)
(*     (pc = "host");                                                      *)
(*   - the scheduler thread inside tick, run_until_complete,               *)
(*     run_until_stalled or cancel;                                        *)
(*   - host threads that finish futures and call their wakers at any time, *)
(*     between any two scheduler steps.                                    *)
(*                                                                         *)
(* A script is abstracted to the outcome of each of its quanta             *)
(* (VmRunOutcome), and the value of a future to whether the host has       *)
(* produced it.  TaskState::Running is only ever held inside run_task,     *)
(* which no other actor can observe, so it is not a state here.            *)
(***************************************************************************)
EXTENDS Integers, Sequences, FiniteSets

CONSTANTS
    MaxTasks,   \* Scheduler::max_tasks (1024 in the code)
    MaxOps,     \* bound of the model: operations ever registered
    Shared,     \* may a Value::Future be awaited twice, or by two tasks?
    Cancels,    \* does the embedder call cancel()?
    Calls,      \* the driving calls the embedder makes
    Cloned      \* operations whose host clones the waker it is given

ASSUME ConstantsAssumption ==
    /\ MaxTasks \in Nat \ {0}
    /\ MaxOps \in Nat \ {0}
    /\ Shared \in BOOLEAN
    /\ Cancels \in BOOLEAN
    /\ Calls \subseteq {"tick", "complete", "stalled"}
    /\ Cloned \subseteq Nat

TaskIds == 0 .. (MaxTasks - 1)
OpIds   == 0 .. (MaxOps - 1)
NoTask  == -1
NoOp    == -1

\* TaskState.  "Absent" is an id not yet handed out; "UnknownOp" is
\* Failed(E900 "unknown async operation"), kept apart from other failures.
TaskStates == {"Absent", "Ready", "Waiting", "Completed", "Failed",
               "UnknownOp", "Cancelled"}
Terminal   == {"Completed", "Failed", "UnknownOp", "Cancelled"}

VARIABLES
    state,                 \* task id -> ScriptTask::state
    awaiting,              \* the operation of Waiting(op), NoOp otherwise
    suspended,             \* tasks whose Vm::status is Suspended
    children,              \* task id -> ScriptTask::children
    futures,               \* task id -> operations its script may yet await
    ready_queue,
    waiting,               \* op -> the task to resume, NoTask if no entry
    operations,            \* pending futures
    completed_operations,  \* results nobody waited for yet
    queued_operations,
    operation_queue,
    channel,               \* the mpsc channel of the wakers
    next_task_id,
    next_operation_id,
    has_host,              \* Scheduler::host is Some
    pc,                    \* where the scheduler thread is
    call,                  \* the driving call in progress
    target,                \* the argument of run_until_complete
    progressed,            \* the local of tick()
    cancelling,            \* activations of the recursive cancel() still open
    future,                \* op -> what the host made of its future
    armed,                 \* ops whose future holds a waker
    waking,                \* ops finished by a host thread yet to call wake()
    cloned                 \* ops of which the host holds a clone of a waker

taskVars == <<state, awaiting, suspended, children, futures, ready_queue, next_task_id>>
opVars   == <<waiting, operations, completed_operations, queued_operations,
              operation_queue, next_operation_id>>
ctrlVars == <<pc, call, target, progressed, cancelling>>
hostVars == <<future, armed, waking, cloned>>
vars     == <<taskVars, opVars, ctrlVars, hostVars, channel, has_host>>

Live  == 0 .. (next_task_id - 1)
Known == 0 .. (next_operation_id - 1)
Members(q) == {q[i] : i \in 1 .. Len(q)}

-----------------------------------------------------------------------------
(* Queues.                                                                 *)

\* Mutant of Without: cancel() forgets ready_queue.
WithoutNothing(q, t) == q

\* VecDeque::retain(|queued| *queued != t), for a queue that holds t at most
\* once (NoDuplicates below).
Without(q, t) ==
    IF t \in Members(q)
    THEN LET i == CHOOSE i \in 1 .. Len(q) : q[i] = t
         IN  [j \in 1 .. (Len(q) - 1) |-> IF j < i THEN q[j] ELSE q[j + 1]]
    ELSE q

\* Mutant of EnqueueOperation: no look at queued_operations.
EnqueueAgain(op) ==
    IF op \in operations
    THEN /\ queued_operations' = queued_operations \cup {op}
         /\ operation_queue' = Append(operation_queue, op)
    ELSE UNCHANGED <<queued_operations, operation_queue>>

\* enqueue_operation
EnqueueOperation(op) ==
    IF op \in operations /\ op \notin queued_operations
    THEN /\ queued_operations' = queued_operations \cup {op}
         /\ operation_queue' = Append(operation_queue, op)
    ELSE UNCHANGED <<queued_operations, operation_queue>>

\* register_boxed: a new id is never in operations, so it is always queued.
RegisterBoxed(op) ==
    /\ op = next_operation_id
    /\ op < MaxOps
    /\ next_operation_id' = op + 1
    /\ operations' = operations \cup {op}
    /\ queued_operations' = queued_operations \cup {op}
    /\ operation_queue' = Append(operation_queue, op)
    /\ future' = [future EXCEPT ![op] = "pending"]

-----------------------------------------------------------------------------
Init ==
    /\ state = [t \in TaskIds |-> "Absent"]
    /\ awaiting = [t \in TaskIds |-> NoOp]
    /\ suspended = {}
    /\ children = [t \in TaskIds |-> {}]
    /\ futures = [t \in TaskIds |-> {}]
    /\ ready_queue = <<>>
    /\ waiting = [op \in OpIds |-> NoTask]
    /\ operations = {}
    /\ completed_operations = {}
    /\ queued_operations = {}
    /\ operation_queue = <<>>
    /\ channel = <<>>
    /\ next_task_id = 0
    /\ next_operation_id = 0
    /\ has_host = FALSE
    /\ pc = "host"
    /\ call = "none"
    /\ target = NoTask
    /\ progressed = FALSE
    /\ cancelling = {}
    /\ future = [op \in OpIds |-> "absent"]
    /\ armed = {}
    /\ waking = {}
    /\ cloned = {}

-----------------------------------------------------------------------------
(* The embedder, between two scheduler calls.                              *)

\* Tasks are never removed, so tasks.len() is next_task_id.
BelowTaskLimit == next_task_id < MaxTasks

\* spawn and spawn_child; both errors leave the scheduler as it was.
SpawnChild(parent) ==
    /\ pc = "host"
    /\ BelowTaskLimit
    /\ parent \in Live \cup {NoTask}
    /\ next_task_id' = next_task_id + 1
    /\ state' = [state EXCEPT ![next_task_id] = "Ready"]
    /\ children' = [t \in TaskIds |->
           IF t = parent THEN children[t] \cup {next_task_id} ELSE children[t]]
    /\ ready_queue' = Append(ready_queue, next_task_id)
    /\ UNCHANGED <<awaiting, suspended, futures, opVars, ctrlVars, hostVars, channel,
                   has_host>>

\* set_host
SetHost ==
    /\ pc = "host"
    /\ ~has_host
    /\ has_host' = TRUE
    /\ UNCHANGED <<taskVars, opVars, ctrlVars, hostVars, channel>>

\* register, and the embedder handing the Future value to scripts through
\* their globals: to one task at most unless futures are Shared.
Register(op, holders) ==
    /\ pc = "host"
    /\ \A t \in holders : state[t] \in {"Ready", "Waiting"}
    /\ ~Shared => Cardinality(holders) <= 1
    /\ RegisterBoxed(op)
    /\ futures' = [t \in TaskIds |->
           IF t \in holders THEN futures[t] \cup {op} ELSE futures[t]]
    /\ UNCHANGED <<state, awaiting, suspended, children, ready_queue,
                   next_task_id, waiting, completed_operations, ctrlVars, armed, waking,
                   cloned, channel, has_host>>

\* tick() and run_until_stalled() start with a tick, run_until_complete(t)
\* with the test of its loop, which returns at once for a terminal task.  Ids
\* that this scheduler has not given out are left out: with one of those
\* run_until_complete never returns.
CallTick ==
    /\ pc = "host"
    /\ "tick" \in Calls
    /\ pc' = "tick"
    /\ call' = "tick"
    /\ UNCHANGED <<target, progressed, cancelling, taskVars, opVars, hostVars,
                   channel, has_host>>

CallRunUntilStalled ==
    /\ pc = "host"
    /\ "stalled" \in Calls
    /\ pc' = "tick"
    /\ call' = "stalled"
    /\ UNCHANGED <<target, progressed, cancelling, taskVars, opVars, hostVars,
                   channel, has_host>>

CallRunUntilComplete(t) ==
    /\ pc = "host"
    /\ "complete" \in Calls
    /\ state[t] \in {"Ready", "Waiting"}
    /\ pc' = "tick"
    /\ call' = "complete"
    /\ target' = t
    /\ UNCHANGED <<progressed, cancelling, taskVars, opVars, hostVars, channel,
                   has_host>>

-----------------------------------------------------------------------------
(* cancel(): a depth-first recursion over the children, one task per step. *)
(* The children come out of a HashSet, so siblings go in any order.        *)

\* Mutant of Descendants: no recursion.
OnlyItself(t) == {t}

Descendants(t) ==
    {d \in TaskIds :
        \A S \in SUBSET TaskIds :
            (t \in S /\ \A p \in S : children[p] \subseteq S) => d \in S}

CallCancel(t) ==
    /\ pc = "host"
    /\ Cancels
    /\ t \in Live
    /\ pc' = "cancel"
    /\ cancelling' = Descendants(t)
    /\ UNCHANGED <<call, target, progressed, taskVars, opVars, hostVars,
                   channel, has_host>>

\* Mutants of DropOperation: one of the removals is missing.
DropKeepingWaiter(op) ==
    /\ operations' = operations \ {op}
    /\ completed_operations' = completed_operations \ {op}
    /\ queued_operations' = queued_operations \ {op}
    /\ UNCHANGED waiting

DropKeepingFuture(op) ==
    /\ waiting' = [waiting EXCEPT ![op] = NoTask]
    /\ completed_operations' = completed_operations \ {op}
    /\ queued_operations' = queued_operations \ {op}
    /\ UNCHANGED operations

\* What cancel() drops of a waiting task's operation: everything but its
\* entry of operation_queue.
DropOperation(op) ==
    /\ waiting' = [waiting EXCEPT ![op] = NoTask]
    /\ operations' = operations \ {op}
    /\ completed_operations' = completed_operations \ {op}
    /\ queued_operations' = queued_operations \ {op}

\* The tail of one activation, its children's having returned.
CancelTask(t) ==
    /\ pc = "cancel"
    /\ t \in cancelling
    /\ children[t] \cap cancelling = {}
    /\ IF state[t] = "Waiting"
       THEN DropOperation(awaiting[t])
       ELSE UNCHANGED <<waiting, operations, completed_operations,
                        queued_operations>>
    /\ ready_queue' = Without(ready_queue, t)
    /\ state' = [state EXCEPT ![t] = "Cancelled"]
    /\ awaiting' = [awaiting EXCEPT ![t] = NoOp]
    /\ suspended' = suspended \ {t}
    /\ futures' = [futures EXCEPT ![t] = {}]
    /\ cancelling' = cancelling \ {t}
    /\ pc' = IF cancelling' = {} THEN "host" ELSE "cancel"
    /\ UNCHANGED <<children, next_task_id, operation_queue,
                   next_operation_id, call, target, progressed, hostVars,
                   channel, has_host>>
-----------------------------------------------------------------------------
(* The scheduler thread inside tick().                                     *)

\* collect_wakes: the try_recv loop, one received wake per step.  It ends, and
\* the poll follows, when the channel is empty.
CollectWake ==
    /\ pc = "tick"
    /\ channel # <<>>
    /\ EnqueueOperation(Head(channel))
    /\ channel' = Tail(channel)
    /\ UNCHANGED <<taskVars, waiting, operations, completed_operations,
                   next_operation_id, ctrlVars, hostVars, has_host>>

PollReturns(progress) ==
    /\ pc = "tick"
    /\ channel = <<>>
    /\ progressed' = progress
    /\ pc' = "run"
    /\ UNCHANGED <<call, target, cancelling, children, next_task_id,
                   next_operation_id, channel, has_host>>

\* Mutant of PopOperation: queued_operations.remove is forgotten.
PopStillQueued(op) ==
    /\ operation_queue # <<>>
    /\ op = Head(operation_queue)
    /\ operation_queue' = Tail(operation_queue)
    /\ UNCHANGED queued_operations

PopOperation(op) ==
    /\ operation_queue # <<>>
    /\ op = Head(operation_queue)
    /\ operation_queue' = Tail(operation_queue)
    /\ queued_operations' = queued_operations \ {op}

\* resume_await, resume_host_call and complete_command of the VM: the value
\* is pushed or the error caught; or the error is uncaught; or the push
\* exceeds the stack limit, which returns before Vm::status is written.
\* futs is what the script may await afterwards.  resume_await refuses a VM
\* that is not suspended, which WaitingTableSound shows not to happen.
Resume(t, queue, futs) ==
    /\ awaiting' = [awaiting EXCEPT ![t] = NoOp]
    /\ \/ /\ state' = [state EXCEPT ![t] = "Ready"]
          /\ suspended' = suspended \ {t}
          /\ ready_queue' = Append(queue, t)
          /\ futures' = [futures EXCEPT ![t] = futs]
       \/ /\ state' = [state EXCEPT ![t] = "Failed"]
          /\ suspended' \in {suspended, suspended \ {t}}
          /\ ready_queue' = queue
          /\ futures' = [futures EXCEPT ![t] = {}]

\* Mutant of PollStale: the entry is looked at and left at the head.
PollStaleInPlace(op) ==
    /\ operation_queue # <<>>
    /\ op = Head(operation_queue)
    /\ op \notin operations
    /\ PollReturns(FALSE)
    /\ UNCHANGED <<state, awaiting, suspended, futures, ready_queue, waiting,
                   operations, completed_operations, queued_operations,
                   operation_queue, hostVars>>

\* poll_one_operation with nothing queued, or with an entry that cancel()
\* left behind: both return Ok(false).
PollNothing ==
    /\ operation_queue = <<>>
    /\ PollReturns(FALSE)
    /\ UNCHANGED <<state, awaiting, suspended, futures, ready_queue, waiting,
                   operations, completed_operations, queued_operations,
                   operation_queue, hostVars>>

PollStale(op) ==
    /\ PopOperation(op)
    /\ op \notin operations
    /\ PollReturns(FALSE)
    /\ UNCHANGED <<state, awaiting, suspended, futures, ready_queue, waiting,
                   operations, completed_operations, hostVars>>

\* Poll::Pending: the future keeps the waker, of which the host may make a
\* clone (at most one at a time: a bound of the model).
PollPending(op) ==
    /\ PopOperation(op)
    /\ op \in operations
    /\ future[op] = "pending"
    /\ PollReturns(TRUE)
    /\ armed' = armed \cup {op}
    /\ cloned' = cloned \cup ({op} \cap Cloned)
    /\ UNCHANGED <<state, awaiting, suspended, futures, ready_queue, waiting,
                   operations, completed_operations, future, waking>>

\* Mutant of PollsReady: a wake is taken for a result.
PollsAlways(op) == TRUE
PollsReady(op) == future[op] = "done"

KeepResult(op) == completed_operations' = completed_operations \cup {op}

\* Poll::Ready: the result goes to the waiting task, or is kept for later.
PollReady(op) ==
    /\ PopOperation(op)
    /\ op \in operations
    /\ PollsReady(op)
    /\ PollReturns(TRUE)
    /\ operations' = operations \ {op}
    /\ waiting' = [waiting EXCEPT ![op] = NoTask]
    /\ IF waiting[op] # NoTask
       THEN /\ Resume(waiting[op], ready_queue, futures[waiting[op]])
            /\ UNCHANGED completed_operations
       ELSE /\ KeepResult(op)
            /\ UNCHANGED <<state, awaiting, suspended, futures, ready_queue>>
    /\ UNCHANGED hostVars

-----------------------------------------------------------------------------
(* run_task on the task popped from ready_queue, one action per outcome of *)
(* its quantum.  Its early return for a task that is not Ready is dead     *)
(* code, which ReadyQueueExact shows.                                      *)

\* tick() returns to its caller, and the loop around it goes on or ends:
\* run_until_stalled when nothing progressed, run_until_complete when the
\* target is terminal, which blocks in recv when nothing progressed.
TickReturns(progress) ==
    /\ pc' = CASE call = "complete" /\ ~progress -> "recv"
               [] call = "complete" /\ progress /\ state'[target] \notin Terminal -> "tick"
               [] call = "stalled" /\ progress -> "tick"
               [] OTHER -> "host"
    /\ call' = IF pc' = "host" THEN "none" ELSE call
    /\ target' = IF pc' = "host" THEN NoTask ELSE target
    /\ progressed' = FALSE
    /\ UNCHANGED cancelling

RunNothing ==
    /\ pc = "run"
    /\ ready_queue = <<>>
    /\ UNCHANGED <<taskVars, opVars, hostVars, channel, has_host>>
    /\ TickReturns(progressed)

RunQuantum(t) ==
    /\ pc = "run"
    /\ ready_queue # <<>>
    /\ t = Head(ready_queue)
    /\ state[t] = "Ready"
    /\ UNCHANGED <<children, next_task_id, channel, has_host>>

\* The task waits for op, which is pending.
Suspend(t, op) ==
    /\ state' = [state EXCEPT ![t] = "Waiting"]
    /\ awaiting' = [awaiting EXCEPT ![t] = op]
    /\ suspended' = suspended \cup {t}
    /\ waiting' = [waiting EXCEPT ![op] = t]
    /\ ready_queue' = Tail(ready_queue)

\* The task ends in a terminal state.
End(t, outcome) ==
    /\ state' = [state EXCEPT ![t] = outcome]
    /\ futures' = [futures EXCEPT ![t] = {}]
    /\ ready_queue' = Tail(ready_queue)
    /\ UNCHANGED <<awaiting, suspended>>

\* Mutant of Requeue: push_front.
RequeueFront(t) == ready_queue' = <<t>> \o Tail(ready_queue)
Requeue(t) == ready_queue' = Append(Tail(ready_queue), t)

\* VmRunOutcome::Yielded
Yield(t) ==
    /\ RunQuantum(t)
    /\ Requeue(t)
    /\ UNCHANGED <<state, awaiting, suspended, futures, opVars, hostVars>>
    /\ TickReturns(TRUE)

\* VmRunOutcome::Completed, and an error that no handler catches.
Finish(t, outcome) ==
    /\ RunQuantum(t)
    /\ outcome \in {"Completed", "Failed"}
    /\ End(t, outcome)
    /\ UNCHANGED <<opVars, hostVars>>
    /\ TickReturns(TRUE)

\* VmRunOutcome::HostCall and OptionCall, dispatched: the VM is handed the
\* Future of a new operation and stays Ready.
HostCall(t, op) ==
    /\ RunQuantum(t)
    /\ has_host
    /\ RegisterBoxed(op)
    /\ Resume(t, Tail(ready_queue), futures[t] \cup {op})
    /\ UNCHANGED <<waiting, completed_operations, armed, waking, cloned>>
    /\ TickReturns(TRUE)

\* HostCall, OptionCall or CommandCall that is refused (no host, unknown
\* name, capability ...), or a command the scheduler executes at once
\* (:command, :delcommand, registrations): nothing is registered.
CallAnswered(t) ==
    /\ RunQuantum(t)
    /\ Resume(t, Tail(ready_queue), futures[t])
    /\ UNCHANGED <<opVars, hostVars>>
    /\ TickReturns(TRUE)

\* VmRunOutcome::CommandCall, dispatched: the VM is suspended until the
\* command's future resolves, and never sees a Future value.
CommandCall(t, op) ==
    /\ RunQuantum(t)
    /\ has_host
    /\ RegisterBoxed(op)
    /\ Suspend(t, op)
    /\ UNCHANGED <<futures, completed_operations, armed, waking, cloned>>
    /\ TickReturns(TRUE)

\* VmRunOutcome::Waiting: `await` of a future the VM holds.  A script that
\* is not Shared drops the future it awaited.
Awaits(t, op) ==
    /\ RunQuantum(t)
    /\ op \in futures[t]
    /\ UNCHANGED <<operations, queued_operations, operation_queue,
                   next_operation_id, hostVars>>

StillHeld(t, op) == IF Shared THEN futures[t] ELSE futures[t] \ {op}

AwaitCompleted(t, op) ==
    /\ Awaits(t, op)
    /\ op \in completed_operations
    /\ completed_operations' = completed_operations \ {op}
    /\ Resume(t, Tail(ready_queue), StillHeld(t, op))
    /\ UNCHANGED waiting
    /\ TickReturns(TRUE)

AwaitPending(t, op) ==
    /\ Awaits(t, op)
    /\ op \in operations \ completed_operations
    /\ Suspend(t, op)
    /\ futures' = [futures EXCEPT ![t] = StillHeld(t, op)]
    /\ UNCHANGED completed_operations
    /\ TickReturns(TRUE)

AwaitUnknown(t, op) ==
    /\ Awaits(t, op)
    /\ op \notin operations \cup completed_operations
    /\ End(t, "UnknownOp")
    /\ UNCHANGED <<waiting, completed_operations>>
    /\ TickReturns(TRUE)

-----------------------------------------------------------------------------
(* run_until_complete when tick() made no progress: recv() blocks until a  *)
(* wake arrives; the target is still not terminal.                         *)

Recv ==
    /\ pc = "recv"
    /\ channel # <<>>
    /\ EnqueueOperation(Head(channel))
    /\ channel' = Tail(channel)
    /\ pc' = "tick"
    /\ UNCHANGED <<call, target, progressed, cancelling, taskVars, waiting,
                   operations, completed_operations, next_operation_id,
                   hostVars, has_host>>

-----------------------------------------------------------------------------
(* Host threads.  They keep running when the scheduler has dropped the     *)
(* future.  A future gives its waker away when it uses it, and is armed    *)
(* again by the next poll.                                                 *)

HostFinish(op) ==
    /\ future[op] = "pending"
    /\ future' = [future EXCEPT ![op] = "done"]
    /\ waking' = IF op \in armed THEN waking \cup {op} ELSE waking
    /\ armed' = armed \ {op}
    /\ UNCHANGED <<taskVars, opVars, ctrlVars, cloned, channel, has_host>>

\* OperationWaker::wake
HostWake(op) ==
    /\ op \in waking
    /\ waking' = waking \ {op}
    /\ channel' = Append(channel, op)
    /\ UNCHANGED <<taskVars, opVars, ctrlVars, future, armed, cloned, has_host>>

\* A wake that announces progress, not the result.
HostWakeEarly(op) ==
    /\ op \in armed
    /\ armed' = armed \ {op}
    /\ channel' = Append(channel, op)
    /\ UNCHANGED <<taskVars, opVars, ctrlVars, future, waking, cloned, has_host>>

\* A clone of the waker is called as well, at any time: before the waker,
\* after it, or when the scheduler has dropped the operation.
HostWakeClone(op) ==
    /\ op \in cloned
    /\ cloned' = cloned \ {op}
    /\ channel' = Append(channel, op)
    /\ UNCHANGED <<taskVars, opVars, ctrlVars, future, armed, waking, has_host>>

-----------------------------------------------------------------------------
Embedder ==
    \/ \E parent \in TaskIds \cup {NoTask} : SpawnChild(parent)
    \/ SetHost
    \/ \E op \in OpIds, holders \in SUBSET TaskIds : Register(op, holders)
    \/ CallTick
    \/ CallRunUntilStalled
    \/ \E t \in TaskIds : CallRunUntilComplete(t) \/ CallCancel(t)

RunTask(t) ==
    \/ Yield(t)
    \/ \E outcome \in {"Completed", "Failed"} : Finish(t, outcome)
    \/ CallAnswered(t)
    \/ \E op \in OpIds :
          \/ HostCall(t, op)
          \/ CommandCall(t, op)
          \/ AwaitCompleted(t, op)
          \/ AwaitPending(t, op)
          \/ AwaitUnknown(t, op)

SchedulerThread ==
    \/ CollectWake
    \/ PollNothing
    \/ \E op \in OpIds : PollStale(op) \/ PollPending(op) \/ PollReady(op)
    \/ RunNothing
    \/ \E t \in TaskIds : RunTask(t) \/ CancelTask(t)
    \/ Recv

HostThreads ==
    \E op \in OpIds :
        HostFinish(op) \/ HostWake(op) \/ HostWakeEarly(op) \/ HostWakeClone(op)

Next == Embedder \/ SchedulerThread \/ HostThreads

Spec == Init /\ [][Next]_vars

\* The scheduler thread runs whenever it can, a host thread that finished a
\* future gets to call its waker, and the embedder's event loop ticks again
\* and again.  No host future is assumed to finish.
Fairness ==
    /\ WF_vars(SchedulerThread)
    /\ \A op \in OpIds : WF_vars(HostWake(op))
    /\ SF_vars(CallTick)

FairSpec == Spec /\ Fairness
-----------------------------------------------------------------------------
(* Invariants.                                                             *)

\* Every variable has its type (the fields of Scheduler and ScriptTask).
TypeOK ==
    /\ state \in [TaskIds -> TaskStates]
    /\ awaiting \in [TaskIds -> OpIds \cup {NoOp}]
    /\ suspended \subseteq TaskIds
    /\ children \in [TaskIds -> SUBSET TaskIds]
    /\ futures \in [TaskIds -> SUBSET OpIds]
    /\ ready_queue \in Seq(TaskIds)
    /\ waiting \in [OpIds -> TaskIds \cup {NoTask}]
    /\ operations \subseteq OpIds
    /\ completed_operations \subseteq OpIds
    /\ queued_operations \subseteq OpIds
    /\ operation_queue \in Seq(OpIds)
    /\ channel \in Seq(OpIds)
    /\ next_task_id \in 0 .. MaxTasks
    /\ next_operation_id \in 0 .. MaxOps
    /\ has_host \in BOOLEAN
    /\ pc \in {"host", "tick", "run", "recv", "cancel"}
    /\ call \in {"none", "tick", "complete", "stalled"}
    /\ target \in TaskIds \cup {NoTask}
    /\ progressed \in BOOLEAN
    /\ cancelling \subseteq TaskIds
    /\ future \in [OpIds -> {"absent", "pending", "done"}]
    /\ armed \subseteq OpIds
    /\ waking \subseteq OpIds
    /\ cloned \subseteq OpIds

\* No element of q appears twice.
NoDuplicates(q) == \A i, j \in 1 .. Len(q) : q[i] = q[j] => i = j

\* ready_queue holds each Ready task exactly once and nothing else: a task is
\* neither forgotten nor run twice per round, whatever resumes, yields and
\* cancellations came before (scheduler.rs pushes in five places and retains
\* in one).
ReadyQueueExact ==
    /\ NoDuplicates(ready_queue)
    /\ Members(ready_queue) = {t \in TaskIds : state[t] = "Ready"}

\* An entry of the waiting table names a task that is waiting on exactly that
\* operation, with its VM suspended and the operation pending: a result is
\* never pushed on the stack of a VM that is not at its `await`.
WaitingTableSound ==
    \A op \in OpIds :
        waiting[op] # NoTask =>
            /\ state[waiting[op]] = "Waiting"
            /\ awaiting[waiting[op]] = op
            /\ waiting[op] \in suspended
            /\ op \in operations

\* queued_operations is exactly what is both queued and pending, and nothing
\* is queued twice, although cancel() cleans only one of the two.
OperationQueueExact ==
    /\ NoDuplicates(operation_queue)
    /\ queued_operations = Members(operation_queue) \cap operations

\* No wake is lost: a pending operation is queued for a poll, or a wake for it
\* is in the channel or about to be sent, or its future still holds the waker
\* of its last poll.
NoLostWake ==
    \A op \in operations :
        \/ op \in Members(operation_queue)
        \/ op \in Members(channel)
        \/ op \in waking
        \/ op \in armed /\ future[op] = "pending"

\* Strengthenings the inductive invariant needs: ids are handed out in order,
\* and what is still to be cancelled is closed under children, but for those
\* that are cancelled already.
TaskIdsInUse ==
    /\ \A t \in TaskIds : state[t] = "Absent" <=> t >= next_task_id
    /\ \A t \in TaskIds : children[t] \subseteq Live
    /\ cancelling \subseteq Live

OpIdsInUse == operations \cup Members(operation_queue) \subseteq Known

CancelClosed ==
    /\ pc # "cancel" => cancelling = {}
    /\ \A t \in cancelling : \A c \in children[t] :
          c \in cancelling \/ state[c] = "Cancelled"

\* The inductive invariant behind the theorems of SchedulerProofs.
IInv ==
    /\ TypeOK
    /\ TaskIdsInUse
    /\ ReadyQueueExact
    /\ WaitingTableSound
    /\ OpIdsInUse
    /\ OperationQueueExact
    /\ NoLostWake
    /\ CancelClosed

SomeoneCancelled == \E t \in TaskIds : state[t] = "Cancelled"

\* When run_until_complete blocks in recv, the operation its target awaits is
\* pending, and its wake is still to come: the call cannot hang on a future
\* that is finished.  The one exception is the hang of BlocksOnlyForFutureWake
\* below, and a task must have been cancelled for that.
BlockedTargetIsWoken ==
    pc = "recv" =>
        LET op == awaiting[target]
        IN  /\ op \in operations
            /\ \/ op \in waking \cup Members(channel)
               \/ op \in armed /\ future[op] = "pending"
               \/ op \in queued_operations /\ SomeoneCancelled

\* "Blocks only waiting for a future wake when every VM is suspended": the
\* operation the target awaits is not already due for a poll.
BlocksOnlyForFutureWake ==
    pc = "recv" => awaiting[target] \notin queued_operations

-----------------------------------------------------------------------------
(* Action properties.                                                      *)

\* A cancelled task takes its whole subtree with it, children first.
CancelCascades ==
    [][\A t \in TaskIds :
          (state[t] # "Cancelled" /\ state'[t] = "Cancelled") =>
              \A c \in children[t] : state[c] = "Cancelled"]_vars

\* A task leaves Waiting only because its future finished or because it is
\* cancelled, and a terminal task is never run again: only a cancellation
\* may still relabel it.
OnlyResultsResume ==
    [][\A t \in TaskIds :
          /\ state[t] = "Waiting" /\ state'[t] # state[t] =>
                 \/ future[awaiting[t]] = "done"
                 \/ state'[t] = "Cancelled"
          /\ state[t] \in Terminal => state'[t] \in {state[t], "Cancelled"}]_vars

\* Task t stands somewhere before u in q.
Before(q, t, u) == \E i, j \in 1 .. Len(q) : i < j /\ q[i] = t /\ q[j] = u

\* The step runs a quantum of t, the head of the queue.
RunsQuantum(t) ==
    /\ pc = "run" /\ pc' # "run"
    /\ ready_queue # <<>> /\ t = Head(ready_queue)

\* The ready tasks take turns: the one that had its quantum, and each that is
\* spawned, resumed or answered, goes behind all that were ready already, and
\* these keep their order, even when cancel() takes some from their midst.
RoundRobin ==
    [][\A t, u \in TaskIds :
          /\ {t, u} \subseteq Members(ready_queue')
          /\ t \in Members(ready_queue) /\ ~RunsQuantum(t)
          /\ Before(ready_queue, t, u) \/ u \notin Members(ready_queue) \/ RunsQuantum(u)
          => Before(ready_queue', t, u)]_vars

-----------------------------------------------------------------------------
(* Liveness.                                                               *)

\* The hang that BlocksOnlyForFutureWake reports: a cancellation left an id in
\* operation_queue, and the call blocks although an operation is due.
BlockedOnStaleId == pc = "recv" /\ operation_queue # <<>> /\ SomeoneCancelled

\* A task whose awaited future is finished does not wait for ever, whatever
\* other operations are queued, cancelled or woken in vain and however often:
\* also not while a call blocks, unless that call hangs as said above.
FinishedAwaitResumes ==
    \/ <>[]BlockedOnStaleId
    \/ \A t \in TaskIds :
           (state[t] = "Waiting" /\ future[awaiting[t]] = "done") ~> (state[t] # "Waiting")

\* No script starves another: a ready task gets to the head of the queue, and
\* no call blocks while one is ready.
ReadyTaskGetsItsTurn ==
    \A t \in TaskIds :
        (state[t] = "Ready")
            ~> (state[t] # "Ready" \/ (ready_queue # <<>> /\ Head(ready_queue) = t))
=============================================================================
