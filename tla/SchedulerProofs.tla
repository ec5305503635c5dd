-------------------------- MODULE SchedulerProofs --------------------------
(***************************************************************************)
(* Proofs about Scheduler, for every number of tasks and operations and    *)
(* every way the embedder may use it.                                      *)
(***************************************************************************)
EXTENDS Scheduler, TLAPS

-----------------------------------------------------------------------------
(* Queues.                                                                 *)

\* push_back adds one member, and no duplicate of what was not there.
LEMMA AppendFacts ==
    ASSUME NEW S, NEW q \in Seq(S), NEW x \in S
    PROVE  /\ Append(q, x) \in Seq(S)
           /\ Members(Append(q, x)) = Members(q) \cup {x}
           /\ (NoDuplicates(q) /\ x \notin Members(q)) => NoDuplicates(Append(q, x))
<1>1. Append(q, x) \in Seq(S) /\ Len(Append(q, x)) = Len(q) + 1
  OBVIOUS
<1>2. \A i \in 1 .. Len(q) : Append(q, x)[i] = q[i]
  OBVIOUS
<1>3. Append(q, x)[Len(q) + 1] = x /\ Len(q) \in Nat
  OBVIOUS
<1>4. Members(Append(q, x)) = Members(q) \cup {x}
  BY <1>1, <1>2, <1>3 DEF Members
<1>5. (NoDuplicates(q) /\ x \notin Members(q)) => NoDuplicates(Append(q, x))
  BY <1>1, <1>2, <1>3 DEF Members, NoDuplicates
<1> QED BY <1>1, <1>4, <1>5

\* pop_front takes the head, which was there once if there are no duplicates.
LEMMA TailFacts ==
    ASSUME NEW S, NEW q \in Seq(S), q # <<>>
    PROVE  /\ Head(q) \in S
           /\ Tail(q) \in Seq(S)
           /\ Members(q) = Members(Tail(q)) \cup {Head(q)}
           /\ NoDuplicates(q) => NoDuplicates(Tail(q)) /\ Head(q) \notin Members(Tail(q))
<1>1. /\ Head(q) \in S /\ Tail(q) \in Seq(S)
      /\ Len(q) \in Nat \ {0} /\ Len(Tail(q)) = Len(q) - 1 /\ Head(q) = q[1]
  OBVIOUS
<1>2. \A i \in 1 .. (Len(q) - 1) : Tail(q)[i] = q[i + 1]
  OBVIOUS
<1>3. Members(q) = Members(Tail(q)) \cup {Head(q)}
  <2>1. ASSUME NEW i \in 1 .. Len(q)
        PROVE  q[i] \in Members(Tail(q)) \cup {Head(q)}
    <3>1. CASE i = 1
      BY <1>1, <3>1
    <3>2. CASE i # 1
      <4>1. i - 1 \in 1 .. Len(Tail(q)) /\ Tail(q)[i - 1] = q[i]
        BY <1>1, <1>2, <3>2
      <4> QED BY <4>1 DEF Members
    <3> QED BY <3>1, <3>2
  <2>2. ASSUME NEW i \in 1 .. Len(Tail(q))
        PROVE  Tail(q)[i] \in Members(q)
    <3>1. i + 1 \in 1 .. Len(q) /\ Tail(q)[i] = q[i + 1]
      BY <1>1, <1>2
    <3> QED BY <3>1 DEF Members
  <2>3. Head(q) \in Members(q)
    BY <1>1 DEF Members
  <2> QED BY <2>1, <2>2, <2>3 DEF Members
<1>4. ASSUME NoDuplicates(q)
      PROVE  NoDuplicates(Tail(q)) /\ Head(q) \notin Members(Tail(q))
  BY <1>1, <1>2, <1>4 DEF NoDuplicates, Members
<1> QED BY <1>1, <1>3, <1>4

\* retain drops exactly the task it is given.
LEMMA WithoutFacts ==
    ASSUME NEW S, NEW q \in Seq(S), NEW t
    PROVE  /\ Without(q, t) \in Seq(S)
           /\ NoDuplicates(q) => /\ NoDuplicates(Without(q, t))
                                 /\ Members(Without(q, t)) = Members(q) \ {t}
<1>1. CASE t \notin Members(q)
  BY <1>1 DEF Without
<1>2. CASE t \in Members(q)
  <2> DEFINE k == CHOOSE i \in 1 .. Len(q) : q[i] = t
             r == [j \in 1 .. (Len(q) - 1) |-> IF j < k THEN q[j] ELSE q[j + 1]]
  <2>1. k \in 1 .. Len(q) /\ q[k] = t
    BY <1>2 DEF Members
  <2>2. Without(q, t) = r
    BY <1>2 DEF Without
  <2>3. Len(q) \in Nat /\ Len(q) - 1 \in Nat
    BY <2>1
  <2> HIDE DEF k
  <2>4. r \in Seq(S) /\ Len(r) = Len(q) - 1
    <3>1. \A j \in 1 .. (Len(q) - 1) : r[j] \in S
      BY <2>1, <2>3
    <3> QED BY <3>1, <2>3
  <2>5. ASSUME NoDuplicates(q)
        PROVE  NoDuplicates(r)
    BY <2>1, <2>3, <2>4, <2>5 DEF NoDuplicates
  <2>6. ASSUME NoDuplicates(q)
        PROVE  Members(r) = Members(q) \ {t}
    <3>1. ASSUME NEW j \in 1 .. Len(r)
          PROVE  r[j] \in Members(q) \ {t}
      BY <2>1, <2>3, <2>4, <2>6 DEF NoDuplicates, Members
    <3>2. ASSUME NEW i \in 1 .. Len(q), q[i] # t
          PROVE  q[i] \in Members(r)
      <4>1. CASE i < k
        <5>1. i \in 1 .. Len(r) /\ r[i] = q[i]
          BY <2>1, <2>3, <2>4, <4>1
        <5> QED BY <5>1 DEF Members
      <4>2. CASE i > k
        <5>1. i - 1 \in 1 .. Len(r) /\ r[i - 1] = q[i]
          BY <2>1, <2>3, <2>4, <4>2
        <5> QED BY <5>1 DEF Members
      <4> QED BY <2>1, <2>3, <3>2, <4>1, <4>2
    <3> QED BY <3>1, <3>2 DEF Members
  <2> HIDE DEF r
  <2> QED BY <2>2, <2>4, <2>5, <2>6
<1> QED BY <1>1, <1>2
-----------------------------------------------------------------------------
(* Type correctness.                                                       *)

\* What the constants' assumption says of the ids.
LEMMA IdFacts ==
    /\ MaxTasks \in Nat \ {0} /\ MaxOps \in Nat \ {0}
    /\ TaskIds \subseteq Nat /\ NoTask \notin TaskIds
    /\ OpIds \subseteq Nat /\ NoOp \notin OpIds
BY ConstantsAssumption DEF TaskIds, OpIds, NoTask, NoOp

LEMMA TypeInit == Init => TypeOK
<1>1. 0 \in 0 .. MaxTasks /\ 0 \in 0 .. MaxOps
  BY IdFacts
<1>2. <<>> \in Seq(TaskIds) /\ <<>> \in Seq(OpIds)
  OBVIOUS
<1>3. ASSUME Init
      PROVE  /\ state \in [TaskIds -> TaskStates]
             /\ awaiting \in [TaskIds -> OpIds \cup {NoOp}]
             /\ children \in [TaskIds -> SUBSET TaskIds]
             /\ futures \in [TaskIds -> SUBSET OpIds]
             /\ waiting \in [OpIds -> TaskIds \cup {NoTask}]
             /\ future \in [OpIds -> {"absent", "pending", "done"}]
  BY <1>3 DEF Init, TaskStates
<1>4. ASSUME Init
      PROVE  /\ suspended \subseteq TaskIds /\ cancelling \subseteq TaskIds
             /\ operations \subseteq OpIds /\ completed_operations \subseteq OpIds
             /\ queued_operations \subseteq OpIds
             /\ armed \subseteq OpIds /\ waking \subseteq OpIds /\ cloned \subseteq OpIds
             /\ target \in TaskIds \cup {NoTask}
             /\ has_host \in BOOLEAN /\ progressed \in BOOLEAN
             /\ pc = "host" /\ call = "none"
  BY <1>4 DEF Init
<1>5. ASSUME Init
      PROVE  /\ ready_queue \in Seq(TaskIds)
             /\ operation_queue \in Seq(OpIds) /\ channel \in Seq(OpIds)
             /\ next_task_id \in 0 .. MaxTasks /\ next_operation_id \in 0 .. MaxOps
  BY <1>1, <1>2, <1>5 DEF Init
<1> QED BY <1>3, <1>4, <1>5 DEF TypeOK

\* Registering an operation keeps the operation tables typed.
LEMMA RegisterType ==
    ASSUME TypeOK, NEW op \in OpIds, RegisterBoxed(op)
    PROVE  /\ next_operation_id' \in 0 .. MaxOps
           /\ operations' \subseteq OpIds
           /\ queued_operations' \subseteq OpIds
           /\ operation_queue' \in Seq(OpIds)
           /\ future' \in [OpIds -> {"absent", "pending", "done"}]
<1>1. operation_queue' \in Seq(OpIds)
  BY AppendFacts DEF TypeOK, RegisterBoxed
<1> QED BY <1>1, ConstantsAssumption DEF TypeOK, RegisterBoxed, OpIds

LEMMA EnqueueType ==
    ASSUME TypeOK, NEW op \in OpIds, EnqueueOperation(op)
    PROVE  queued_operations' \subseteq OpIds /\ operation_queue' \in Seq(OpIds)
<1>1. Append(operation_queue, op) \in Seq(OpIds)
  BY AppendFacts DEF TypeOK
<1> QED BY <1>1 DEF TypeOK, EnqueueOperation

LEMMA ResumeType ==
    ASSUME TypeOK, NEW t \in TaskIds, NEW queue \in Seq(TaskIds),
           NEW futs \in SUBSET OpIds, Resume(t, queue, futs)
    PROVE  /\ state' \in [TaskIds -> TaskStates]
           /\ awaiting' \in [TaskIds -> OpIds \cup {NoOp}]
           /\ suspended' \subseteq TaskIds
           /\ futures' \in [TaskIds -> SUBSET OpIds]
           /\ ready_queue' \in Seq(TaskIds)
<1>1. Append(queue, t) \in Seq(TaskIds)
  BY AppendFacts
<1> QED BY <1>1 DEF TypeOK, Resume, TaskStates

LEMMA SuspendType ==
    ASSUME TypeOK, NEW t \in TaskIds, NEW op \in OpIds, ready_queue # <<>>, Suspend(t, op)
    PROVE  /\ state' \in [TaskIds -> TaskStates]
           /\ awaiting' \in [TaskIds -> OpIds \cup {NoOp}]
           /\ suspended' \subseteq TaskIds
           /\ waiting' \in [OpIds -> TaskIds \cup {NoTask}]
           /\ ready_queue' \in Seq(TaskIds)
<1>1. Tail(ready_queue) \in Seq(TaskIds)
  BY TailFacts DEF TypeOK
<1> QED BY <1>1 DEF TypeOK, Suspend, TaskStates

\* Where a tick may return to.
LEMMA TickReturnsType ==
    ASSUME TypeOK, NEW progress, TickReturns(progress)
    PROVE  /\ pc' \in {"host", "tick", "recv"}
           /\ call' \in {"none", "tick", "complete", "stalled"}
           /\ target' \in TaskIds \cup {NoTask}
           /\ progressed' = FALSE
           /\ cancelling' = cancelling
BY DEF TypeOK, TickReturns

\* Every step keeps every variable in its type.
LEMMA TypeNext == TypeOK /\ [Next]_vars => TypeOK'
<1> SUFFICES ASSUME TypeOK, [Next]_vars PROVE TypeOK'
  OBVIOUS
<1> USE IdFacts
<1>1. ASSUME NEW parent \in TaskIds \cup {NoTask}, SpawnChild(parent)
      PROVE  TypeOK'
  <2>1. next_task_id \in TaskIds /\ next_task_id' \in 0 .. MaxTasks
    BY <1>1 DEF SpawnChild, BelowTaskLimit, TypeOK, TaskIds
  <2>2. ready_queue' \in Seq(TaskIds)
    BY <1>1, <2>1, AppendFacts DEF SpawnChild, TypeOK
  <2> QED BY <1>1, <2>1, <2>2 DEF SpawnChild, TypeOK, TaskStates, opVars, ctrlVars, hostVars
<1>2. CASE SetHost
  BY <1>2 DEF SetHost, TypeOK, taskVars, opVars, ctrlVars, hostVars
<1>3. ASSUME NEW op \in OpIds, NEW holders \in SUBSET TaskIds, Register(op, holders)
      PROVE  TypeOK'
  <2>1. futures' \in [TaskIds -> SUBSET OpIds]
    BY <1>3 DEF Register, TypeOK
  <2> QED BY <1>3, <2>1, RegisterType DEF Register, TypeOK, ctrlVars
<1>4. CASE CallTick
  BY <1>4 DEF CallTick, TypeOK, taskVars, opVars, hostVars
<1>5. CASE CallRunUntilStalled
  BY <1>5 DEF CallRunUntilStalled, TypeOK, taskVars, opVars, hostVars
<1>6. ASSUME NEW t \in TaskIds, CallRunUntilComplete(t)
      PROVE  TypeOK'
  BY <1>6 DEF CallRunUntilComplete, TypeOK, taskVars, opVars, hostVars
<1>7. ASSUME NEW t \in TaskIds, CallCancel(t)
      PROVE  TypeOK'
  BY <1>7 DEF CallCancel, Descendants, TypeOK, taskVars, opVars, hostVars
<1>8. ASSUME NEW t \in TaskIds, CancelTask(t)
      PROVE  TypeOK'
  <2>1. ready_queue' \in Seq(TaskIds)
    BY <1>8, WithoutFacts DEF CancelTask, TypeOK
  <2>2. /\ waiting' \in [OpIds -> TaskIds \cup {NoTask}]
        /\ operations' \subseteq OpIds /\ completed_operations' \subseteq OpIds
        /\ queued_operations' \subseteq OpIds
    BY <1>8 DEF CancelTask, DropOperation, TypeOK
  <2>3. pc' \in {"host", "cancel"} /\ cancelling' \subseteq TaskIds
    BY <1>8 DEF CancelTask, TypeOK
  <2> QED BY <1>8, <2>1, <2>2, <2>3 DEF CancelTask, TypeOK, TaskStates, hostVars
<1>9. CASE CollectWake
  <2>1. Head(channel) \in OpIds /\ Tail(channel) \in Seq(OpIds)
    BY <1>9, TailFacts DEF CollectWake, TypeOK
  <2> QED BY <1>9, <2>1, EnqueueType DEF CollectWake, TypeOK, taskVars, ctrlVars, hostVars
<1>10. CASE Recv
  <2>1. Head(channel) \in OpIds /\ Tail(channel) \in Seq(OpIds)
    BY <1>10, TailFacts DEF Recv, TypeOK
  <2> QED BY <1>10, <2>1, EnqueueType DEF Recv, TypeOK, taskVars, hostVars
<1>11. CASE PollNothing
  BY <1>11 DEF PollNothing, PollReturns, TypeOK, hostVars
<1>12. ASSUME NEW op \in OpIds, PopOperation(op)
       PROVE  queued_operations' \subseteq OpIds /\ operation_queue' \in Seq(OpIds)
  BY <1>12, TailFacts DEF PopOperation, TypeOK
<1>13. ASSUME NEW op \in OpIds, PollStale(op)
       PROVE  TypeOK'
  BY <1>12, <1>13 DEF PollStale, PollReturns, TypeOK, hostVars
<1>14. ASSUME NEW op \in OpIds, PollPending(op)
       PROVE  TypeOK'
  BY <1>12, <1>14 DEF PollPending, PollReturns, TypeOK
<1>15. ASSUME NEW op \in OpIds, PollReady(op)
       PROVE  TypeOK'
  <2>1. waiting' \in [OpIds -> TaskIds \cup {NoTask}] /\ operations' \subseteq OpIds
    BY <1>15 DEF PollReady, TypeOK
  <2>2. CASE waiting[op] # NoTask
    <3>1. waiting[op] \in TaskIds /\ futures[waiting[op]] \in SUBSET OpIds
      BY <2>2 DEF TypeOK
    <3>2. Resume(waiting[op], ready_queue, futures[waiting[op]])
      BY <1>15, <2>2 DEF PollReady
    <3> QED BY <1>12, <1>15, <2>1, <2>2, <3>1, <3>2, ResumeType
        DEF PollReady, PollReturns, TypeOK, hostVars
  <2>3. CASE waiting[op] = NoTask
    <3>1. KeepResult(op) /\ UNCHANGED <<state, awaiting, suspended, futures, ready_queue>>
      BY <1>15, <2>3 DEF PollReady
    <3>2. completed_operations' \subseteq OpIds
      BY <3>1 DEF KeepResult, TypeOK
    <3> QED BY <1>12, <1>15, <2>1, <3>1, <3>2 DEF PollReady, PollReturns, TypeOK, hostVars
  <2> QED BY <2>2, <2>3
<1>16. CASE RunNothing
  BY <1>16, TickReturnsType DEF RunNothing, TypeOK, taskVars, opVars, hostVars
<1>17. ASSUME NEW t \in TaskIds, RunTask(t)
       PROVE  TypeOK'
  <2>1. ASSUME RunQuantum(t)
        PROVE  Tail(ready_queue) \in Seq(TaskIds) /\ ready_queue # <<>>
    BY <2>1, TailFacts DEF RunQuantum, TypeOK
  <2>2. CASE Yield(t)
    <3>1. ready_queue' \in Seq(TaskIds)
      BY <2>1, <2>2, AppendFacts DEF Yield, Requeue
    <3> QED BY <2>2, <3>1, TickReturnsType DEF Yield, RunQuantum, TypeOK, opVars, hostVars
  <2>3. ASSUME NEW outcome \in {"Completed", "Failed"}, Finish(t, outcome)
        PROVE  TypeOK'
    BY <2>1, <2>3, TickReturnsType
       DEF Finish, End, RunQuantum, TypeOK, TaskStates, opVars, hostVars
  <2>4. CASE CallAnswered(t)
    <3>1. futures[t] \in SUBSET OpIds
      BY DEF TypeOK
    <3> QED BY <2>1, <2>4, <3>1, ResumeType, TickReturnsType
        DEF CallAnswered, RunQuantum, TypeOK, opVars, hostVars
  <2>5. ASSUME NEW op \in OpIds, HostCall(t, op)
        PROVE  TypeOK'
    <3>1. futures[t] \cup {op} \in SUBSET OpIds
      BY DEF TypeOK
    <3> QED BY <2>1, <2>5, <3>1, RegisterType, ResumeType, TickReturnsType
        DEF HostCall, RunQuantum, TypeOK
  <2>6. ASSUME NEW op \in OpIds, CommandCall(t, op)
        PROVE  TypeOK'
    BY <2>1, <2>6, RegisterType, SuspendType, TickReturnsType
       DEF CommandCall, RunQuantum, TypeOK
  <2>7. ASSUME NEW op \in OpIds
        PROVE  StillHeld(t, op) \in SUBSET OpIds
    BY DEF StillHeld, TypeOK
  <2>8. ASSUME NEW op \in OpIds, AwaitCompleted(t, op)
        PROVE  TypeOK'
    BY <2>1, <2>7, <2>8, ResumeType, TickReturnsType
       DEF AwaitCompleted, Awaits, RunQuantum, TypeOK, hostVars
  <2>9. ASSUME NEW op \in OpIds, AwaitPending(t, op)
        PROVE  TypeOK'
    BY <2>1, <2>7, <2>9, SuspendType, TickReturnsType
       DEF AwaitPending, Awaits, RunQuantum, TypeOK, hostVars
  <2>10. ASSUME NEW op \in OpIds, AwaitUnknown(t, op)
         PROVE  TypeOK'
    BY <2>1, <2>10, TickReturnsType
       DEF AwaitUnknown, End, Awaits, RunQuantum, TypeOK, TaskStates, hostVars
  <2> QED BY <1>17, <2>2, <2>3, <2>4, <2>5, <2>6, <2>8, <2>9, <2>10 DEF RunTask
<1>18. ASSUME NEW op \in OpIds, HostFinish(op)
       PROVE  TypeOK'
  BY <1>18 DEF HostFinish, TypeOK, taskVars, opVars, ctrlVars
<1>19. ASSUME NEW op \in OpIds, HostWake(op)
       PROVE  TypeOK'
  BY <1>19, AppendFacts DEF HostWake, TypeOK, taskVars, opVars, ctrlVars
<1>20. ASSUME NEW op \in OpIds, HostWakeEarly(op)
       PROVE  TypeOK'
  BY <1>20, AppendFacts DEF HostWakeEarly, TypeOK, taskVars, opVars, ctrlVars
<1>25. ASSUME NEW op \in OpIds, HostWakeClone(op)
       PROVE  TypeOK'
  BY <1>25, AppendFacts DEF HostWakeClone, TypeOK, taskVars, opVars, ctrlVars
<1>21. CASE UNCHANGED vars
  BY <1>21 DEF vars, taskVars, opVars, ctrlVars, hostVars, TypeOK
<1>22. CASE Embedder
  BY <1>1, <1>2, <1>3, <1>4, <1>5, <1>6, <1>7, <1>22 DEF Embedder
<1>23. CASE SchedulerThread
  BY <1>8, <1>9, <1>10, <1>11, <1>13, <1>14, <1>15, <1>16, <1>17, <1>23 DEF SchedulerThread
<1>24. CASE HostThreads
  BY <1>18, <1>19, <1>20, <1>24, <1>25 DEF HostThreads
<1> QED BY <1>21, <1>22, <1>23, <1>24 DEF Next

\* Every reachable state of the scheduler is well typed; with it, the fields
\* of Scheduler never hold an id that was not handed out by a counter below
\* its bound.
THEOREM TypeCorrect == Spec => []TypeOK
<1> QED BY TypeInit, TypeNext, PTL DEF Spec
-----------------------------------------------------------------------------
(* Task ids: what is live, and the subtree of a cancellation.              *)

\* A step that spawns nothing and starts no cancellation keeps the ids.
LEMMA IdsStable ==
    ASSUME TypeOK, TaskIdsInUse, UNCHANGED <<next_task_id, children>>,
           cancelling' \subseteq cancelling,
           \A t \in TaskIds : state'[t] = "Absent" <=> state[t] = "Absent"
    PROVE  TaskIdsInUse'
BY DEF TaskIdsInUse, Live

\* The descendants of a live task are live, and closed under children.
LEMMA DescendantsFacts ==
    ASSUME TypeOK, TaskIdsInUse, NEW t \in Live
    PROVE  /\ Descendants(t) \subseteq Live
           /\ \A d \in Descendants(t) : children[d] \subseteq Descendants(t)
<1>1. Live \subseteq TaskIds
  BY ConstantsAssumption DEF TypeOK, Live, TaskIds
<1>2. Descendants(t) \subseteq Live
  BY <1>1 DEF Descendants, TaskIdsInUse
<1>3. ASSUME NEW d \in Descendants(t), NEW c \in children[d]
      PROVE  c \in Descendants(t)
  <2>1. c \in TaskIds /\ d \in TaskIds
    BY <1>1, <1>2 DEF TypeOK
  <2>2. ASSUME NEW S \in SUBSET TaskIds, t \in S, \A p \in S : children[p] \subseteq S
        PROVE  c \in S
    BY <2>2 DEF Descendants
  <2> QED BY <2>1, <2>2 DEF Descendants
<1> QED BY <1>2, <1>3

\* A new task's id is Absent, so nothing refers to it yet.
LEMMA SpawnFacts ==
    ASSUME TypeOK, TaskIdsInUse, NEW parent, SpawnChild(parent)
    PROVE  next_task_id \in TaskIds /\ state[next_task_id] = "Absent"
BY IdFacts DEF TypeOK, TaskIdsInUse, SpawnChild, BelowTaskLimit, TaskIds

\* What the outcomes of a quantum do to the tables of tasks.
LEMMA RunTaskFacts ==
    ASSUME TypeOK, NEW t \in TaskIds, RunTask(t)
    PROVE  /\ state[t] = "Ready" /\ ready_queue # <<>> /\ t = Head(ready_queue)
           /\ pc = "run" /\ pc' # "cancel"
           /\ UNCHANGED <<children, next_task_id, cancelling, channel>>
           /\ \E s \in TaskStates \ {"Absent", "Cancelled"} :
                 /\ state' = [state EXCEPT ![t] = s]
                 /\ ready_queue' = IF s = "Ready" THEN Append(Tail(ready_queue), t)
                                   ELSE Tail(ready_queue)
<1> DEFINE Outcome(s) == /\ state' = [state EXCEPT ![t] = s]
                         /\ ready_queue' = IF s = "Ready" THEN Append(Tail(ready_queue), t)
                                           ELSE Tail(ready_queue)
           Goal == /\ RunQuantum(t)
                   /\ \E progress \in BOOLEAN : TickReturns(progress)
                   /\ \E s \in TaskStates \ {"Absent", "Cancelled"} : Outcome(s)
<1>1. ASSUME Yield(t)
      PROVE  Goal
  <2>1. Outcome("Ready")
    BY <1>1 DEF Yield, Requeue, RunQuantum, TypeOK
  <2> QED BY <1>1, <2>1 DEF Yield, TaskStates
<1>2. ASSUME NEW outcome \in {"Completed", "Failed"}, Finish(t, outcome)
      PROVE  Goal
  BY <1>2 DEF Finish, End, TaskStates
<1>3. ASSUME NEW futs, Resume(t, Tail(ready_queue), futs)
      PROVE  \E s \in TaskStates \ {"Absent", "Cancelled"} : Outcome(s)
  <2>1. Outcome("Ready") \/ Outcome("Failed")
    BY <1>3 DEF Resume
  <2> QED BY <2>1 DEF TaskStates
<1>4. ASSUME NEW op, Suspend(t, op)
      PROVE  \E s \in TaskStates \ {"Absent", "Cancelled"} : Outcome(s)
  <2>1. Outcome("Waiting")
    BY <1>4 DEF Suspend
  <2> QED BY <2>1 DEF TaskStates
<1> HIDE DEF Outcome
<1>5. ASSUME CallAnswered(t)
      PROVE  Goal
  BY <1>3, <1>5 DEF CallAnswered
<1>6. ASSUME NEW op, HostCall(t, op)
      PROVE  Goal
  BY <1>3, <1>6 DEF HostCall
<1>7. ASSUME NEW op, CommandCall(t, op)
      PROVE  Goal
  BY <1>4, <1>7 DEF CommandCall
<1>8. ASSUME NEW op, AwaitCompleted(t, op)
      PROVE  Goal
  BY <1>3, <1>8 DEF AwaitCompleted, Awaits
<1>9. ASSUME NEW op, AwaitPending(t, op)
      PROVE  Goal
  BY <1>4, <1>9 DEF AwaitPending, Awaits
<1>10. ASSUME NEW op, AwaitUnknown(t, op)
       PROVE  Goal
  <2>1. Outcome("UnknownOp")
    BY <1>10 DEF AwaitUnknown, End, Outcome
  <2> QED BY <1>10, <2>1 DEF AwaitUnknown, Awaits, TaskStates
<1>11. Goal
  BY <1>1, <1>2, <1>5, <1>6, <1>7, <1>8, <1>9, <1>10 DEF RunTask
<1>12. pc' # "cancel" /\ UNCHANGED cancelling
  BY <1>11 DEF TickReturns
<1> QED BY <1>11, <1>12 DEF RunQuantum, Outcome
-----------------------------------------------------------------------------
(* The steps that touch no task, taken together.                           *)

Quiet == UNCHANGED <<state, awaiting, suspended, children, ready_queue, waiting,
                     next_task_id>>

LEMMA QuietSteps ==
    ASSUME [Next]_vars
    PROVE  \/ Quiet /\ operations \subseteq operations'
           \/ \E parent \in TaskIds \cup {NoTask} : SpawnChild(parent)
           \/ \E t \in TaskIds : CancelTask(t) \/ RunTask(t)
           \/ \E op \in OpIds : PollReady(op)
<1> DEFINE Q == Quiet /\ operations \subseteq operations'
<1>1. SetHost \/ CallTick \/ CallRunUntilStalled => Q
  BY DEF SetHost, CallTick, CallRunUntilStalled, Quiet, taskVars, opVars
<1>2. ASSUME NEW op, NEW holders, Register(op, holders)
      PROVE  Q
  BY <1>2 DEF Register, RegisterBoxed, Quiet
<1>3. ASSUME NEW t, CallRunUntilComplete(t) \/ CallCancel(t)
      PROVE  Q
  BY <1>3 DEF CallRunUntilComplete, CallCancel, Quiet, taskVars, opVars
<1>4. CollectWake \/ Recv \/ PollNothing \/ RunNothing => Q
  BY DEF CollectWake, Recv, PollNothing, PollReturns, RunNothing, Quiet, taskVars, opVars
<1>5. ASSUME NEW op, PollStale(op) \/ PollPending(op)
      PROVE  Q
  BY <1>5 DEF PollStale, PollPending, PollReturns, Quiet
<1>6. ASSUME NEW op, HostFinish(op) \/ HostWake(op) \/ HostWakeEarly(op) \/ HostWakeClone(op)
      PROVE  Q
  BY <1>6 DEF HostFinish, HostWake, HostWakeEarly, HostWakeClone, Quiet, taskVars, opVars
<1>7. UNCHANGED vars => Q
  BY DEF vars, taskVars, opVars, Quiet
<1> HIDE DEF Q
<1>8. Embedder => Q \/ \E parent \in TaskIds \cup {NoTask} : SpawnChild(parent)
  BY <1>1, <1>2, <1>3 DEF Embedder
<1>9. SchedulerThread => \/ Q
                         \/ \E t \in TaskIds : CancelTask(t) \/ RunTask(t)
                         \/ \E op \in OpIds : PollReady(op)
  BY <1>4, <1>5 DEF SchedulerThread
<1>10. HostThreads => Q
  BY <1>6 DEF HostThreads
<1> QED BY <1>7, <1>8, <1>9, <1>10 DEF Next, Q

-----------------------------------------------------------------------------
(* The ready queue.                                                        *)

\* A resumed task that was not ready joins the queue once, or fails.
LEMMA ResumeReady ==
    ASSUME TypeOK, NEW t \in TaskIds, NEW queue \in Seq(TaskIds), NEW futs,
           NoDuplicates(queue),
           Members(queue) = {u \in TaskIds : state[u] = "Ready"} \ {t},
           Resume(t, queue, futs)
    PROVE  ReadyQueueExact'
<1>1. CASE state' = [state EXCEPT ![t] = "Ready"] /\ ready_queue' = Append(queue, t)
  <2>1. NoDuplicates(ready_queue') /\ Members(ready_queue') = Members(queue) \cup {t}
    BY <1>1, AppendFacts
  <2>2. {u \in TaskIds : state'[u] = "Ready"} = Members(queue) \cup {t}
    BY <1>1 DEF TypeOK
  <2> QED BY <2>1, <2>2 DEF ReadyQueueExact, Members, NoDuplicates
<1>2. CASE state' = [state EXCEPT ![t] = "Failed"] /\ ready_queue' = queue
  <2>1. {u \in TaskIds : state'[u] = "Ready"} = Members(queue)
    BY <1>2 DEF TypeOK
  <2> QED BY <1>2, <2>1 DEF ReadyQueueExact, Members, NoDuplicates
<1> QED BY <1>1, <1>2 DEF Resume

\* No step loses, duplicates or invents an entry of ready_queue.
LEMMA ReadyNext ==
    ASSUME TypeOK, TaskIdsInUse, ReadyQueueExact, WaitingTableSound, [Next]_vars
    PROVE  ReadyQueueExact'
<1> USE IdFacts
<1>0. ready_queue \in Seq(TaskIds) /\ NoDuplicates(ready_queue)
  BY DEF TypeOK, ReadyQueueExact
<1>1. CASE Quiet
  BY <1>1 DEF Quiet, ReadyQueueExact, Members, NoDuplicates
<1>2. ASSUME NEW parent, SpawnChild(parent)
      PROVE  ReadyQueueExact'
  <2> DEFINE n == next_task_id
  <2>1. n \in TaskIds /\ state[n] = "Absent"
    BY <1>2, SpawnFacts
  <2>2. n \notin Members(ready_queue)
    BY <2>1 DEF ReadyQueueExact
  <2>3. ready_queue' = Append(ready_queue, n) /\ state' = [state EXCEPT ![n] = "Ready"]
    BY <1>2 DEF SpawnChild
  <2>4. NoDuplicates(ready_queue') /\ Members(ready_queue') = Members(ready_queue) \cup {n}
    BY <1>0, <2>1, <2>2, <2>3, AppendFacts
  <2>5. {u \in TaskIds : state'[u] = "Ready"} = {u \in TaskIds : state[u] = "Ready"} \cup {n}
    BY <2>1, <2>3 DEF TypeOK
  <2> QED BY <2>4, <2>5 DEF ReadyQueueExact, Members, NoDuplicates
<1>3. ASSUME NEW t \in TaskIds, CancelTask(t)
      PROVE  ReadyQueueExact'
  <2>1. ready_queue' = Without(ready_queue, t) /\ state' = [state EXCEPT ![t] = "Cancelled"]
    BY <1>3 DEF CancelTask
  <2>2. NoDuplicates(ready_queue') /\ Members(ready_queue') = Members(ready_queue) \ {t}
    BY <1>0, <2>1, WithoutFacts
  <2>3. {u \in TaskIds : state'[u] = "Ready"} = {u \in TaskIds : state[u] = "Ready"} \ {t}
    BY <2>1 DEF TypeOK
  <2> QED BY <2>2, <2>3 DEF ReadyQueueExact, Members, NoDuplicates
<1>4. ASSUME NEW op \in OpIds, PollReady(op)
      PROVE  ReadyQueueExact'
  <2>1. CASE waiting[op] = NoTask
    BY <1>4, <2>1 DEF PollReady, ReadyQueueExact, Members, NoDuplicates
  <2>2. CASE waiting[op] # NoTask
    <3> DEFINE t == waiting[op]
    <3>1. t \in TaskIds /\ state[t] = "Waiting"
      BY <2>2 DEF TypeOK, WaitingTableSound
    <3>2. Resume(t, ready_queue, futures[t])
      BY <1>4, <2>2 DEF PollReady
    <3>3. Members(ready_queue) = {u \in TaskIds : state[u] = "Ready"} \ {t}
      BY <3>1 DEF ReadyQueueExact
    <3> HIDE DEF t
    <3> QED BY <1>0, <3>1, <3>2, <3>3, ResumeReady
  <2> QED BY <2>1, <2>2
<1>5. ASSUME NEW t \in TaskIds, RunTask(t)
      PROVE  ReadyQueueExact'
  <2>1. state[t] = "Ready" /\ ready_queue # <<>> /\ t = Head(ready_queue)
    BY <1>5, RunTaskFacts
  <2>2. PICK s \in TaskStates :
            /\ state' = [state EXCEPT ![t] = s]
            /\ ready_queue' = IF s = "Ready" THEN Append(Tail(ready_queue), t)
                              ELSE Tail(ready_queue)
    BY <1>5, RunTaskFacts
  <2>3. /\ Tail(ready_queue) \in Seq(TaskIds) /\ NoDuplicates(Tail(ready_queue))
        /\ Members(Tail(ready_queue)) = Members(ready_queue) \ {t}
        /\ t \notin Members(Tail(ready_queue))
    BY <1>0, <2>1, TailFacts
  <2>4. CASE s = "Ready"
    <3>1. NoDuplicates(ready_queue') /\ Members(ready_queue') = Members(ready_queue)
      <4>1. t \in Members(ready_queue)
        BY <2>1 DEF ReadyQueueExact
      <4>2. ready_queue' = Append(Tail(ready_queue), t)
        BY <2>2, <2>4
      <4>3. /\ NoDuplicates(Append(Tail(ready_queue), t))
            /\ Members(Append(Tail(ready_queue), t)) = Members(Tail(ready_queue)) \cup {t}
        BY <2>3, AppendFacts
      <4> QED BY <2>3, <4>1, <4>2, <4>3
    <3>2. state' = state
      BY <2>1, <2>2, <2>4 DEF TypeOK
    <3> QED BY <3>1, <3>2 DEF ReadyQueueExact, Members, NoDuplicates
  <2>5. CASE s # "Ready"
    <3>1. {u \in TaskIds : state'[u] = "Ready"} = {u \in TaskIds : state[u] = "Ready"} \ {t}
      BY <2>2, <2>5 DEF TypeOK
    <3> QED BY <2>2, <2>3, <2>5, <3>1 DEF ReadyQueueExact, Members, NoDuplicates
  <2> QED BY <2>4, <2>5
<1> QED BY <1>1, <1>2, <1>3, <1>4, <1>5, QuietSteps
-----------------------------------------------------------------------------
(* The order of the ready queue.                                           *)

\* push_back keeps the order of what is there and puts the new member last.
LEMMA AppendOrder ==
    ASSUME NEW S, NEW q \in Seq(S), NEW x \in S
    PROVE  /\ \A t, u : Before(q, t, u) => Before(Append(q, x), t, u)
           /\ \A t \in Members(q) : Before(Append(q, x), t, x)
<1>1. /\ Len(Append(q, x)) = Len(q) + 1 /\ Len(q) \in Nat
      /\ Append(q, x)[Len(q) + 1] = x
      /\ \A i \in 1 .. Len(q) : Append(q, x)[i] = q[i]
  OBVIOUS
<1>2. ASSUME NEW t, NEW u, Before(q, t, u)
      PROVE  Before(Append(q, x), t, u)
  BY <1>1, <1>2 DEF Before
<1>3. ASSUME NEW t \in Members(q)
      PROVE  Before(Append(q, x), t, x)
  <2>1. PICK i \in 1 .. Len(q) : q[i] = t
    BY DEF Members
  <2>2. i \in 1 .. (Len(q) + 1) /\ Len(q) + 1 \in 1 .. (Len(q) + 1) /\ i < Len(q) + 1
    BY <1>1
  <2> QED BY <1>1, <2>1, <2>2 DEF Before
<1> QED BY <1>2, <1>3

\* pop_front keeps the order of what is left.
LEMMA TailOrder ==
    ASSUME NEW S, NEW q \in Seq(S), q # <<>>, NEW t, NEW u, Before(q, t, u), t # Head(q)
    PROVE  Before(Tail(q), t, u)
<1>1. Len(q) \in Nat \ {0} /\ Len(Tail(q)) = Len(q) - 1 /\ Head(q) = q[1]
  OBVIOUS
<1>2. \A i \in 1 .. (Len(q) - 1) : Tail(q)[i] = q[i + 1]
  OBVIOUS
<1>3. PICK i \in 1 .. Len(q), j \in 1 .. Len(q) : i < j /\ q[i] = t /\ q[j] = u
  BY DEF Before
<1>4. /\ i - 1 \in 1 .. Len(Tail(q)) /\ j - 1 \in 1 .. Len(Tail(q)) /\ i - 1 < j - 1
  BY <1>1, <1>3
<1>5. Tail(q)[i - 1] = t /\ Tail(q)[j - 1] = u
  BY <1>1, <1>2, <1>3, <1>4
<1> QED BY <1>4, <1>5 DEF Before

\* retain keeps the order of what is left.
LEMMA WithoutOrder ==
    ASSUME NEW S, NEW q \in Seq(S), NoDuplicates(q), NEW x,
           NEW t, NEW u, Before(q, t, u), t # x, u # x
    PROVE  Before(Without(q, x), t, u)
<1>1. CASE x \notin Members(q)
  BY <1>1 DEF Without
<1>2. CASE x \in Members(q)
  <2> DEFINE k == CHOOSE i \in 1 .. Len(q) : q[i] = x
             r == [j \in 1 .. (Len(q) - 1) |-> IF j < k THEN q[j] ELSE q[j + 1]]
             At(i) == IF i < k THEN i ELSE i - 1
  <2>1. k \in 1 .. Len(q) /\ q[k] = x
    BY <1>2 DEF Members
  <2>2. Without(q, x) = r
    BY <1>2 DEF Without
  <2> HIDE DEF k
  <2>3. Len(q) \in Nat /\ Len(q) - 1 \in Nat /\ Len(r) = Len(q) - 1
    BY <2>1
  <2>4. ASSUME NEW i \in 1 .. Len(q), q[i] # x
        PROVE  At(i) \in 1 .. Len(r) /\ r[At(i)] = q[i]
    <3>1. CASE i < k
      BY <2>1, <2>3, <3>1
    <3>2. CASE i > k
      BY <2>1, <2>3, <3>2
    <3> QED BY <2>1, <2>3, <2>4, <3>1, <3>2
  <2>5. PICK i \in 1 .. Len(q), j \in 1 .. Len(q) : i < j /\ q[i] = t /\ q[j] = u
    BY DEF Before
  <2>6. At(i) < At(j)
    BY <2>1, <2>5
  <2> HIDE DEF At, r
  <2>7. Before(r, t, u)
    BY <2>4, <2>5, <2>6 DEF Before
  <2> QED BY <2>2, <2>7
<1> QED BY <1>1, <1>2

\* Only run_task runs a quantum.
LEMMA QuantumIsRun ==
    ASSUME [Next]_vars, NEW t \in TaskIds, RunsQuantum(t)
    PROVE  \E v \in TaskIds : RunTask(v)
<1>1. ~Embedder
  BY DEF RunsQuantum, Embedder, SpawnChild, SetHost, Register, CallTick, CallRunUntilStalled,
         CallRunUntilComplete, CallCancel
<1>2. ~HostThreads
  BY DEF RunsQuantum, HostThreads, HostFinish, HostWake, HostWakeEarly, HostWakeClone, ctrlVars
<1>3. ~UNCHANGED vars
  BY DEF RunsQuantum, vars, ctrlVars
<1>4. ~(CollectWake \/ PollNothing \/ RunNothing \/ Recv)
  BY DEF RunsQuantum, CollectWake, PollNothing, PollReturns, RunNothing, Recv
<1>5. ~\E op \in OpIds : PollStale(op) \/ PollPending(op) \/ PollReady(op)
  BY DEF RunsQuantum, PollStale, PollPending, PollReady, PollReturns
<1>6. ~\E v \in TaskIds : CancelTask(v)
  BY DEF RunsQuantum, CancelTask
<1> QED BY <1>1, <1>2, <1>3, <1>4, <1>5, <1>6 DEF Next, SchedulerThread

-----------------------------------------------------------------------------
(* Task ids and cancellation.                                              *)

LEMMA TaskIdsNext ==
    ASSUME TypeOK, TaskIdsInUse, CancelClosed, ReadyQueueExact, WaitingTableSound,
           [Next]_vars
    PROVE  TaskIdsInUse'
<1> USE IdFacts
<1>1. ASSUME NEW parent \in TaskIds \cup {NoTask}, SpawnChild(parent)
      PROVE  TaskIdsInUse'
  <2>1. next_task_id \in TaskIds /\ next_task_id' = next_task_id + 1
    BY <1>1, SpawnFacts DEF SpawnChild
  <2>2. Live' = Live \cup {next_task_id}
    BY <2>1 DEF Live, TypeOK
  <2>3. \A t \in TaskIds : state'[t] = "Absent" <=> t >= next_task_id'
    BY <1>1, <2>1 DEF SpawnChild, TypeOK, TaskIdsInUse, TaskIds
  <2>4. \A t \in TaskIds : children'[t] \subseteq Live'
    BY <1>1, <2>2 DEF SpawnChild, TaskIdsInUse
  <2>5. cancelling' = cancelling
    BY <1>1 DEF SpawnChild, ctrlVars
  <2> QED BY <2>2, <2>3, <2>4, <2>5 DEF TaskIdsInUse
<1>2. ASSUME NEW t \in TaskIds, CallCancel(t)
      PROVE  TaskIdsInUse'
  <2>1. t \in Live /\ cancelling' = Descendants(t)
    BY <1>2 DEF CallCancel
  <2>2. cancelling' \subseteq Live
    BY <2>1, DescendantsFacts
  <2> QED BY <1>2, <2>2 DEF CallCancel, TaskIdsInUse, Live, taskVars
<1>3. ASSUME NEW t \in TaskIds, CancelTask(t)
      PROVE  TaskIdsInUse'
  <2>1. state[t] # "Absent"
    BY <1>3 DEF CancelTask, TaskIdsInUse, Live, TypeOK
  <2>2. \A u \in TaskIds : state'[u] = "Absent" <=> state[u] = "Absent"
    BY <1>3, <2>1 DEF CancelTask, TypeOK
  <2> QED BY <1>3, <2>2, IdsStable DEF CancelTask
<1>4. ASSUME NEW op \in OpIds, PollReady(op)
      PROVE  TaskIdsInUse'
  <2>1. \A u \in TaskIds : state'[u] = "Absent" <=> state[u] = "Absent"
    <3>1. CASE waiting[op] = NoTask
      BY <1>4, <3>1 DEF PollReady
    <3>2. CASE waiting[op] # NoTask
      <4>1. waiting[op] \in TaskIds /\ state[waiting[op]] = "Waiting"
        BY <3>2 DEF TypeOK, WaitingTableSound
      <4> QED BY <1>4, <3>2, <4>1 DEF PollReady, Resume, TypeOK
    <3> QED BY <3>1, <3>2
  <2> QED BY <1>4, <2>1, IdsStable DEF PollReady, PollReturns
<1>5. ASSUME NEW t \in TaskIds, RunTask(t)
      PROVE  TaskIdsInUse'
  <2>1. state[t] = "Ready"
    BY <1>5, RunTaskFacts
  <2>2. PICK s \in TaskStates \ {"Absent", "Cancelled"} : state' = [state EXCEPT ![t] = s]
    BY <1>5, RunTaskFacts
  <2>3. \A u \in TaskIds : state'[u] = "Absent" <=> state[u] = "Absent"
    BY <2>1, <2>2 DEF TypeOK
  <2>4. UNCHANGED <<next_task_id, children, cancelling>>
    BY <1>5, RunTaskFacts
  <2> QED BY <2>3, <2>4, IdsStable
<1>6. ASSUME Quiet, UNCHANGED cancelling
      PROVE  TaskIdsInUse'
  BY <1>6, IdsStable DEF Quiet
<1>7. ASSUME Quiet
      PROVE  UNCHANGED cancelling \/ \E t \in TaskIds : CallCancel(t) \/ CancelTask(t) \/ RunTask(t)
  <2>1. Embedder => UNCHANGED cancelling \/ \E t \in TaskIds : CallCancel(t)
    BY DEF Embedder, SpawnChild, SetHost, Register, CallTick, CallRunUntilStalled,
           CallRunUntilComplete, ctrlVars
  <2>2. SchedulerThread => UNCHANGED cancelling \/ \E t \in TaskIds : CancelTask(t) \/ RunTask(t)
    BY DEF SchedulerThread, CollectWake, PollNothing, PollStale, PollPending, PollReady,
           PollReturns, RunNothing, TickReturns, Recv, ctrlVars
  <2>3. HostThreads => UNCHANGED cancelling
    BY DEF HostThreads, HostFinish, HostWake, HostWakeEarly, HostWakeClone, ctrlVars
  <2>4. UNCHANGED vars => UNCHANGED cancelling
    BY DEF vars, ctrlVars
  <2> QED BY <2>1, <2>2, <2>3, <2>4 DEF Next
<1> QED BY <1>1, <1>2, <1>3, <1>4, <1>5, <1>6, <1>7, QuietSteps

\* A cancellation in progress loses no descendant.
LEMMA CancelNext ==
    ASSUME TypeOK, TaskIdsInUse, CancelClosed, [Next]_vars
    PROVE  CancelClosed'
<1> USE IdFacts
<1>1. ASSUME cancelling = {}, cancelling' = {}
      PROVE  CancelClosed'
  BY <1>1 DEF CancelClosed
<1>2. ASSUME NEW t \in TaskIds, CallCancel(t)
      PROVE  CancelClosed'
  <2>1. t \in Live /\ cancelling' = Descendants(t) /\ pc' = "cancel" /\ children' = children
    BY <1>2 DEF CallCancel, taskVars
  <2> QED BY <2>1, DescendantsFacts DEF CancelClosed
<1>3. ASSUME NEW t \in TaskIds, CancelTask(t)
      PROVE  CancelClosed'
  <2>1. /\ cancelling' = cancelling \ {t} /\ children' = children
        /\ state' = [state EXCEPT ![t] = "Cancelled"]
        /\ pc' # "cancel" => cancelling' = {}
    BY <1>3 DEF CancelTask
  <2> QED BY <2>1 DEF CancelClosed, TypeOK
<1>4. ASSUME NEW op, HostFinish(op) \/ HostWake(op) \/ HostWakeEarly(op) \/ HostWakeClone(op)
      PROVE  CancelClosed'
  BY <1>4 DEF HostFinish, HostWake, HostWakeEarly, HostWakeClone, CancelClosed, ctrlVars, taskVars
<1>5. CASE UNCHANGED vars
  BY <1>5 DEF vars, ctrlVars, taskVars, CancelClosed
<1>6. CASE Embedder
  <2>1. pc = "host"
    BY <1>6 DEF Embedder, SpawnChild, SetHost, Register, CallTick, CallRunUntilStalled,
                CallRunUntilComplete, CallCancel
  <2>2. UNCHANGED cancelling \/ \E t \in TaskIds : CallCancel(t)
    BY <1>6 DEF Embedder, SpawnChild, SetHost, Register, CallTick, CallRunUntilStalled,
                CallRunUntilComplete, ctrlVars
  <2> QED BY <1>1, <1>2, <2>1, <2>2 DEF CancelClosed
<1>7. CASE SchedulerThread
  <2>1. CASE \E t \in TaskIds : CancelTask(t)
    BY <1>3, <2>1
  <2>2. CASE \E t \in TaskIds : RunTask(t)
    BY <1>1, <2>2, RunTaskFacts DEF CancelClosed
  <2>3. CASE ~ \E t \in TaskIds : CancelTask(t) \/ RunTask(t)
    <3>1. pc # "cancel" /\ UNCHANGED cancelling
      BY <1>7, <2>3 DEF SchedulerThread, CollectWake, PollNothing, PollStale, PollPending,
                PollReady, PollReturns, RunNothing, TickReturns, Recv, ctrlVars
    <3> QED BY <1>1, <3>1 DEF CancelClosed
  <2> QED BY <2>1, <2>2, <2>3
<1> QED BY <1>4, <1>5, <1>6, <1>7 DEF Next, HostThreads
-----------------------------------------------------------------------------
(* The waiting table.                                                      *)

\* A step on other tasks does not disturb u's wait.
Untouched(u) ==
    /\ state'[u] = state[u]
    /\ awaiting'[u] = awaiting[u]
    /\ u \in suspended => u \in suspended'

\* A quantum either leaves the waiting table alone or registers its own task
\* for a pending operation.
LEMMA RunTaskWaiting ==
    ASSUME TypeOK, NEW t \in TaskIds, RunTask(t)
    PROVE  /\ operations \subseteq operations'
           /\ \A u \in TaskIds \ {t} : Untouched(u)
           /\ \/ UNCHANGED waiting
              \/ \E op \in OpIds : Suspend(t, op) /\ op \in operations'
<1> DEFINE Others == \A u \in TaskIds \ {t} : Untouched(u)
<1>1. ASSUME NEW queue, NEW futs, Resume(t, queue, futs)
      PROVE  Others
  BY <1>1 DEF Resume, TypeOK, Untouched
<1>2. ASSUME NEW op, Suspend(t, op)
      PROVE  Others
  BY <1>2 DEF Suspend, TypeOK, Untouched
<1>3. ASSUME NEW outcome, End(t, outcome)
      PROVE  Others
  BY <1>3 DEF End, TypeOK, Untouched
<1> HIDE DEF Others
<1>4. ASSUME Yield(t)
      PROVE  Others /\ UNCHANGED <<operations, waiting>>
  BY <1>4 DEF Yield, opVars, Others, Untouched
<1>5. ASSUME NEW outcome, Finish(t, outcome)
      PROVE  Others /\ UNCHANGED <<operations, waiting>>
  BY <1>3, <1>5 DEF Finish, opVars
<1>6. ASSUME CallAnswered(t)
      PROVE  Others /\ UNCHANGED <<operations, waiting>>
  BY <1>1, <1>6 DEF CallAnswered, opVars
<1>7. ASSUME NEW op, HostCall(t, op)
      PROVE  Others /\ operations \subseteq operations' /\ UNCHANGED waiting
  BY <1>1, <1>7 DEF HostCall, RegisterBoxed
<1>8. ASSUME NEW op \in OpIds, CommandCall(t, op)
      PROVE  Others /\ operations \subseteq operations' /\ Suspend(t, op) /\ op \in operations'
  BY <1>2, <1>8 DEF CommandCall, RegisterBoxed
<1>9. ASSUME NEW op, AwaitCompleted(t, op)
      PROVE  Others /\ UNCHANGED <<operations, waiting>>
  BY <1>1, <1>9 DEF AwaitCompleted, Awaits
<1>10. ASSUME NEW op, AwaitPending(t, op)
       PROVE  Others /\ UNCHANGED operations /\ Suspend(t, op) /\ op \in operations'
  BY <1>2, <1>10 DEF AwaitPending, Awaits
<1>11. ASSUME NEW op, AwaitUnknown(t, op)
       PROVE  Others /\ UNCHANGED <<operations, waiting>>
  BY <1>3, <1>11 DEF AwaitUnknown, Awaits
<1>12. /\ Others /\ operations \subseteq operations'
       /\ UNCHANGED waiting \/ \E op \in OpIds : Suspend(t, op) /\ op \in operations'
  BY <1>4, <1>5, <1>6, <1>7, <1>8, <1>9, <1>10, <1>11 DEF RunTask
<1> QED BY <1>12 DEF Others

\* No step leaves an entry behind for a task that stopped waiting for it.
LEMMA WaitingNext ==
    ASSUME TypeOK, TaskIdsInUse, WaitingTableSound, [Next]_vars
    PROVE  WaitingTableSound'
<1> USE IdFacts
<1> SUFFICES ASSUME NEW o \in OpIds, waiting'[o] # NoTask
             PROVE  /\ state'[waiting'[o]] = "Waiting" /\ awaiting'[waiting'[o]] = o
                    /\ waiting'[o] \in suspended' /\ o \in operations'
  BY DEF WaitingTableSound
<1>0. ASSUME waiting[o] # NoTask
      PROVE  /\ waiting[o] \in TaskIds /\ state[waiting[o]] = "Waiting"
             /\ awaiting[waiting[o]] = o /\ waiting[o] \in suspended /\ o \in operations
  BY <1>0 DEF WaitingTableSound, TypeOK
<1>1. CASE Quiet /\ operations \subseteq operations'
  BY <1>0, <1>1 DEF Quiet
<1>2. CASE \E parent \in TaskIds \cup {NoTask} : SpawnChild(parent)
  <2>1. PICK parent : SpawnChild(parent)
    BY <1>2
  <2>2. next_task_id \in TaskIds /\ state[next_task_id] = "Absent"
    BY <2>1, SpawnFacts
  <2>3. waiting[o] # NoTask /\ waiting'[o] = waiting[o] /\ operations' = operations
    BY <2>1 DEF SpawnChild, opVars
  <2> QED BY <1>0, <2>1, <2>2, <2>3 DEF SpawnChild, TypeOK
<1>3. CASE \E t \in TaskIds : CancelTask(t)
  <2>1. PICK t \in TaskIds : CancelTask(t)
    BY <1>3
  <2>2. waiting[o] # NoTask /\ waiting'[o] = waiting[o] /\ (o # awaiting[t] \/ state[t] # "Waiting")
    BY <2>1 DEF CancelTask, DropOperation, TypeOK
  <2>3. waiting[o] # t
    BY <1>0, <2>2
  <2>4. o \in operations'
    BY <1>0, <2>1, <2>2 DEF CancelTask, DropOperation
  <2> QED BY <1>0, <2>1, <2>2, <2>3, <2>4 DEF CancelTask, TypeOK
<1>4. CASE \E op \in OpIds : PollReady(op)
  <2>1. PICK op \in OpIds : PollReady(op)
    BY <1>4
  <2>2. o # op /\ waiting[o] # NoTask /\ waiting'[o] = waiting[o]
    BY <2>1 DEF PollReady, TypeOK
  <2>3. o \in operations'
    BY <1>0, <2>1, <2>2 DEF PollReady
  <2>4. CASE waiting[op] = NoTask
    BY <1>0, <2>1, <2>2, <2>3, <2>4 DEF PollReady
  <2>5. CASE waiting[op] # NoTask
    <3>1. awaiting[waiting[op]] = op /\ waiting[op] \in TaskIds
      BY <2>5 DEF WaitingTableSound, TypeOK
    <3>2. waiting[o] # waiting[op]
      BY <1>0, <2>2, <3>1
    <3>3. Resume(waiting[op], ready_queue, futures[waiting[op]])
      BY <2>1, <2>5 DEF PollReady
    <3>4. ASSUME NEW u \in TaskIds, u # waiting[op]
          PROVE  Untouched(u)
      BY <3>3, <3>4 DEF Resume, TypeOK, Untouched
    <3> QED BY <1>0, <2>2, <2>3, <3>2, <3>4 DEF Untouched
  <2> QED BY <2>4, <2>5
<1>5. CASE \E t \in TaskIds : RunTask(t)
  <2>1. PICK t \in TaskIds : RunTask(t)
    BY <1>5
  <2>2. state[t] = "Ready"
    BY <2>1, RunTaskFacts
  <2>3. CASE UNCHANGED waiting
    <3>1. waiting[o] \in TaskIds \ {t}
      BY <1>0, <2>2, <2>3
    <3>2. operations \subseteq operations' /\ Untouched(waiting[o])
      BY <2>1, <3>1, RunTaskWaiting
    <3> QED BY <1>0, <2>3, <3>1, <3>2 DEF Untouched
  <2>4. ASSUME NEW op \in OpIds, Suspend(t, op), op \in operations'
        PROVE  /\ state'[waiting'[o]] = "Waiting" /\ awaiting'[waiting'[o]] = o
               /\ waiting'[o] \in suspended' /\ o \in operations'
    <3>1. CASE o = op
      BY <2>4, <3>1 DEF Suspend, TypeOK
    <3>2. CASE o # op
      <4>1. waiting'[o] = waiting[o]
        BY <2>4, <3>2 DEF Suspend, TypeOK
      <4>2. waiting[o] # t
        BY <1>0, <2>2, <4>1
      <4>3. operations \subseteq operations'
        BY <2>1, RunTaskWaiting
      <4> QED BY <1>0, <2>4, <4>1, <4>2, <4>3 DEF Suspend, TypeOK
    <3> QED BY <3>1, <3>2
  <2> QED BY <2>1, <2>3, <2>4, RunTaskWaiting
<1> QED BY <1>1, <1>2, <1>3, <1>4, <1>5, QuietSteps
-----------------------------------------------------------------------------
(* Operations: the poll queue and the wakes.                               *)

OpsInv == OpIdsInUse /\ OperationQueueExact /\ NoLostWake

\* The steps that touch neither the poll queue nor a wake.
LEMMA OpsQuiet ==
    ASSUME OpsInv,
           UNCHANGED <<operations, queued_operations, operation_queue, next_operation_id,
                       future, armed, waking, channel>>
    PROVE  OpsInv'
BY DEF OpsInv, OpIdsInUse, OperationQueueExact, NoLostWake, Members, NoDuplicates, Known

\* A new operation is queued, once, for its first poll.
LEMMA RegisterOps ==
    ASSUME TypeOK, OpsInv, NEW op \in OpIds, RegisterBoxed(op),
           UNCHANGED <<armed, waking, channel>>
    PROVE  OpsInv'
<1> USE IdFacts
<1>1. op = next_operation_id /\ op \notin Known /\ Known' = Known \cup {op}
  BY DEF RegisterBoxed, Known, TypeOK
<1>2. op \notin Members(operation_queue) /\ op \notin operations
  BY <1>1 DEF OpsInv, OpIdsInUse
<1>3. /\ Members(operation_queue') = Members(operation_queue) \cup {op}
      /\ NoDuplicates(operation_queue')
  BY <1>2, AppendFacts DEF RegisterBoxed, TypeOK, OpsInv, OperationQueueExact
<1>4. OpIdsInUse'
  BY <1>1, <1>3 DEF OpsInv, OpIdsInUse, RegisterBoxed, Members
<1>5. OperationQueueExact'
  BY <1>2, <1>3 DEF OpsInv, OperationQueueExact, RegisterBoxed, Members, NoDuplicates
<1>6. ASSUME NEW o \in operations'
      PROVE  \/ o \in Members(operation_queue')
             \/ o \in Members(channel) \/ o \in waking
             \/ o \in armed /\ future'[o] = "pending"
  <2>1. CASE o = op
    BY <1>3, <2>1
  <2>2. CASE o # op
    BY <1>3, <2>2 DEF OpsInv, NoLostWake, RegisterBoxed, TypeOK
  <2> QED BY <2>1, <2>2
<1>7. NoLostWake'
  BY <1>6 DEF NoLostWake, Members
<1> QED BY <1>4, <1>5, <1>7 DEF OpsInv

\* A received wake becomes an entry of the queue, unless there is one already
\* or the operation is gone.
LEMMA EnqueueOps ==
    ASSUME TypeOK, OpsInv, channel # <<>>, EnqueueOperation(Head(channel)),
           channel' = Tail(channel),
           UNCHANGED <<operations, next_operation_id, future, armed, waking>>
    PROVE  OpsInv'
<1> DEFINE op == Head(channel)
<1>1. op \in OpIds /\ Members(channel) = Members(Tail(channel)) \cup {op}
  BY TailFacts DEF TypeOK
<1>2. /\ Members(operation_queue) \subseteq Members(operation_queue')
      /\ op \in operations => op \in Members(operation_queue')
      /\ OpIdsInUse' /\ OperationQueueExact'
  <2>1. CASE op \in operations /\ op \notin queued_operations
    <3>1. op \notin Members(operation_queue)
      BY <2>1 DEF OpsInv, OperationQueueExact
    <3>2. queued_operations' = queued_operations \cup {op} /\ operation_queue' = Append(operation_queue, op)
      BY <2>1 DEF EnqueueOperation
    <3>3. /\ Members(operation_queue') = Members(operation_queue) \cup {op}
          /\ NoDuplicates(operation_queue')
      BY <1>1, <3>1, <3>2, AppendFacts DEF TypeOK, OpsInv, OperationQueueExact
    <3> HIDE DEF op
    <3>4. OpIdsInUse'
      BY <2>1, <3>3 DEF OpsInv, OpIdsInUse, Members, Known
    <3>5. OperationQueueExact'
      BY <2>1, <3>2, <3>3 DEF OpsInv, OperationQueueExact, Members, NoDuplicates
    <3> QED BY <3>3, <3>4, <3>5
  <2>2. CASE ~ (op \in operations /\ op \notin queued_operations)
    <3>1. UNCHANGED <<queued_operations, operation_queue>>
      BY <2>2 DEF EnqueueOperation
    <3> QED BY <2>2, <3>1 DEF OpsInv, OpIdsInUse, OperationQueueExact, Members, NoDuplicates, Known
  <2> QED BY <2>1, <2>2
<1>3. ASSUME NEW o \in operations
      PROVE  \/ o \in Members(operation_queue')
             \/ o \in Members(Tail(channel)) \/ o \in waking
             \/ o \in armed /\ future[o] = "pending"
  BY <1>1, <1>2 DEF OpsInv, NoLostWake
<1>4. NoLostWake'
  BY <1>3 DEF NoLostWake, Members
<1> QED BY <1>2, <1>4 DEF OpsInv

\* Popping an operation keeps the queue exact, and its other entries.
LEMMA PopOps ==
    ASSUME TypeOK, OpsInv, NEW op, PopOperation(op)
    PROVE  /\ Members(operation_queue') = Members(operation_queue) \ {op}
           /\ NoDuplicates(operation_queue')
           /\ queued_operations' = Members(operation_queue') \cap operations
<1>1. operation_queue \in Seq(OpIds) /\ operation_queue # <<>> /\ op = Head(operation_queue)
  BY DEF PopOperation, TypeOK
<1>2. /\ Members(operation_queue') = Members(operation_queue) \ {op}
      /\ NoDuplicates(operation_queue')
  BY <1>1, TailFacts DEF PopOperation, OpsInv, OperationQueueExact
<1> QED BY <1>2 DEF PopOperation, OpsInv, OperationQueueExact

\* The three polls of a queued operation.
LEMMA PollOps ==
    ASSUME TypeOK, OpsInv, NEW op \in OpIds,
           PollStale(op) \/ PollPending(op) \/ PollReady(op)
    PROVE  OpsInv'
<1>1. PopOperation(op) /\ UNCHANGED <<channel, next_operation_id, future, waking>>
  BY DEF PollStale, PollPending, PollReady, PollReturns, hostVars
<1>2. /\ Members(operation_queue') = Members(operation_queue) \ {op}
      /\ NoDuplicates(operation_queue')
      /\ queued_operations' = Members(operation_queue') \cap operations
  BY <1>1, PopOps
<1>3. /\ operations' \subseteq operations /\ operations \ {op} \subseteq operations'
      /\ armed \subseteq armed'
      /\ op \in operations' => op \in armed' /\ future[op] = "pending"
  BY DEF PollStale, PollPending, PollReady, hostVars
<1>4. OpIdsInUse'
  BY <1>1, <1>2, <1>3 DEF OpsInv, OpIdsInUse, Members, Known
<1>5. OperationQueueExact'
  BY <1>2, <1>3 DEF OperationQueueExact, Members, NoDuplicates
<1>6. ASSUME NEW o \in operations'
      PROVE  \/ o \in Members(operation_queue')
             \/ o \in Members(channel) \/ o \in waking
             \/ o \in armed' /\ future[o] = "pending"
  BY <1>2, <1>3 DEF OpsInv, NoLostWake
<1>7. NoLostWake'
  BY <1>1, <1>6 DEF NoLostWake, Members
<1> QED BY <1>4, <1>5, <1>7 DEF OpsInv
\* A host thread moves the obligation to wake along: armed, waking, channel.
LEMMA HostOps ==
    ASSUME TypeOK, OpsInv, NEW op \in OpIds,
           HostFinish(op) \/ HostWake(op) \/ HostWakeEarly(op) \/ HostWakeClone(op)
    PROVE  OpsInv'
<1>1. UNCHANGED <<operations, queued_operations, operation_queue, next_operation_id>>
  BY DEF HostFinish, HostWake, HostWakeEarly, HostWakeClone, opVars
<1>2. OpIdsInUse' /\ OperationQueueExact'
  BY <1>1 DEF OpsInv, OpIdsInUse, OperationQueueExact, Members, NoDuplicates, Known
<1>3. /\ Members(channel) \subseteq Members(channel')
      /\ \A o \in OpIds : o \in waking => o \in waking' \cup Members(channel')
      /\ \A o \in OpIds : (o \in armed /\ future[o] = "pending") =>
             \/ o \in waking' \cup Members(channel')
             \/ o \in armed' /\ future'[o] = "pending"
  <2>1. ASSUME HostFinish(op)
        PROVE  /\ channel' = channel /\ waking \subseteq waking'
               /\ \A o \in OpIds : (o \in armed /\ future[o] = "pending") =>
                    o \in waking' \/ (o \in armed' /\ future'[o] = "pending")
    BY <2>1 DEF HostFinish, TypeOK
  <2>2. ASSUME channel' = Append(channel, op)
        PROVE  Members(channel') = Members(channel) \cup {op}
    BY <2>2, AppendFacts DEF TypeOK
  <2>3. CASE HostFinish(op)
    BY <2>1, <2>3 DEF Members
  <2>4. CASE HostWake(op)
    BY <2>2, <2>4 DEF HostWake
  <2>5. CASE HostWakeEarly(op)
    BY <2>2, <2>5 DEF HostWakeEarly
  <2>6. CASE HostWakeClone(op)
    BY <2>2, <2>6 DEF HostWakeClone
  <2> QED BY <2>3, <2>4, <2>5, <2>6
<1>4. ASSUME NEW o \in operations
      PROVE  \/ o \in Members(operation_queue)
             \/ o \in Members(channel') \/ o \in waking'
             \/ o \in armed' /\ future'[o] = "pending"
  BY <1>3 DEF OpsInv, NoLostWake, TypeOK
<1>5. NoLostWake'
  BY <1>1, <1>4 DEF NoLostWake, Members
<1> QED BY <1>2, <1>5 DEF OpsInv

\* Cancelling a task drops its operation and leaves a stale entry behind.
LEMMA CancelOps ==
    ASSUME TypeOK, OpsInv, NEW t \in TaskIds, CancelTask(t)
    PROVE  OpsInv'
<1>1. UNCHANGED <<operation_queue, next_operation_id, future, armed, waking, channel>>
  BY DEF CancelTask, hostVars
<1>2. \E D : operations' = operations \ D /\ queued_operations' = queued_operations \ D
  BY DEF CancelTask, DropOperation
<1>3. OpIdsInUse' /\ OperationQueueExact' /\ NoLostWake'
  BY <1>1, <1>2
     DEF OpsInv, OpIdsInUse, OperationQueueExact, NoLostWake, Members, NoDuplicates, Known
<1> QED BY <1>3 DEF OpsInv

\* A quantum registers at most one operation.
LEMMA RunTaskOps ==
    ASSUME TypeOK, OpsInv, NEW t \in TaskIds, RunTask(t)
    PROVE  OpsInv'
<1>1. ASSUME Yield(t) \/ CallAnswered(t) \/ \E outcome : Finish(t, outcome)
      PROVE  OpsInv'
  <2>1. UNCHANGED <<operations, queued_operations, operation_queue, next_operation_id,
                    future, armed, waking, channel>>
    BY <1>1 DEF Yield, CallAnswered, Finish, RunQuantum, opVars, hostVars
  <2> QED BY <2>1, OpsQuiet
<1>2. ASSUME NEW op, AwaitCompleted(t, op) \/ AwaitPending(t, op) \/ AwaitUnknown(t, op)
      PROVE  OpsInv'
  <2>1. UNCHANGED <<operations, queued_operations, operation_queue, next_operation_id,
                    future, armed, waking, channel>>
    BY <1>2 DEF AwaitCompleted, AwaitPending, AwaitUnknown, Awaits, RunQuantum, hostVars
  <2> QED BY <2>1, OpsQuiet
<1>3. ASSUME NEW op \in OpIds, HostCall(t, op) \/ CommandCall(t, op)
      PROVE  OpsInv'
  <2>1. RegisterBoxed(op) /\ UNCHANGED <<armed, waking, channel>>
    BY <1>3 DEF HostCall, CommandCall, RunQuantum
  <2> QED BY <2>1, RegisterOps
<1> QED BY <1>1, <1>2, <1>3 DEF RunTask

LEMMA OpsNext ==
    ASSUME TypeOK, OpsInv, [Next]_vars
    PROVE  OpsInv'
<1>1. ASSUME UNCHANGED opVars, UNCHANGED hostVars, UNCHANGED channel
      PROVE  OpsInv'
  BY <1>1, OpsQuiet DEF opVars, hostVars
<1>2. CASE Embedder
  <2>1. ASSUME NEW op \in OpIds, NEW holders, Register(op, holders)
        PROVE  OpsInv'
    BY <2>1, RegisterOps DEF Register
  <2>2. ASSUME NEW t, CallRunUntilComplete(t) \/ CallCancel(t) \/ SpawnChild(t)
        PROVE  OpsInv'
    BY <1>1, <2>2 DEF CallRunUntilComplete, CallCancel, SpawnChild
  <2>3. SetHost \/ CallTick \/ CallRunUntilStalled => OpsInv'
    BY <1>1 DEF SetHost, CallTick, CallRunUntilStalled
  <2> QED BY <1>2, <2>1, <2>2, <2>3 DEF Embedder
<1>3. CASE SchedulerThread
  <2>1. CollectWake \/ Recv => OpsInv'
    BY EnqueueOps DEF CollectWake, Recv, hostVars
  <2>2. PollNothing \/ RunNothing => OpsInv'
    BY OpsQuiet DEF PollNothing, PollReturns, RunNothing, opVars, hostVars
  <2> QED BY <1>3, <2>1, <2>2, PollOps, CancelOps, RunTaskOps DEF SchedulerThread
<1>4. CASE HostThreads
  BY <1>4, HostOps DEF HostThreads
<1>5. CASE UNCHANGED vars
  BY <1>1, <1>5 DEF vars
<1> QED BY <1>2, <1>3, <1>4, <1>5 DEF Next

-----------------------------------------------------------------------------
(* The inductive invariant, and what follows from it.                      *)

LEMMA InitInductive == Init => IInv
<1> SUFFICES ASSUME Init PROVE IInv
  OBVIOUS
<1> USE IdFacts
<1>1. TypeOK
  BY TypeInit
<1>2. Members(ready_queue) = {} /\ Members(operation_queue) = {} /\ Live = {}
  BY DEF Init, Members, Live
<1>3. TaskIdsInUse
  BY <1>2 DEF Init, TaskIdsInUse, TaskIds
<1>4. NoDuplicates(ready_queue) /\ NoDuplicates(operation_queue)
  BY DEF Init, NoDuplicates
<1>5. ReadyQueueExact
  BY <1>2, <1>4 DEF Init, ReadyQueueExact
<1>6. WaitingTableSound
  BY DEF Init, WaitingTableSound
<1>7. OpIdsInUse /\ OperationQueueExact /\ NoLostWake
  BY <1>2, <1>4 DEF Init, OpIdsInUse, OperationQueueExact, NoLostWake
<1>8. CancelClosed
  BY DEF Init, CancelClosed
<1> QED BY <1>1, <1>3, <1>5, <1>6, <1>7, <1>8 DEF IInv

LEMMA NextInductive == IInv /\ [Next]_vars => IInv'
<1> SUFFICES ASSUME IInv, [Next]_vars PROVE IInv'
  OBVIOUS
<1>1. /\ TypeOK /\ TaskIdsInUse /\ ReadyQueueExact /\ WaitingTableSound
      /\ OpsInv /\ CancelClosed
  BY DEF IInv, OpsInv
<1>2. TypeOK'
  BY <1>1, TypeNext
<1>3. TaskIdsInUse'
  BY <1>1, TaskIdsNext
<1>4. ReadyQueueExact'
  BY <1>1, ReadyNext
<1>5. WaitingTableSound'
  BY <1>1, WaitingNext
<1>6. OpsInv'
  BY <1>1, OpsNext
<1>7. CancelClosed'
  BY <1>1, CancelNext
<1> QED BY <1>2, <1>3, <1>4, <1>5, <1>6, <1>7 DEF IInv, OpsInv

\* The inductive invariant holds in every reachable state.
THEOREM Inductive == Spec => []IInv
<1> QED BY InitInductive, NextInductive, PTL DEF Spec

\* For every number of tasks and operations: no interleaving of spawns,
\* quanta, resumptions and cancellations loses a ready task or queues it
\* twice.
THEOREM ReadyQueueIsExact == Spec => []ReadyQueueExact
<1>1. IInv => ReadyQueueExact
  BY DEF IInv
<1> QED BY <1>1, Inductive, PTL

\* A result can only be pushed on a VM that is suspended on that operation,
\* shared futures and cancellations included.
THEOREM WaitingTableIsSound == Spec => []WaitingTableSound
<1>1. IInv => WaitingTableSound
  BY DEF IInv
<1> QED BY <1>1, Inductive, PTL

\* The set and the queue of operations due for a poll agree on what is
\* pending, whatever cancel() left in the queue.
THEOREM OperationQueueIsExact == Spec => []OperationQueueExact
<1>1. IInv => OperationQueueExact
  BY DEF IInv
<1> QED BY <1>1, Inductive, PTL

\* No wake-up is lost between the polls of the scheduler thread and the
\* wakers of any number of host threads.
THEOREM NoWakeIsLost == Spec => []NoLostWake
<1>1. IInv => NoLostWake
  BY DEF IInv
<1> QED BY <1>1, Inductive, PTL

\* A task is never cancelled before its children are, however the embedder
\* built the tree.
THEOREM CancellationCascades == Spec => CancelCascades
<1> DEFINE Step == \A t \in TaskIds :
                     (state[t] # "Cancelled" /\ state'[t] = "Cancelled") =>
                         \A c \in children[t] : state[c] = "Cancelled"
<1>1. IInv /\ [Next]_vars => [Step]_vars
  <2> SUFFICES ASSUME IInv, [Next]_vars, NEW t \in TaskIds,
                      state[t] # "Cancelled", state'[t] = "Cancelled",
                      NEW c \in children[t]
               PROVE  state[c] = "Cancelled"
    OBVIOUS
  <2> USE IdFacts
  <2>0. TypeOK /\ TaskIdsInUse /\ WaitingTableSound /\ CancelClosed
    BY DEF IInv
  <2>1. CASE Quiet
    BY <2>1 DEF Quiet
  <2>2. CASE \E parent \in TaskIds \cup {NoTask} : SpawnChild(parent)
    BY <2>0, <2>2 DEF SpawnChild, TypeOK
  <2>3. CASE \E u \in TaskIds : CancelTask(u)
    <3>1. PICK u \in TaskIds : CancelTask(u)
      BY <2>3
    <3>2. t = u
      BY <2>0, <3>1 DEF CancelTask, TypeOK
    <3>3. c \notin cancelling /\ t \in cancelling
      BY <3>1, <3>2 DEF CancelTask
    <3> QED BY <2>0, <3>3 DEF CancelClosed
  <2>4. CASE \E op \in OpIds : PollReady(op)
    <3>1. PICK op \in OpIds : PollReady(op)
      BY <2>4
    <3>2. waiting[op] # NoTask => waiting[op] \in TaskIds /\ state[waiting[op]] = "Waiting"
      BY <2>0 DEF WaitingTableSound, TypeOK
    <3> QED BY <2>0, <3>1, <3>2 DEF PollReady, Resume, TypeOK
  <2>5. CASE \E u \in TaskIds : RunTask(u)
    <3>1. PICK u \in TaskIds : RunTask(u)
      BY <2>5
    <3>2. \E s \in TaskStates \ {"Absent", "Cancelled"} : state' = [state EXCEPT ![u] = s]
      BY <2>0, <3>1, RunTaskFacts
    <3> QED BY <2>0, <3>2 DEF TypeOK
  <2> QED BY <2>1, <2>2, <2>3, <2>4, <2>5, QuietSteps
<1> QED BY <1>1, Inductive, PTL DEF Spec, CancelCascades

\* A suspended task leaves its `await` only with the result of that operation
\* or by a cancellation, and what has ended is never run again, however
\* futures are shared and wakes announced early.
THEOREM ResultsOnlyResume == Spec => OnlyResultsResume
<1> DEFINE Kept(t) ==
             /\ state[t] = "Waiting" /\ state'[t] # state[t] =>
                    \/ future[awaiting[t]] = "done"
                    \/ state'[t] = "Cancelled"
             /\ state[t] \in Terminal => state'[t] \in {state[t], "Cancelled"}
           Step == \A t \in TaskIds : Kept(t)
<1>1. IInv /\ [Next]_vars => [Step]_vars
  <2> SUFFICES ASSUME IInv, [Next]_vars, NEW t \in TaskIds
               PROVE  Kept(t)
    OBVIOUS
  <2> USE IdFacts
  <2>0. TypeOK /\ TaskIdsInUse /\ WaitingTableSound
    BY DEF IInv
  <2>1. CASE Quiet
    BY <2>1 DEF Quiet
  <2>2. CASE \E parent \in TaskIds \cup {NoTask} : SpawnChild(parent)
    <3>1. PICK parent : SpawnChild(parent)
      BY <2>2
    <3>2. state[next_task_id] = "Absent"
      BY <2>0, <3>1, SpawnFacts
    <3>3. state' = [state EXCEPT ![next_task_id] = "Ready"]
      BY <3>1 DEF SpawnChild
    <3> QED BY <2>0, <3>2, <3>3 DEF TypeOK, Terminal
  <2>3. CASE \E u \in TaskIds : CancelTask(u)
    <3>1. PICK u \in TaskIds : state' = [state EXCEPT ![u] = "Cancelled"]
      BY <2>3 DEF CancelTask
    <3> QED BY <2>0, <3>1 DEF TypeOK
  <2>4. CASE \E op \in OpIds : PollReady(op)
    <3>1. PICK op \in OpIds : PollReady(op)
      BY <2>4
    <3>2. future[op] = "done"
      BY <3>1 DEF PollReady, PollsReady
    <3>3. CASE waiting[op] = NoTask
      BY <3>1, <3>3 DEF PollReady
    <3>4. CASE waiting[op] # NoTask
      <4>1. /\ waiting[op] \in TaskIds /\ state[waiting[op]] = "Waiting"
            /\ awaiting[waiting[op]] = op
        BY <2>0, <3>4 DEF WaitingTableSound, TypeOK
      <4>2. \E s \in TaskStates : state' = [state EXCEPT ![waiting[op]] = s]
        BY <3>1, <3>4 DEF PollReady, Resume, TaskStates
      <4> QED BY <2>0, <3>2, <4>1, <4>2 DEF TypeOK, Terminal
    <3> QED BY <3>3, <3>4
  <2>5. CASE \E u \in TaskIds : RunTask(u)
    <3>1. PICK u \in TaskIds : RunTask(u)
      BY <2>5
    <3>2. /\ state[u] = "Ready"
          /\ \E s \in TaskStates \ {"Absent", "Cancelled"} : state' = [state EXCEPT ![u] = s]
      BY <2>0, <3>1, RunTaskFacts
    <3> QED BY <2>0, <3>2 DEF TypeOK, Terminal
  <2> QED BY <2>1, <2>2, <2>3, <2>4, <2>5, QuietSteps
<1> QED BY <1>1, Inductive, PTL DEF Spec, OnlyResultsResume

\* For every number of tasks: the ready tasks take turns, and neither a
\* resumption, a spawn nor a cancellation lets one overtake another.
THEOREM TasksTakeTurns == Spec => RoundRobin
<1> DEFINE Kept(t, u) ==
             /\ {t, u} \subseteq Members(ready_queue')
             /\ t \in Members(ready_queue) /\ ~RunsQuantum(t)
             /\ Before(ready_queue, t, u) \/ u \notin Members(ready_queue) \/ RunsQuantum(u)
             => Before(ready_queue', t, u)
           Step == \A t, u \in TaskIds : Kept(t, u)
<1>1. IInv /\ [Next]_vars => [Step]_vars
  <2> SUFFICES ASSUME IInv, [Next]_vars, NEW t \in TaskIds, NEW u \in TaskIds,
                      {t, u} \subseteq Members(ready_queue'),
                      t \in Members(ready_queue), ~RunsQuantum(t),
                      \/ Before(ready_queue, t, u)
                      \/ u \notin Members(ready_queue)
                      \/ RunsQuantum(u)
               PROVE  Before(ready_queue', t, u)
    OBVIOUS
  <2> USE IdFacts
  <2>0. /\ TypeOK /\ TaskIdsInUse /\ WaitingTableSound
        /\ ready_queue \in Seq(TaskIds) /\ NoDuplicates(ready_queue)
    BY DEF IInv, TypeOK, ReadyQueueExact
  \* A member that was not queued before is the one pushed at the back.
  <2>1. ASSUME NEW x \in TaskIds, ready_queue' = Append(ready_queue, x), ~RunsQuantum(u)
        PROVE  Before(ready_queue', t, u)
    <3>1. u \notin Members(ready_queue) => u = x
      BY <2>0, <2>1, AppendFacts
    <3> QED BY <2>0, <2>1, <3>1, AppendOrder
  <2>2. CASE \E v \in TaskIds : RunTask(v)
    <3>1. PICK v \in TaskIds : RunTask(v)
      BY <2>2
    <3>2. /\ ready_queue # <<>> /\ v = Head(ready_queue) /\ pc = "run"
          /\ \/ ready_queue' = Append(Tail(ready_queue), v)
             \/ ready_queue' = Tail(ready_queue)
      BY <2>0, <3>1, RunTaskFacts
    <3>3. \A w : RunsQuantum(w) => w = v
      BY <3>2 DEF RunsQuantum
    <3>4. pc' # "run"
      BY <3>1 DEF RunTask, Yield, Finish, HostCall, CallAnswered, CommandCall,
                  AwaitCompleted, AwaitPending, AwaitUnknown, TickReturns
    <3>5. t # v
      BY <3>2, <3>4 DEF RunsQuantum
    <3>6. /\ Tail(ready_queue) \in Seq(TaskIds)
          /\ Members(ready_queue) = Members(Tail(ready_queue)) \cup {v}
          /\ v \notin Members(Tail(ready_queue))
      BY <2>0, <3>2, TailFacts
    <3>7. u # v => Before(Tail(ready_queue), t, u)
      <4> SUFFICES ASSUME u # v
                   PROVE  Before(Tail(ready_queue), t, u)
        OBVIOUS
      <4>1. u \in Members(Tail(ready_queue)) \cup {v}
        <5>1. \A q \in Seq(TaskIds) : Members(Append(q, v)) = Members(q) \cup {v}
          BY AppendFacts
        <5> QED BY <3>2, <3>6, <5>1
      <4>2. Before(ready_queue, t, u)
        BY <3>3, <3>6, <4>1
      <4> QED BY <2>0, <3>2, <3>5, <4>2, TailOrder
    <3>8. CASE ready_queue' = Append(Tail(ready_queue), v)
      BY <3>5, <3>6, <3>7, <3>8, AppendOrder
    <3>9. CASE ready_queue' = Tail(ready_queue)
      BY <3>6, <3>7, <3>9
    <3> QED BY <3>2, <3>8, <3>9
  <2>3. ASSUME ~\E v \in TaskIds : RunTask(v)
        PROVE  Before(ready_queue', t, u)
    <3>1. ~RunsQuantum(u)
      BY <2>3, QuantumIsRun
    <3>2. CASE ready_queue' = ready_queue
      BY <3>1, <3>2
    <3>3. CASE \E parent \in TaskIds \cup {NoTask} : SpawnChild(parent)
      <4>1. next_task_id \in TaskIds /\ ready_queue' = Append(ready_queue, next_task_id)
        <5>1. PICK parent : SpawnChild(parent)
          BY <3>3
        <5>2. next_task_id \in TaskIds
          BY <2>0, <5>1, SpawnFacts
        <5> QED BY <5>1, <5>2 DEF SpawnChild
      <4> QED BY <2>1, <3>1, <4>1
    <3>4. CASE \E v \in TaskIds : CancelTask(v)
      <4>1. PICK v \in TaskIds : ready_queue' = Without(ready_queue, v)
        BY <3>4 DEF CancelTask
      <4>2. Members(ready_queue') = Members(ready_queue) \ {v}
        BY <2>0, <4>1, WithoutFacts
      <4>3. Before(ready_queue, t, u) /\ t # v /\ u # v
        BY <3>1, <4>2
      <4> QED BY <2>0, <4>1, <4>3, WithoutOrder
    <3>5. CASE \E op \in OpIds : PollReady(op)
      <4>1. PICK op \in OpIds : PollReady(op)
        BY <3>5
      <4>2. CASE ready_queue' = ready_queue
        BY <3>2, <4>2
      <4>3. CASE ready_queue' = Append(ready_queue, waiting[op]) /\ waiting[op] # NoTask
        <5>1. waiting[op] \in TaskIds
          BY <2>0, <4>3 DEF TypeOK
        <5> QED BY <2>1, <3>1, <4>3, <5>1
      <4> QED BY <4>1, <4>2, <4>3 DEF PollReady, Resume
    <3> QED BY <2>3, <3>2, <3>3, <3>4, <3>5, QuietSteps DEF Quiet
  <2> QED BY <2>2, <2>3
<1> QED BY <1>1, Inductive, PTL DEF Spec, RoundRobin
=============================================================================
