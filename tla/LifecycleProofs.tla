-------------------------- MODULE LifecycleProofs --------------------------
(***************************************************************************)
(* The scheduler implements TaskLifecycle, and a blocked run_until_complete*)
(* is always woken, for any number of tasks and operations: theorems about *)
(* scripts that await each future once (~Shared).                          *)
(***************************************************************************)
EXTENDS SchedulerProofs, MCScheduler, FiniteSetTheorems

-----------------------------------------------------------------------------
(* The strengthening.  LinearUse is inductive together with IInv.          *)

\* An operation is pending or its result is kept, never both.
ResultsOnce ==
    /\ operations \cap completed_operations = {}
    /\ completed_operations \subseteq Known
    /\ \A op \in operations : future[op] \in {"pending", "done"}

\* A future is held by one task, is not lost, and nobody waits for it yet.
HeldOnce ==
    \A t \in TaskIds : \A op \in futures[t] :
        /\ op \in operations \cup completed_operations
        /\ \A u \in TaskIds : op \in futures[u] => u = t
        /\ \A u \in TaskIds : awaiting[u] # op

\* The converse of WaitingTableSound: a waiting task is in the table.
AwaitsMatch ==
    \A t \in TaskIds :
        IF state[t] = "Waiting"
        THEN awaiting[t] \in operations /\ waiting[awaiting[t]] = t
        ELSE awaiting[t] = NoOp

LinearUse == ResultsOnce /\ HeldOnce /\ AwaitsMatch

\* What the theorems of this module rest on.
Facts == TypeOK /\ TaskIdsInUse /\ WaitingTableSound /\ OpIdsInUse /\ LinearUse

LEMMA FactsOfInvariants == IInv /\ LinearUse => Facts
BY DEF IInv, Facts

LEMMA LinearInit == Init => LinearUse
BY DEF Init, LinearUse, ResultsOnce, HeldOnce, AwaitsMatch

-----------------------------------------------------------------------------
(* The steps that neither the lifecycle nor LinearUse sees, taken together. *)

Unseen == UNCHANGED <<state, awaiting, futures, waiting, operations,
                      completed_operations, next_operation_id, future>>

LEMMA Steps ==
    ASSUME [Next]_vars
    PROVE  \/ Unseen
           \/ \E parent \in TaskIds \cup {NoTask} : SpawnChild(parent)
           \/ \E op \in OpIds, holders \in SUBSET TaskIds : Register(op, holders)
           \/ \E t \in TaskIds : CancelTask(t)
           \/ \E op \in OpIds : PollReady(op)
           \/ \E op \in OpIds : HostFinish(op)
           \/ \E t \in TaskIds :
                 \/ \E outcome \in {"Completed", "Failed"} : Finish(t, outcome)
                 \/ CallAnswered(t)
                 \/ \E op \in OpIds :
                       \/ HostCall(t, op)
                       \/ CommandCall(t, op)
                       \/ AwaitCompleted(t, op)
                       \/ AwaitPending(t, op)
                       \/ AwaitUnknown(t, op)
<1>1. SetHost \/ CallTick \/ CallRunUntilStalled => Unseen
  BY DEF SetHost, CallTick, CallRunUntilStalled, Unseen, taskVars, opVars, hostVars
<1>2. ASSUME NEW t, CallRunUntilComplete(t) \/ CallCancel(t)
      PROVE  Unseen
  BY <1>2 DEF CallRunUntilComplete, CallCancel, Unseen, taskVars, opVars, hostVars
<1>3. CollectWake \/ Recv => Unseen
  BY DEF CollectWake, Recv, Unseen, taskVars, hostVars
<1>4. PollNothing \/ RunNothing => Unseen
  BY DEF PollNothing, PollReturns, RunNothing, Unseen, taskVars, opVars, hostVars
<1>5. ASSUME NEW op, PollStale(op) \/ PollPending(op)
      PROVE  Unseen
  BY <1>5 DEF PollStale, PollPending, PollReturns, Unseen, hostVars
<1>6. ASSUME NEW t, Yield(t)
      PROVE  Unseen
  BY <1>6 DEF Yield, Unseen, opVars, hostVars
<1>7. ASSUME NEW op, HostWake(op) \/ HostWakeEarly(op) \/ HostWakeClone(op)
      PROVE  Unseen
  BY <1>7 DEF HostWake, HostWakeEarly, HostWakeClone, Unseen, taskVars, opVars
<1>8. UNCHANGED vars => Unseen
  BY DEF vars, Unseen, taskVars, opVars, hostVars
<1> QED BY <1>1, <1>2, <1>3, <1>4, <1>5, <1>6, <1>7, <1>8
        DEF Next, Embedder, SchedulerThread, HostThreads, RunTask
-----------------------------------------------------------------------------
(* LinearUse is inductive, for scripts that drop a future they have awaited. *)

\* A set of tasks that an embedder may hand a linear future to.
LEMMA OneHolder ==
    ASSUME NEW S \in SUBSET TaskIds, Cardinality(S) <= 1, NEW x \in S, NEW y \in S
    PROVE  x = y
<1>1. IsFiniteSet(TaskIds)
  BY ConstantsAssumption, FS_Interval DEF TaskIds
<1>2. IsFiniteSet(S)
  BY <1>1, FS_Subset
<1>3. SUFFICES ASSUME x # y PROVE FALSE
  OBVIOUS
<1>4. IsFiniteSet({x}) /\ Cardinality({x}) = 1
  BY FS_Singleton
<1>5. Cardinality({x} \cup {y}) = 2
  BY <1>3, <1>4, FS_AddElement
<1>6. Cardinality({x} \cup {y}) <= Cardinality(S) /\ Cardinality(S) \in Nat
  BY <1>2, FS_Subset, FS_CardinalityType
<1> QED BY <1>5, <1>6

\* A new operation is not known to any table.
LEMMA FreshOperation ==
    ASSUME Facts, NEW op \in OpIds, RegisterBoxed(op)
    PROVE  /\ op \notin operations \cup completed_operations
           /\ \A t \in TaskIds : op \notin futures[t] /\ awaiting[t] # op
           /\ \A t \in TaskIds : waiting[op] # t
           /\ operations' = operations \cup {op}
           /\ next_operation_id' = op + 1
           /\ Known \subseteq Known' /\ op \in Known'
           /\ future' = [future EXCEPT ![op] = "pending"]
<1> USE IdFacts DEF Facts, LinearUse
<1>1. op \notin Known
  BY DEF RegisterBoxed, Known, TypeOK
<1>2. op \notin operations \cup completed_operations
  BY <1>1 DEF OpIdsInUse, ResultsOnce
<1>3. ASSUME NEW t \in TaskIds
      PROVE  op \notin futures[t] /\ awaiting[t] # op /\ waiting[op] # t
  <2>1. op \notin futures[t]
    BY <1>2 DEF HeldOnce
  <2>2. awaiting[t] # op
    BY <1>2 DEF AwaitsMatch, OpIds, NoOp
  <2>3. waiting[op] # t
    BY <1>2 DEF WaitingTableSound, TaskIds, NoTask
  <2> QED BY <2>1, <2>2, <2>3
<1> QED BY <1>1, <1>2, <1>3 DEF RegisterBoxed, Known, TypeOK

LEMMA RegisterLinear ==
    ASSUME ~Shared, Facts, NEW op \in OpIds, NEW holders \in SUBSET TaskIds,
           Register(op, holders)
    PROVE  LinearUse'
<1> USE IdFacts DEF Facts, LinearUse
<1>1. /\ RegisterBoxed(op) /\ UNCHANGED <<state, awaiting, waiting, completed_operations>>
      /\ futures' = [t \in TaskIds |-> IF t \in holders THEN futures[t] \cup {op} ELSE futures[t]]
      /\ Cardinality(holders) <= 1
  BY DEF Register
<1>2. \A t, u \in holders : t = u
  BY <1>1, OneHolder
<1>3. ResultsOnce'
  <2>1. completed_operations' \subseteq Known'
    BY <1>1, FreshOperation DEF ResultsOnce
  <2>2. \A o \in operations' : future'[o] \in {"pending", "done"}
    <3>1. future \in [OpIds -> {"absent", "pending", "done"}]
      BY DEF TypeOK
    <3>2. future' = [future EXCEPT ![op] = "pending"] /\ operations' = operations \cup {op}
      BY <1>1, FreshOperation
    <3> QED BY <3>1, <3>2 DEF ResultsOnce
  <2>3. operations' \cap completed_operations' = {}
    BY <1>1, FreshOperation DEF ResultsOnce
  <2> QED BY <2>1, <2>2, <2>3 DEF ResultsOnce
<1>4. HeldOnce'
  BY <1>1, <1>2, FreshOperation DEF HeldOnce
<1>5. AwaitsMatch'
  BY <1>1, FreshOperation DEF AwaitsMatch
<1> QED BY <1>3, <1>4, <1>5

LEMMA SpawnLinear ==
    ASSUME Facts, NEW parent, SpawnChild(parent)
    PROVE  LinearUse'
<1> USE IdFacts DEF Facts, LinearUse
<1>1. /\ UNCHANGED <<awaiting, futures, waiting, operations, completed_operations,
                     next_operation_id, future>>
      /\ state' = [state EXCEPT ![next_task_id] = "Ready"]
  BY DEF SpawnChild, opVars, hostVars
<1>2. next_task_id \in TaskIds /\ state[next_task_id] = "Absent"
  BY SpawnFacts
<1>3. AwaitsMatch'
  BY <1>1, <1>2 DEF AwaitsMatch, TypeOK
<1> QED BY <1>1, <1>3 DEF ResultsOnce, HeldOnce, Known

LEMMA CancelLinear ==
    ASSUME Facts, NEW t \in TaskIds, CancelTask(t)
    PROVE  LinearUse'
<1> USE IdFacts DEF Facts, LinearUse
<1>1. /\ state' = [state EXCEPT ![t] = "Cancelled"]
      /\ awaiting' = [awaiting EXCEPT ![t] = NoOp]
      /\ futures' = [futures EXCEPT ![t] = {}]
      /\ UNCHANGED <<next_operation_id, future>>
      /\ IF state[t] = "Waiting"
         THEN /\ waiting' = [waiting EXCEPT ![awaiting[t]] = NoTask]
              /\ operations' = operations \ {awaiting[t]}
              /\ completed_operations' = completed_operations \ {awaiting[t]}
         ELSE UNCHANGED <<waiting, operations, completed_operations>>
  BY DEF CancelTask, DropOperation, hostVars
<1>2. ResultsOnce'
  BY <1>1 DEF ResultsOnce, Known
<1>3. HeldOnce'
  BY <1>1 DEF HeldOnce, TypeOK
<1>4. AwaitsMatch'
  <2> SUFFICES ASSUME NEW u \in TaskIds
               PROVE  IF state'[u] = "Waiting"
                      THEN awaiting'[u] \in operations' /\ waiting'[awaiting'[u]] = u
                      ELSE awaiting'[u] = NoOp
    BY DEF AwaitsMatch
  <2>1. CASE u = t
    BY <1>1, <2>1 DEF TypeOK
  <2>2. CASE u # t
    <3>1. state'[u] = state[u] /\ awaiting'[u] = awaiting[u]
      BY <1>1, <2>2 DEF TypeOK
    <3>2. state[u] = "Waiting" /\ state[t] = "Waiting" => awaiting[u] # awaiting[t]
      BY <2>2 DEF AwaitsMatch
    <3> QED BY <1>1, <3>1, <3>2 DEF AwaitsMatch, TypeOK
  <2> QED BY <2>1, <2>2
<1> QED BY <1>2, <1>3, <1>4

LEMMA PollLinear ==
    ASSUME Facts, NEW op \in OpIds, PollReady(op)
    PROVE  LinearUse'
<1> USE IdFacts DEF Facts, LinearUse
<1>1. /\ op \in operations
      /\ operations' = operations \ {op}
      /\ waiting' = [waiting EXCEPT ![op] = NoTask]
      /\ UNCHANGED <<next_operation_id, future>>
  BY DEF PollReady, PollReturns, hostVars
<1>2. CASE waiting[op] = NoTask
  <2>1. /\ completed_operations' = completed_operations \cup {op}
        /\ UNCHANGED <<state, awaiting, futures>>
    BY <1>2 DEF PollReady, KeepResult
  <2>2. \A t \in TaskIds : awaiting[t] # op
    BY <1>2 DEF AwaitsMatch
  <2>3. ResultsOnce'
    BY <1>1, <2>1 DEF ResultsOnce, OpIdsInUse, Known
  <2>4. HeldOnce'
    BY <1>1, <2>1 DEF HeldOnce
  <2>5. AwaitsMatch'
    BY <1>1, <2>1, <2>2 DEF AwaitsMatch, TypeOK
  <2> QED BY <2>3, <2>4, <2>5
<1>3. CASE waiting[op] # NoTask
  <2> DEFINE w == waiting[op]
  <2>1. /\ w \in TaskIds /\ state[w] = "Waiting" /\ awaiting[w] = op /\ waiting[op] = w
        /\ futures[w] \in SUBSET OpIds
    BY <1>3 DEF WaitingTableSound, TypeOK
  <2>2. Resume(w, ready_queue, futures[w]) /\ UNCHANGED completed_operations
    BY <1>3 DEF PollReady
  <2> HIDE DEF w
  <2>3. /\ awaiting' = [awaiting EXCEPT ![w] = NoOp]
        /\ \E s \in {"Ready", "Failed"} : state' = [state EXCEPT ![w] = s]
        /\ \E h \in SUBSET futures[w] : futures' = [futures EXCEPT ![w] = h]
    BY <2>2 DEF Resume
  <2>4. \A t \in TaskIds : op \notin futures[t] /\ (t # w => awaiting[t] # op)
    BY <2>1 DEF HeldOnce, AwaitsMatch
  <2>5. ResultsOnce'
    BY <1>1, <2>2 DEF ResultsOnce, Known
  <2>6. HeldOnce'
    BY <1>1, <2>1, <2>2, <2>3, <2>4 DEF HeldOnce, TypeOK
  <2>7. AwaitsMatch'
    BY <1>1, <2>1, <2>3, <2>4 DEF AwaitsMatch, TypeOK
  <2> QED BY <2>5, <2>6, <2>7
<1> QED BY <1>2, <1>3

\* The host finishes a future, pending or dropped.
LEMMA HostFinishLinear ==
    ASSUME Facts, NEW op \in OpIds, HostFinish(op)
    PROVE  LinearUse'
<1>1. /\ UNCHANGED <<state, awaiting, futures, waiting, operations,
                     completed_operations, next_operation_id>>
      /\ future' = [future EXCEPT ![op] = "done"]
      /\ future \in [OpIds -> {"absent", "pending", "done"}]
  BY DEF HostFinish, taskVars, opVars, Facts, TypeOK
<1>2. ResultsOnce'
  BY <1>1 DEF ResultsOnce, Known, Facts, LinearUse
<1> QED BY <1>1, <1>2 DEF Facts, LinearUse, HeldOnce, AwaitsMatch

\* A quantum starts with a Ready task, which waits for nothing.
LEMMA QuantumFacts ==
    ASSUME Facts, NEW t \in TaskIds, RunQuantum(t)
    PROVE  /\ state[t] = "Ready" /\ awaiting[t] = NoOp
           /\ \A op \in OpIds : waiting[op] # t
<1>1. state[t] = "Ready"
  BY DEF RunQuantum
<1>2. awaiting[t] = NoOp
  BY <1>1 DEF Facts, LinearUse, AwaitsMatch
<1>3. \A op \in OpIds : waiting[op] # t
  BY <1>1, IdFacts DEF Facts, WaitingTableSound
<1> QED BY <1>1, <1>2, <1>3

\* The outcomes of a quantum that leave the operations alone.
LEMMA PlainLinear ==
    ASSUME Facts, NEW t \in TaskIds, NEW outcome,
           Finish(t, outcome) \/ CallAnswered(t)
    PROVE  LinearUse'
<1> USE IdFacts DEF Facts, LinearUse
<1>1. RunQuantum(t) /\ UNCHANGED <<waiting, operations, completed_operations,
                                   next_operation_id, future>>
  BY DEF Finish, CallAnswered, opVars, hostVars
<1>2. state[t] = "Ready" /\ awaiting[t] = NoOp
  BY <1>1, QuantumFacts
<1>3. /\ \E h \in SUBSET futures[t] : futures' = [futures EXCEPT ![t] = h]
      /\ \E s \in {"Ready", "Completed", "Failed"} : state' = [state EXCEPT ![t] = s]
      /\ awaiting' = awaiting \/ awaiting' = [awaiting EXCEPT ![t] = NoOp]
  <2>1. CASE Finish(t, outcome)
    BY <2>1 DEF Finish, End
  <2>2. CASE CallAnswered(t)
    BY <2>2 DEF CallAnswered, Resume
  <2> QED BY <2>1, <2>2
<1>4. awaiting' = awaiting
  BY <1>2, <1>3 DEF TypeOK
<1>5. HeldOnce'
  BY <1>1, <1>3, <1>4 DEF HeldOnce, TypeOK
<1>6. AwaitsMatch'
  BY <1>1, <1>2, <1>3, <1>4 DEF AwaitsMatch, TypeOK
<1> QED BY <1>1, <1>5, <1>6 DEF ResultsOnce, Known

LEMMA HostCallLinear ==
    ASSUME Facts, NEW t \in TaskIds, NEW op \in OpIds, HostCall(t, op)
    PROVE  LinearUse'
<1> USE IdFacts DEF Facts, LinearUse
<1>1. RegisterBoxed(op) /\ RunQuantum(t) /\ UNCHANGED <<waiting, completed_operations>>
  BY DEF HostCall
<1>2. state[t] = "Ready" /\ awaiting[t] = NoOp
  BY <1>1, QuantumFacts
<1>3. /\ \E h \in SUBSET (futures[t] \cup {op}) : futures' = [futures EXCEPT ![t] = h]
      /\ \E s \in {"Ready", "Failed"} : state' = [state EXCEPT ![t] = s]
      /\ awaiting' = [awaiting EXCEPT ![t] = NoOp]
  BY DEF HostCall, Resume
<1>4. awaiting' = awaiting
  BY <1>2, <1>3 DEF TypeOK
<1>5. /\ op \notin operations \cup completed_operations
      /\ \A u \in TaskIds : op \notin futures[u] /\ awaiting[u] # op
      /\ operations' = operations \cup {op}
      /\ Known \subseteq Known'
      /\ future' = [future EXCEPT ![op] = "pending"]
  BY <1>1, FreshOperation
<1>6. ResultsOnce'
  BY <1>1, <1>5 DEF ResultsOnce, TypeOK
<1>7. HeldOnce'
  BY <1>1, <1>3, <1>4, <1>5 DEF HeldOnce, TypeOK
<1>8. AwaitsMatch'
  BY <1>1, <1>2, <1>3, <1>4, <1>5 DEF AwaitsMatch, TypeOK
<1> QED BY <1>6, <1>7, <1>8

LEMMA CommandCallLinear ==
    ASSUME Facts, NEW t \in TaskIds, NEW op \in OpIds, CommandCall(t, op)
    PROVE  LinearUse'
<1> USE IdFacts DEF Facts, LinearUse
<1>1. /\ RegisterBoxed(op) /\ UNCHANGED <<futures, completed_operations>>
      /\ state' = [state EXCEPT ![t] = "Waiting"]
      /\ awaiting' = [awaiting EXCEPT ![t] = op]
      /\ waiting' = [waiting EXCEPT ![op] = t]
  BY DEF CommandCall, Suspend
<1>2. /\ op \notin operations \cup completed_operations
      /\ \A u \in TaskIds : op \notin futures[u] /\ awaiting[u] # op
      /\ operations' = operations \cup {op}
      /\ Known \subseteq Known'
      /\ future' = [future EXCEPT ![op] = "pending"]
  BY <1>1, FreshOperation
<1>3. ResultsOnce'
  BY <1>1, <1>2 DEF ResultsOnce, TypeOK
<1>4. HeldOnce'
  BY <1>1, <1>2 DEF HeldOnce, TypeOK
<1>5. AwaitsMatch'
  BY <1>1, <1>2 DEF AwaitsMatch, TypeOK
<1> QED BY <1>3, <1>4, <1>5

\* A future that a task holds is not lost: awaiting it never fails.
LEMMA NoUnknownOperation ==
    ASSUME Facts, NEW t \in TaskIds, NEW op \in OpIds
    PROVE  ~AwaitUnknown(t, op)
BY DEF Facts, LinearUse, HeldOnce, AwaitUnknown, Awaits

LEMMA AwaitCompletedLinear ==
    ASSUME ~Shared, Facts, NEW t \in TaskIds, NEW op \in OpIds, AwaitCompleted(t, op)
    PROVE  LinearUse'
<1> USE IdFacts DEF Facts, LinearUse
<1>1. /\ RunQuantum(t) /\ op \in futures[t] /\ op \in completed_operations
      /\ UNCHANGED <<waiting, operations, next_operation_id, future>>
      /\ completed_operations' = completed_operations \ {op}
  BY DEF AwaitCompleted, Awaits, hostVars
<1>2. state[t] = "Ready" /\ awaiting[t] = NoOp
  BY <1>1, QuantumFacts
<1>3. /\ \E h \in SUBSET (futures[t] \ {op}) : futures' = [futures EXCEPT ![t] = h]
      /\ \E s \in {"Ready", "Failed"} : state' = [state EXCEPT ![t] = s]
      /\ awaiting' = [awaiting EXCEPT ![t] = NoOp]
  BY DEF AwaitCompleted, Resume, StillHeld
<1>4. awaiting' = awaiting
  BY <1>2, <1>3 DEF TypeOK
<1>5. \A u \in TaskIds : op \in futures[u] => u = t
  BY <1>1 DEF HeldOnce
<1>6. ResultsOnce'
  BY <1>1 DEF ResultsOnce, Known
<1>7. HeldOnce'
  BY <1>1, <1>3, <1>4, <1>5 DEF HeldOnce, TypeOK
<1>8. AwaitsMatch'
  BY <1>1, <1>2, <1>3, <1>4 DEF AwaitsMatch, TypeOK
<1> QED BY <1>6, <1>7, <1>8

LEMMA AwaitPendingLinear ==
    ASSUME ~Shared, Facts, NEW t \in TaskIds, NEW op \in OpIds, AwaitPending(t, op)
    PROVE  LinearUse'
<1> USE IdFacts DEF Facts, LinearUse
<1>1. /\ op \in futures[t] /\ op \in operations
      /\ UNCHANGED <<operations, completed_operations, next_operation_id, future>>
      /\ futures' = [futures EXCEPT ![t] = futures[t] \ {op}]
      /\ state' = [state EXCEPT ![t] = "Waiting"]
      /\ awaiting' = [awaiting EXCEPT ![t] = op]
      /\ waiting' = [waiting EXCEPT ![op] = t]
  BY DEF AwaitPending, Awaits, Suspend, StillHeld, hostVars
<1>2. \A u \in TaskIds : (op \in futures[u] => u = t) /\ awaiting[u] # op
  BY <1>1 DEF HeldOnce
<1>3. ResultsOnce'
  BY <1>1 DEF ResultsOnce, Known
<1>4. HeldOnce'
  BY <1>1, <1>2 DEF HeldOnce, TypeOK
<1>5. AwaitsMatch'
  BY <1>1, <1>2 DEF AwaitsMatch, TypeOK
<1> QED BY <1>3, <1>4, <1>5

LEMMA LinearNext ==
    ASSUME ~Shared, Facts, [Next]_vars
    PROVE  LinearUse'
<1>1. CASE Unseen
  BY <1>1 DEF Unseen, Facts, LinearUse, ResultsOnce, HeldOnce, AwaitsMatch, Known
<1> QED BY <1>1, Steps, SpawnLinear, RegisterLinear, CancelLinear, PollLinear,
           HostFinishLinear, PlainLinear, HostCallLinear, CommandCallLinear,
           AwaitCompletedLinear, AwaitPendingLinear, NoUnknownOperation

\* For any number of tasks and operations: while scripts drop a future they have
\* awaited, no future is lost, and no operation has two waiters.
THEOREM LinearInductive ==
    ASSUME ~Shared
    PROVE  Spec => [](IInv /\ LinearUse)
<1>1. IInv /\ LinearUse /\ [Next]_vars => (IInv /\ LinearUse)'
  BY NextInductive, LinearNext, FactsOfInvariants
<1> QED BY <1>1, InitInductive, LinearInit, PTL DEF Spec

-----------------------------------------------------------------------------
(* The refinement: what each action is for TaskLifecycle.                  *)

\* The mapping turns a new operation into a pending result.
LEMMA FreshResult ==
    ASSUME Facts, NEW op \in OpIds, RegisterBoxed(op), UNCHANGED completed_operations
    PROVE  /\ Results[op] = "none"
           /\ Results' = [Results EXCEPT ![op] = "pending"]
<1> USE IdFacts DEF Facts
<1>1. /\ operations' = operations \cup {op}
      /\ op \in Known' /\ future' = [future EXCEPT ![op] = "pending"]
  BY FreshOperation
<1>2. op \notin Known /\ \A o \in OpIds \ {op} : o \in Known' <=> o \in Known
  BY DEF RegisterBoxed, Known, TypeOK
<1>3. future'[op] = "pending" /\ \A o \in OpIds \ {op} : future'[o] = future[o]
  BY <1>1 DEF TypeOK
<1>4. ResultOf(op) = "none" /\ ResultOf(op)' = "pending"
  BY <1>1, <1>2, <1>3 DEF ResultOf
<1>5. ASSUME NEW o \in OpIds, o # op
      PROVE  ResultOf(o)' = ResultOf(o)
  BY <1>1, <1>2, <1>3, <1>5 DEF ResultOf
<1> QED BY <1>4, <1>5 DEF Results

LEMMA SpawnRefines ==
    ASSUME Facts, NEW parent, SpawnChild(parent)
    PROVE  Lifecycle!Next
<1>1. next_task_id \in TaskIds /\ state[next_task_id] = "Absent"
  BY SpawnFacts DEF Facts
<1>2. /\ state' = [state EXCEPT ![next_task_id] = "Ready"]
      /\ UNCHANGED <<awaiting, operations, completed_operations, next_operation_id, future>>
  BY DEF SpawnChild, opVars, hostVars
<1>3. Lifecycle!Spawn(next_task_id)
  BY <1>1, <1>2 DEF Lifecycle!Spawn, Results, ResultOf, Known
<1> QED BY <1>1, <1>3 DEF Lifecycle!Next

LEMMA RegisterRefines ==
    ASSUME Facts, NEW op \in OpIds, NEW holders, Register(op, holders)
    PROVE  Lifecycle!Next
<1>1. RegisterBoxed(op) /\ UNCHANGED <<state, awaiting, completed_operations>>
  BY DEF Register
<1>2. Lifecycle!Register(op)
  BY <1>1, FreshResult DEF Lifecycle!Register
<1> QED BY <1>2 DEF Lifecycle!Next

LEMMA HostFinishRefines ==
    ASSUME Facts, NEW op \in OpIds, HostFinish(op)
    PROVE  [Lifecycle!Next]_(Lifecycle!vars)
<1> USE IdFacts DEF Facts, LinearUse
<1>1. /\ UNCHANGED <<state, awaiting, operations, completed_operations, Known>>
      /\ future[op] = "pending"
      /\ future'[op] = "done" /\ \A o \in OpIds \ {op} : future'[o] = future[o]
  BY DEF HostFinish, taskVars, opVars, TypeOK, Known
<1>2. \A o \in OpIds \ {op} : ResultOf(o)' = ResultOf(o)
  BY <1>1 DEF ResultOf
<1>3. CASE op \in operations
  <2>1. op \in Known
    BY <1>3 DEF OpIdsInUse
  <2>2. ResultOf(op) = "pending" /\ ResultOf(op)' = "ready"
    BY <1>1, <1>3, <2>1 DEF ResultOf
  <2>3. Results[op] = "pending" /\ Results' = [Results EXCEPT ![op] = "ready"]
    BY <1>2, <2>2 DEF Results
  <2>4. Lifecycle!Resolve(op)
    BY <1>1, <2>3 DEF Lifecycle!Resolve
  <2> QED BY <2>4 DEF Lifecycle!Next
<1>4. CASE op \notin operations
  <2>1. ResultOf(op)' = ResultOf(op)
    BY <1>1, <1>4 DEF ResultOf
  <2> QED BY <1>1, <1>2, <2>1 DEF Results, Lifecycle!vars
<1> QED BY <1>3, <1>4

LEMMA CancelRefines ==
    ASSUME Facts, NEW t \in TaskIds, CancelTask(t)
    PROVE  Lifecycle!Next
<1> USE IdFacts DEF Facts, LinearUse
<1>1. /\ state' = [state EXCEPT ![t] = "Cancelled"]
      /\ awaiting' = [awaiting EXCEPT ![t] = NoOp]
      /\ UNCHANGED <<next_operation_id, future>>
      /\ IF state[t] = "Waiting"
         THEN /\ operations' = operations \ {awaiting[t]}
              /\ completed_operations' = completed_operations \ {awaiting[t]}
         ELSE UNCHANGED <<operations, completed_operations>>
  BY DEF CancelTask, DropOperation, hostVars
<1>2. state[t] # "Absent"
  BY DEF CancelTask, TaskIdsInUse, Live, TypeOK
<1>3. Results' = [op \in OpIds |-> IF awaiting[t] = op THEN "gone" ELSE Results[op]]
  <2>1. CASE state[t] = "Waiting"
    <3>1. awaiting[t] \in Known /\ next_operation_id \in Nat
      BY <2>1 DEF AwaitsMatch, OpIdsInUse, TypeOK
    <3>2. \A op \in OpIds : ResultOf(op)' = IF awaiting[t] = op THEN "gone" ELSE ResultOf(op)
      BY <1>1, <2>1, <3>1 DEF ResultOf, Known
    <3> QED BY <3>2 DEF Results
  <2>2. CASE state[t] # "Waiting"
    <3>1. \A op \in OpIds : awaiting[t] # op
      BY <2>2 DEF AwaitsMatch
    <3>2. \A op \in OpIds : ResultOf(op)' = ResultOf(op)
      BY <1>1, <2>2 DEF ResultOf, Known
    <3> QED BY <3>1, <3>2 DEF Results
  <2> QED BY <2>1, <2>2
<1>4. Lifecycle!Cancel(t)
  BY <1>1, <1>2, <1>3 DEF Lifecycle!Cancel
<1> QED BY <1>4 DEF Lifecycle!Next

LEMMA PollRefines ==
    ASSUME Facts, NEW op \in OpIds, PollReady(op)
    PROVE  [Lifecycle!Next]_(Lifecycle!vars)
<1> USE IdFacts DEF Facts, LinearUse
<1>1. /\ op \in operations /\ future[op] = "done"
      /\ operations' = operations \ {op}
      /\ UNCHANGED <<future, next_operation_id>>
  BY DEF PollReady, PollsReady, PollReturns, hostVars
<1>2. op \in Known /\ UNCHANGED Known
  BY <1>1 DEF OpIdsInUse, Known
<1>3. CASE waiting[op] = NoTask
  <2>1. /\ completed_operations' = completed_operations \cup {op}
        /\ UNCHANGED <<state, awaiting>>
    BY <1>3 DEF PollReady, KeepResult
  <2>2. \A o \in OpIds : ResultOf(o)' = ResultOf(o)
    BY <1>1, <1>2, <2>1 DEF ResultOf
  <2> QED BY <2>1, <2>2 DEF Results, Lifecycle!vars
<1>4. CASE waiting[op] # NoTask
  <2>1. PICK w \in TaskIds : w = waiting[op]
    BY <1>4 DEF TypeOK
  <2>2. state[w] = "Waiting" /\ awaiting[w] = op
    BY <1>4, <2>1 DEF WaitingTableSound
  <2>3. /\ awaiting' = [awaiting EXCEPT ![w] = NoOp]
        /\ \E s \in {"Ready", "Failed"} : state' = [state EXCEPT ![w] = s]
        /\ UNCHANGED completed_operations
    BY <1>4, <2>1 DEF PollReady, Resume
  <2>4. op \notin completed_operations
    BY <1>1 DEF ResultsOnce
  <2>5. ResultOf(op) = "ready" /\ ResultOf(op)' = "gone"
    BY <1>1, <1>2, <2>3, <2>4 DEF ResultOf
  <2>6. \A o \in OpIds \ {op} : ResultOf(o)' = ResultOf(o)
    BY <1>1, <1>2, <2>3 DEF ResultOf
  <2>7. Results[op] = "ready" /\ Results' = [Results EXCEPT ![op] = "gone"]
    BY <2>5, <2>6 DEF Results
  <2>8. Lifecycle!Deliver(w, op)
    BY <2>2, <2>3, <2>7 DEF Lifecycle!Deliver
  <2> QED BY <2>1, <2>8 DEF Lifecycle!Next
<1> QED BY <1>3, <1>4

LEMMA PlainRefines ==
    ASSUME Facts, NEW t \in TaskIds, NEW outcome \in {"Completed", "Failed"},
           Finish(t, outcome) \/ CallAnswered(t)
    PROVE  [Lifecycle!Next]_(Lifecycle!vars)
<1>1. RunQuantum(t) /\ UNCHANGED <<operations, completed_operations, next_operation_id, future>>
  BY DEF Finish, CallAnswered, opVars, hostVars
<1>2. state[t] = "Ready" /\ awaiting[t] = NoOp
  BY <1>1, QuantumFacts
<1>3. Results' = Results
  BY <1>1 DEF Results, ResultOf, Known
<1>4. awaiting' = awaiting
  BY <1>2 DEF Finish, CallAnswered, End, Resume, Facts, TypeOK
<1>5. \E s \in {"Ready", "Completed", "Failed"} : state' = [state EXCEPT ![t] = s]
  BY DEF Finish, CallAnswered, End, Resume
<1>6. CASE state' = [state EXCEPT ![t] = "Ready"]
  <2>1. state' = state
    BY <1>2, <1>6 DEF Facts, TypeOK
  <2> QED BY <1>3, <1>4, <2>1 DEF Lifecycle!vars
<1>7. ASSUME NEW s \in {"Completed", "Failed"}, state' = [state EXCEPT ![t] = s]
      PROVE  Lifecycle!Next
  <2>1. Lifecycle!End(t, s)
    BY <1>2, <1>3, <1>4, <1>7 DEF Lifecycle!End
  <2> QED BY <2>1 DEF Lifecycle!Next
<1> QED BY <1>5, <1>6, <1>7

LEMMA CallRefines ==
    ASSUME Facts, NEW t \in TaskIds, NEW op \in OpIds,
           HostCall(t, op) \/ CommandCall(t, op)
    PROVE  Lifecycle!Next
<1>1. RegisterBoxed(op) /\ RunQuantum(t) /\ UNCHANGED completed_operations
  BY DEF HostCall, CommandCall
<1>2. state[t] = "Ready" /\ awaiting[t] = NoOp
  BY <1>1, QuantumFacts
<1>3. Results[op] = "none" /\ Results' = [Results EXCEPT ![op] = "pending"]
  BY <1>1, FreshResult
<1>4. CASE HostCall(t, op)
  <2>1. awaiting' = awaiting
    BY <1>2, <1>4 DEF HostCall, Resume, Facts, TypeOK
  <2>2. state' \in {state, [state EXCEPT ![t] = "Failed"]}
    BY <1>2, <1>4 DEF HostCall, Resume, Facts, TypeOK
  <2> QED BY <1>2, <1>3, <2>1, <2>2 DEF Lifecycle!Call, Lifecycle!Next
<1>5. CASE CommandCall(t, op)
  <2>1. /\ state' = [state EXCEPT ![t] = "Waiting"]
        /\ awaiting' = [awaiting EXCEPT ![t] = op]
    BY <1>5 DEF CommandCall, Suspend
  <2> QED BY <1>2, <1>3, <2>1 DEF Lifecycle!Call, Lifecycle!Next
<1> QED BY <1>4, <1>5

LEMMA AwaitCompletedRefines ==
    ASSUME Facts, NEW t \in TaskIds, NEW op \in OpIds, AwaitCompleted(t, op)
    PROVE  Lifecycle!Next
<1> USE IdFacts DEF Facts, LinearUse
<1>1. /\ RunQuantum(t) /\ op \in futures[t] /\ op \in completed_operations
      /\ UNCHANGED <<operations, next_operation_id, future>>
      /\ completed_operations' = completed_operations \ {op}
      /\ awaiting' = [awaiting EXCEPT ![t] = NoOp]
      /\ \E s \in {"Ready", "Failed"} : state' = [state EXCEPT ![t] = s]
  BY DEF AwaitCompleted, Awaits, Resume, hostVars
<1>2. state[t] = "Ready" /\ \A u \in TaskIds : awaiting[u] # op
  BY <1>1, QuantumFacts DEF HeldOnce
<1>3. op \in Known /\ op \notin operations /\ UNCHANGED Known
  BY <1>1 DEF ResultsOnce, Known
<1>4. ResultOf(op) = "ready" /\ ResultOf(op)' = "gone"
  BY <1>1, <1>3 DEF ResultOf
<1>5. \A o \in OpIds \ {op} : ResultOf(o)' = ResultOf(o)
  BY <1>1, <1>3 DEF ResultOf
<1>6. Results[op] = "ready" /\ Results' = [Results EXCEPT ![op] = "gone"]
  BY <1>4, <1>5 DEF Results
<1>7. Lifecycle!Deliver(t, op)
  BY <1>1, <1>2, <1>6 DEF Lifecycle!Deliver
<1> QED BY <1>7 DEF Lifecycle!Next

LEMMA AwaitPendingRefines ==
    ASSUME Facts, NEW t \in TaskIds, NEW op \in OpIds, AwaitPending(t, op)
    PROVE  Lifecycle!Next
<1> USE IdFacts DEF Facts, LinearUse
<1>1. /\ RunQuantum(t) /\ op \in futures[t] /\ op \in operations
      /\ UNCHANGED <<operations, completed_operations, next_operation_id, future>>
      /\ state' = [state EXCEPT ![t] = "Waiting"]
      /\ awaiting' = [awaiting EXCEPT ![t] = op]
  BY DEF AwaitPending, Awaits, Suspend, hostVars
<1>2. state[t] = "Ready" /\ \A u \in TaskIds : awaiting[u] # op
  BY <1>1, QuantumFacts DEF HeldOnce
<1>3. op \in Known
  BY <1>1 DEF OpIdsInUse
<1>4. Results[op] \in {"pending", "ready"}
  BY <1>1, <1>3 DEF Results, ResultOf
<1>5. Results' = Results
  BY <1>1 DEF Results, ResultOf, Known
<1>6. Lifecycle!Await(t, op)
  BY <1>1, <1>2, <1>4, <1>5 DEF Lifecycle!Await
<1> QED BY <1>6 DEF Lifecycle!Next

LEMMA InitRefines == Init => Lifecycle!Init
BY DEF Init, Lifecycle!Init, Results, ResultOf, Known

LEMMA NextRefines ==
    ASSUME Facts, [Next]_vars
    PROVE  [Lifecycle!Next]_(Lifecycle!vars)
<1>1. CASE Unseen
  BY <1>1 DEF Unseen, Lifecycle!vars, Results, ResultOf, Known
<1> QED BY <1>1, Steps, SpawnRefines, RegisterRefines, CancelRefines, PollRefines,
           HostFinishRefines, PlainRefines, CallRefines, AwaitCompletedRefines,
           AwaitPendingRefines, NoUnknownOperation

\* For any number of tasks and operations: scripts that await each future once
\* get exactly the lifecycle of TaskLifecycle.  A result is produced once, goes
\* to the task that awaits it, and neither polling, early wakes nor the
\* queues' order show.
THEOREM SchedulerImplementsLifecycle ==
    ASSUME ~Shared
    PROVE  Spec => ImplementsLifecycle
<1>1. Init => Lifecycle!Init
  BY InitRefines
<1>2. IInv /\ LinearUse /\ [Next]_vars => [Lifecycle!Next]_(Lifecycle!vars)
  BY FactsOfInvariants, NextRefines
<1>3. Spec => [](IInv /\ LinearUse)
  BY LinearInductive
<1> QED BY <1>1, <1>2, <1>3, PTL DEF Spec, ImplementsLifecycle, Lifecycle!Spec

-----------------------------------------------------------------------------
(* A blocked run_until_complete.                                           *)

\* While run_until_complete drives the scheduler its target has not ended,
\* unless the tick in progress will report it; it blocks for a waiting one.
TargetFollowed ==
    /\ pc = "recv" => call = "complete" /\ state[target] = "Waiting"
    /\ call = "complete" =>
          /\ pc \in {"tick", "run", "recv"} => target \in Live
          /\ pc = "tick" => state[target] \in {"Ready", "Waiting"}
          /\ pc = "run" => progressed \/ state[target] \in {"Ready", "Waiting"}

LEMMA TargetInit == Init => TargetFollowed
BY DEF Init, TargetFollowed

\* A tick that ends goes on only for a target that has not ended, and blocks
\* only if it made no progress.
LEMMA TickReturnsFollowed ==
    ASSUME TypeOK, TaskIdsInUse, TypeOK', TaskIdsInUse', TargetFollowed,
           pc = "run", UNCHANGED next_task_id, NEW progress \in BOOLEAN,
           TickReturns(progress),
           progress \/ (progressed = FALSE /\ ready_queue = <<>> /\ ReadyQueueExact
                       /\ UNCHANGED state)
    PROVE  TargetFollowed'
<1>1. CASE call = "complete"
  <2>1. target \in Live /\ target \in TaskIds /\ Live' = Live
    BY <1>1, IdFacts DEF TargetFollowed, TypeOK, Live, TaskIds
  <2>2. CASE ~progress
    <3>1. pc' = "recv"
      BY <1>1, <2>2 DEF TickReturns
    <3>2. call' = "complete" /\ target' = target /\ state' = state
      BY <1>1, <2>2, <3>1 DEF TickReturns
    <3>3. state[target] \in {"Ready", "Waiting"}
      BY <1>1, <2>2 DEF TargetFollowed
    <3>4. state[target] # "Ready"
      BY <2>1, <2>2 DEF ReadyQueueExact, Members
    <3> QED BY <2>1, <3>1, <3>2, <3>3, <3>4 DEF TargetFollowed
  <2>3. CASE progress /\ state'[target] \notin Terminal
    <3>1. pc' = "tick"
      BY <1>1, <2>3 DEF TickReturns
    <3>2. call' = "complete" /\ target' = target
      BY <1>1, <3>1 DEF TickReturns
    <3>3. state'[target] \in TaskStates /\ state'[target] # "Absent"
      BY <2>1, IdFacts DEF TypeOK, TaskIdsInUse, Live
    <3> QED BY <2>1, <2>3, <3>1, <3>2, <3>3 DEF TargetFollowed, TaskStates, Terminal
  <2>4. CASE progress /\ state'[target] \in Terminal
    BY <1>1, <2>4 DEF TickReturns, TargetFollowed
  <2> QED BY <2>2, <2>3, <2>4
<1>2. CASE call # "complete"
  <2>1. pc' # "recv" /\ call' # "complete"
    BY <1>2 DEF TickReturns
  <2> QED BY <2>1 DEF TargetFollowed
<1> QED BY <1>1, <1>2

LEMMA RunTaskReturns ==
    ASSUME NEW t, RunTask(t)
    PROVE  pc = "run" /\ UNCHANGED next_task_id /\ TickReturns(TRUE)
BY DEF RunTask, RunQuantum, Yield, Finish, CallAnswered, HostCall, CommandCall,
       AwaitCompleted, AwaitPending, AwaitUnknown, Awaits

LEMMA TargetNext ==
    ASSUME IInv, IInv', TargetFollowed, [Next]_vars
    PROVE  TargetFollowed'
<1>0. TypeOK /\ TaskIdsInUse /\ ReadyQueueExact /\ TypeOK' /\ TaskIdsInUse'
  BY DEF IInv
<1>1. ASSUME UNCHANGED <<state, call, target, pc, progressed, next_task_id>>
      PROVE  TargetFollowed'
  BY <1>1 DEF TargetFollowed, Live
<1>2. ASSUME NEW parent, SpawnChild(parent)
      PROVE  TargetFollowed'
  BY <1>2 DEF SpawnChild, ctrlVars, TargetFollowed
<1>3. ASSUME SetHost \/ CollectWake
      PROVE  TargetFollowed'
  BY <1>1, <1>3 DEF SetHost, CollectWake, taskVars, ctrlVars
<1>4. ASSUME NEW op, NEW holders, Register(op, holders)
      PROVE  TargetFollowed'
  BY <1>1, <1>4 DEF Register, ctrlVars
<1>5. ASSUME CallTick \/ CallRunUntilStalled
      PROVE  TargetFollowed'
  BY <1>5 DEF CallTick, CallRunUntilStalled, TargetFollowed
<1>6. ASSUME NEW t \in TaskIds, CallRunUntilComplete(t)
      PROVE  TargetFollowed'
  <2>1. pc' = "tick" /\ target' = t /\ UNCHANGED <<state, next_task_id>>
    BY <1>6 DEF CallRunUntilComplete, taskVars
  <2>2. state[t] \in {"Ready", "Waiting"}
    BY <1>6 DEF CallRunUntilComplete
  <2>3. t \in Live
    BY <1>0, <2>2, IdFacts DEF TaskIdsInUse, Live, TypeOK
  <2> QED BY <2>1, <2>2, <2>3 DEF TargetFollowed, Live
<1>7. ASSUME NEW t, CallCancel(t) \/ CancelTask(t)
      PROVE  TargetFollowed'
  BY <1>7 DEF CallCancel, CancelTask, TargetFollowed
<1>8. ASSUME NEW progress \in BOOLEAN, PollReturns(progress), progress \/ UNCHANGED state
      PROVE  TargetFollowed'
  BY <1>8 DEF PollReturns, TargetFollowed, Live
<1>9. ASSUME PollNothing
      PROVE  TargetFollowed'
  BY <1>8, <1>9 DEF PollNothing
<1>10. ASSUME NEW op, PollStale(op) \/ PollPending(op) \/ PollReady(op)
       PROVE  TargetFollowed'
  BY <1>8, <1>10 DEF PollStale, PollPending, PollReady
<1>11. ASSUME RunNothing
       PROVE  TargetFollowed'
  <2>1. pc = "run" /\ ready_queue = <<>> /\ UNCHANGED <<state, next_task_id>>
    BY <1>11 DEF RunNothing, taskVars
  <2>2. TickReturns(progressed) /\ progressed \in BOOLEAN
    BY <1>0, <1>11 DEF RunNothing, TypeOK
  <2> QED BY <1>0, <2>1, <2>2, TickReturnsFollowed
<1>12. ASSUME NEW t, RunTask(t)
       PROVE  TargetFollowed'
  BY <1>0, <1>12, RunTaskReturns, TickReturnsFollowed
<1>13. ASSUME Recv
       PROVE  TargetFollowed'
  <2>1. /\ pc = "recv" /\ pc' = "tick"
        /\ UNCHANGED <<state, call, target, next_task_id>>
    BY <1>13 DEF Recv, taskVars
  <2> QED BY <2>1 DEF TargetFollowed, Live
<1>14. ASSUME NEW op, HostFinish(op) \/ HostWake(op) \/ HostWakeEarly(op) \/ HostWakeClone(op)
       PROVE  TargetFollowed'
  BY <1>1, <1>14 DEF HostFinish, HostWake, HostWakeEarly, HostWakeClone, taskVars, ctrlVars
<1>15. ASSUME UNCHANGED vars
       PROVE  TargetFollowed'
  BY <1>1, <1>15 DEF vars, taskVars, ctrlVars
<1> QED BY <1>2, <1>3, <1>4, <1>5, <1>6, <1>7, <1>9, <1>10, <1>11, <1>12, <1>13,
           <1>14, <1>15
        DEF Next, Embedder, SchedulerThread, HostThreads

-----------------------------------------------------------------------------
(* Why a call can block on an operation that is due.                       *)

\* Entries of operation_queue whose operation is gone, and blocking with
\* entries left, both mean that a task was cancelled.
StaleAfterCancel ==
    /\ Members(operation_queue) \subseteq operations \/ SomeoneCancelled
    /\ pc = "recv" \/ (pc = "run" /\ ~progressed) => operation_queue = <<>> \/ SomeoneCancelled

LEMMA StaleInit == Init => StaleAfterCancel
BY DEF Init, StaleAfterCancel, Members

\* Cancelled is for ever.
LEMMA CancelledStays ==
    ASSUME IInv, [Next]_vars, SomeoneCancelled
    PROVE  SomeoneCancelled'
<1> USE IdFacts
<1>0. TypeOK /\ TaskIdsInUse /\ WaitingTableSound
  BY DEF IInv
<1>1. PICK t \in TaskIds : state[t] = "Cancelled"
  BY DEF SomeoneCancelled
<1>2. SUFFICES state'[t] = "Cancelled"
  BY DEF SomeoneCancelled
<1>3. CASE Quiet
  BY <1>1, <1>3 DEF Quiet
<1>4. CASE \E parent \in TaskIds \cup {NoTask} : SpawnChild(parent)
  <2>1. PICK parent : SpawnChild(parent)
    BY <1>4
  <2>2. state[next_task_id] = "Absent"
    BY <1>0, <2>1, SpawnFacts
  <2>3. state' = [state EXCEPT ![next_task_id] = "Ready"]
    BY <2>1 DEF SpawnChild
  <2> QED BY <1>0, <1>1, <2>2, <2>3 DEF TypeOK
<1>5. CASE \E u \in TaskIds : CancelTask(u)
  BY <1>0, <1>1, <1>5 DEF CancelTask, TypeOK
<1>6. CASE \E op \in OpIds : PollReady(op)
  <2>1. PICK op \in OpIds : PollReady(op)
    BY <1>6
  <2>2. waiting[op] # NoTask => waiting[op] \in TaskIds /\ state[waiting[op]] = "Waiting"
    BY <1>0 DEF WaitingTableSound, TypeOK
  <2>3. \/ state' = state
        \/ waiting[op] # NoTask /\ \E s \in TaskStates : state' = [state EXCEPT ![waiting[op]] = s]
    BY <2>1 DEF PollReady, Resume, TaskStates
  <2> QED BY <1>0, <1>1, <2>2, <2>3 DEF TypeOK
<1>7. CASE \E u \in TaskIds : RunTask(u)
  <2>1. PICK u \in TaskIds : RunTask(u)
    BY <1>7
  <2>2. /\ state[u] = "Ready"
        /\ \E s \in TaskStates : state' = [state EXCEPT ![u] = s]
    BY <1>0, <2>1, RunTaskFacts
  <2> QED BY <1>0, <1>1, <2>2 DEF TypeOK
<1> QED BY <1>3, <1>4, <1>5, <1>6, <1>7, QuietSteps

\* A wake that is received, and a new operation, queue what is pending.
LEMMA EnqueueNotStale ==
    ASSUME TypeOK, NEW op \in OpIds, EnqueueOperation(op), UNCHANGED operations,
           Members(operation_queue) \subseteq operations
    PROVE  Members(operation_queue') \subseteq operations'
<1>1. operation_queue \in Seq(OpIds)
  BY DEF TypeOK
<1>2. CASE operation_queue' = operation_queue
  BY <1>2 DEF Members
<1>3. CASE op \in operations /\ operation_queue' = Append(operation_queue, op)
  <2>1. Members(Append(operation_queue, op)) = Members(operation_queue) \cup {op}
    BY <1>1, AppendFacts
  <2> QED BY <1>3, <2>1
<1> QED BY <1>2, <1>3 DEF EnqueueOperation

LEMMA RegisterNotStale ==
    ASSUME TypeOK, NEW op \in OpIds, RegisterBoxed(op),
           Members(operation_queue) \subseteq operations
    PROVE  Members(operation_queue') \subseteq operations'
<1>1. operation_queue \in Seq(OpIds)
  BY DEF TypeOK
<1>2. Members(Append(operation_queue, op)) = Members(operation_queue) \cup {op}
  BY <1>1, AppendFacts
<1> QED BY <1>2 DEF RegisterBoxed

\* What a poll takes off the queue is not there any more.
LEMMA PollNotStale ==
    ASSUME TypeOK, OperationQueueExact, NEW op \in OpIds, PopOperation(op),
           operations \ {op} \subseteq operations',
           Members(operation_queue) \subseteq operations
    PROVE  Members(operation_queue') \subseteq operations'
<1>1. operation_queue \in Seq(OpIds) /\ NoDuplicates(operation_queue)
  BY DEF TypeOK, OperationQueueExact
<1>2. operation_queue # <<>> /\ op = Head(operation_queue)
      /\ operation_queue' = Tail(operation_queue)
  BY DEF PopOperation
<1>3. /\ Members(operation_queue) = Members(Tail(operation_queue)) \cup {Head(operation_queue)}
      /\ Head(operation_queue) \notin Members(Tail(operation_queue))
  BY <1>1, <1>2, TailFacts
<1> QED BY <1>2, <1>3

LEMMA StaleNext ==
    ASSUME IInv, StaleAfterCancel, [Next]_vars
    PROVE  StaleAfterCancel'
<1> USE IdFacts
<1>0. TypeOK /\ OperationQueueExact
  BY DEF IInv
<1>1. SUFFICES ASSUME ~SomeoneCancelled'
               PROVE  StaleAfterCancel'
  BY DEF StaleAfterCancel
<1>2. Members(operation_queue) \subseteq operations
  BY <1>1, CancelledStays DEF StaleAfterCancel
<1>3. pc = "recv" \/ (pc = "run" /\ ~progressed) => operation_queue = <<>>
  BY <1>1, CancelledStays DEF StaleAfterCancel
<1> DEFINE Exact == Members(operation_queue') \subseteq operations'
           Idle == pc' # "recv" /\ (pc' # "run" \/ progressed')
<1>4. Exact /\ Idle => StaleAfterCancel'
  BY DEF StaleAfterCancel, Members
<1>5. ASSUME UNCHANGED <<operation_queue, operations>>
      PROVE  Exact
  BY <1>2, <1>5 DEF Members
<1>6. ASSUME UNCHANGED <<operation_queue, operations, pc, progressed>>
      PROVE  StaleAfterCancel'
  BY <1>2, <1>3, <1>6 DEF StaleAfterCancel, Members
<1>7. ASSUME SetHost \/ \E parent \in TaskIds \cup {NoTask} : SpawnChild(parent)
      PROVE  StaleAfterCancel'
  BY <1>6, <1>7 DEF SetHost, SpawnChild, opVars, ctrlVars
<1>8. ASSUME NEW op \in OpIds, NEW holders, Register(op, holders)
      PROVE  StaleAfterCancel'
  <2>1. Exact
    BY <1>0, <1>2, <1>8, RegisterNotStale DEF Register
  <2>2. pc' = "host"
    BY <1>8 DEF Register, ctrlVars
  <2> QED BY <1>4, <2>1, <2>2
<1>9. ASSUME CallTick \/ CallRunUntilStalled \/ \E t \in TaskIds :
                 CallRunUntilComplete(t) \/ CallCancel(t)
      PROVE  StaleAfterCancel'
  <2>1. UNCHANGED <<operation_queue, operations>> /\ pc' \in {"tick", "cancel"}
    BY <1>9 DEF CallTick, CallRunUntilStalled, CallRunUntilComplete, CallCancel, opVars
  <2> QED BY <1>4, <1>5, <2>1
<1>10. ASSUME NEW t \in TaskIds, CancelTask(t)
       PROVE  FALSE
  BY <1>0, <1>1, <1>10 DEF CancelTask, SomeoneCancelled, TypeOK
<1>11. ASSUME CollectWake \/ Recv
       PROVE  StaleAfterCancel'
  <2>1. Head(channel) \in OpIds
    BY <1>0, <1>11, TailFacts DEF CollectWake, Recv, TypeOK
  <2>2. EnqueueOperation(Head(channel)) /\ UNCHANGED operations /\ pc' = "tick"
    BY <1>11 DEF CollectWake, Recv, ctrlVars
  <2>3. Exact
    BY <1>0, <1>2, <2>1, <2>2, EnqueueNotStale
  <2> QED BY <1>4, <2>2, <2>3
<1>12. ASSUME PollNothing
       PROVE  StaleAfterCancel'
  <2>1. operation_queue = <<>> /\ operation_queue' = operation_queue /\ operations' = operations
    BY <1>12 DEF PollNothing
  <2> QED BY <1>5, <2>1 DEF StaleAfterCancel
<1>13. ASSUME NEW op \in OpIds, PollStale(op)
       PROVE  FALSE
  <2>1. operation_queue # <<>> /\ op = Head(operation_queue) /\ op \notin operations
    BY <1>13 DEF PollStale, PopOperation
  <2>2. op \in Members(operation_queue)
    BY <1>0, <2>1, TailFacts DEF TypeOK
  <2> QED BY <1>2, <2>1, <2>2
<1>14. ASSUME NEW op \in OpIds, PollPending(op) \/ PollReady(op)
       PROVE  StaleAfterCancel'
  <2>1. /\ PopOperation(op) /\ operations \ {op} \subseteq operations'
        /\ pc' = "run" /\ progressed' = TRUE
    BY <1>14 DEF PollPending, PollReady, PollReturns
  <2>2. Exact
    BY <1>0, <1>2, <2>1, PollNotStale
  <2> QED BY <1>4, <2>1, <2>2
<1>15. ASSUME RunNothing
       PROVE  StaleAfterCancel'
  <2>1. UNCHANGED <<operation_queue, operations>> /\ pc = "run" /\ TickReturns(progressed)
    BY <1>15 DEF RunNothing, opVars
  <2>2. CASE progressed
    <3>1. pc' # "recv" /\ pc' # "run"
      BY <2>1, <2>2 DEF TickReturns
    <3> QED BY <1>4, <1>5, <2>1, <3>1
  <2>3. CASE ~progressed
    BY <1>3, <1>5, <2>1, <2>3 DEF StaleAfterCancel
  <2> QED BY <2>2, <2>3
<1>16. ASSUME NEW t \in TaskIds, RunTask(t)
       PROVE  StaleAfterCancel'
  <2>1. pc' # "recv" /\ pc' # "run"
    BY <1>16, RunTaskReturns DEF TickReturns
  <2>2. \/ UNCHANGED <<operation_queue, operations>>
        \/ \E op \in OpIds : RegisterBoxed(op)
    BY <1>16 DEF RunTask, Yield, Finish, CallAnswered, HostCall, CommandCall,
                 AwaitCompleted, AwaitPending, AwaitUnknown, Awaits, opVars
  <2>3. Exact
    BY <1>0, <1>2, <1>5, <2>2, RegisterNotStale
  <2> QED BY <1>4, <2>1, <2>3
<1>17. ASSUME NEW op, HostFinish(op) \/ HostWake(op) \/ HostWakeEarly(op) \/ HostWakeClone(op)
       PROVE  StaleAfterCancel'
  BY <1>6, <1>17 DEF HostFinish, HostWake, HostWakeEarly, HostWakeClone, opVars, ctrlVars
<1>18. ASSUME UNCHANGED vars
       PROVE  StaleAfterCancel'
  BY <1>6, <1>18 DEF vars, opVars, ctrlVars
<1> QED BY <1>7, <1>8, <1>9, <1>10, <1>11, <1>12, <1>13, <1>14, <1>15, <1>16, <1>17, <1>18
        DEF Next, Embedder, SchedulerThread, HostThreads

\* run_until_complete blocks only on a pending operation, whatever tasks and
\* operations there are besides its target; the wake of that operation is still
\* to come, or the operation is due for a poll, and that only after a task was
\* cancelled.
THEOREM BlockedCallIsWoken ==
    ASSUME ~Shared
    PROVE  Spec => []BlockedTargetIsWoken
<1>1. /\ IInv /\ TargetFollowed /\ StaleAfterCancel /\ [Next]_vars
      => (IInv /\ TargetFollowed /\ StaleAfterCancel)'
  BY NextInductive, TargetNext, StaleNext
<1>2. IInv /\ LinearUse /\ TargetFollowed /\ StaleAfterCancel => BlockedTargetIsWoken
  <2> SUFFICES ASSUME IInv, LinearUse, TargetFollowed, StaleAfterCancel, pc = "recv"
               PROVE  LET op == awaiting[target]
                      IN  /\ op \in operations
                          /\ \/ op \in waking \cup Members(channel)
                             \/ op \in armed /\ future[op] = "pending"
                             \/ op \in queued_operations /\ SomeoneCancelled
    BY DEF BlockedTargetIsWoken
  <2>1. target \in TaskIds /\ state[target] = "Waiting"
    BY IdFacts DEF TargetFollowed, IInv, TypeOK, Live, TaskIds
  <2>2. awaiting[target] \in operations
    BY <2>1 DEF LinearUse, AwaitsMatch
  <2>3. CASE awaiting[target] \in Members(operation_queue)
    <3>1. awaiting[target] \in queued_operations
      BY <2>2, <2>3 DEF IInv, OperationQueueExact
    <3>2. operation_queue # <<>>
      BY <2>3 DEF Members
    <3> QED BY <2>2, <3>1, <3>2 DEF StaleAfterCancel
  <2>4. CASE awaiting[target] \notin Members(operation_queue)
    BY <2>2, <2>4 DEF IInv, NoLostWake
  <2> QED BY <2>3, <2>4
<1> QED BY <1>1, <1>2, InitInductive, TargetInit, StaleInit, LinearInductive, PTL DEF Spec

=============================================================================
