--------------------------------- MODULE Vm ---------------------------------
(***************************************************************************)
(* The control of the stack machine of src/runtime/vm.rs: call frames,     *)
(* exception handlers, iterators, the operand stack, the resource limits,  *)
(* and the places where the machine hands control to the scheduler and     *)
(* takes it back with a value or an error.                                 *)
(*                                                                         *)
(* A value keeps what control depends on.  Instructions that only compute  *)
(* are folded into a few: LoadConstant stands for every load that finds    *)
(* its value, LoadGlobal for a name looked up at run time, Store for every *)
(* store, Binary for every operator that may raise an error.               *)
(* Addresses and depths count from 1.                                      *)
(***************************************************************************)
EXTENDS Integers, Sequences, FiniteSets

CONSTANTS
    Modules,          \* the compiled modules
    MaxCallDepth,     \* ResourceLimits (256, 65536 and 10^7 in the code)
    MaxStack,
    MaxInstructions

\* For an "int" arg is the number, for a "list", "dict" or "text" how many items
\* it has to iterate, for a "closure" its function.  A "host" function and the "future" it gives have as arg how
\* the host answers: 0 value, 1 error, 2 the call itself is refused.
Value ==
    [kind : {"null", "int", "text", "list", "dict", "host", "future"}, arg : Nat] \cup
    [kind : {"closure"}, arg : Nat \ {0}]
Null   == [kind |-> "null", arg |-> 0]
Int1   == [kind |-> "int", arg |-> 1]
Text   == [kind |-> "text", arg |-> 0]

\* The texts here are no numbers, so none is true.
Truthy(v) ==
    \/ v.kind \in {"int", "list", "dict"} /\ v.arg > 0
    \/ v.kind \in {"closure", "host", "future"}

\* arg is a jump target, a count or a command's number, by op.
Jumps == {"Jump", "JumpIfFalse", "IterNext", "TryBegin"}
Instruction ==
    [op : {"LoadConstant"}, value : Value] \cup
    [op : {"LoadGlobal", "Store", "Pop", "Binary", "BuildList",
           "BuildDictionary", "Call", "Return", "IterStart", "IterEnd", "TryEnd", "Throw", "Await",
           "ExecuteCommand"}, arg : Nat] \cup
    [op : Jumps, arg : Nat \ {0}]

\* compile_try: a handler starts by taking the exception off the stack.
HandlersTake(code) ==
    \A k \in 1 .. Len(code) :
        code[k].op = "TryBegin" =>
            /\ code[k].arg \in 1 .. Len(code)
            /\ code[code[k].arg].op \in {"Pop", "Throw"}

ASSUME VmAssumption ==
    /\ \A m \in Modules :
          /\ m.functions \in Seq(Seq(Instruction))
          /\ Len(m.functions) > 0
          /\ \A f \in 1 .. Len(m.functions) : HandlersTake(m.functions[f])
    /\ MaxCallDepth \in Nat \ {0}
    /\ MaxStack \in Nat \ {0}
    /\ MaxInstructions \in Nat

VARIABLES
    module,      \* the module that is run: its source, its functions' code
    stack,       \* Vm::stack
    frames,      \* Vm::frames
    exceptions,  \* Vm::exceptions
    budget,      \* Vm::instruction_budget
    status,      \* Vm::status; Running is only held inside run_quantum
    request,     \* what the machine has handed to the scheduler
    answer,      \* how the host will answer that request
    error,       \* the kind of the error that ended the script
    executed     \* the Ex commands handed out so far

vars == <<module, stack, frames, exceptions, budget, status, request, answer,
          error, executed>>

Ended     == {"Completed", "Failed"}
Catchable == {"NameError", "TypeError", "HostError", "UserThrown"}
Limit     == "ResourceLimit"

Top        == frames[Len(frames)]
CodeOf(f)  == module.functions[f]
Truncate(s, n) == IF Len(s) > n THEN SubSeq(s, 1, n) ELSE s
Below(s, n)    == SubSeq(s, 1, Len(s) - n)
At(s)          == s[Len(s)]

\* The frames fs with the top one at another instruction, or with other
\* iterators.
StandingAt(fs, ip) == [fs EXCEPT ![Len(fs)].ip = ip]
Iterating(fs, its) == [fs EXCEPT ![Len(fs)].iterators = its]

NewFrame(f, base) ==
    [function |-> f, ip |-> 1, stack_base |-> base, iterators |-> <<>>]

\* Vm::with_globals; the entrypoint is function 1.
Init ==
    /\ module \in Modules
    /\ stack = <<>>
    /\ frames = <<NewFrame(1, 0)>>
    /\ exceptions = <<>>
    /\ budget = MaxInstructions
    /\ status = "Ready"
    /\ request = "none"
    /\ answer = 0
    /\ error = "none"
    /\ executed = <<>>
-----------------------------------------------------------------------------
(* Errors.                                                                 *)

\* The script has failed.  It is never stepped again, so what is left of its
\* stack does not matter.
Fail(kind) ==
    /\ status' = "Failed"
    /\ error' = kind
    /\ UNCHANGED <<stack, frames, exceptions>>

\* Mutant of Unwound: what the failed expression has pushed stays.
UnwoundNothing(s, e, v) == Append(s, v)

Unwound(s, e, v) == Append(Truncate(s, e.stack_depth), v)

\* Control goes to handler e, the last one, with v on the stack.  The
\* iterators of the handler's frame are left as they are.
Handle(e, s, v) ==
    /\ frames' = StandingAt(SubSeq(frames, 1, e.frame_depth), e.handler_ip)
    /\ stack' = Unwound(s, e, v)
    /\ exceptions' = Below(exceptions, 1)
    /\ status' = "Ready"
    /\ UNCHANGED error

\* dispatch_catchable_error, with s what is left of the stack.
Raise(kind, s) ==
    IF kind \in Catchable /\ exceptions # <<>>
    THEN Handle(At(exceptions), s, Text)
    ELSE Fail(kind)

\* The instruction leaves s on the stack and fs as the frames; `push` checks
\* the limit.
Continue(s, fs) ==
    IF Len(s) <= MaxStack
    THEN /\ stack' = s
         /\ frames' = fs
         /\ status' = "Ready"
         /\ UNCHANGED error
    ELSE /\ status' = "Failed"
         /\ error' = Limit
         /\ UNCHANGED <<stack, frames>>

\* The frames with the instruction pointer moved past the instruction, or to
\* a jump target.
MovedTo(ip)  == StandingAt(frames, ip)
Advanced     == MovedTo(Top.ip + 1)
-----------------------------------------------------------------------------
(* Instructions.  Each pays one unit of the budget.                        *)

Running == status = "Ready" /\ request = "none"

Current == CodeOf(Top.function)[Top.ip]

\* Mutant of Spent: the budget is checked but not charged.
Unspent == budget
Spent == budget - 1

Fetch(op) ==
    /\ Running
    /\ budget > 0
    /\ budget' = Spent
    /\ Top.ip <= Len(CodeOf(Top.function))
    /\ Current.op = op
    /\ UNCHANGED module

\* An instruction that neither talks to the host nor moves handlers.
Plain(op) ==
    /\ Fetch(op)
    /\ UNCHANGED <<request, answer, executed>>

BudgetExhausted ==
    /\ Running
    /\ budget = 0
    /\ Fail(Limit)
    /\ UNCHANGED <<module, budget, request, answer, executed>>

\* "instruction pointer is out of bounds"
OutOfCode ==
    /\ Running
    /\ budget > 0
    /\ Top.ip > Len(CodeOf(Top.function))
    /\ Fail("Internal")
    /\ budget' = Spent
    /\ UNCHANGED <<module, request, answer, executed>>

Load ==
    /\ Plain("LoadConstant")
    /\ Continue(Append(stack, Current.value), Advanced)
    /\ UNCHANGED exceptions

\* arg is 0 for a name that neither a global nor a builtin has.
LoadGlobal ==
    /\ Plain("LoadGlobal")
    /\ IF Current.arg = 0
       THEN Raise("NameError", stack)
       ELSE Continue(Append(stack, Int1), Advanced) /\ UNCHANGED exceptions

\* pop() of an empty stack is an internal error, which is not catchable.
Has(n) == Len(stack) >= n

Drop ==
    /\ \E op \in {"Pop", "Store"} : Plain(op)
    /\ IF Has(1)
       THEN Continue(Below(stack, 1), Advanced) /\ UNCHANGED exceptions
       ELSE Fail("Internal")

\* Numbers give a number, anything else a TypeError.
Binary ==
    /\ Plain("Binary")
    /\ IF ~Has(2)
       THEN Fail("Internal")
       ELSE IF At(stack).kind = "int" /\ At(Below(stack, 1)).kind = "int"
       THEN /\ Continue(Append(Below(stack, 2), Int1), Advanced)
            /\ UNCHANGED exceptions
       ELSE Raise("TypeError", Below(stack, 2))

BuildList ==
    /\ Plain("BuildList")
    /\ IF Has(Current.arg)
       THEN /\ Continue(Append(Below(stack, Current.arg),
                         [kind |-> "list", arg |-> Current.arg]), Advanced)
            /\ UNCHANGED exceptions
       ELSE Fail("Internal")

\* dictionary_key: the keys of the n pairs on the stack are texts or numbers.
KeysFit(n) ==
    \A k \in 1 .. n : stack[Len(stack) - 2 * k + 1].kind \in {"text", "int"}

BuildDictionary ==
    /\ Plain("BuildDictionary")
    /\ LET rest == Below(stack, 2 * Current.arg)
       IN  IF ~Has(2 * Current.arg)
           THEN Fail("Internal")
           ELSE IF KeysFit(Current.arg)
           THEN /\ Continue(Append(rest, [kind |-> "dict", arg |-> Current.arg]), Advanced)
                /\ UNCHANGED exceptions
           ELSE Raise("TypeError", rest)

\* Jump and Loop.
Jump ==
    /\ Plain("Jump")
    /\ Continue(stack, MovedTo(Current.arg))
    /\ UNCHANGED exceptions

JumpIfFalse ==
    /\ Plain("JumpIfFalse")
    /\ IF Has(1)
       THEN /\ Continue(Below(stack, 1),
                  IF Truthy(At(stack)) THEN Advanced ELSE MovedTo(Current.arg))
            /\ UNCHANGED exceptions
       ELSE Fail("Internal")

\* call(): the depth is checked before the operands are popped.
Callee == stack[Len(stack) - Current.arg]

\* Mutant of TooDeep: off by one.
MuchTooDeep == Len(frames) > MaxCallDepth
TooDeep == Len(frames) >= MaxCallDepth

CallTooDeep ==
    /\ Plain("Call")
    /\ TooDeep
    /\ Fail(Limit)

CallClosure ==
    /\ Plain("Call")
    /\ ~TooDeep
    /\ Has(Current.arg + 1)
    /\ Callee.kind = "closure"
    /\ Callee.arg <= Len(module.functions)
    /\ LET s == Below(stack, Current.arg + 1)
       IN  Continue(s, Append(Advanced, NewFrame(Callee.arg, Len(s))))
    /\ UNCHANGED exceptions

CallHost ==
    /\ Fetch("Call")
    /\ ~TooDeep
    /\ Has(Current.arg + 1)
    /\ Callee.kind = "host"
    /\ request' = "host"
    /\ answer' = Callee.arg
    /\ stack' = Below(stack, Current.arg + 1)
    /\ frames' = Advanced
    /\ UNCHANGED <<exceptions, status, error, executed>>

CallNothing ==
    /\ Plain("Call")
    /\ ~TooDeep
    /\ IF Has(Current.arg + 1)
       THEN /\ Callee.kind # "host"
            /\ Callee.kind = "closure" => Callee.arg > Len(module.functions)
            /\ Raise(IF Callee.kind = "closure" THEN "Internal" ELSE "TypeError",
                     Below(stack, Current.arg + 1))
       ELSE Fail("Internal")

\* Mutant of Kept: `<=` where retain has `<`.
KeptTooMany(i) == exceptions[i].frame_depth <= Len(frames)
Kept(i) == exceptions[i].frame_depth < Len(frames)

\* exceptions.retain(...): the handlers are ordered by depth (HandlersLive),
\* so those that are kept come first.
Retained ==
    SubSeq(exceptions, 1, Cardinality({i \in 1 .. Len(exceptions) : Kept(i)}))

\* A missing value is Null.  A script that is done keeps its frame here, for
\* Top; the code's last frame is gone.
Return ==
    /\ Plain("Return")
    /\ LET value == IF stack = <<>> THEN Null ELSE At(stack)
           left  == Truncate(IF stack = <<>> THEN stack ELSE Below(stack, 1),
                             Top.stack_base)
       IN  IF Len(frames) = 1
           THEN /\ status' = "Completed"
                /\ stack' = left
                /\ UNCHANGED <<frames, error>>
           ELSE Continue(Append(left, value), Below(frames, 1))
    /\ exceptions' = Retained

\* What a for loop goes through: items, keys or characters.
Iterable == {"list", "dict", "text"}

\* The length of what is iterated, and how many items were taken.
IterStart ==
    /\ Plain("IterStart")
    /\ IF ~Has(1)
       THEN Fail("Internal")
       ELSE IF At(stack).kind \in Iterable
       THEN /\ Continue(Below(stack, 1),
                  Iterating(Advanced, Append(Top.iterators,
                      [length |-> At(stack).arg, cursor |-> 0])))
            /\ UNCHANGED exceptions
       ELSE Raise("TypeError", Below(stack, 1))

IterNext ==
    /\ Plain("IterNext")
    /\ IF Top.iterators = <<>>
       THEN Fail("Internal")
       ELSE /\ LET it == At(Top.iterators)
               IN  IF it.cursor < it.length
                   THEN Continue(Append(stack, Int1),
                          Iterating(Advanced, Append(Below(Top.iterators, 1),
                              [it EXCEPT !.cursor = @ + 1])))
                   ELSE Continue(stack, MovedTo(Current.arg))
            /\ UNCHANGED exceptions

IterEnd ==
    /\ Plain("IterEnd")
    /\ IF Top.iterators = <<>>
       THEN Fail("Internal")
       ELSE /\ Continue(stack, Iterating(Advanced, Below(Top.iterators, 1)))
            /\ UNCHANGED exceptions

TryBegin ==
    /\ Plain("TryBegin")
    /\ exceptions' = Append(exceptions, [frame_depth |-> Len(frames),
                                         stack_depth |-> Len(stack),
                                         handler_ip |-> Current.arg])
    /\ Continue(stack, Advanced)

TryEnd ==
    /\ Plain("TryEnd")
    /\ exceptions' = IF exceptions = <<>> THEN exceptions ELSE Below(exceptions, 1)
    /\ Continue(stack, Advanced)

\* Unlike an error, a thrown value is pushed with the limit checked.
Throw ==
    /\ Plain("Throw")
    /\ IF ~Has(1)
       THEN Fail("Internal")
       ELSE IF exceptions = <<>>
       THEN Fail("UserThrown")
       ELSE LET e == At(exceptions)
            IN  IF Len(Unwound(Below(stack, 1), e, At(stack))) <= MaxStack
                THEN Handle(e, Below(stack, 1), At(stack))
                ELSE Fail(Limit)
-----------------------------------------------------------------------------
(* The scheduler's side: requests and their answers.                       *)

ExecuteCommand ==
    /\ Fetch("ExecuteCommand")
    /\ request' = "command"
    /\ executed' = Append(executed, Current.arg)
    /\ answer' = Current.arg % 2
    /\ frames' = Advanced
    /\ UNCHANGED <<stack, exceptions, status, error>>

\* suspend_for_operation
SuspendForOperation ==
    /\ request = "command"
    /\ request' = "await"
    /\ status' = "Suspended"
    /\ UNCHANGED <<module, stack, frames, exceptions, budget, answer, error, executed>>

AwaitFuture ==
    /\ Fetch("Await")
    /\ Has(1)
    /\ At(stack).kind = "future"
    /\ request' = "await"
    /\ answer' = At(stack).arg
    /\ status' = "Suspended"
    /\ stack' = Below(stack, 1)
    /\ frames' = Advanced
    /\ UNCHANGED <<exceptions, error, executed>>

\* "await requires a future"
AwaitOther ==
    /\ Plain("Await")
    /\ IF Has(1)
       THEN At(stack).kind # "future" /\ Raise("TypeError", Below(stack, 1))
       ELSE Fail("Internal")

\* The value is pushed, or the error looks for a handler.
Answered(value, bad) ==
    /\ IF answer = bad
       THEN Raise("HostError", stack)
       ELSE Continue(Append(stack, value), frames) /\ UNCHANGED exceptions
    /\ request' = "none"
    /\ answer' = 0
    /\ UNCHANGED <<module, budget, executed>>

\* complete_command: a command the scheduler executes or refuses at once.
CompleteCommand == request = "command" /\ Answered(Null, 1)

\* resume_await
ResumeAwait == request = "await" /\ status = "Suspended" /\ Answered(Null, 1)

\* resume_host_call
ResumeHostCall ==
    request = "host" /\ Answered([kind |-> "future", arg |-> answer], 2)
-----------------------------------------------------------------------------
Step ==
    \/ BudgetExhausted \/ OutOfCode
    \/ Load \/ LoadGlobal \/ Drop \/ Binary \/ BuildList \/ BuildDictionary
    \/ Jump \/ JumpIfFalse
    \/ CallTooDeep \/ CallClosure \/ CallHost \/ CallNothing \/ Return
    \/ IterStart \/ IterNext \/ IterEnd
    \/ TryBegin \/ TryEnd \/ Throw
    \/ ExecuteCommand \/ AwaitFuture \/ AwaitOther

Answers == SuspendForOperation \/ CompleteCommand \/ ResumeAwait \/ ResumeHostCall

Next == Step \/ Answers

Spec == Init /\ [][Next]_vars

\* The scheduler gives a ready task its next quantum and answers its calls.
FairSpec == Spec /\ WF_vars(Next)
-----------------------------------------------------------------------------
(* Invariants.                                                             *)

IteratorType == [length : Nat, cursor : Nat]
FrameType == [function : Nat \ {0}, ip : Nat \ {0}, stack_base : Nat,
              iterators : Seq(IteratorType)]
HandlerType == [frame_depth : Nat \ {0}, stack_depth : Nat, handler_ip : Nat \ {0}]

\* Every variable has its type, and the resource limits hold: max_call_depth
\* bounds the frames, max_stack_size the operands, but for the one error
\* value that dispatch_catchable_error pushes without asking.
TypeOK ==
    /\ module.functions \in Seq(Seq(Instruction))
    /\ stack \in Seq(Value)
    /\ Len(stack) <= MaxStack + 1
    /\ frames \in Seq(FrameType)
    /\ Len(frames) \in 1 .. MaxCallDepth
    /\ \A i \in 1 .. Len(frames) : frames[i].function <= Len(module.functions)
    /\ exceptions \in Seq(HandlerType)
    /\ budget \in 0 .. MaxInstructions
    /\ status \in {"Ready", "Suspended"} \cup Ended
    /\ request \in {"none", "command", "host", "await"}
    /\ answer \in Nat
    /\ error \in {"none", "Internal", Limit} \cup Catchable
    /\ executed \in Seq(Nat)

\* The code has a try block whose handler is at ip.
Installs(code, ip) ==
    \E k \in 1 .. Len(code) : code[k].op = "TryBegin" /\ code[k].arg = ip

\* Every handler belongs to a frame that is still active, inner handlers come
\* last, and each handler is one that the code of its own frame installs: an
\* error never resumes a frame at another function's address, whatever
\* returns, throws and failed host calls came before.
HandlersLive ==
    /\ \A i \in 1 .. Len(exceptions) :
          LET e == exceptions[i]
          IN  /\ e.frame_depth \in 1 .. Len(frames)
              /\ Installs(CodeOf(frames[e.frame_depth].function), e.handler_ip)
    /\ \A i, j \in 1 .. Len(exceptions) :
          i < j => exceptions[i].frame_depth <= exceptions[j].frame_depth

\* A script ends, whatever loops or recursion it contains: the instruction
\* budget is spent by every path through the machine.
EveryScriptEnds == <>(status \in Ended)
=============================================================================
