------------------------------ MODULE VmProofs ------------------------------
(***************************************************************************)
(* Proofs about Vm, for every set of modules whose handlers start as       *)
(* compile_try starts them, and every value of the resource limits.        *)
(*                                                                         *)
(* The bound on the operand stack is not inductive: an error pushes one    *)
(* value too many, and a second one before the first is popped would push  *)
(* another.  Invariant therefore says where the machine stands when its    *)
(* stack is overfull: at the first instruction of a handler, which takes   *)
(* the error off again.  That the handler is one of the right function is  *)
(* HandlersLive, so the two are proved together.                           *)
(*                                                                         *)
(* The second half is about typed code (CodeTypes).  That no instruction   *)
(* underflows is not inductive either: it takes the exact number of        *)
(* operands of every frame, also of those that wait for a call, the types  *)
(* of all installed handlers and not only of the innermost one, and that a *)
(* handler's operands are still there while its frame waits for a result   *)
(* (AsTyped).  It is proved by lemmas about frames, handlers and numbers   *)
(* alone (MoveFits, TryBeginFits, LastHandlerGone, HandleSound, PushSound, *)
(* PopSound), each used by the actions that change the machine that way.   *)
(***************************************************************************)
EXTENDS CodeTypes, TLAPS, FiniteSetTheorems

\* No handler restores more operands than the limit allows.
DepthsBounded ==
    \A i \in 1 .. Len(exceptions) : exceptions[i].stack_depth <= MaxStack

\* One operand too many is there only at the start of a handler.
OverfullAtHandler ==
    (Len(stack) > MaxStack /\ status \notin Ended) =>
        /\ request = "none"
        /\ Top.ip \in 1 .. Len(CodeOf(Top.function))
        /\ Current.op \in {"Pop", "Throw"}

\* A script that has ended waits for nothing.
EndedIsIdle == status \in Ended => request = "none"

Invariant ==
    /\ TypeOK
    /\ module \in Modules
    /\ HandlersLive
    /\ DepthsBounded
    /\ OverfullAtHandler
    /\ EndedIsIdle
-----------------------------------------------------------------------------
(* Sequences and frames.                                                   *)

LEMMA BelowFacts ==
    ASSUME NEW S, NEW s \in Seq(S), NEW n \in 0 .. Len(s)
    PROVE  /\ Below(s, n) \in Seq(S)
           /\ Len(Below(s, n)) = Len(s) - n
           /\ \A i \in 1 .. (Len(s) - n) : Below(s, n)[i] = s[i]
BY DEF Below

LEMMA TruncateFacts ==
    ASSUME NEW S, NEW s \in Seq(S), NEW n \in Nat
    PROVE  /\ Truncate(s, n) \in Seq(S)
           /\ Len(Truncate(s, n)) <= n
           /\ Len(Truncate(s, n)) <= Len(s)
BY DEF Truncate

LEMMA AtFacts ==
    ASSUME NEW S, NEW s \in Seq(S), Len(s) > 0
    PROVE  At(s) \in S
BY DEF At

\* Setting the top frame's instruction pointer changes nothing else.
LEMMA StandingFacts ==
    ASSUME NEW fs \in Seq(FrameType), Len(fs) > 0, NEW ip \in Nat \ {0}
    PROVE  /\ StandingAt(fs, ip) \in Seq(FrameType)
           /\ Len(StandingAt(fs, ip)) = Len(fs)
           /\ \A j \in 1 .. Len(fs) : StandingAt(fs, ip)[j].function = fs[j].function
           /\ StandingAt(fs, ip)[Len(fs)].ip = ip
<1> DEFINE d == Len(fs)
           x == [fs[d] EXCEPT !.ip = ip]
<1>1. fs[d] \in FrameType /\ d \in 1 .. Len(fs)
  OBVIOUS
<1>2. x \in FrameType /\ x.function = fs[d].function /\ x.ip = ip
  BY <1>1 DEF FrameType
<1>3. StandingAt(fs, ip) = [fs EXCEPT ![d] = x]
  BY DEF StandingAt
<1> HIDE DEF x
<1> QED BY <1>1, <1>2, <1>3

\* Nor does setting its iterators.
LEMMA IteratingFacts ==
    ASSUME NEW fs \in Seq(FrameType), Len(fs) > 0, NEW its \in Seq(IteratorType)
    PROVE  /\ Iterating(fs, its) \in Seq(FrameType)
           /\ Len(Iterating(fs, its)) = Len(fs)
           /\ \A j \in 1 .. Len(fs) : Iterating(fs, its)[j].function = fs[j].function
<1> DEFINE d == Len(fs)
           x == [fs[d] EXCEPT !.iterators = its]
<1>1. fs[d] \in FrameType /\ d \in 1 .. Len(fs)
  OBVIOUS
<1>2. x \in FrameType /\ x.function = fs[d].function
  BY <1>1 DEF FrameType
<1>3. Iterating(fs, its) = [fs EXCEPT ![d] = x]
  BY DEF Iterating
<1> HIDE DEF x
<1> QED BY <1>1, <1>2, <1>3

LEMMA SomeValues ==
    /\ Null \in Value /\ Text \in Value /\ Int1 \in Value
    /\ \A n \in Nat : /\ [kind |-> "future", arg |-> n] \in Value
                      /\ [kind |-> "list", arg |-> n] \in Value
                      /\ [kind |-> "dict", arg |-> n] \in Value
    /\ \A v \in Value : v.arg \in Nat
BY DEF Value, Null, Text, Int1

\* The frames fs are those there are, but for where each one stands.
SameCalls(fs) ==
    /\ fs \in Seq(FrameType)
    /\ Len(fs) = Len(frames)
    /\ \A i \in 1 .. Len(frames) : fs[i].function = frames[i].function

LEMMA TopFacts ==
    ASSUME TypeOK
    PROVE  /\ Len(frames) \in Nat \ {0}
           /\ Top = frames[Len(frames)]
           /\ Top \in FrameType
           /\ Top.function \in 1 .. Len(module.functions)
           /\ CodeOf(Top.function) \in Seq(Instruction)
<1>1. /\ frames \in Seq(FrameType) /\ Len(frames) \in Nat \ {0}
      /\ module.functions \in Seq(Seq(Instruction))
  BY DEF TypeOK
<1>2. Top \in FrameType /\ Top = frames[Len(frames)]
  BY <1>1 DEF Top
<1>3. Top.function \in 1 .. Len(module.functions)
  <2>1. Len(frames) \in 1 .. Len(frames) /\ Top.function \in Nat \ {0}
    BY <1>1, <1>2 DEF FrameType
  <2>2. Top.function <= Len(module.functions)
    BY <1>2, <2>1 DEF TypeOK
  <2> QED BY <1>1, <2>1, <2>2
<1> QED BY <1>1, <1>2, <1>3 DEF CodeOf

\* The instruction that is fetched, and its operand.
LEMMA FetchFacts ==
    ASSUME TypeOK, NEW op, Fetch(op)
    PROVE  /\ Top.ip \in Nat \ {0}
           /\ op # "LoadConstant" => Current.arg \in Nat
           /\ op \in Jumps => Current.arg \in Nat \ {0}
           /\ op = "LoadConstant" => Current.value \in Value
           /\ Current.op = op
           /\ budget' \in 0 .. MaxInstructions
           /\ status = "Ready" /\ request = "none" /\ module' = module
<1>1. Top.ip \in Nat \ {0}
  BY TopFacts DEF FrameType
<1>2. budget' \in 0 .. MaxInstructions
  BY VmAssumption DEF Fetch, Spent, TypeOK
<1>3. /\ status = "Ready" /\ request = "none" /\ module' = module
      /\ Current.op = op /\ Top.ip <= Len(CodeOf(Top.function))
  BY DEF Fetch, Running
<1>4. Current \in Instruction
  BY <1>1, <1>3, TopFacts DEF Current
<1> QED BY <1>1, <1>2, <1>3, <1>4 DEF Instruction, Jumps
-----------------------------------------------------------------------------
(* What an instruction does to the machine, whichever instruction it is.   *)

\* The part of the invariant that speaks of the stack, frames and handlers.
MachineOK ==
    /\ stack \in Seq(Value) /\ Len(stack) <= MaxStack + 1
    /\ frames \in Seq(FrameType) /\ Len(frames) \in 1 .. MaxCallDepth
    /\ \A i \in 1 .. Len(frames) : frames[i].function <= Len(module.functions)
    /\ exceptions \in Seq(HandlerType)
    /\ status \in {"Ready", "Suspended"} \cup Ended
    /\ error \in {"none", "Internal", Limit} \cup Catchable
    /\ HandlersLive
    /\ DepthsBounded
    /\ OverfullAtHandler

LEMMA InvariantParts == Invariant => MachineOK
BY DEF Invariant, MachineOK, TypeOK

LEMMA Composed ==
    ASSUME Invariant, MachineOK', module' = module, EndedIsIdle',
           budget' \in 0 .. MaxInstructions,
           request' \in {"none", "command", "host", "await"},
           answer' \in Nat, executed' \in Seq(Nat)
    PROVE  Invariant'
BY DEF Invariant, MachineOK, TypeOK

\* Handlers stay live when the first n of them are left, each in a frame that
\* is left too.
LEMMA HandlersKept ==
    ASSUME TypeOK, HandlersLive, DepthsBounded, module' = module,
           NEW n \in 0 .. Len(exceptions),
           exceptions' = SubSeq(exceptions, 1, n),
           \A i \in 1 .. n : exceptions[i].frame_depth <= Len(frames'),
           Len(frames') \in Nat,
           \A j \in 1 .. Len(frames) :
               j <= Len(frames') => frames'[j].function = frames[j].function
    PROVE  HandlersLive' /\ DepthsBounded' /\ exceptions' \in Seq(HandlerType)
<1>1. exceptions \in Seq(HandlerType) /\ Len(frames) \in Nat /\ Len(exceptions) \in Nat
  BY DEF TypeOK
<1>2. /\ exceptions' \in Seq(HandlerType)
      /\ Len(exceptions') = n
      /\ \A i \in 1 .. n : exceptions'[i] = exceptions[i]
  BY <1>1
<1>3. ASSUME NEW i \in 1 .. n
      PROVE  LET e == exceptions[i]
             IN  /\ e.frame_depth \in 1 .. Len(frames')
                 /\ Installs(module'.functions[frames'[e.frame_depth].function],
                             e.handler_ip)
  <2> DEFINE d == exceptions[i].frame_depth
  <2>1. /\ d \in 1 .. Len(frames) /\ d <= Len(frames')
        /\ Installs(module.functions[frames[d].function], exceptions[i].handler_ip)
    BY <1>1 DEF HandlersLive, CodeOf
  <2>2. frames'[d].function = frames[d].function
    BY <2>1
  <2> QED BY <1>1, <2>1, <2>2
<1>4. \A i, j \in 1 .. n : i < j => exceptions[i].frame_depth <= exceptions[j].frame_depth
  <2>1. \A i, j \in 1 .. Len(exceptions) :
            i < j => exceptions[i].frame_depth <= exceptions[j].frame_depth
    BY DEF HandlersLive
  <2>2. \A i \in 1 .. n : i \in 1 .. Len(exceptions)
    BY <1>1
  <2> QED BY <2>1, <2>2
<1>5. HandlersLive'
  BY <1>2, <1>3, <1>4 DEF HandlersLive, CodeOf
<1>6. DepthsBounded'
  BY <1>1, <1>2 DEF DepthsBounded
<1> QED BY <1>2, <1>5, <1>6

\* The script fails.
LEMMA FailOK ==
    ASSUME Invariant, module' = module, status' = "Failed",
           error' \in {"none", "Internal", Limit} \cup Catchable,
           UNCHANGED <<stack, frames, exceptions>>
    PROVE  MachineOK'
<1>1. status' \in Ended
  BY DEF Ended
<1>2. HandlersLive' /\ DepthsBounded'
  BY DEF Invariant, HandlersLive, DepthsBounded, CodeOf
<1>3. OverfullAtHandler'
  BY <1>1 DEF OverfullAtHandler
<1> QED BY <1>1, <1>2, <1>3 DEF MachineOK, Invariant, TypeOK

\* The machine goes on with the frames fs and the first n handlers.
LEMMA GoOnOK ==
    ASSUME Invariant, module' = module,
           NEW n \in 0 .. Len(exceptions), exceptions' = SubSeq(exceptions, 1, n),
           NEW s \in Seq(Value), NEW fs \in Seq(FrameType), Continue(s, fs),
           Len(fs) \in 1 .. MaxCallDepth,
           \A j \in 1 .. Len(fs) : fs[j].function <= Len(module.functions),
           \A i \in 1 .. n : exceptions[i].frame_depth <= Len(fs),
           \A j \in 1 .. Len(frames) : j <= Len(fs) => fs[j].function = frames[j].function
    PROVE  MachineOK'
<1>1. TypeOK /\ HandlersLive /\ DepthsBounded /\ Len(exceptions) \in Nat
      /\ Len(frames) \in Nat /\ Len(fs) \in Nat
  BY DEF Invariant, TypeOK
<1>2. CASE Len(s) <= MaxStack
  <2>1. /\ stack' = s /\ frames' = fs /\ status' = "Ready" /\ error' = error
    BY <1>2 DEF Continue
  <2>2. HandlersLive' /\ DepthsBounded' /\ exceptions' \in Seq(HandlerType)
    <3> HIDE DEF Invariant
    <3> QED BY <1>1, <2>1, HandlersKept
  <2>3. OverfullAtHandler'
    BY <1>2, <2>1, VmAssumption DEF OverfullAtHandler
  <2>4. Len(stack') <= MaxStack + 1
    BY <1>2, <2>1, VmAssumption
  <2> QED BY <1>1, <2>1, <2>2, <2>3, <2>4 DEF MachineOK, TypeOK
<1>3. CASE ~(Len(s) <= MaxStack)
  <2>1. /\ status' = "Failed" /\ error' = Limit /\ UNCHANGED <<stack, frames>>
    BY <1>3 DEF Continue
  <2>2. \A i \in 1 .. n : exceptions[i].frame_depth <= Len(frames')
    <3>1. \A i \in 1 .. Len(exceptions) : exceptions[i].frame_depth \in 1 .. Len(frames)
      BY <1>1 DEF HandlersLive
    <3> QED BY <1>1, <2>1, <3>1
  <2>3. HandlersLive' /\ DepthsBounded' /\ exceptions' \in Seq(HandlerType)
    <3> HIDE DEF Invariant
    <3> QED BY <1>1, <2>1, <2>2, HandlersKept
  <2>4. OverfullAtHandler'
    BY <2>1 DEF OverfullAtHandler, Ended
  <2> QED BY <1>1, <2>1, <2>3, <2>4 DEF MachineOK, TypeOK, Ended
<1> QED BY <1>2, <1>3

\* The frames of SameCalls are as good as those there are.
LEMMA SameCallsFacts ==
    ASSUME Invariant, NEW fs, SameCalls(fs)
    PROVE  /\ fs \in Seq(FrameType) /\ Len(fs) \in 1 .. MaxCallDepth
           /\ \A j \in 1 .. Len(fs) : fs[j].function <= Len(module.functions)
           /\ \A i \in 1 .. Len(exceptions) : exceptions[i].frame_depth <= Len(fs)
           /\ \A j \in 1 .. Len(frames) : fs[j].function = frames[j].function
<1>1. TypeOK /\ HandlersLive
  BY DEF Invariant
<1>2. Len(frames) \in Nat /\ Len(fs) = Len(frames) /\ fs \in Seq(FrameType)
      /\ \A j \in 1 .. Len(frames) : fs[j].function = frames[j].function
  BY <1>1 DEF SameCalls, TypeOK
<1>3. \A i \in 1 .. Len(exceptions) : exceptions[i].frame_depth \in 1 .. Len(frames)
  BY <1>1 DEF HandlersLive
<1> QED BY <1>1, <1>2, <1>3 DEF TypeOK

\* The machine goes on with the same calls and handlers.
LEMMA ContinueOK ==
    ASSUME Invariant, module' = module, UNCHANGED exceptions,
           NEW s \in Seq(Value), NEW fs, SameCalls(fs), Continue(s, fs)
    PROVE  MachineOK'
<1>1. /\ Len(exceptions) \in 0 .. Len(exceptions)
      /\ exceptions' = SubSeq(exceptions, 1, Len(exceptions))
  BY DEF Invariant, TypeOK
<1> QED BY <1>1, SameCallsFacts, GoOnOK

\* Control goes to the innermost handler.
LEMMA HandleOK ==
    ASSUME Invariant, module' = module, request' = "none",
           Len(exceptions) > 0,
           NEW s \in Seq(Value), NEW v \in Value, Handle(At(exceptions), s, v)
    PROVE  MachineOK'
<1> DEFINE n == Len(exceptions)
           e == exceptions[n]
           d == e.frame_depth
           code == module.functions[frames[d].function]
<1>1. /\ exceptions \in Seq(HandlerType) /\ n \in Nat \ {0} /\ n \in 1 .. n
      /\ frames \in Seq(FrameType) /\ Len(frames) \in 1 .. MaxCallDepth /\ MaxCallDepth \in Nat
      /\ e \in HandlerType
      /\ At(exceptions) = e
      /\ TypeOK /\ HandlersLive /\ DepthsBounded /\ module \in Modules
      /\ Len(module.functions) \in Nat
  BY VmAssumption DEF Invariant, TypeOK, At
<1>2. /\ d \in 1 .. Len(frames)
      /\ Installs(code, e.handler_ip)
      /\ e.stack_depth \in Nat /\ e.stack_depth <= MaxStack
      /\ e.handler_ip \in Nat \ {0}
  BY <1>1 DEF HandlersLive, CodeOf, DepthsBounded, HandlerType
<1> HIDE DEF n, e, d, code
<1>3. \A i \in 1 .. n : exceptions[i].frame_depth <= d
  <2> USE DEF n, d, e
  <2>1. \A i, j \in 1 .. n : i < j => exceptions[i].frame_depth <= exceptions[j].frame_depth
    BY <1>1 DEF HandlersLive
  <2> QED BY <1>1, <1>2, <2>1
<1> DEFINE cut == SubSeq(frames, 1, d)
           fs == StandingAt(cut, e.handler_ip)
<1>4. /\ frames' = fs /\ stack' = Unwound(s, e, v)
      /\ exceptions' = SubSeq(exceptions, 1, n - 1)
      /\ status' = "Ready" /\ error' = error
  BY <1>1 DEF Handle, Below, n, d
<1>5. /\ cut \in Seq(FrameType) /\ Len(cut) = d
      /\ \A j \in 1 .. d : cut[j] = frames[j]
      /\ d \in 1 .. Len(cut)
  BY <1>1, <1>2
<1> HIDE DEF cut
<1>6. /\ fs \in Seq(FrameType) /\ Len(fs) = d
      /\ \A j \in 1 .. d : fs[j].function = frames[j].function
      /\ fs[d].ip = e.handler_ip
  <2>1. /\ fs \in Seq(FrameType) /\ Len(fs) = Len(cut)
        /\ \A j \in 1 .. Len(cut) : fs[j].function = cut[j].function
        /\ fs[d].ip = e.handler_ip
    BY <1>2, <1>5, StandingFacts, SMTT(40)
  <2> HIDE DEF fs
  <2> QED BY <1>5, <2>1
<1> HIDE DEF fs
<1>7. HandlersLive' /\ DepthsBounded' /\ exceptions' \in Seq(HandlerType)
  <2>1. /\ n - 1 \in 0 .. Len(exceptions)
        /\ \A i \in 1 .. (n - 1) : exceptions[i].frame_depth <= Len(frames')
    BY <1>1, <1>2, <1>3, <1>4, <1>6 DEF n
  <2>2. /\ Len(frames') \in Nat
        /\ \A j \in 1 .. Len(frames) :
               j <= Len(frames') => frames'[j].function = frames[j].function
    BY <1>1, <1>2, <1>4, <1>6
  <2> QED BY <1>1, <1>4, <2>1, <2>2, HandlersKept
<1>8. stack' \in Seq(Value) /\ Len(stack') <= MaxStack + 1
  <2>1. /\ Truncate(s, e.stack_depth) \in Seq(Value)
        /\ Len(Truncate(s, e.stack_depth)) <= e.stack_depth
    BY <1>2, TruncateFacts
  <2> QED BY <1>2, <1>4, <2>1, VmAssumption DEF Unwound
<1>9. OverfullAtHandler'
  <2>1. e.handler_ip \in 1 .. Len(code) /\ code[e.handler_ip].op \in {"Pop", "Throw"}
    <3>1. frames[d] \in FrameType /\ frames[d].function <= Len(module.functions)
      BY <1>1, <1>2 DEF TypeOK
    <3>2. frames[d].function \in 1 .. Len(module.functions)
      <4>1. frames[d].function \in Nat \ {0}
        BY <3>1 DEF FrameType
      <4> QED BY <1>1, <3>1, <4>1
    <3>3. HandlersTake(code)
      BY <1>1, <3>2, VmAssumption DEF code
    <3>4. PICK k \in 1 .. Len(code) : code[k].op = "TryBegin" /\ code[k].arg = e.handler_ip
      BY <1>2 DEF Installs
    <3> QED BY <3>3, <3>4 DEF HandlersTake
  <2>2. /\ Top' = fs[d] /\ fs[d].ip = e.handler_ip
        /\ fs[d].function = frames[d].function
    BY <1>2, <1>4, <1>6 DEF Top
  <2>3. CodeOf(Top.function)' = code /\ Current' = code[e.handler_ip]
    BY <1>4, <2>2 DEF CodeOf, Current, code
  <2> QED BY <2>1, <2>2, <2>3 DEF OverfullAtHandler
<1>10. \A j \in 1 .. d : fs[j].function <= Len(module.functions)
  <2>1. \A j \in 1 .. d : j \in 1 .. Len(frames)
    BY <1>1, <1>2
  <2> QED BY <1>1, <1>6, <2>1 DEF TypeOK
<1> QED
  BY <1>1, <1>2, <1>4, <1>6, <1>7, <1>8, <1>9, <1>10 DEF MachineOK, TypeOK

\* An error is raised.
LEMMA RaiseOK ==
    ASSUME Invariant, module' = module, request' = "none",
           NEW kind \in {"Internal"} \cup Catchable,
           NEW s \in Seq(Value), Raise(kind, s)
    PROVE  MachineOK'
<1>1. CASE kind \in Catchable /\ exceptions # <<>>
  <2>1. Len(exceptions) > 0
    BY <1>1 DEF Invariant, TypeOK
  <2>2. Handle(At(exceptions), s, Text)
    BY <1>1 DEF Raise
  <2> QED BY <2>1, <2>2, HandleOK, SomeValues
<1>2. CASE ~(kind \in Catchable /\ exceptions # <<>>)
  <2>1. Fail(kind)
    BY <1>2 DEF Raise
  <2> QED BY <2>1, FailOK DEF Fail
<1> QED BY <1>1, <1>2
-----------------------------------------------------------------------------
(* One lemma for each instruction.                                         *)

LEMMA PlainOK ==
    ASSUME Invariant, NEW op, Plain(op), MachineOK'
    PROVE  Invariant'
<1>1. TypeOK
  BY DEF Invariant
<1>2. /\ budget' \in 0 .. MaxInstructions /\ module' = module
      /\ request = "none" /\ UNCHANGED <<request, answer, executed>>
  BY <1>1, FetchFacts DEF Plain
<1> QED BY <1>1, <1>2, Composed DEF EndedIsIdle, TypeOK

\* An instruction other than the first of a handler finds room for one more
\* operand than the error that was pushed.
LEMMA NotOverfull ==
    ASSUME Invariant, NEW op, Fetch(op), op \notin {"Pop", "Throw"}
    PROVE  Len(stack) <= MaxStack
BY VmAssumption DEF Invariant, OverfullAtHandler, Fetch, Running, Ended, TypeOK

LEMMA AdvancedFacts ==
    ASSUME TypeOK, NEW ip \in Nat \ {0}
    PROVE  SameCalls(MovedTo(ip))
<1>1. frames \in Seq(FrameType) /\ Len(frames) > 0
  BY TopFacts DEF TypeOK
<1> QED BY <1>1, StandingFacts DEF SameCalls, MovedTo

LEMMA AdvanceFacts ==
    ASSUME TypeOK
    PROVE  /\ SameCalls(Advanced)
           /\ \A its \in Seq(IteratorType) : SameCalls(Iterating(Advanced, its))
<1>1. Top.ip + 1 \in Nat \ {0}
  BY TopFacts DEF FrameType
<1>2. SameCalls(Advanced)
  BY <1>1, AdvancedFacts DEF Advanced
<1>3. Len(Advanced) > 0
  BY <1>2, TopFacts DEF SameCalls
<1> QED BY <1>2, <1>3, IteratingFacts DEF SameCalls

LEMMA LoadOK == Invariant /\ Load => Invariant'
<1> SUFFICES ASSUME Invariant, Load PROVE Invariant'
  OBVIOUS
<1>1. TypeOK /\ Plain("LoadConstant") /\ module' = module
  BY DEF Invariant, Load, Plain, Fetch
<1>2. Current.value \in Value
  BY <1>1, FetchFacts DEF Plain
<1>3. Append(stack, Current.value) \in Seq(Value)
  BY <1>1, <1>2 DEF TypeOK
<1>4. MachineOK'
  BY <1>1, <1>3, AdvanceFacts, ContinueOK DEF Load
<1> QED BY <1>1, <1>4, PlainOK

LEMMA LoadGlobalOK == Invariant /\ LoadGlobal => Invariant'
<1> SUFFICES ASSUME Invariant, LoadGlobal PROVE Invariant'
  OBVIOUS
<1>1. TypeOK /\ Plain("LoadGlobal") /\ module' = module /\ stack \in Seq(Value)
      /\ request' = "none"
  BY DEF Invariant, LoadGlobal, Plain, Fetch, TypeOK, Running
<1>2. CASE Current.arg = 0
  <2>1. Raise("NameError", stack) /\ "NameError" \in Catchable
    BY <1>2 DEF LoadGlobal, Catchable
  <2> QED BY <1>1, <2>1, RaiseOK, PlainOK
<1>3. CASE Current.arg # 0
  <2>1. Append(stack, Int1) \in Seq(Value)
    BY <1>1, SomeValues
  <2>2. Continue(Append(stack, Int1), Advanced) /\ UNCHANGED exceptions
    BY <1>3 DEF LoadGlobal
  <2> QED BY <1>1, <2>1, <2>2, AdvanceFacts, ContinueOK, PlainOK
<1> QED BY <1>2, <1>3

LEMMA DropOK == Invariant /\ Drop => Invariant'
<1> SUFFICES ASSUME Invariant, Drop PROVE Invariant'
  OBVIOUS
<1>1. PICK op \in {"Pop", "Store"} : Plain(op)
  BY DEF Drop
<1>2. TypeOK /\ module' = module /\ stack \in Seq(Value)
  BY <1>1 DEF Invariant, Plain, Fetch, TypeOK
<1>3. CASE Has(1)
  <2>1. Below(stack, 1) \in Seq(Value)
    BY <1>2, <1>3, BelowFacts DEF Has
  <2> QED BY <1>1, <1>2, <1>3, <2>1, AdvanceFacts, ContinueOK, PlainOK DEF Drop
<1>4. CASE ~Has(1)
  <2>1. MachineOK'
    BY <1>2, <1>4, FailOK DEF Drop, Fail
  <2> QED BY <1>1, <2>1, PlainOK
<1> QED BY <1>3, <1>4

LEMMA BinaryOK == Invariant /\ Binary => Invariant'
<1> SUFFICES ASSUME Invariant, Binary PROVE Invariant'
  OBVIOUS
<1>1. TypeOK /\ Plain("Binary") /\ module' = module /\ stack \in Seq(Value)
      /\ request' = "none"
  BY DEF Invariant, Binary, Plain, Fetch, TypeOK, Running
<1>2. CASE ~Has(2)
  <2>1. MachineOK'
    BY <1>1, <1>2, FailOK DEF Binary, Fail
  <2> QED BY <1>1, <2>1, PlainOK
<1>3. CASE Has(2)
  <2>1. Below(stack, 2) \in Seq(Value)
    BY <1>1, <1>3, BelowFacts DEF Has
  <2>2. CASE At(stack).kind = "int" /\ At(Below(stack, 1)).kind = "int"
    <3>1. Append(Below(stack, 2), Int1) \in Seq(Value)
      BY <2>1, SomeValues
    <3>2. /\ Continue(Append(Below(stack, 2), Int1), Advanced)
          /\ UNCHANGED exceptions
      BY <1>3, <2>2 DEF Binary
    <3> QED BY <1>1, <3>1, <3>2, AdvanceFacts, ContinueOK, PlainOK
  <2>3. CASE ~(At(stack).kind = "int" /\ At(Below(stack, 1)).kind = "int")
    <3>1. Raise("TypeError", Below(stack, 2)) /\ "TypeError" \in Catchable
      BY <1>3, <2>3 DEF Binary, Catchable
    <3> QED BY <1>1, <2>1, <3>1, RaiseOK, PlainOK
  <2> QED BY <2>2, <2>3
<1> QED BY <1>2, <1>3

LEMMA BuildListOK == Invariant /\ BuildList => Invariant'
<1> SUFFICES ASSUME Invariant, BuildList PROVE Invariant'
  OBVIOUS
<1>1. TypeOK /\ Plain("BuildList") /\ module' = module /\ stack \in Seq(Value)
  BY DEF Invariant, BuildList, Plain, Fetch, TypeOK
<1>2. Current.arg \in Nat
  BY <1>1, FetchFacts DEF Plain
<1>3. CASE Has(Current.arg)
  <2>1. Below(stack, Current.arg) \in Seq(Value)
    BY <1>1, <1>2, <1>3, BelowFacts DEF Has
  <2>2. Append(Below(stack, Current.arg), [kind |-> "list", arg |-> Current.arg])
          \in Seq(Value)
    <3>1. [kind |-> "list", arg |-> Current.arg] \in Value
      BY <1>2, SomeValues
    <3> QED BY <2>1, <3>1
  <2> QED BY <1>1, <1>3, <2>2, AdvanceFacts, ContinueOK, PlainOK DEF BuildList
<1>4. CASE ~Has(Current.arg)
  <2>1. MachineOK'
    BY <1>1, <1>4, FailOK DEF BuildList, Fail
  <2> QED BY <1>1, <2>1, PlainOK
<1> QED BY <1>3, <1>4

LEMMA BuildDictionaryOK == Invariant /\ BuildDictionary => Invariant'
<1> SUFFICES ASSUME Invariant, BuildDictionary PROVE Invariant'
  OBVIOUS
<1>1. TypeOK /\ Plain("BuildDictionary") /\ module' = module /\ stack \in Seq(Value)
      /\ request' = "none"
  BY DEF Invariant, BuildDictionary, Plain, Fetch, TypeOK, Running
<1>2. Current.arg \in Nat /\ 2 * Current.arg \in Nat
  BY <1>1, FetchFacts DEF Plain
<1> DEFINE rest == Below(stack, 2 * Current.arg)
           dict == [kind |-> "dict", arg |-> Current.arg]
<1>3. CASE ~Has(2 * Current.arg)
  <2>1. MachineOK'
    BY <1>1, <1>3, FailOK DEF BuildDictionary, Fail
  <2> QED BY <1>1, <2>1, PlainOK
<1>4. CASE Has(2 * Current.arg)
  <2>1. rest \in Seq(Value)
    BY <1>1, <1>2, <1>4, BelowFacts DEF Has
  <2>2. CASE KeysFit(Current.arg)
    <3>1. dict \in Value
      BY <1>2, SomeValues
    <3>2. Append(rest, dict) \in Seq(Value)
      BY <2>1, <3>1
    <3>3. Continue(Append(rest, dict), Advanced) /\ UNCHANGED exceptions
      BY <1>4, <2>2 DEF BuildDictionary
    <3> QED BY <1>1, <3>2, <3>3, AdvanceFacts, ContinueOK, PlainOK
  <2>3. CASE ~KeysFit(Current.arg)
    <3>1. Raise("TypeError", rest) /\ "TypeError" \in Catchable
      BY <1>4, <2>3 DEF BuildDictionary, Catchable
    <3> QED BY <1>1, <2>1, <3>1, RaiseOK, PlainOK
  <2> QED BY <2>2, <2>3
<1> QED BY <1>3, <1>4

LEMMA JumpOK == Invariant /\ (Jump \/ JumpIfFalse) => Invariant'
<1>1. ASSUME Invariant, Jump PROVE Invariant'
  <2>1. TypeOK /\ Plain("Jump") /\ module' = module /\ stack \in Seq(Value)
    BY <1>1 DEF Invariant, Jump, Plain, Fetch, TypeOK
  <2>2. Current.arg \in Nat \ {0}
    BY <2>1, FetchFacts DEF Plain, Jumps
  <2>3. SameCalls(MovedTo(Current.arg))
    BY <2>1, <2>2, AdvancedFacts
  <2> QED BY <1>1, <2>1, <2>3, ContinueOK, PlainOK DEF Jump
<1>2. ASSUME Invariant, JumpIfFalse PROVE Invariant'
  <2>1. TypeOK /\ Plain("JumpIfFalse") /\ module' = module /\ stack \in Seq(Value)
    BY <1>2 DEF Invariant, JumpIfFalse, Plain, Fetch, TypeOK
  <2>2. Current.arg \in Nat \ {0}
    BY <2>1, FetchFacts DEF Plain, Jumps
  <2>3. SameCalls(IF Truthy(At(stack)) THEN Advanced ELSE MovedTo(Current.arg))
    BY <2>1, <2>2, AdvancedFacts, AdvanceFacts
  <2>4. CASE Has(1)
    <3>1. Below(stack, 1) \in Seq(Value)
      BY <2>1, <2>4, BelowFacts DEF Has
    <3> QED BY <1>2, <2>1, <2>3, <2>4, <3>1, ContinueOK, PlainOK DEF JumpIfFalse
  <2>5. CASE ~Has(1)
    <3>1. MachineOK'
      BY <1>2, <2>1, <2>5, FailOK DEF JumpIfFalse, Fail
    <3> QED BY <1>2, <2>1, <3>1, PlainOK
  <2> QED BY <2>4, <2>5
<1> QED BY <1>1, <1>2

\* Two ways for a script to end that no instruction asks for.
LEMMA EndOfRunOK == Invariant /\ (BudgetExhausted \/ OutOfCode) => Invariant'
<1> SUFFICES ASSUME Invariant, BudgetExhausted \/ OutOfCode PROVE Invariant'
  OBVIOUS
<1>1. /\ TypeOK /\ module' = module /\ UNCHANGED <<request, answer, executed>>
      /\ request = "none" /\ budget' \in 0 .. MaxInstructions
  BY VmAssumption
     DEF Invariant, BudgetExhausted, OutOfCode, Fail, Running, Spent, TypeOK
<1>2. MachineOK'
  BY <1>1, FailOK DEF BudgetExhausted, OutOfCode, Fail
<1> QED BY <1>1, <1>2, Composed DEF EndedIsIdle, TypeOK

LEMMA CallTooDeepOK == Invariant /\ CallTooDeep => Invariant'
<1> SUFFICES ASSUME Invariant, CallTooDeep PROVE Invariant'
  OBVIOUS
<1>1. Plain("Call") /\ module' = module
  BY DEF CallTooDeep, Plain, Fetch
<1>2. MachineOK'
  BY <1>1, FailOK DEF CallTooDeep, Fail
<1> QED BY <1>1, <1>2, PlainOK

\* The operands of a call, below its arguments.
LEMMA CalleeFacts ==
    ASSUME TypeOK, Fetch("Call"), Has(Current.arg + 1)
    PROVE  /\ Callee \in Value
           /\ Below(stack, Current.arg + 1) \in Seq(Value)
           /\ Len(Below(stack, Current.arg + 1)) \in Nat
           /\ Len(Below(stack, Current.arg + 1)) <= Len(stack)
<1>1. Current.arg \in Nat /\ stack \in Seq(Value)
  BY FetchFacts DEF TypeOK
<1>2. Current.arg + 1 \in 0 .. Len(stack) /\ Len(stack) - Current.arg \in 1 .. Len(stack)
  BY <1>1 DEF Has
<1>3. /\ Below(stack, Current.arg + 1) \in Seq(Value)
      /\ Len(Below(stack, Current.arg + 1)) = Len(stack) - (Current.arg + 1)
  BY <1>1, <1>2, BelowFacts
<1> QED BY <1>1, <1>2, <1>3 DEF Callee

LEMMA CallClosureOK == Invariant /\ CallClosure => Invariant'
<1> SUFFICES ASSUME Invariant, CallClosure PROVE Invariant'
  OBVIOUS
<1> DEFINE s == Below(stack, Current.arg + 1)
           new == NewFrame(Callee.arg, Len(s))
           fs == Append(Advanced, new)
<1>1. TypeOK /\ Plain("Call") /\ Fetch("Call") /\ module' = module
  BY DEF Invariant, CallClosure, Plain, Fetch
<1>2. Callee \in Value /\ s \in Seq(Value) /\ Len(s) \in Nat
  BY <1>1, CalleeFacts DEF CallClosure
<1>3. Callee.arg \in Nat \ {0} /\ Callee.arg <= Len(module.functions)
  BY <1>2 DEF CallClosure, Value
<1> HIDE DEF s
<1>4. new \in FrameType /\ new.function = Callee.arg
  BY <1>2, <1>3 DEF NewFrame, FrameType
<1> HIDE DEF new
<1>5. SameCalls(Advanced)
  BY <1>1, AdvanceFacts
<1>6. /\ Advanced \in Seq(FrameType) /\ Len(Advanced) = Len(frames)
      /\ Len(frames) \in Nat \ {0}
      /\ \A j \in 1 .. Len(frames) : /\ Advanced[j].function = frames[j].function
                                     /\ Advanced[j].function <= Len(module.functions)
      /\ \A i \in 1 .. Len(exceptions) : exceptions[i].frame_depth <= Len(frames)
  BY <1>1, <1>5, SameCallsFacts, TopFacts DEF SameCalls
<1> HIDE DEF Advanced
<1>7. /\ fs \in Seq(FrameType) /\ Len(fs) = Len(frames) + 1
      /\ \A j \in 1 .. Len(frames) : fs[j] = Advanced[j]
      /\ fs[Len(frames) + 1] = new
  BY <1>4, <1>6
<1> HIDE DEF fs
<1>8. Len(fs) \in 1 .. MaxCallDepth
  BY <1>6, <1>7, VmAssumption DEF CallClosure, TooDeep
<1>9. \A j \in 1 .. Len(fs) : fs[j].function <= Len(module.functions)
  BY <1>3, <1>4, <1>6, <1>7
<1>10. /\ Len(exceptions) \in 0 .. Len(exceptions)
       /\ exceptions' = SubSeq(exceptions, 1, Len(exceptions))
       /\ \A i \in 1 .. Len(exceptions) :
              exceptions[i].frame_depth \in Nat /\ exceptions[i].frame_depth <= Len(fs)
       /\ exceptions \in Seq(HandlerType)
  <2>1. /\ exceptions \in Seq(HandlerType) /\ UNCHANGED exceptions
        /\ \A i \in 1 .. Len(exceptions) : exceptions[i].frame_depth \in 1 .. Len(frames)
    BY <1>1 DEF CallClosure, TypeOK, Invariant, HandlersLive
  <2> QED BY <1>6, <1>7, <2>1
<1>11. Continue(s, fs)
  BY DEF CallClosure, s, fs, new
<1>12. MachineOK'
  BY <1>1, <1>2, <1>6, <1>7, <1>8, <1>9, <1>10, <1>11, GoOnOK
<1> QED BY <1>1, <1>12, PlainOK

LEMMA CallNothingOK == Invariant /\ CallNothing => Invariant'
<1> SUFFICES ASSUME Invariant, CallNothing PROVE Invariant'
  OBVIOUS
<1>1. /\ TypeOK /\ Plain("Call") /\ Fetch("Call") /\ module' = module
      /\ request' = "none"
  BY DEF Invariant, CallNothing, Plain, Fetch, Running
<1>2. CASE Has(Current.arg + 1)
  <2> DEFINE kind == IF Callee.kind = "closure" THEN "Internal" ELSE "TypeError"
  <2>1. Below(stack, Current.arg + 1) \in Seq(Value)
    BY <1>1, <1>2, CalleeFacts
  <2>2. kind \in {"Internal"} \cup Catchable /\ Raise(kind, Below(stack, Current.arg + 1))
    BY <1>2 DEF CallNothing, Catchable
  <2> HIDE DEF kind
  <2> QED BY <1>1, <2>1, <2>2, RaiseOK, PlainOK
<1>3. CASE ~Has(Current.arg + 1)
  <2>1. MachineOK'
    BY <1>1, <1>3, FailOK DEF CallNothing, Fail
  <2> QED BY <1>1, <2>1, PlainOK
<1> QED BY <1>2, <1>3
-----------------------------------------------------------------------------
(* Iterators and try blocks.                                               *)

LEMMA IterStartOK == Invariant /\ IterStart => Invariant'
<1> SUFFICES ASSUME Invariant, IterStart PROVE Invariant'
  OBVIOUS
<1>1. /\ TypeOK /\ Plain("IterStart") /\ module' = module /\ stack \in Seq(Value)
      /\ request' = "none"
  BY DEF Invariant, IterStart, Plain, Fetch, TypeOK, Running
<1>2. CASE ~Has(1)
  <2>1. MachineOK'
    BY <1>1, <1>2, FailOK DEF IterStart, Fail
  <2> QED BY <1>1, <2>1, PlainOK
<1>3. CASE Has(1)
  <2>1. Below(stack, 1) \in Seq(Value) /\ At(stack) \in Value
    BY <1>1, <1>3, BelowFacts, AtFacts DEF Has
  <2>2. CASE At(stack).kind \in Iterable
    <3> DEFINE it == [length |-> At(stack).arg, cursor |-> 0]
               its == Append(Top.iterators, it)
    <3>1. it \in IteratorType /\ Top.iterators \in Seq(IteratorType)
      BY <1>1, <2>1, <2>2, SomeValues, TopFacts DEF IteratorType, FrameType
    <3>2. its \in Seq(IteratorType)
      BY <3>1
    <3>3. /\ Continue(Below(stack, 1), Iterating(Advanced, its))
          /\ UNCHANGED exceptions
      BY <1>3, <2>2 DEF IterStart
    <3> HIDE DEF its
    <3>4. SameCalls(Iterating(Advanced, its))
      BY <1>1, <3>2, AdvanceFacts
    <3> QED BY <1>1, <2>1, <3>3, <3>4, ContinueOK, PlainOK
  <2>3. CASE At(stack).kind \notin Iterable
    <3>1. Raise("TypeError", Below(stack, 1)) /\ "TypeError" \in Catchable
      BY <1>3, <2>3 DEF IterStart, Catchable
    <3> QED BY <1>1, <2>1, <3>1, RaiseOK, PlainOK
  <2> QED BY <2>2, <2>3
<1> QED BY <1>2, <1>3

LEMMA IterNextOK == Invariant /\ IterNext => Invariant'
<1> SUFFICES ASSUME Invariant, IterNext PROVE Invariant'
  OBVIOUS
<1>1. /\ TypeOK /\ Plain("IterNext") /\ Fetch("IterNext") /\ module' = module
      /\ stack \in Seq(Value) /\ Top.iterators \in Seq(IteratorType)
  BY TopFacts DEF Invariant, IterNext, Plain, Fetch, TypeOK, FrameType
<1>2. CASE Top.iterators = <<>>
  <2>1. MachineOK'
    BY <1>1, <1>2, FailOK DEF IterNext, Fail
  <2> QED BY <1>1, <2>1, PlainOK
<1>3. CASE Top.iterators # <<>>
  <2> DEFINE it == At(Top.iterators)
             its == Append(Below(Top.iterators, 1), [it EXCEPT !.cursor = @ + 1])
  <2>1. Len(Top.iterators) > 0 /\ 1 \in 0 .. Len(Top.iterators)
    BY <1>1, <1>3
  <2>2. it \in IteratorType /\ Below(Top.iterators, 1) \in Seq(IteratorType)
    BY <1>1, <2>1, AtFacts, BelowFacts
  <2> HIDE DEF it
  <2>3. [it EXCEPT !.cursor = @ + 1] \in IteratorType
    <3>1. it.cursor + 1 \in Nat
      BY <2>2 DEF IteratorType
    <3> QED BY <2>2, <3>1, Zenon DEF IteratorType
  <2>4. its \in Seq(IteratorType)
    BY <2>2, <2>3
  <2> HIDE DEF its
  <2>5. CASE it.cursor < it.length
    <3>1. /\ Continue(Append(stack, Int1), Iterating(Advanced, its))
          /\ UNCHANGED exceptions
      BY <1>3, <2>5 DEF IterNext, it, its
    <3>2. Append(stack, Int1) \in Seq(Value)
      BY <1>1, SomeValues
    <3>3. SameCalls(Iterating(Advanced, its))
      BY <1>1, <2>4, AdvanceFacts
    <3> QED BY <1>1, <3>1, <3>2, <3>3, ContinueOK, PlainOK
  <2>6. CASE ~(it.cursor < it.length)
    <3>1. Continue(stack, MovedTo(Current.arg)) /\ UNCHANGED exceptions
      BY <1>3, <2>6 DEF IterNext, it
    <3>2. SameCalls(MovedTo(Current.arg))
      BY <1>1, FetchFacts, AdvancedFacts DEF Jumps
    <3> QED BY <1>1, <3>1, <3>2, ContinueOK, PlainOK
  <2> QED BY <2>5, <2>6
<1> QED BY <1>2, <1>3

LEMMA IterEndOK == Invariant /\ IterEnd => Invariant'
<1> SUFFICES ASSUME Invariant, IterEnd PROVE Invariant'
  OBVIOUS
<1>1. /\ TypeOK /\ Plain("IterEnd") /\ module' = module
      /\ stack \in Seq(Value) /\ Top.iterators \in Seq(IteratorType)
  BY TopFacts DEF Invariant, IterEnd, Plain, Fetch, TypeOK, FrameType
<1>2. CASE Top.iterators = <<>>
  <2>1. MachineOK'
    BY <1>1, <1>2, FailOK DEF IterEnd, Fail
  <2> QED BY <1>1, <2>1, PlainOK
<1>3. CASE Top.iterators # <<>>
  <2>1. Below(Top.iterators, 1) \in Seq(IteratorType)
    <3>1. 1 \in 0 .. Len(Top.iterators)
      BY <1>1, <1>3
    <3> QED BY <1>1, <3>1, BelowFacts
  <2>2. SameCalls(Iterating(Advanced, Below(Top.iterators, 1)))
    BY <1>1, <2>1, AdvanceFacts
  <2>3. /\ Continue(stack, Iterating(Advanced, Below(Top.iterators, 1)))
        /\ UNCHANGED exceptions
    BY <1>3 DEF IterEnd
  <2> QED BY <1>1, <2>2, <2>3, ContinueOK, PlainOK
<1> QED BY <1>2, <1>3

\* The new handler is one that the top frame's code installs, and it restores
\* no more operands than the limit.
LEMMA TryBeginOK == Invariant /\ TryBegin => Invariant'
<1> SUFFICES ASSUME Invariant, TryBegin PROVE Invariant'
  OBVIOUS
<1> DEFINE new == [frame_depth |-> Len(frames), stack_depth |-> Len(stack),
                   handler_ip |-> Current.arg]
           n == Len(exceptions)
<1>1. /\ TypeOK /\ HandlersLive /\ DepthsBounded
      /\ Plain("TryBegin") /\ Fetch("TryBegin") /\ module' = module
  BY DEF Invariant, TryBegin, Plain, Fetch
<1>2. /\ stack \in Seq(Value) /\ Len(stack) \in Nat /\ Len(stack) <= MaxStack
      /\ exceptions \in Seq(HandlerType) /\ n \in Nat
      /\ Len(frames) \in Nat \ {0}
      /\ \A j \in 1 .. Len(frames) : frames[j].function <= Len(module.functions)
  <2>1. Len(stack) <= MaxStack
    BY <1>1, NotOverfull
  <2> QED BY <1>1, <2>1, TopFacts DEF TypeOK
<1>3. Current.arg \in Nat \ {0} /\ Top.ip \in Nat \ {0}
  BY <1>1, FetchFacts DEF Jumps
<1>4. Installs(module.functions[frames[Len(frames)].function], Current.arg)
  <2>1. /\ Top.ip \in 1 .. Len(CodeOf(Top.function))
        /\ CodeOf(Top.function)[Top.ip].op = "TryBegin"
        /\ Current = CodeOf(Top.function)[Top.ip]
    BY <1>1, <1>3, TopFacts DEF Fetch, Current
  <2>2. Installs(CodeOf(Top.function), Current.arg)
    BY <2>1 DEF Installs
  <2> QED BY <2>2 DEF CodeOf, Top
<1>5. SameCalls(Advanced) /\ Continue(stack, Advanced) /\ exceptions' = Append(exceptions, new)
  BY <1>1, AdvanceFacts DEF TryBegin
<1>6. /\ stack' = stack /\ frames' = Advanced /\ status' = "Ready" /\ error' = error
  BY <1>2, <1>5 DEF Continue
<1>7. new \in HandlerType
  BY <1>2, <1>3 DEF HandlerType
<1>8. /\ new.frame_depth = Len(frames) /\ new.handler_ip = Current.arg
      /\ new.stack_depth = Len(stack)
  OBVIOUS
<1> HIDE DEF new, n
<1>9. /\ exceptions' \in Seq(HandlerType) /\ Len(exceptions') = n + 1
      /\ \A i \in 1 .. n : exceptions'[i] = exceptions[i]
      /\ exceptions'[n + 1] = new
  BY <1>2, <1>5, <1>7 DEF n
<1>10. /\ Len(frames') = Len(frames)
       /\ \A j \in 1 .. Len(frames) : frames'[j].function = frames[j].function
       /\ frames' \in Seq(FrameType)
  BY <1>5, <1>6 DEF SameCalls
<1>11. \A i \in 1 .. n : /\ exceptions[i].frame_depth \in 1 .. Len(frames)
                         /\ Installs(module.functions[frames[exceptions[i].frame_depth].function],
                                     exceptions[i].handler_ip)
  BY <1>1 DEF HandlersLive, CodeOf, n
<1>12. \A i, j \in 1 .. n : i < j => exceptions[i].frame_depth <= exceptions[j].frame_depth
  BY <1>1 DEF HandlersLive, n
<1>13. \A i \in 1 .. (n + 1) :
          /\ exceptions'[i].frame_depth \in 1 .. Len(frames)
          /\ Installs(module.functions[frames[exceptions'[i].frame_depth].function],
                      exceptions'[i].handler_ip)
  <2> TAKE i \in 1 .. (n + 1)
  <2>1. CASE i \in 1 .. n
    BY <1>9, <1>11, <2>1
  <2>2. CASE i = n + 1
    BY <1>2, <1>4, <1>8, <1>9, <2>2
  <2> QED BY <1>2, <2>1, <2>2
<1>14. \A i, j \in 1 .. (n + 1) :
          i < j => exceptions'[i].frame_depth <= exceptions'[j].frame_depth
  <2> TAKE i, j \in 1 .. (n + 1)
  <2> HAVE i < j
  <2>1. i \in 1 .. n
    BY <1>2
  <2>2. CASE j \in 1 .. n
    BY <1>9, <1>12, <2>1, <2>2
  <2>3. CASE j = n + 1
    BY <1>2, <1>8, <1>9, <1>11, <2>1, <2>3
  <2> QED BY <1>2, <2>2, <2>3
<1>15. HandlersLive'
  <2>1. \A i \in 1 .. (n + 1) :
          /\ exceptions'[i].frame_depth \in 1 .. Len(frames')
          /\ Installs(module'.functions[frames'[exceptions'[i].frame_depth].function],
                      exceptions'[i].handler_ip)
    BY <1>1, <1>10, <1>13
  <2> QED BY <1>9, <1>14, <2>1 DEF HandlersLive, CodeOf
<1>16. DepthsBounded'
  BY <1>1, <1>2, <1>8, <1>9 DEF DepthsBounded, n
<1>17. OverfullAtHandler' /\ Len(stack') <= MaxStack + 1
  BY <1>2, <1>6, VmAssumption DEF OverfullAtHandler
<1>18. MachineOK'
  BY <1>1, <1>2, <1>6, <1>9, <1>10, <1>15, <1>16, <1>17 DEF MachineOK, TypeOK
<1> QED BY <1>1, <1>18, PlainOK

LEMMA TryEndOK == Invariant /\ TryEnd => Invariant'
<1> SUFFICES ASSUME Invariant, TryEnd PROVE Invariant'
  OBVIOUS
<1>1. /\ TypeOK /\ Plain("TryEnd") /\ module' = module /\ stack \in Seq(Value)
      /\ exceptions \in Seq(HandlerType)
  BY DEF Invariant, TryEnd, Plain, Fetch, TypeOK
<1>2. SameCalls(Advanced) /\ Continue(stack, Advanced)
  BY <1>1, AdvanceFacts DEF TryEnd
<1>3. CASE exceptions = <<>>
  BY <1>1, <1>2, <1>3, ContinueOK, PlainOK DEF TryEnd
<1>4. CASE exceptions # <<>>
  <2> DEFINE n == Len(exceptions) - 1
  <2>1. n \in 0 .. Len(exceptions) /\ exceptions' = SubSeq(exceptions, 1, n)
    BY <1>1, <1>4 DEF TryEnd, Below
  <2>2. \A i \in 1 .. n : i \in 1 .. Len(exceptions)
    BY <1>1
  <2> HIDE DEF n
  <2>3. \A i \in 1 .. n : exceptions[i].frame_depth <= Len(Advanced)
    BY <1>2, <2>2, SameCallsFacts
  <2>4. MachineOK'
    BY <1>1, <1>2, <2>1, <2>3, SameCallsFacts, GoOnOK
  <2> QED BY <1>1, <2>4, PlainOK
<1> QED BY <1>3, <1>4

LEMMA ThrowOK == Invariant /\ Throw => Invariant'
<1> SUFFICES ASSUME Invariant, Throw PROVE Invariant'
  OBVIOUS
<1>1. /\ TypeOK /\ Plain("Throw") /\ module' = module /\ stack \in Seq(Value)
      /\ exceptions \in Seq(HandlerType) /\ request' = "none"
  BY DEF Invariant, Throw, Plain, Fetch, TypeOK, Running
<1>2. ASSUME NEW kind \in {"Internal", "UserThrown", Limit}, Fail(kind)
      PROVE  Invariant'
  <2>1. MachineOK'
    BY <1>1, <1>2, FailOK DEF Fail, Catchable
  <2> QED BY <1>1, <2>1, PlainOK
<1>3. CASE ~Has(1)
  BY <1>2, <1>3 DEF Throw
<1>4. CASE Has(1) /\ exceptions = <<>>
  BY <1>2, <1>4 DEF Throw
<1>5. CASE Has(1) /\ exceptions # <<>>
  <2> DEFINE e == At(exceptions)
             fits == Len(Unwound(Below(stack, 1), e, At(stack))) <= MaxStack
  <2>1. Below(stack, 1) \in Seq(Value) /\ At(stack) \in Value
    BY <1>1, <1>5, BelowFacts, AtFacts DEF Has
  <2>2. CASE fits
    <3>1. Handle(e, Below(stack, 1), At(stack)) /\ Len(exceptions) > 0
      BY <1>1, <1>5, <2>2 DEF Throw
    <3>2. MachineOK'
      BY <1>1, <2>1, <3>1, HandleOK
    <3> QED BY <1>1, <3>2, PlainOK
  <2>3. CASE ~fits
    BY <1>2, <1>5, <2>3 DEF Throw
  <2> QED BY <2>2, <2>3
<1> QED BY <1>3, <1>4, <1>5

\* Return keeps the handlers of the frames below, which are the first ones.
LEMMA RetainedFacts ==
    ASSUME TypeOK, HandlersLive
    PROVE  \E n \in 0 .. Len(exceptions) :
               /\ Retained = SubSeq(exceptions, 1, n)
               /\ \A i \in 1 .. n : exceptions[i].frame_depth < Len(frames)
               /\ \A i \in 1 .. Len(exceptions) :
                     exceptions[i].frame_depth < Len(frames) => i <= n
<1> DEFINE K == {i \in 1 .. Len(exceptions) : Kept(i)}
           n == Cardinality(K)
<1>1. /\ exceptions \in Seq(HandlerType) /\ Len(exceptions) \in Nat
      /\ Len(frames) \in Nat
      /\ \A i \in 1 .. Len(exceptions) : exceptions[i].frame_depth \in Nat
  <2>1. exceptions \in Seq(HandlerType) /\ Len(frames) \in Nat
    BY DEF TypeOK
  <2>2. \A i \in 1 .. Len(exceptions) : exceptions[i] \in HandlerType
    BY <2>1
  <2> QED BY <2>1, <2>2 DEF HandlerType
<1>2. \A i, j \in 1 .. Len(exceptions) :
          i < j => exceptions[i].frame_depth <= exceptions[j].frame_depth
  BY DEF HandlersLive
<1>3. ASSUME NEW m \in 0 .. Len(exceptions), K \subseteq 1 .. m
      PROVE  IsFiniteSet(K) /\ n \in Nat /\ n <= m
  <2>1. m \in Nat /\ 1 \in Int /\ m \in Int
    BY <1>1
  <2>2. IsFiniteSet(1 .. m) /\ Cardinality(1 .. m) = IF 1 > m THEN 0 ELSE m - 1 + 1
    BY <2>1, FS_Interval
  <2>3. Cardinality(1 .. m) = m
    BY <2>1, <2>2
  <2>4. K \in SUBSET (1 .. m)
    BY <1>3
  <2>5. IsFiniteSet(K) /\ n <= Cardinality(1 .. m)
    BY <2>2, <2>4, FS_Subset
  <2> QED BY <2>3, <2>5, FS_CardinalityType
<1>4. n \in 0 .. Len(exceptions)
  <2>1. K \subseteq 1 .. Len(exceptions) /\ Len(exceptions) \in 0 .. Len(exceptions)
    BY <1>1
  <2> HIDE DEF K
  <2>2. n \in Nat /\ n <= Len(exceptions)
    BY <1>3, <2>1
  <2> HIDE DEF n
  <2> QED BY <1>1, <2>2
<1>5. ASSUME NEW i \in 1 .. n
      PROVE  exceptions[i].frame_depth < Len(frames)
  <2>1. i \in 1 .. Len(exceptions) /\ i - 1 \in 0 .. Len(exceptions) /\ i - 1 < i
    BY <1>1, <1>4
  <2>2. SUFFICES ASSUME i \notin K PROVE FALSE
    BY <2>1 DEF Kept
  <2>3. \A j \in 1 .. Len(exceptions) : i <= j => ~Kept(j)
    BY <1>1, <1>2, <2>1, <2>2 DEF Kept
  <2>4. K \subseteq 1 .. (i - 1)
    BY <1>1, <2>1, <2>3
  <2>5. n <= i - 1
    <3> HIDE DEF K
    <3> QED BY <1>3, <2>1, <2>4
  <2> QED BY <1>4, <2>1, <2>5
<1>6. ASSUME NEW i \in 1 .. Len(exceptions), exceptions[i].frame_depth < Len(frames)
      PROVE  i <= n
  <2>1. 1 .. i \subseteq K
    BY <1>1, <1>2, <1>6 DEF Kept
  <2>2. IsFiniteSet(K)
    <3>1. K \subseteq 1 .. Len(exceptions) /\ Len(exceptions) \in 0 .. Len(exceptions)
      BY <1>1
    <3> HIDE DEF K
    <3> QED BY <1>3, <3>1
  <2>3. 1 \in Int /\ i \in Int /\ i >= 1
    BY <1>1
  <2>4. Cardinality(1 .. i) = i
    BY <2>3, FS_Interval
  <2> HIDE DEF K
  <2>5. Cardinality(1 .. i) <= Cardinality(K)
    BY <2>1, <2>2, FS_Subset
  <2> QED BY <2>4, <2>5 DEF n
<1>7. Retained = SubSeq(exceptions, 1, n)
  BY DEF Retained
<1> QED BY <1>4, <1>5, <1>6, <1>7

LEMMA ReturnOK == Invariant /\ Return => Invariant'
<1> SUFFICES ASSUME Invariant, Return PROVE Invariant'
  OBVIOUS
<1> DEFINE value == IF stack = <<>> THEN Null ELSE At(stack)
           rest  == IF stack = <<>> THEN stack ELSE Below(stack, 1)
           left  == Truncate(rest, Top.stack_base)
           L     == Len(frames)
<1>1. /\ TypeOK /\ HandlersLive /\ DepthsBounded
      /\ Plain("Return") /\ module' = module /\ exceptions' = Retained
      /\ stack \in Seq(Value) /\ frames \in Seq(FrameType)
      /\ L \in 1 .. MaxCallDepth /\ MaxCallDepth \in Nat
      /\ L \in Nat \ {0} /\ Top \in FrameType
      /\ \A j \in 1 .. L : frames[j].function <= Len(module.functions)
  BY TopFacts, VmAssumption DEF Invariant, Return, Plain, Fetch, TypeOK
<1>2. PICK n \in 0 .. Len(exceptions) :
          /\ Retained = SubSeq(exceptions, 1, n)
          /\ \A i \in 1 .. n : exceptions[i].frame_depth < L
  BY <1>1, RetainedFacts
<1>3. rest \in Seq(Value) /\ Len(rest) <= Len(stack) /\ Len(rest) \in Nat
      /\ value \in Value
  <2>1. CASE stack = <<>>
    BY <1>1, <2>1, SomeValues
  <2>2. CASE stack # <<>>
    <3>1. Len(stack) > 0 /\ 1 \in 0 .. Len(stack)
      BY <1>1, <2>2
    <3>2. At(stack) \in Value /\ Below(stack, 1) \in Seq(Value)
          /\ Len(Below(stack, 1)) = Len(stack) - 1
      BY <1>1, <3>1, AtFacts, BelowFacts
    <3> QED BY <1>1, <2>2, <3>1, <3>2
  <2> QED BY <2>1, <2>2
<1> HIDE DEF rest, value
<1>4. left \in Seq(Value) /\ Len(left) <= Len(rest)
  <2>1. Top.stack_base \in Nat
    BY <1>1 DEF FrameType
  <2> QED BY <1>3, <2>1, TruncateFacts
<1> HIDE DEF left
<1>5. \A i \in 1 .. n : /\ exceptions[i].frame_depth \in Nat
                        /\ exceptions[i].frame_depth <= L
                        /\ exceptions[i].frame_depth <= L - 1
  <2>1. \A i \in 1 .. n : exceptions[i] \in HandlerType
    BY <1>1, <1>2 DEF TypeOK
  <2> QED BY <1>1, <1>2, <2>1 DEF HandlerType
<1>6. CASE L = 1
  <2>1. status' = "Completed" /\ stack' = left /\ UNCHANGED <<frames, error>>
    BY <1>6 DEF Return, left, rest
  <2>2. HandlersLive' /\ DepthsBounded' /\ exceptions' \in Seq(HandlerType)
    BY <1>1, <1>2, <1>5, <2>1, HandlersKept
  <2>3. OverfullAtHandler' /\ Len(stack') <= MaxStack + 1
    BY <1>1, <1>3, <1>4, <2>1, VmAssumption DEF OverfullAtHandler, Ended, TypeOK
  <2>4. MachineOK'
    BY <1>1, <1>4, <2>1, <2>2, <2>3 DEF MachineOK, TypeOK, Ended
  <2> QED BY <1>1, <2>4, PlainOK
<1>7. CASE L # 1
  <2> DEFINE fs == Below(frames, 1)
             s  == Append(left, value)
  <2>1. Continue(s, fs)
    BY <1>7 DEF Return, left, rest, value
  <2>2. s \in Seq(Value)
    BY <1>3, <1>4
  <2>3. /\ fs \in Seq(FrameType) /\ Len(fs) = L - 1
        /\ \A j \in 1 .. (L - 1) : fs[j] = frames[j]
    <3>1. 1 \in 0 .. Len(frames)
      BY <1>1
    <3> QED BY <1>1, <3>1, BelowFacts
  <2> HIDE DEF fs, s
  <2>4. /\ Len(fs) \in 1 .. MaxCallDepth
        /\ \A j \in 1 .. Len(fs) : fs[j].function <= Len(module.functions)
        /\ \A j \in 1 .. Len(frames) : j <= Len(fs) => fs[j].function = frames[j].function
    BY <1>1, <1>7, <2>3
  <2>5. \A i \in 1 .. n : exceptions[i].frame_depth <= Len(fs)
    BY <1>5, <2>3
  <2>6. MachineOK'
    BY <1>1, <1>2, <2>1, <2>2, <2>3, <2>4, <2>5, GoOnOK
  <2> QED BY <1>1, <2>6, PlainOK
<1> QED BY <1>6, <1>7
-----------------------------------------------------------------------------
(* Requests and answers.                                                   *)

\* Control is handed to the scheduler or taken over by it.
LEMMA HandOverOK ==
    ASSUME Invariant, module' = module, UNCHANGED <<exceptions, error>>,
           status' \in {"Ready", "Suspended"},
           stack' \in Seq(Value), Len(stack') <= MaxStack, SameCalls(frames')
    PROVE  MachineOK'
<1>1. TypeOK /\ HandlersLive /\ DepthsBounded
  BY DEF Invariant
<1>2. /\ Len(exceptions) \in 0 .. Len(exceptions)
      /\ exceptions' = SubSeq(exceptions, 1, Len(exceptions))
  BY <1>1 DEF TypeOK
<1>3. /\ frames' \in Seq(FrameType) /\ Len(frames') \in 1 .. MaxCallDepth
      /\ Len(frames') \in Nat
      /\ \A j \in 1 .. Len(frames') : frames'[j].function <= Len(module.functions)
      /\ \A i \in 1 .. Len(exceptions) : exceptions[i].frame_depth <= Len(frames')
      /\ \A j \in 1 .. Len(frames) : frames'[j].function = frames[j].function
  BY SameCallsFacts
<1>4. HandlersLive' /\ DepthsBounded' /\ exceptions' \in Seq(HandlerType)
  <2> HIDE DEF Invariant
  <2> QED BY <1>1, <1>2, <1>3, HandlersKept
<1>5. OverfullAtHandler' /\ Len(stack') <= MaxStack + 1
  BY VmAssumption DEF OverfullAtHandler
<1> QED BY <1>1, <1>3, <1>4, <1>5 DEF MachineOK, TypeOK

\* What the three requests have in common.
LEMMA RequestOK ==
    ASSUME Invariant, NEW op, Fetch(op), MachineOK', status' \notin Ended,
           request' \in {"command", "host", "await"}, answer' \in Nat,
           executed' \in Seq(Nat)
    PROVE  Invariant'
<1>1. TypeOK
  BY DEF Invariant
<1>2. budget' \in 0 .. MaxInstructions /\ module' = module
  BY <1>1, FetchFacts
<1> QED BY <1>2, Composed DEF EndedIsIdle

LEMMA CallHostOK == Invariant /\ CallHost => Invariant'
<1> SUFFICES ASSUME Invariant, CallHost PROVE Invariant'
  OBVIOUS
<1>1. /\ TypeOK /\ Fetch("Call") /\ module' = module /\ status = "Ready"
      /\ stack \in Seq(Value) /\ executed \in Seq(Nat)
  BY DEF Invariant, CallHost, Fetch, Running, TypeOK
<1>2. /\ Callee \in Value /\ stack' \in Seq(Value)
      /\ Len(stack') <= Len(stack) /\ Len(stack') \in Nat
  BY <1>1, CalleeFacts DEF CallHost
<1>3. Len(stack) <= MaxStack
  BY <1>1, NotOverfull
<1>4. Len(stack') <= MaxStack
  BY <1>1, <1>2, <1>3, VmAssumption
<1>5. SameCalls(frames')
  BY <1>1, AdvanceFacts DEF CallHost
<1>6. MachineOK'
  BY <1>1, <1>2, <1>4, <1>5, HandOverOK DEF CallHost
<1>7. answer' \in Nat
  BY <1>2, SomeValues DEF CallHost
<1>8. request' = "host" /\ status' = "Ready" /\ executed' = executed
  BY <1>1 DEF CallHost
<1> QED BY <1>1, <1>6, <1>7, <1>8, RequestOK DEF Ended

LEMMA ExecuteCommandOK == Invariant /\ ExecuteCommand => Invariant'
<1> SUFFICES ASSUME Invariant, ExecuteCommand PROVE Invariant'
  OBVIOUS
<1>1. /\ TypeOK /\ Fetch("ExecuteCommand") /\ module' = module /\ status = "Ready"
      /\ stack \in Seq(Value) /\ executed \in Seq(Nat)
  BY DEF Invariant, ExecuteCommand, Fetch, Running, TypeOK
<1>2. Len(stack) <= MaxStack
  BY <1>1, NotOverfull
<1>3. SameCalls(frames')
  BY <1>1, AdvanceFacts DEF ExecuteCommand
<1>4. MachineOK'
  BY <1>1, <1>2, <1>3, HandOverOK DEF ExecuteCommand
<1>5. Current.arg \in Nat
  BY <1>1, FetchFacts
<1>6. answer' \in Nat /\ executed' \in Seq(Nat)
  BY <1>1, <1>5 DEF ExecuteCommand
<1>7. request' = "command" /\ status' = "Ready"
  BY <1>1 DEF ExecuteCommand
<1> QED BY <1>1, <1>4, <1>6, <1>7, RequestOK DEF Ended

LEMMA AwaitOK == Invariant /\ (AwaitFuture \/ AwaitOther) => Invariant'
<1>1. ASSUME Invariant, AwaitFuture PROVE Invariant'
  <2>1. /\ TypeOK /\ Fetch("Await") /\ module' = module
        /\ stack \in Seq(Value) /\ executed \in Seq(Nat)
    BY <1>1 DEF Invariant, AwaitFuture, Fetch, TypeOK
  <2>2. /\ At(stack) \in Value /\ Below(stack, 1) \in Seq(Value)
        /\ Len(Below(stack, 1)) = Len(stack) - 1 /\ Len(stack) \in Nat
    BY <1>1, <2>1, AtFacts, BelowFacts DEF AwaitFuture, Has
  <2>3. Len(stack) <= MaxStack
    BY <1>1, <2>1, NotOverfull
  <2>4. stack' \in Seq(Value) /\ Len(stack') <= MaxStack
    BY <1>1, <2>2, <2>3, VmAssumption DEF AwaitFuture
  <2>5. SameCalls(frames')
    BY <1>1, <2>1, AdvanceFacts DEF AwaitFuture
  <2>6. MachineOK'
    BY <1>1, <2>1, <2>4, <2>5, HandOverOK DEF AwaitFuture
  <2>7. answer' \in Nat
    BY <1>1, <2>2, SomeValues DEF AwaitFuture
  <2>8. request' = "await" /\ status' = "Suspended" /\ executed' = executed
    BY <1>1 DEF AwaitFuture
  <2> QED BY <1>1, <2>1, <2>6, <2>7, <2>8, RequestOK DEF Ended
<1>2. ASSUME Invariant, AwaitOther PROVE Invariant'
  <2>1. /\ TypeOK /\ Plain("Await") /\ module' = module /\ stack \in Seq(Value)
        /\ request' = "none"
    BY <1>2 DEF Invariant, AwaitOther, Plain, Fetch, TypeOK, Running
  <2>2. CASE Has(1)
    <3>1. Below(stack, 1) \in Seq(Value)
      BY <2>1, <2>2, BelowFacts DEF Has
    <3>2. Raise("TypeError", Below(stack, 1)) /\ "TypeError" \in Catchable
      BY <1>2, <2>2 DEF AwaitOther, Catchable
    <3> QED BY <1>2, <2>1, <3>1, <3>2, RaiseOK, PlainOK
  <2>3. CASE ~Has(1)
    <3>1. MachineOK'
      BY <1>2, <2>1, <2>3, FailOK DEF AwaitOther, Fail
    <3> QED BY <1>2, <2>1, <3>1, PlainOK
  <2> QED BY <2>2, <2>3
<1> QED BY <1>1, <1>2

\* A machine that waits for an answer has not ended and has room.
LEMMA WaitingHasRoom ==
    ASSUME Invariant, request # "none"
    PROVE  status \notin Ended /\ Len(stack) <= MaxStack
BY VmAssumption DEF Invariant, EndedIsIdle, OverfullAtHandler, TypeOK

LEMMA SuspendOK == Invariant /\ SuspendForOperation => Invariant'
<1> SUFFICES ASSUME Invariant, SuspendForOperation PROVE Invariant'
  OBVIOUS
<1>1. /\ TypeOK /\ module' = module /\ request # "none" /\ status' = "Suspended"
      /\ request' = "await"
      /\ UNCHANGED <<stack, frames, exceptions, budget, answer, error, executed>>
  BY DEF Invariant, SuspendForOperation
<1>2. SameCalls(frames') /\ Len(stack') <= MaxStack
  BY <1>1, WaitingHasRoom DEF SameCalls, TypeOK
<1>3. MachineOK'
  BY <1>1, <1>2, HandOverOK DEF TypeOK
<1> QED BY <1>1, <1>3, Composed DEF TypeOK, EndedIsIdle, Ended

LEMMA AnsweredOK ==
    ASSUME Invariant, request # "none", NEW v \in Value, NEW bad, Answered(v, bad)
    PROVE  Invariant'
<1>1. /\ TypeOK /\ module' = module /\ request' = "none" /\ answer' = 0
      /\ UNCHANGED <<budget, executed>> /\ stack \in Seq(Value)
  BY DEF Invariant, Answered, TypeOK
<1>2. CASE answer = bad
  <2>1. Raise("HostError", stack) /\ "HostError" \in Catchable
    BY <1>2 DEF Answered, Catchable
  <2>2. MachineOK'
    BY <1>1, <2>1, RaiseOK
  <2> QED BY <1>1, <2>2, Composed DEF TypeOK, EndedIsIdle
<1>3. CASE answer # bad
  <2>1. Continue(Append(stack, v), frames) /\ UNCHANGED exceptions
    BY <1>3 DEF Answered
  <2>2. SameCalls(frames) /\ Append(stack, v) \in Seq(Value)
    BY <1>1 DEF SameCalls, TypeOK
  <2>3. MachineOK'
    BY <1>1, <2>1, <2>2, ContinueOK
  <2> QED BY <1>1, <2>3, Composed DEF TypeOK, EndedIsIdle
<1> QED BY <1>2, <1>3

LEMMA AnswersOK == Invariant /\ Answers => Invariant'
<1>1. ASSUME Invariant, CompleteCommand \/ ResumeAwait PROVE Invariant'
  <2>1. request # "none" /\ Answered(Null, 1)
    BY <1>1 DEF CompleteCommand, ResumeAwait
  <2> QED BY <1>1, <2>1, SomeValues, AnsweredOK
<1>2. ASSUME Invariant, ResumeHostCall PROVE Invariant'
  <2>1. request # "none" /\ Answered([kind |-> "future", arg |-> answer], 2)
    BY <1>2 DEF ResumeHostCall
  <2>2. [kind |-> "future", arg |-> answer] \in Value
    BY <1>2, SomeValues DEF Invariant, TypeOK
  <2> QED BY <1>2, <2>1, <2>2, AnsweredOK
<1> QED BY <1>1, <1>2, SuspendOK DEF Answers
-----------------------------------------------------------------------------
(* The theorems about any code.                                            *)

LEMMA InvariantInit == Init => Invariant
<1> SUFFICES ASSUME Init PROVE Invariant
  OBVIOUS
<1> DEFINE frame == NewFrame(1, 0)
<1>1. /\ module \in Modules /\ module.functions \in Seq(Seq(Instruction))
      /\ Len(module.functions) \in Nat \ {0}
  BY VmAssumption DEF Init
<1>2. frame \in FrameType /\ frame.function = 1
  BY DEF NewFrame, FrameType
<1>3. /\ frames = <<frame>> /\ stack = <<>> /\ exceptions = <<>>
      /\ budget = MaxInstructions /\ status = "Ready" /\ request = "none"
      /\ answer = 0 /\ error = "none" /\ executed = <<>>
  BY DEF Init
<1> HIDE DEF frame
<1>4. TypeOK
  <2>1. /\ frames \in Seq(FrameType) /\ Len(frames) \in 1 .. MaxCallDepth
        /\ \A i \in 1 .. Len(frames) : frames[i].function <= Len(module.functions)
    BY <1>1, <1>2, <1>3, VmAssumption
  <2>2. /\ stack \in Seq(Value) /\ Len(stack) <= MaxStack + 1
        /\ exceptions \in Seq(HandlerType) /\ executed \in Seq(Nat)
        /\ budget \in 0 .. MaxInstructions
    BY <1>3, VmAssumption
  <2> QED BY <1>1, <1>3, <2>1, <2>2 DEF TypeOK
<1>5. HandlersLive /\ DepthsBounded /\ OverfullAtHandler /\ EndedIsIdle
  BY <1>3, VmAssumption
     DEF HandlersLive, DepthsBounded, OverfullAtHandler, EndedIsIdle, Ended
<1> QED BY <1>1, <1>4, <1>5 DEF Invariant

LEMMA InvariantStep == Invariant /\ [Next]_vars => Invariant'
<1>1. Invariant /\ Step => Invariant'
  BY EndOfRunOK, LoadOK, LoadGlobalOK, DropOK, BinaryOK, BuildListOK, BuildDictionaryOK, JumpOK, CallTooDeepOK,
     CallClosureOK, CallHostOK, CallNothingOK, ReturnOK, IterStartOK, IterNextOK,
     IterEndOK, TryBeginOK, TryEndOK, ThrowOK, ExecuteCommandOK, AwaitOK
     DEF Step
<1>2. Invariant /\ UNCHANGED vars => Invariant'
  BY DEF vars, Invariant, TypeOK, HandlersLive, DepthsBounded, OverfullAtHandler,
         EndedIsIdle, Top, CodeOf, Current
<1> QED BY <1>1, <1>2, AnswersOK DEF Next

\* The machine keeps its invariant, whatever scripts it is given.
THEOREM MachineSound == Spec => []Invariant
BY InvariantInit, InvariantStep, PTL DEF Spec

\* Every variable keeps its type and the limits hold: the call depth exactly,
\* the operand stack but for one error value (vm.rs, push and
\* dispatch_catchable_error).
THEOREM LimitsHold == Spec => []TypeOK
<1>1. Invariant => TypeOK
  BY DEF Invariant
<1> QED BY <1>1, MachineSound, PTL

\* A handler never outlives its frame, and resumes the frame at a handler of
\* that frame's own function (vm.rs, Throw, Return and
\* dispatch_catchable_error).
THEOREM HandlersStayLive == Spec => []HandlersLive
<1>1. Invariant => HandlersLive
  BY DEF Invariant
<1> QED BY <1>1, MachineSound, PTL
-----------------------------------------------------------------------------
(* The machine as its code is typed.                                       *)

\* The operands a handler restores are there, also while a result is due.
RoomFits(fs, due) ==
    \A i \in 1 .. Len(fs) :
        Point(fs[i]).handler # 0 =>
            TypesOf(fs[i])[Point(fs[i]).handler].height - 1
                <= Point(fs[i]).height - Due(fs, i, due)

BasesRise(fs) ==
    \A i, j \in 1 .. Len(fs) : i <= j => fs[i].stack_base <= fs[j].stack_base

Sound(fs, exs, n, due) ==
    /\ FramesFit(fs, n, due)
    /\ HandlersFit(fs, exs)
    /\ RoomFits(fs, due)
    /\ BasesRise(fs)

\* What Invariant says of frames and handlers.
Shape(fs, exs) ==
    /\ fs \in Seq(FrameType) /\ Len(fs) \in Nat \ {0}
    /\ \A i \in 1 .. Len(fs) : fs[i].function \in 1 .. Len(module.functions)
    /\ exs \in Seq(HandlerType)
    /\ \A x \in 1 .. Len(exs) : exs[x].frame_depth \in 1 .. Len(fs)
    /\ \A x, y \in 1 .. Len(exs) : x < y => exs[x].frame_depth <= exs[y].frame_depth

ClosuresNamed(s) ==
    \A k \in 1 .. Len(s) :
        s[k].kind = "closure" => s[k].arg <= Len(module.functions)

AsTyped ==
    /\ error # "Internal"
    /\ status \notin Ended =>
          /\ Sound(frames, exceptions, Len(stack), WaitsForHost)
          /\ ClosuresNamed(stack)

LEMMA ShapeFacts ==
    ASSUME Invariant PROVE Shape(frames, exceptions)
<1>1. /\ frames \in Seq(FrameType) /\ Len(frames) \in Nat \ {0}
      /\ exceptions \in Seq(HandlerType) /\ HandlersLive /\ MaxCallDepth \in Nat
      /\ module.functions \in Seq(Seq(Instruction))
      /\ \A i \in 1 .. Len(frames) : frames[i].function <= Len(module.functions)
  BY VmAssumption DEF Invariant, TypeOK
<1>2. \A i \in 1 .. Len(frames) : frames[i].function \in 1 .. Len(module.functions)
  <2> TAKE i \in 1 .. Len(frames)
  <2>1. frames[i] \in FrameType
    BY <1>1
  <2>2. frames[i].function \in Nat \ {0}
    BY <2>1 DEF FrameType
  <2>3. frames[i].function <= Len(module.functions) /\ Len(module.functions) \in Nat
    BY <1>1
  <2> HIDE DEF Invariant
  <2> QED BY <2>2, <2>3
<1>3. \A x \in 1 .. Len(exceptions) : exceptions[x].frame_depth \in 1 .. Len(frames)
  BY <1>1 DEF HandlersLive
<1>4. \A x, y \in 1 .. Len(exceptions) :
          x < y => exceptions[x].frame_depth <= exceptions[y].frame_depth
  BY <1>1 DEF HandlersLive
<1> QED BY <1>1, <1>2, <1>3, <1>4 DEF Shape

LEMMA PopsType ==
    ASSUME NEW i \in Instruction
    PROVE  Pops(i) \in Nat /\ Pushes(i) \in {0, 1}
BY DEF Instruction, Pops, Pushes, Jumps

\* What the verifier has found at instruction k of function f.
LEMMA VerifiedFacts ==
    ASSUME Invariant, Verified, NEW f \in 1 .. Len(module.functions)
    PROVE  /\ CodeOf(f) \in Seq(Instruction)
           /\ Len(CodeOf(f)) \in Nat \ {0}
           /\ Typing(CodeOf(f))[1] = Entry
           /\ \A k \in 1 .. Len(CodeOf(f)) :
                 /\ Typing(CodeOf(f))[k] \in PointType
                 /\ Typed(CodeOf(f), Typing(CodeOf(f)), k)
<1>1. module.functions \in Seq(Seq(Instruction))
  BY DEF Invariant, TypeOK
<1>2. CodeOf(f) \in Seq(Instruction)
  BY <1>1 DEF CodeOf
<1>3. WellTyped(CodeOf(f), Typing(CodeOf(f)))
  BY DEF Verified
<1> QED BY <1>2, <1>3 DEF WellTyped

\* The same for the instruction a frame stands at, with the fields spelled out.
LEMMA PointFacts ==
    ASSUME Invariant, Verified, NEW fs, NEW exs, Shape(fs, exs),
           NEW i \in 1 .. Len(fs), fs[i].ip <= Len(CodeOf(fs[i].function))
    PROVE  /\ fs[i] \in FrameType
           /\ fs[i].ip \in 1 .. Len(CodeOf(fs[i].function))
           /\ fs[i].stack_base \in Nat
           /\ Point(fs[i]) = TypesOf(fs[i])[fs[i].ip]
           /\ Point(fs[i]) \in PointType
           /\ Point(fs[i]).height \in Nat
           /\ Point(fs[i]).iterators \in Nat
           /\ Point(fs[i]).handler \in Nat
           /\ CodeOf(fs[i].function)[fs[i].ip] \in Instruction
           /\ Typed(CodeOf(fs[i].function), TypesOf(fs[i]), fs[i].ip)
<1>1. /\ fs[i] \in FrameType /\ fs[i].function \in 1 .. Len(module.functions)
  BY DEF Shape
<1>2. fs[i].ip \in Nat \ {0} /\ fs[i].stack_base \in Nat
  BY <1>1 DEF FrameType
<1>3. /\ CodeOf(fs[i].function) \in Seq(Instruction)
      /\ \A k \in 1 .. Len(CodeOf(fs[i].function)) :
                 /\ Typing(CodeOf(fs[i].function))[k] \in PointType
                 /\ Typed(CodeOf(fs[i].function), Typing(CodeOf(fs[i].function)), k)
  BY <1>1, VerifiedFacts
<1>4. fs[i].ip \in 1 .. Len(CodeOf(fs[i].function))
  BY <1>2, <1>3
<1>5. /\ Point(fs[i]) \in PointType
      /\ Typed(CodeOf(fs[i].function), TypesOf(fs[i]), fs[i].ip)
  BY <1>3, <1>4 DEF Point, TypesOf
<1> QED BY <1>1, <1>2, <1>3, <1>4, <1>5 DEF PointType, Point

\* The type of an installed handler.
LEMMA HandlerPoint ==
    ASSUME Invariant, Verified, NEW fs, NEW exs, Shape(fs, exs),
           NEW i \in 1 .. Len(fs), fs[i].ip <= Len(CodeOf(fs[i].function)),
           Point(fs[i]).handler # 0
    PROVE  LET h == Point(fs[i]).handler
               p == TypesOf(fs[i])[h]
           IN  /\ h \in 1 .. Len(CodeOf(fs[i].function))
               /\ p \in PointType
               /\ p.height \in Nat /\ p.iterators \in Nat /\ p.handler \in Nat
               /\ p.height <= Point(fs[i]).height + 1
               /\ p.iterators <= Point(fs[i]).iterators
<1> DEFINE h == Point(fs[i]).handler
           p == TypesOf(fs[i])[h]
           c == CodeOf(fs[i].function)
           j == c[fs[i].ip]
<1>1. /\ h \in Nat /\ Point(fs[i]).height \in Nat /\ j \in Instruction
      /\ Point(fs[i]) = TypesOf(fs[i])[fs[i].ip]
      /\ Typed(c, TypesOf(fs[i]), fs[i].ip)
  BY PointFacts
<1>2. /\ h <= Len(c)
      /\ p.height <= Point(fs[i]).height - Pops(j) + 1
      /\ p.iterators <= Point(fs[i]).iterators
  BY <1>1 DEF Typed
<1>3. fs[i].function \in 1 .. Len(module.functions)
  BY DEF Shape
<1>4. h \in 1 .. Len(c)
  BY <1>1, <1>2, <1>3, VerifiedFacts
<1>5. p \in PointType
  BY <1>3, <1>4, VerifiedFacts DEF TypesOf
<1>6. p.height \in Nat /\ p.iterators \in Nat /\ p.handler \in Nat
  BY <1>5 DEF PointType
<1>7. Pops(j) \in Nat
  BY <1>1, PopsType
<1>8. p.height <= Point(fs[i]).height + 1
  <2> DEFINE a == p.height
             b == Point(fs[i]).height
             c1 == Pops(j)
  <2>1. a \in Nat /\ b \in Nat /\ c1 \in Nat /\ a <= b - c1 + 1
    BY <1>1, <1>2, <1>6, <1>7
  <2> HIDE DEF a, b, c1
  <2>2. a <= b + 1
    BY <2>1
  <2> QED BY <2>2 DEF a, b
<1> QED BY <1>2, <1>4, <1>5, <1>6, <1>8

-----------------------------------------------------------------------------
(* What a step does to a machine that is as its code is typed.             *)

\* The top frame moves to another instruction of its function.
LEMMA MoveFits ==
    ASSUME Invariant, Verified, NEW fs, NEW gs, NEW exs, NEW n, NEW due,
           Shape(fs, exs), Sound(fs, exs, n, due),
           Len(gs) = Len(fs),
           \A i \in 1 .. Len(fs) : i < Len(fs) => gs[i] = fs[i],
           gs[Len(fs)].function = fs[Len(fs)].function,
           gs[Len(fs)].stack_base = fs[Len(fs)].stack_base,
           gs[Len(fs)].ip <= Len(CodeOf(gs[Len(fs)].function)),
           Len(gs[Len(fs)].iterators) >= Point(gs[Len(fs)]).iterators,
           NEW m \in Nat, NEW later \in {0, 1},
           Point(gs[Len(fs)]).height >= later,
           m = fs[Len(fs)].stack_base + Point(gs[Len(fs)]).height - later,
           Point(gs[Len(fs)]).handler # 0 =>
              TypesOf(gs[Len(fs)])[Point(gs[Len(fs)]).handler].height - 1
                  <= Point(gs[Len(fs)]).height - later
    PROVE  /\ FramesFit(gs, m, later) /\ RoomFits(gs, later) /\ BasesRise(gs)
           /\ \A i \in 1 .. Len(fs) :
                 /\ TypesOf(gs[i]) = TypesOf(fs[i])
                 /\ gs[i].stack_base = fs[i].stack_base
<1> DEFINE L == Len(fs)
<1>1. /\ L \in Nat \ {0} /\ L \in 1 .. L /\ Len(gs) = L
      /\ \A i \in 1 .. L : gs[i].function = fs[i].function /\ gs[i].stack_base = fs[i].stack_base
      /\ \A i \in 1 .. L : TypesOf(gs[i]) = TypesOf(fs[i])
      /\ \A i \in 1 .. L : i # L => gs[i] = fs[i] /\ i < L /\ i + 1 \in 1 .. L
  <2>1. L \in Nat \ {0} /\ L \in 1 .. L /\ Len(gs) = L
    BY DEF Shape
  <2>2. \A i \in 1 .. L : i # L => gs[i] = fs[i] /\ i < L /\ i + 1 \in 1 .. L
    BY <2>1
  <2>3. \A i \in 1 .. L : gs[i].function = fs[i].function /\ gs[i].stack_base = fs[i].stack_base
    BY <2>2
  <2>4. \A i \in 1 .. L : TypesOf(gs[i]) = TypesOf(fs[i])
    BY <2>3 DEF TypesOf
  <2> QED BY <2>1, <2>2, <2>3, <2>4
<1>2. FramesFit(gs, m, later)
  <2>1. gs[1].stack_base = 0
    BY <1>1 DEF Sound, FramesFit
  <2>2. ASSUME NEW i \in 1 .. L
        PROVE  /\ gs[i].ip <= Len(CodeOf(gs[i].function))
               /\ Len(gs[i].iterators) >= Point(gs[i]).iterators
               /\ Point(gs[i]).height >= Due(gs, i, later)
               /\ End(gs, i, m) = gs[i].stack_base + Point(gs[i]).height - Due(gs, i, later)
    <3>1. CASE i = L
      BY <1>1, <3>1 DEF Due, End
    <3>2. CASE i # L
      <4>1. /\ fs[i].ip <= Len(CodeOf(fs[i].function))
            /\ Len(fs[i].iterators) >= Point(fs[i]).iterators
            /\ Point(fs[i]).height >= 1
            /\ fs[i + 1].stack_base = fs[i].stack_base + Point(fs[i]).height - 1
        BY <1>1, <3>2 DEF Sound, FramesFit, Due, End
      <4> QED BY <1>1, <3>2, <4>1 DEF Due, End
    <3> QED BY <3>1, <3>2
  <2> QED BY <1>1, <2>1, <2>2 DEF FramesFit
<1>3. RoomFits(gs, later)
  <2> SUFFICES ASSUME NEW i \in 1 .. L, Point(gs[i]).handler # 0
               PROVE  TypesOf(gs[i])[Point(gs[i]).handler].height - 1
                        <= Point(gs[i]).height - Due(gs, i, later)
    BY <1>1 DEF RoomFits
  <2>1. CASE i = L
    BY <1>1, <2>1 DEF Due
  <2>2. CASE i # L
    <3>1. TypesOf(fs[i])[Point(fs[i]).handler].height - 1 <= Point(fs[i]).height - 1
      BY <1>1, <2>2 DEF Sound, RoomFits, Due
    <3> QED BY <1>1, <2>2, <3>1 DEF Due
  <2> QED BY <2>1, <2>2
<1>4. BasesRise(gs)
  BY <1>1 DEF Sound, BasesRise
<1> QED BY <1>1, <1>2, <1>3, <1>4

\* It stays under the same handler.
LEMMA MoveSound ==
    ASSUME Invariant, Verified, NEW fs, NEW gs, NEW exs, NEW n, NEW due,
           Shape(fs, exs), Sound(fs, exs, n, due),
           Len(gs) = Len(fs),
           \A i \in 1 .. Len(fs) : i < Len(fs) => gs[i] = fs[i],
           gs[Len(fs)].function = fs[Len(fs)].function,
           gs[Len(fs)].stack_base = fs[Len(fs)].stack_base,
           gs[Len(fs)].ip <= Len(CodeOf(gs[Len(fs)].function)),
           Len(gs[Len(fs)].iterators) >= Point(gs[Len(fs)]).iterators,
           Point(gs[Len(fs)]).handler = Point(fs[Len(fs)]).handler,
           NEW m \in Nat, NEW later \in {0, 1},
           Point(gs[Len(fs)]).height >= later,
           m = fs[Len(fs)].stack_base + Point(gs[Len(fs)]).height - later,
           Point(gs[Len(fs)]).handler # 0 =>
              TypesOf(gs[Len(fs)])[Point(gs[Len(fs)]).handler].height - 1
                  <= Point(gs[Len(fs)]).height - later
    PROVE  Sound(gs, exs, m, later)
<1> DEFINE L == Len(fs)
<1>1. /\ FramesFit(gs, m, later) /\ RoomFits(gs, later) /\ BasesRise(gs)
      /\ \A i \in 1 .. L : TypesOf(gs[i]) = TypesOf(fs[i]) /\ gs[i].stack_base = fs[i].stack_base
  BY MoveFits
<1>2. \A i \in 1 .. L : Point(gs[i]).handler = Point(fs[i]).handler
  <2>1. \A i \in 1 .. L : i = L \/ i < L
    BY DEF Shape
  <2> QED BY <2>1
<1>3. HandlersFit(gs, exs)
  <2>1. \A x \in 1 .. Len(exs) : exs[x].frame_depth \in 1 .. L
    BY DEF Shape
  <2>2. HandlersFit(fs, exs)
    BY DEF Sound
  <2> QED BY <1>1, <1>2, <2>1, <2>2 DEF HandlersFit
<1> QED BY <1>1, <1>3 DEF Sound

\* The last handler goes, and its frame d, now the top one, is under the
\* handler around it.
LEMMA LastHandlerGone ==
    ASSUME NEW fs, NEW exs, Shape(fs, exs), HandlersFit(fs, exs), Len(exs) > 0,
           NEW d, d = exs[Len(exs)].frame_depth,
           NEW gs, Len(gs) = d,
           \A i \in 1 .. d :
              /\ TypesOf(gs[i]) = TypesOf(fs[i])
              /\ gs[i].stack_base = fs[i].stack_base
              /\ i # d => gs[i] = fs[i],
           Point(gs[d]).handler = Outer(exs, Len(exs))
    PROVE  HandlersFit(gs, Below(exs, 1))
<1> DEFINE N == Len(exs)
           bs == Below(exs, 1)
<1>1. /\ exs \in Seq(HandlerType) /\ N \in Nat \ {0} /\ N \in 1 .. N
      /\ d \in 1 .. Len(fs) /\ d \in Nat /\ Len(fs) \in Nat
      /\ \A x \in 1 .. N : exs[x].frame_depth \in 1 .. Len(fs)
      /\ \A x, y \in 1 .. N : x < y => exs[x].frame_depth <= exs[y].frame_depth
  BY DEF Shape
<1>2. /\ Len(bs) = N - 1 /\ \A x \in 1 .. (N - 1) : bs[x] = exs[x]
  <2>1. 1 \in 0 .. Len(exs)
    BY <1>1
  <2> QED BY <1>1, <2>1, BelowFacts
<1> HIDE DEF bs
<1>3. \A x \in 1 .. (N - 1) : bs[x].frame_depth \in 1 .. d
  <2> TAKE x \in 1 .. (N - 1)
  <2>1. x \in 1 .. N /\ x < N
    BY <1>1
  <2>2. exs[x].frame_depth <= d /\ exs[x].frame_depth \in 1 .. Len(fs)
    BY <1>1, <2>1
  <2> QED BY <1>1, <1>2, <2>2
<1>4. ASSUME NEW x \in 1 .. (N - 1)
      PROVE  LET c == bs[x]
                 g == gs[c.frame_depth]
                 q == TypesOf(g)[c.handler_ip]
             IN  /\ c.stack_depth = g.stack_base + q.height - 1
                 /\ q.handler = Outer(bs, x)
                 /\ (x = N - 1 \/ bs[x + 1].frame_depth # c.frame_depth)
                       => Point(g).handler = c.handler_ip
  <2> DEFINE c == exs[x]
             g == fs[c.frame_depth]
             q == TypesOf(g)[c.handler_ip]
  <2>1. x \in 1 .. N /\ bs[x] = c /\ x + 1 \in 1 .. N /\ c.frame_depth \in 1 .. d
    BY <1>1, <1>2, <1>3
  <2>2. /\ c.stack_depth = g.stack_base + q.height - 1
        /\ q.handler = Outer(exs, x)
        /\ (x = N \/ exs[x + 1].frame_depth # c.frame_depth) => Point(g).handler = c.handler_ip
    BY <2>1 DEF Sound, HandlersFit
  <2>3. Outer(bs, x) = Outer(exs, x)
    <3>1. x > 1 => x - 1 \in 1 .. (N - 1)
      BY <1>1
    <3> QED BY <1>2, <2>1, <3>1 DEF Outer
  <2>4. ASSUME x = N - 1 \/ bs[x + 1].frame_depth # c.frame_depth
        PROVE  Point(gs[c.frame_depth]).handler = c.handler_ip
    <3>1. CASE c.frame_depth = d
      <4>1. x = N - 1
        <5> SUFFICES ASSUME x # N - 1 PROVE FALSE
          OBVIOUS
        <5>1. x + 1 \in 1 .. (N - 1) /\ x + 1 < N /\ x < x + 1
          BY <1>1
        <5>2. bs[x + 1].frame_depth <= d /\ bs[x + 1].frame_depth >= d
          BY <1>1, <1>2, <2>1, <3>1, <5>1
        <5>3. bs[x + 1].frame_depth \in 1 .. d
          BY <1>3, <5>1
        <5> QED BY <2>4, <3>1, <5>2, <5>3, <1>1
      <4>2. Outer(exs, N) = c.handler_ip
        <5>1. N > 1 /\ N - 1 = x
          BY <1>1, <4>1
        <5> QED BY <3>1, <5>1 DEF Outer
      <4> QED BY <3>1, <4>2
    <3>2. CASE c.frame_depth # d
      <4>1. Point(g).handler = c.handler_ip
        <5>1. CASE x = N - 1
          <6>1. x + 1 = N
            BY <1>1, <5>1
          <6> QED BY <2>2, <3>2, <6>1
        <5>2. CASE x # N - 1
          <6>1. x + 1 \in 1 .. (N - 1)
            BY <1>1, <5>2
          <6>2. bs[x + 1] = exs[x + 1] /\ bs[x + 1].frame_depth # c.frame_depth
            BY <1>2, <2>4, <5>2, <6>1
          <6> QED BY <2>2, <6>2
        <5> QED BY <5>1, <5>2
      <4> QED BY <2>1, <3>2, <4>1
    <3> QED BY <3>1, <3>2
  <2> QED BY <2>1, <2>2, <2>3, <2>4
<1>5. ASSUME NEW i \in 1 .. d, \A x \in 1 .. (N - 1) : bs[x].frame_depth # i
      PROVE  Point(gs[i]).handler = 0
  <2>1. CASE i = d
    <3>1. Outer(exs, N) = 0
      <4>1. N > 1 => N - 1 \in 1 .. (N - 1)
        BY <1>1
      <4> QED BY <1>2, <1>5, <2>1, <4>1 DEF Outer
    <3> QED BY <2>1, <3>1
  <2>2. CASE i # d
    <3>1. \A x \in 1 .. N : exs[x].frame_depth # i
      <4> TAKE x \in 1 .. N
      <4>1. CASE x = N
        BY <2>2, <4>1
      <4>2. CASE x # N
        <5>1. x \in 1 .. (N - 1)
          BY <1>1, <4>2
        <5> QED BY <1>2, <1>5, <5>1
      <4> QED BY <4>1, <4>2
    <3>2. Point(fs[i]).handler = 0
      <4>1. i \in 1 .. Len(fs)
        BY <1>1
      <4> QED BY <3>1, <4>1 DEF HandlersFit
    <3> QED BY <2>2, <3>2
  <2> QED BY <2>1, <2>2
<1> QED BY <1>2, <1>4, <1>5 DEF HandlersFit, bs

\* Control goes to the last handler, whatever frames it leaves.
LEMMA HandleSound ==
    ASSUME Invariant, Verified, NEW fs, NEW exs, NEW n \in Nat, NEW due \in {0, 1},
           Shape(fs, exs), Sound(fs, exs, n, due), Len(exs) > 0,
           NEW m \in Nat, m >= fs[Len(fs)].stack_base,
           exs[Len(exs)].frame_depth = Len(fs) => m >= exs[Len(exs)].stack_depth
    PROVE  LET e  == exs[Len(exs)]
               gs == StandingAt(SubSeq(fs, 1, e.frame_depth), e.handler_ip)
           IN  /\ m >= e.stack_depth
               /\ Shape(gs, Below(exs, 1)) =>
                     Sound(gs, Below(exs, 1), e.stack_depth + 1, 0)
<1> DEFINE N == Len(exs)
           e == exs[N]
           d == e.frame_depth
           h == e.handler_ip
           cut == SubSeq(fs, 1, d)
           gs == StandingAt(cut, h)
           L == Len(fs)
           f == fs[d]
           p == TypesOf(f)[h]
<1>1. /\ fs \in Seq(FrameType) /\ L \in Nat \ {0} /\ exs \in Seq(HandlerType)
      /\ N \in Nat \ {0} /\ N \in 1 .. N /\ d \in 1 .. L /\ e \in HandlerType
      /\ \A x \in 1 .. N : exs[x].frame_depth \in 1 .. L
      /\ \A x, y \in 1 .. N : x < y => exs[x].frame_depth <= exs[y].frame_depth
  BY DEF Shape
<1>2. /\ e.stack_depth = f.stack_base + p.height - 1
      /\ p.handler = Outer(exs, N)
      /\ Point(f).handler = h
  BY <1>1 DEF Sound, HandlersFit
<1>3. h \in Nat \ {0} /\ e.stack_depth \in Nat
  BY <1>1 DEF HandlerType
<1>4. f.ip <= Len(CodeOf(f.function))
  BY <1>1 DEF Sound, FramesFit
<1>5. /\ h \in 1 .. Len(CodeOf(f.function)) /\ p \in PointType
      /\ p.height \in Nat /\ p.iterators \in Nat /\ p.handler \in Nat
      /\ p.iterators <= Point(f).iterators
  <2>1. Point(f).handler # 0
    BY <1>2, <1>3
  <2> QED BY <1>1, <1>2, <1>4, <2>1, HandlerPoint
<1>6. /\ f.stack_base \in Nat /\ Point(f).height \in Nat /\ Point(f).iterators \in Nat
      /\ f \in FrameType
  BY <1>1, <1>4, PointFacts
<1>7. m >= e.stack_depth
  <2>1. CASE d = L
    BY <1>1, <2>1
  <2>2. CASE d # L
    <3>1. d < L /\ d + 1 \in 1 .. L /\ L \in 1 .. L /\ d + 1 <= L
      BY <1>1, <2>2
    <3>2. p.height - 1 <= Point(f).height - 1
      BY <1>1, <1>2, <1>3, <3>1 DEF Sound, RoomFits, Due
    <3>3. fs[d + 1].stack_base = f.stack_base + Point(f).height - 1
      BY <1>1, <3>1 DEF Sound, FramesFit, Due, End
    <3>4. fs[d + 1].stack_base <= fs[L].stack_base
      BY <3>1 DEF Sound, BasesRise
    <3>5. fs[L] \in FrameType
      BY <1>1, <3>1
    <3>6. fs[L].stack_base \in Nat
      BY <3>5 DEF FrameType
    <3>7. e.stack_depth <= fs[d + 1].stack_base
      <4> HIDE DEF f, p, e, d
      <4> QED BY <1>2, <1>3, <1>5, <1>6, <3>2, <3>3
    <3>8. fs[d + 1].stack_base \in Nat
      <4>1. fs[d + 1] \in FrameType
        BY <1>1, <3>1
      <4> QED BY <4>1 DEF FrameType
    <3>9. m >= fs[L].stack_base /\ m \in Nat
      OBVIOUS
    <3> HIDE DEF e, d, L
    <3> QED BY <1>3, <3>4, <3>6, <3>7, <3>8, <3>9
  <2> QED BY <2>1, <2>2
<1>8. /\ cut \in Seq(FrameType) /\ Len(cut) = d /\ d \in Nat /\ d > 0
      /\ \A i \in 1 .. d : cut[i] = fs[i]
  BY <1>1
<1>9. /\ Len(gs) = d
      /\ gs[d] = [f EXCEPT !.ip = h]
      /\ \A i \in 1 .. d : i # d => gs[i] = fs[i]
  <2> HIDE DEF cut, d, h, f
  <2>1. gs = [cut EXCEPT ![d].ip = h] /\ d \in 1 .. d
    BY <1>8 DEF StandingAt
  <2>2. Len(gs) = d /\ gs[d] = [cut[d] EXCEPT !.ip = h]
        /\ \A i \in 1 .. d : i # d => gs[i] = cut[i]
    BY <1>8, <2>1
  <2> QED BY <1>8, <2>1, <2>2 DEF f
<1>10. /\ gs[d].function = f.function /\ gs[d].stack_base = f.stack_base
       /\ gs[d].ip = h /\ gs[d].iterators = f.iterators
  BY <1>6, <1>9 DEF FrameType
<1> DEFINE bs == Below(exs, 1)
<1>11. /\ Len(bs) = N - 1 /\ \A x \in 1 .. (N - 1) : bs[x] = exs[x]
  <2>1. 1 \in 0 .. Len(exs)
    BY <1>1
  <2> QED BY <1>1, <2>1, BelowFacts
<1>12. Point(gs[d]) = p
  BY <1>10 DEF Point, TypesOf
<1>13. /\ \A i \in 1 .. d : TypesOf(gs[i]) = TypesOf(fs[i]) /\ gs[i].stack_base = fs[i].stack_base
       /\ \A i \in 1 .. d : i # d => gs[i] = fs[i] /\ i < d /\ i + 1 \in 1 .. d /\ i < L
       /\ \A i \in 1 .. d : i \in 1 .. L
  <2>1. \A i \in 1 .. d : i \in 1 .. L /\ (i # d => i < d /\ i + 1 \in 1 .. d /\ i < L)
    BY <1>1
  <2>2. \A i \in 1 .. d : gs[i].function = fs[i].function /\ gs[i].stack_base = fs[i].stack_base
    BY <1>9, <1>10
  <2> QED BY <1>9, <2>1, <2>2 DEF TypesOf
<1> HIDE DEF gs, bs, cut
<1>14. FramesFit(gs, e.stack_depth + 1, 0)
  <2>1. gs[1].stack_base = 0
    BY <1>8, <1>13 DEF Sound, FramesFit
  <2>2. ASSUME NEW i \in 1 .. d
        PROVE  /\ gs[i].ip <= Len(CodeOf(gs[i].function))
               /\ Len(gs[i].iterators) >= Point(gs[i]).iterators
               /\ Point(gs[i]).height >= Due(gs, i, 0)
               /\ End(gs, i, e.stack_depth + 1)
                    = gs[i].stack_base + Point(gs[i]).height - Due(gs, i, 0)
    <3>1. CASE i = d
      <4>1. Len(f.iterators) >= Point(f).iterators
        BY <1>1 DEF Sound, FramesFit
      <4>2. Len(f.iterators) \in Nat
        BY <1>6 DEF FrameType
      <4>3. Len(gs[d].iterators) >= Point(gs[d]).iterators
        <5>1. gs[d].iterators = f.iterators /\ Point(gs[d]).iterators = p.iterators
          BY <1>10, <1>12
        <5> DEFINE a == Len(f.iterators)
                   b == Point(f).iterators
                   c == p.iterators
        <5>2. a \in Nat /\ b \in Nat /\ c \in Nat /\ a >= b /\ c <= b
          BY <1>5, <1>6, <4>1, <4>2
        <5> HIDE DEF a, b, c
        <5>3. a >= c
          BY <5>2
        <5> QED BY <5>1, <5>3 DEF a, c
      <4>4. Due(gs, i, 0) = 0 /\ End(gs, i, e.stack_depth + 1) = e.stack_depth + 1
        BY <1>9, <1>8, <3>1 DEF Due, End
      <4>5. gs[d].ip <= Len(CodeOf(gs[d].function))
        BY <1>5, <1>10
      <4>6. /\ e.stack_depth + 1 = gs[d].stack_base + Point(gs[d]).height - 0
            /\ Point(gs[d]).height >= 0
        <5> DEFINE a == e.stack_depth
                   b == f.stack_base
                   c == p.height
        <5>1. gs[d].stack_base = b /\ Point(gs[d]).height = c
          BY <1>10, <1>12
        <5>2. a \in Nat /\ b \in Nat /\ c \in Nat /\ a = b + c - 1
          BY <1>2, <1>3, <1>5, <1>6
        <5> HIDE DEF a, b, c
        <5>3. a + 1 = b + c - 0 /\ c >= 0
          BY <5>2
        <5> QED BY <5>1, <5>3 DEF a
      <4> HIDE DEF e, f, p, d, h
      <4> QED BY <3>1, <4>3, <4>4, <4>5, <4>6
    <3>2. CASE i # d
      <4>1. /\ fs[i].ip <= Len(CodeOf(fs[i].function))
            /\ Len(fs[i].iterators) >= Point(fs[i]).iterators
            /\ Point(fs[i]).height >= 1
            /\ fs[i + 1].stack_base = fs[i].stack_base + Point(fs[i]).height - 1
        BY <1>13, <3>2 DEF Sound, FramesFit, Due, End
      <4> QED BY <1>9, <1>13, <3>2, <4>1 DEF Due, End
    <3> QED BY <3>1, <3>2
  <2> QED BY <1>9, <2>1, <2>2 DEF FramesFit
<1>15. HandlersFit(gs, bs)
  <2>1. HandlersFit(fs, exs) /\ Point(gs[d]).handler = Outer(exs, N)
    BY <1>2, <1>12 DEF Sound
  <2> HIDE DEF d
  <2> QED BY <1>9, <1>13, <2>1, LastHandlerGone DEF bs, d
<1>16. ASSUME Shape(gs, bs)
       PROVE  RoomFits(gs, 0)
  <2> SUFFICES ASSUME NEW i \in 1 .. d, Point(gs[i]).handler # 0
               PROVE  TypesOf(gs[i])[Point(gs[i]).handler].height - 1
                        <= Point(gs[i]).height - Due(gs, i, 0)
    BY <1>9 DEF RoomFits
  <2>1. CASE i = d
    <3>1. gs[i].ip <= Len(CodeOf(gs[i].function)) /\ i \in 1 .. Len(gs)
      BY <1>9, <1>14 DEF FramesFit
    <3>2. /\ TypesOf(gs[i])[Point(gs[i]).handler].height \in Nat
          /\ TypesOf(gs[i])[Point(gs[i]).handler].height <= Point(gs[i]).height + 1
          /\ Point(gs[i]).height \in Nat
      BY <1>16, <3>1, HandlerPoint, PointFacts
    <3>3. Due(gs, i, 0) = 0
      BY <1>8, <1>9, <2>1 DEF Due
    <3> QED BY <3>2, <3>3
  <2>2. CASE i # d
    <3>1. TypesOf(fs[i])[Point(fs[i]).handler].height - 1 <= Point(fs[i]).height - 1
      BY <1>13, <2>2 DEF Sound, RoomFits, Due
    <3> QED BY <1>9, <1>13, <2>2, <3>1 DEF Due
  <2> QED BY <2>1, <2>2
<1>17. BasesRise(gs)
  BY <1>9, <1>13 DEF Sound, BasesRise
<1> QED BY <1>7, <1>14, <1>15, <1>16, <1>17 DEF Sound, gs, bs, cut

-----------------------------------------------------------------------------
(* The machine before and after a step.                                    *)

\* The types do not change, so what holds of the new frames and handlers by
\* them holds afterwards.
LEMMA AsTypedNext ==
    ASSUME module' = module, error' # "Internal",
           status' \notin Ended =>
              /\ Sound(frames', exceptions', Len(stack'), WaitsForHost')
              /\ ClosuresNamed(stack')
    PROVE  AsTyped'
BY DEF AsTyped, Sound, ClosuresNamed, FramesFit, HandlersFit, RoomFits, BasesRise,
       Point, TypesOf, CodeOf, End, Due, Outer

LEMMA ShapeNext ==
    ASSUME Invariant', module' = module
    PROVE  Shape(frames', exceptions')
<1>1. Shape(frames, exceptions)'
  BY ShapeFacts, PTL
<1> QED BY <1>1 DEF Shape

LEMMA FailSound ==
    ASSUME module' = module, NEW kind, Fail(kind), kind # "Internal"
    PROVE  AsTyped'
BY AsTypedNext DEF Fail, Ended

\* Where the machine stands.
LEMMA Here ==
    ASSUME Invariant, Verified, AsTyped, status \notin Ended
    PROVE  /\ Shape(frames, exceptions)
           /\ Sound(frames, exceptions, Len(stack), WaitsForHost)
           /\ ClosuresNamed(stack)
           /\ error # "Internal"
           /\ WaitsForHost \in {0, 1}
           /\ stack \in Seq(Value) /\ Len(stack) \in Nat
           /\ Len(frames) \in 1 .. Len(frames) /\ Top = frames[Len(frames)]
           /\ Top \in FrameType
           /\ Top.function \in 1 .. Len(module.functions)
           /\ Top.ip \in 1 .. Len(CodeOf(Top.function))
           /\ Top.stack_base \in Nat
           /\ Len(Top.iterators) >= Point(Top).iterators
           /\ Len(stack) = Top.stack_base + Point(Top).height - WaitsForHost
           /\ Point(Top).height >= WaitsForHost
           /\ Point(Top) = TypesOf(Top)[Top.ip]
           /\ Point(Top) \in PointType
           /\ Point(Top).height \in Nat
           /\ Point(Top).iterators \in Nat
           /\ Point(Top).handler \in Nat
           /\ Current \in Instruction
           /\ Typed(CodeOf(Top.function), TypesOf(Top), Top.ip)
           /\ Current = CodeOf(Top.function)[Top.ip]
<1> DEFINE L == Len(frames)
<1>1. /\ Shape(frames, exceptions)
      /\ Sound(frames, exceptions, Len(stack), WaitsForHost)
      /\ ClosuresNamed(stack) /\ error # "Internal" /\ WaitsForHost \in {0, 1}
      /\ stack \in Seq(Value)
  BY ShapeFacts DEF AsTyped, WaitsForHost, Invariant, TypeOK
<1>2. L \in Nat \ {0} /\ L \in 1 .. L /\ Top = frames[L]
  BY <1>1 DEF Shape, Top
<1>3. /\ Top.ip <= Len(CodeOf(Top.function))
      /\ Len(Top.iterators) >= Point(Top).iterators
      /\ Point(Top).height >= WaitsForHost
      /\ Len(stack) = Top.stack_base + Point(Top).height - WaitsForHost
  BY <1>1, <1>2 DEF Sound, FramesFit, Due, End
<1>4. Top.function \in 1 .. Len(module.functions)
  BY <1>1, <1>2 DEF Shape
<1>5. /\ Top \in FrameType
      /\ Top.ip \in 1 .. Len(CodeOf(Top.function))
      /\ Top.stack_base \in Nat
      /\ Point(Top) = TypesOf(Top)[Top.ip]
      /\ Point(Top) \in PointType
      /\ Point(Top).height \in Nat
      /\ Point(Top).iterators \in Nat
      /\ Point(Top).handler \in Nat
      /\ Current \in Instruction
      /\ Typed(CodeOf(Top.function), TypesOf(Top), Top.ip)
  BY <1>1, <1>2, <1>3, PointFacts DEF Current
<1> QED BY <1>1, <1>2, <1>3, <1>4, <1>5 DEF Current

\* The frames gs are those there are, but that the top one stands at ip with
\* the iterators its.
Moved(gs, ip, its) ==
    /\ Len(gs) = Len(frames)
    /\ \A i \in 1 .. Len(frames) : i < Len(frames) => gs[i] = frames[i]
    /\ gs[Len(frames)].function = Top.function
    /\ gs[Len(frames)].stack_base = Top.stack_base
    /\ gs[Len(frames)].ip = ip
    /\ gs[Len(frames)].iterators = its

LEMMA MovedFacts ==
    ASSUME TypeOK, NEW ip \in Nat \ {0}
    PROVE  /\ Moved(MovedTo(ip), ip, Top.iterators)
           /\ \A its \in Seq(IteratorType) :
                 Moved(Iterating(MovedTo(ip), its), ip, its)
<1> DEFINE L == Len(frames)
           gs == MovedTo(ip)
<1>1. frames \in Seq(FrameType) /\ L \in Nat \ {0} /\ L \in 1 .. L /\ Top = frames[L]
      /\ Top \in FrameType
  BY TopFacts DEF TypeOK
<1>2. gs = [frames EXCEPT ![L].ip = ip]
  BY DEF MovedTo, StandingAt
<1>3. /\ Len(gs) = L /\ gs[L] = [Top EXCEPT !.ip = ip]
      /\ \A i \in 1 .. L : i < L => gs[i] = frames[i]
      /\ DOMAIN gs = 1 .. L
  BY <1>1, <1>2
<1>4. /\ gs[L].function = Top.function /\ gs[L].stack_base = Top.stack_base
      /\ gs[L].ip = ip /\ gs[L].iterators = Top.iterators
  BY <1>1, <1>3 DEF FrameType
<1>5. gs[L] \in FrameType
  BY <1>1, <1>3 DEF FrameType
<1>6. gs \in Seq(FrameType)
  BY <1>1, StandingFacts DEF MovedTo
<1> HIDE DEF gs
<1>7. ASSUME NEW its \in Seq(IteratorType)
      PROVE  Moved(Iterating(gs, its), ip, its)
  <2>1. Iterating(gs, its) = [gs EXCEPT ![L].iterators = its]
    BY <1>3 DEF Iterating
  <2>2. /\ Len(Iterating(gs, its)) = L
        /\ Iterating(gs, its)[L] = [gs[L] EXCEPT !.iterators = its]
        /\ \A i \in 1 .. L : i < L => Iterating(gs, its)[i] = gs[i]
    BY <1>1, <1>3, <1>6, <2>1
  <2>3. /\ Iterating(gs, its)[L].function = Top.function
        /\ Iterating(gs, its)[L].stack_base = Top.stack_base
        /\ Iterating(gs, its)[L].ip = ip
        /\ Iterating(gs, its)[L].iterators = its
    BY <1>4, <1>5, <2>2 DEF FrameType
  <2> QED BY <1>3, <2>2, <2>3 DEF Moved
<1> QED BY <1>3, <1>4, <1>7 DEF Moved, gs

\* The machine goes on in its top frame, under the same handlers.
LEMMA GoSound ==
    ASSUME Invariant, Invariant', Verified, AsTyped, status \notin Ended,
           module' = module, UNCHANGED <<exceptions, error>>,
           NEW ip \in 1 .. Len(CodeOf(Top.function)), NEW its, Moved(frames', ip, its),
           Len(its) >= TypesOf(Top)[ip].iterators,
           TypesOf(Top)[ip].handler = Point(Top).handler,
           TypesOf(Top)[ip].height >= WaitsForHost',
           Len(stack') = Top.stack_base + TypesOf(Top)[ip].height - WaitsForHost',
           WaitsForHost' = 1 /\ Point(Top).handler # 0 =>
              TypesOf(Top)[Point(Top).handler].height <= TypesOf(Top)[ip].height,
           ClosuresNamed(stack')
    PROVE  AsTyped'
<1> DEFINE L == Len(frames)
           gs == frames'
<1>1. /\ Shape(frames, exceptions) /\ Shape(gs, exceptions)
      /\ Sound(frames, exceptions, Len(stack), WaitsForHost)
      /\ L \in 1 .. L /\ Top = frames[L]
      /\ error # "Internal"
  BY Here, ShapeNext
<1>2. /\ Len(gs) = L /\ \A i \in 1 .. L : i < L => gs[i] = frames[i]
      /\ gs[L].function = Top.function /\ gs[L].stack_base = Top.stack_base
      /\ gs[L].ip = ip /\ gs[L].iterators = its
  BY DEF Moved
<1>3. TypesOf(gs[L]) = TypesOf(Top) /\ Point(gs[L]) = TypesOf(Top)[ip]
  BY <1>2 DEF TypesOf, Point
<1>4. Len(stack') \in Nat /\ WaitsForHost' \in {0, 1}
  BY DEF Invariant, TypeOK, WaitsForHost
<1>5. gs[L].ip <= Len(CodeOf(gs[L].function))
  BY <1>1, <1>2, VerifiedFacts DEF Shape
<1>6. Point(gs[L]).handler # 0 =>
          TypesOf(gs[L])[Point(gs[L]).handler].height - 1 <= Point(gs[L]).height - WaitsForHost'
  <2> SUFFICES ASSUME Point(gs[L]).handler # 0
               PROVE  TypesOf(gs[L])[Point(gs[L]).handler].height - 1
                         <= Point(gs[L]).height - WaitsForHost'
    OBVIOUS
  <2>1. L \in 1 .. Len(gs)
    BY <1>1, <1>2
  <2>2. /\ TypesOf(gs[L])[Point(gs[L]).handler].height \in Nat
        /\ TypesOf(gs[L])[Point(gs[L]).handler].height <= Point(gs[L]).height + 1
        /\ Point(gs[L]).height \in Nat
    BY <1>1, <1>5, <2>1, HandlerPoint, PointFacts
  <2>3. WaitsForHost' = 1 =>
           TypesOf(gs[L])[Point(gs[L]).handler].height <= Point(gs[L]).height
    BY <1>3
  <2> HIDE DEF gs
  <2> QED BY <1>4, <2>2, <2>3
<1>7. Sound(gs, exceptions, Len(stack'), WaitsForHost')
  <2>1. Len(gs[L].iterators) >= Point(gs[L]).iterators
    BY <1>2, <1>3
  <2>2. Point(gs[L]).handler = Point(frames[L]).handler
    BY <1>1, <1>3
  <2>3. Point(gs[L]).height >= WaitsForHost'
    BY <1>3
  <2>4. Len(stack') = frames[L].stack_base + Point(gs[L]).height - WaitsForHost'
    BY <1>1, <1>3
  <2> QED BY <1>1, <1>2, <1>4, <1>5, <1>6, <2>1, <2>2, <2>3, <2>4, MoveSound
<1> QED BY <1>1, <1>7, AsTypedNext

-----------------------------------------------------------------------------
(* Operands and control of typed code.                                     *)

LEMMA NamedBelow ==
    ASSUME NEW s \in Seq(Value), ClosuresNamed(s), NEW n \in 0 .. Len(s)
    PROVE  ClosuresNamed(Below(s, n))
<1>1. /\ Len(Below(s, n)) = Len(s) - n
      /\ \A i \in 1 .. (Len(s) - n) : Below(s, n)[i] = s[i] /\ i \in 1 .. Len(s)
  BY BelowFacts
<1> QED BY <1>1 DEF ClosuresNamed

LEMMA NamedTruncated ==
    ASSUME NEW s \in Seq(Value), ClosuresNamed(s), NEW n \in Nat
    PROVE  ClosuresNamed(Truncate(s, n))
<1>1. CASE Len(s) > n
  <2>1. Len(SubSeq(s, 1, n)) = n /\ \A i \in 1 .. n : SubSeq(s, 1, n)[i] = s[i]
    BY <1>1
  <2> QED BY <1>1, <2>1 DEF Truncate, ClosuresNamed
<1>2. CASE ~(Len(s) > n)
  BY <1>2 DEF Truncate
<1> QED BY <1>1, <1>2

LEMMA NamedAppended ==
    ASSUME NEW s \in Seq(Value), ClosuresNamed(s), NEW v \in Value,
           v.kind = "closure" => v.arg <= Len(module.functions)
    PROVE  ClosuresNamed(Append(s, v))
<1>1. /\ Len(Append(s, v)) = Len(s) + 1 /\ Append(s, v)[Len(s) + 1] = v
      /\ \A i \in 1 .. Len(s) : Append(s, v)[i] = s[i]
      /\ Len(s) \in Nat
  OBVIOUS
<1> QED BY <1>1 DEF ClosuresNamed

\* An instruction finds its operands, and they are its own frame's.
LEMMA OperandsThere ==
    ASSUME Invariant, Verified, AsTyped, Running
    PROVE  /\ Pops(Current) \in 0 .. Len(stack)
           /\ Has(Pops(Current))
           /\ Len(stack) = Top.stack_base + Point(Top).height
           /\ Len(Below(stack, Pops(Current))) = Len(stack) - Pops(Current)
           /\ Below(stack, Pops(Current)) \in Seq(Value)
           /\ ClosuresNamed(Below(stack, Pops(Current)))
<1>1. /\ status \notin Ended /\ WaitsForHost = 0
  BY DEF Running, Ended, WaitsForHost
<1>2. /\ Typed(CodeOf(Top.function), TypesOf(Top), Top.ip)
      /\ Point(Top) = TypesOf(Top)[Top.ip] /\ Current = CodeOf(Top.function)[Top.ip]
      /\ Point(Top).height \in Nat /\ Top.stack_base \in Nat
      /\ Len(stack) = Top.stack_base + Point(Top).height - WaitsForHost
      /\ Current \in Instruction /\ stack \in Seq(Value) /\ ClosuresNamed(stack)
      /\ Len(stack) \in Nat
  BY <1>1, Here
<1>3. Pops(Current) <= Point(Top).height
  BY <1>2 DEF Typed
<1>4. Pops(Current) \in Nat
  BY <1>2, PopsType
<1>5. Len(stack) = Top.stack_base + Point(Top).height /\ Pops(Current) \in 0 .. Len(stack)
  BY <1>1, <1>2, <1>3, <1>4
<1> QED BY <1>2, <1>5, BelowFacts, NamedBelow DEF Has

LEMMA FetchRuns ==
    ASSUME NEW op, Fetch(op)
    PROVE  Running /\ Current.op = op /\ module' = module /\ status \notin Ended
           /\ WaitsForHost = 0
BY DEF Fetch, Running, Ended, WaitsForHost

\* What the types say of the next instruction.
LEMMA NextPoint ==
    ASSUME Invariant, Verified, AsTyped, status \notin Ended, Continues(Current),
           Current.op \notin {"TryBegin", "TryEnd"}
    PROVE  /\ Top.ip + 1 \in 1 .. Len(CodeOf(Top.function))
           /\ TypesOf(Top)[Top.ip + 1].height
                = Point(Top).height - Pops(Current) + Pushes(Current)
           /\ TypesOf(Top)[Top.ip + 1].handler = Point(Top).handler
           /\ TypesOf(Top)[Top.ip + 1].iterators
                = CASE Current.op = "IterStart" -> Point(Top).iterators + 1
                    [] Current.op = "IterEnd"   -> Point(Top).iterators - 1
                    [] OTHER                    -> Point(Top).iterators
           /\ Point(Top).handler # 0 =>
                 /\ TypesOf(Top)[Point(Top).handler].height \in Nat
                 /\ TypesOf(Top)[Point(Top).handler].height
                       <= Point(Top).height - Pops(Current) + 1
<1>1. /\ Typed(CodeOf(Top.function), TypesOf(Top), Top.ip)
      /\ Point(Top) = TypesOf(Top)[Top.ip] /\ Current = CodeOf(Top.function)[Top.ip]
      /\ Top.ip \in 1 .. Len(CodeOf(Top.function))
      /\ Shape(frames, exceptions) /\ Len(frames) \in 1 .. Len(frames)
      /\ Top = frames[Len(frames)]
  BY Here
<1> DEFINE h == Point(Top).handler
           T == TypesOf(Top)
<1>2. /\ Top.ip < Len(CodeOf(Top.function))
      /\ T[Top.ip + 1] = Following(Point(Top), Current, IF h = 0 THEN 0 ELSE T[h].handler)
      /\ h # 0 => T[h].height <= Point(Top).height - Pops(Current) + 1
  BY <1>1 DEF Typed
<1>3. h # 0 => T[h].height \in Nat
  BY <1>1, HandlerPoint
<1>4. Top.ip + 1 \in 1 .. Len(CodeOf(Top.function))
  <2>1. Len(CodeOf(Top.function)) \in Nat
    BY <1>1, VerifiedFacts DEF Shape
  <2> QED BY <1>1, <1>2, <2>1
<1>5. /\ T[Top.ip + 1].height = Point(Top).height - Pops(Current) + Pushes(Current)
      /\ T[Top.ip + 1].handler = h
  BY <1>2 DEF Following
<1>6. T[Top.ip + 1].iterators
          = CASE Current.op = "IterStart" -> Point(Top).iterators + 1
              [] Current.op = "IterEnd"   -> Point(Top).iterators - 1
              [] OTHER                    -> Point(Top).iterators
  BY <1>2 DEF Following
<1> QED BY <1>2, <1>3, <1>4, <1>5, <1>6

\* An instruction after which control goes on to the next one.
LEMMA AdvanceSound ==
    ASSUME Invariant, Invariant', Verified, AsTyped, NEW op, Plain(op),
           op \notin {"Jump", "Return", "Throw", "TryBegin", "TryEnd"},
           NEW s \in Seq(Value), ClosuresNamed(s),
           Len(s) = Len(stack) - Pops(Current) + Pushes(Current),
           NEW gs, NEW its, Moved(gs, Top.ip + 1, its),
           Len(its) >= TypesOf(Top)[Top.ip + 1].iterators,
           Continue(s, gs), UNCHANGED exceptions
    PROVE  AsTyped'
<1>1. /\ Fetch(op) /\ Running /\ Current.op = op /\ module' = module /\ status \notin Ended
      /\ request' = request /\ request = "none" /\ WaitsForHost' = 0
  BY FetchRuns DEF Plain, Running, WaitsForHost
<1>2. CASE Len(s) <= MaxStack
  <2>1. stack' = s /\ frames' = gs /\ error' = error
    BY <1>2 DEF Continue
  <2>2. ClosuresNamed(stack')
    BY <2>1
  <2>3. Continues(Current)
    BY <1>1 DEF Continues
  <2>4. /\ Top.ip + 1 \in 1 .. Len(CodeOf(Top.function))
        /\ TypesOf(Top)[Top.ip + 1].height
                = Point(Top).height - Pops(Current) + Pushes(Current)
        /\ TypesOf(Top)[Top.ip + 1].handler = Point(Top).handler
    BY <1>1, <2>3, NextPoint
  <2>5. /\ Point(Top).height \in Nat /\ Pops(Current) \in Nat /\ Pushes(Current) \in Nat
        /\ Pops(Current) <= Point(Top).height /\ Top.stack_base \in Nat
        /\ Len(stack) = Top.stack_base + Point(Top).height
        /\ Current \in Instruction
    <3>1. /\ Typed(CodeOf(Top.function), TypesOf(Top), Top.ip)
          /\ Point(Top) = TypesOf(Top)[Top.ip] /\ Current = CodeOf(Top.function)[Top.ip]
          /\ Current \in Instruction /\ Point(Top).height \in Nat /\ Top.stack_base \in Nat
      BY <1>1, Here
    <3> QED BY <1>1, <3>1, PopsType, OperandsThere DEF Typed
  <2>6. /\ TypesOf(Top)[Top.ip + 1].height >= WaitsForHost'
        /\ Len(stack') = Top.stack_base + TypesOf(Top)[Top.ip + 1].height - WaitsForHost'
    BY <1>1, <2>1, <2>4, <2>5
  <2> QED BY <1>1, <2>1, <2>2, <2>4, <2>6, GoSound
<1>3. CASE ~(Len(s) <= MaxStack)
  <2>1. status' \in Ended /\ error' # "Internal"
    BY <1>3 DEF Continue, Ended, Limit
  <2> QED BY <1>1, <2>1, AsTypedNext
<1> QED BY <1>2, <1>3

\* Control goes to the target of a jump.
LEMMA JumpSound ==
    ASSUME Invariant, Invariant', Verified, AsTyped, NEW op, Plain(op),
           op \in Jumps, op # "TryBegin",
           NEW s \in Seq(Value), ClosuresNamed(s),
           Len(s) = Len(stack) - Pops(Current),
           Continue(s, MovedTo(Current.arg)), UNCHANGED exceptions
    PROVE  AsTyped'
<1> DEFINE ip == Current.arg
<1>1. /\ Fetch(op) /\ Running /\ Current.op = op /\ module' = module /\ status \notin Ended
      /\ request' = request /\ request = "none" /\ WaitsForHost' = 0
  BY FetchRuns DEF Plain, Running, WaitsForHost
<1>2. CASE Len(s) <= MaxStack
  <2>1. stack' = s /\ frames' = MovedTo(ip) /\ error' = error
    BY <1>2 DEF Continue
  <2>2. ClosuresNamed(stack')
    BY <2>1
  <2>3. /\ Typed(CodeOf(Top.function), TypesOf(Top), Top.ip)
        /\ Point(Top) = TypesOf(Top)[Top.ip] /\ Current = CodeOf(Top.function)[Top.ip]
        /\ Point(Top) \in PointType
        /\ Point(Top).height \in Nat /\ Top.stack_base \in Nat
        /\ Len(Top.iterators) >= Point(Top).iterators
        /\ Top.function \in 1 .. Len(module.functions)
        /\ Current \in Instruction
    BY <1>1, Here
  <2>4. ip \in Nat \ {0} /\ TypeOK
    BY <1>1, FetchFacts DEF Invariant
  <2>5. ip \in 1 .. Len(CodeOf(Top.function)) /\ TypesOf(Top)[ip] = AtTarget(Point(Top), Current)
        /\ Pops(Current) <= Point(Top).height
    BY <1>1, <2>3, <2>4, VerifiedFacts DEF Typed
  <2>6. /\ TypesOf(Top)[ip].height = Point(Top).height - Pops(Current)
        /\ TypesOf(Top)[ip].handler = Point(Top).handler
        /\ TypesOf(Top)[ip].iterators = Point(Top).iterators
    BY <1>1, <2>3, <2>5 DEF AtTarget, PointType
  <2>7. Pops(Current) \in Nat /\ Len(stack) = Top.stack_base + Point(Top).height
    BY <1>1, <2>3, PopsType, OperandsThere
  <2>8. /\ TypesOf(Top)[ip].height >= WaitsForHost'
        /\ Len(stack') = Top.stack_base + TypesOf(Top)[ip].height - WaitsForHost'
    <3> DEFINE a == Point(Top).height
               b == Pops(Current)
               c == Top.stack_base
    <3>1. /\ a \in Nat /\ b \in Nat /\ c \in Nat /\ b <= a /\ Len(stack) = c + a
          /\ TypesOf(Top)[ip].height = a - b
      BY <2>3, <2>5, <2>6, <2>7
    <3>2. Len(stack') = Len(stack) - b
      BY <2>1
    <3> HIDE DEF a, b, c
    <3>3. a - b >= 0 /\ Len(stack') = c + (a - b) - 0
      BY <3>1, <3>2
    <3> QED BY <1>1, <3>1, <3>3 DEF c
  <2>9. Moved(frames', ip, Top.iterators)
    BY <2>1, <2>4, MovedFacts
  <2>10. Len(Top.iterators) >= TypesOf(Top)[ip].iterators
    BY <2>3, <2>6
  <2>11. ~(WaitsForHost' = 1)
    BY <1>1
  <2> QED BY <1>1, <2>1, <2>2, <2>5, <2>6, <2>8, <2>9, <2>10, <2>11, GoSound
<1>3. CASE ~(Len(s) <= MaxStack)
  <2>1. status' \in Ended /\ error' # "Internal"
    BY <1>3 DEF Continue, Ended, Limit
  <2> QED BY <1>1, <2>1, AsTypedNext
<1> QED BY <1>2, <1>3

\* Control goes to the last handler, with the value v.
LEMMA HandledSound ==
    ASSUME Invariant, Invariant', Verified, AsTyped, status \notin Ended,
           module' = module, request' = "none", Len(exceptions) > 0,
           NEW s \in Seq(Value), ClosuresNamed(s), NEW v \in Value,
           v.kind = "closure" => v.arg <= Len(module.functions),
           Len(s) >= Top.stack_base,
           Point(Top).handler # 0 =>
              Len(s) >= Top.stack_base + TypesOf(Top)[Point(Top).handler].height - 1,
           Handle(At(exceptions), s, v)
    PROVE  AsTyped'
<1> DEFINE N == Len(exceptions)
           e == exceptions[N]
           L == Len(frames)
           gs == StandingAt(SubSeq(frames, 1, e.frame_depth), e.handler_ip)
<1>1. /\ Shape(frames, exceptions)
      /\ Sound(frames, exceptions, Len(stack), WaitsForHost)
      /\ Len(stack) \in Nat /\ WaitsForHost \in {0, 1} /\ error # "Internal"
      /\ L \in 1 .. L /\ Top = frames[L]
  BY Here
<1>2. /\ frames' = gs /\ stack' = Unwound(s, e, v)
      /\ exceptions' = Below(exceptions, 1) /\ error' = error
  BY DEF Handle, At
<1>3. N \in 1 .. N /\ exceptions \in Seq(HandlerType) /\ e \in HandlerType
  BY <1>1 DEF Shape
<1>4. e.stack_depth \in Nat /\ e.handler_ip \in Nat \ {0}
  BY <1>3 DEF HandlerType
<1>5. ASSUME e.frame_depth = L PROVE Len(s) >= e.stack_depth
  <2>1. /\ e.stack_depth = Top.stack_base + TypesOf(Top)[e.handler_ip].height - 1
        /\ Point(Top).handler = e.handler_ip
    BY <1>1, <1>3, <1>5 DEF Sound, HandlersFit
  <2> QED BY <1>4, <2>1
<1>6. Shape(gs, Below(exceptions, 1))
  BY <1>2, ShapeNext
<1>7. /\ Len(s) >= e.stack_depth
      /\ Sound(gs, Below(exceptions, 1), e.stack_depth + 1, 0)
  <2>1. Len(s) \in Nat /\ Len(s) >= frames[L].stack_base
    BY <1>1
  <2> HIDE DEF gs
  <2>2. LET x == exceptions[Len(exceptions)]
            y == StandingAt(SubSeq(frames, 1, x.frame_depth), x.handler_ip)
        IN  /\ Len(s) >= x.stack_depth
            /\ Shape(y, Below(exceptions, 1)) =>
                  Sound(y, Below(exceptions, 1), x.stack_depth + 1, 0)
    BY <1>1, <1>5, <2>1, HandleSound
  <2> QED BY <1>6, <2>2 DEF gs
<1>8. /\ Len(stack') = e.stack_depth + 1 /\ ClosuresNamed(stack')
  <2>1. /\ Truncate(s, e.stack_depth) \in Seq(Value)
        /\ Len(Truncate(s, e.stack_depth)) = e.stack_depth
    BY <1>4, <1>7 DEF Truncate
  <2>2. ClosuresNamed(Truncate(s, e.stack_depth))
    BY <1>4, NamedTruncated
  <2> QED BY <1>2, <2>1, <2>2, NamedAppended DEF Unwound
<1>9. WaitsForHost' = 0
  BY DEF WaitsForHost
<1> QED BY <1>1, <1>2, <1>7, <1>8, <1>9, AsTypedNext

\* What an instruction leaves of the stack when it has taken its operands is
\* what its frame's handler expects, or more.
LEMMA RoomLeft ==
    ASSUME Invariant, Verified, AsTyped, Running
    PROVE  LET n == Len(Below(stack, Pops(Current)))
           IN  /\ n >= Top.stack_base
               /\ Point(Top).handler # 0 =>
                    n >= Top.stack_base + TypesOf(Top)[Point(Top).handler].height - 1
<1> DEFINE n == Len(Below(stack, Pops(Current)))
           P == Pops(Current)
           h == TypesOf(Top)[Point(Top).handler].height
<1>1. /\ n = Len(stack) - P /\ Len(stack) = Top.stack_base + Point(Top).height
  BY OperandsThere
<1>2. /\ Typed(CodeOf(Top.function), TypesOf(Top), Top.ip)
      /\ Point(Top) = TypesOf(Top)[Top.ip] /\ Current = CodeOf(Top.function)[Top.ip]
      /\ Current \in Instruction /\ Point(Top).height \in Nat /\ Top.stack_base \in Nat
      /\ Shape(frames, exceptions) /\ Len(frames) \in 1 .. Len(frames)
      /\ Top = frames[Len(frames)] /\ Top.ip \in 1 .. Len(CodeOf(Top.function))
  BY Here DEF Running, Ended
<1>3. /\ P \in Nat /\ P <= Point(Top).height
      /\ Point(Top).handler # 0 => h <= Point(Top).height - P + 1
  BY <1>2, PopsType DEF Typed
<1>4. Point(Top).handler # 0 => h \in Nat
  <2>1. Top.ip <= Len(CodeOf(Top.function))
    BY <1>2, VerifiedFacts DEF Shape
  <2> QED BY <1>2, <2>1, HandlerPoint
<1> HIDE DEF n, P, h
<1>5. n = Top.stack_base + Point(Top).height - P
  BY <1>1, <1>2, <1>3
<1>6. n >= Top.stack_base
  BY <1>2, <1>3, <1>5
<1>7. ASSUME Point(Top).handler # 0 PROVE n >= Top.stack_base + h - 1
  <2> DEFINE a == Point(Top).height
             b == Top.stack_base
  <2>1. /\ a \in Nat /\ b \in Nat /\ P \in Nat /\ h \in Nat
        /\ h <= a - P + 1 /\ n = b + a - P
    BY <1>2, <1>3, <1>4, <1>5, <1>7
  <2> HIDE DEF a, b
  <2>2. n >= b + h - 1
    BY <2>1
  <2> QED BY <2>2 DEF b
<1> QED BY <1>6, <1>7 DEF n, h

\* An error of the instruction, which has taken its operands.
LEMMA RaiseSound ==
    ASSUME Invariant, Invariant', Verified, AsTyped, NEW op, Plain(op),
           NEW kind, kind # "Internal", Raise(kind, Below(stack, Pops(Current)))
    PROVE  AsTyped'
<1> DEFINE s == Below(stack, Pops(Current))
<1>1. /\ Fetch(op) /\ Running /\ module' = module /\ status \notin Ended
      /\ request' = "none"
  BY FetchRuns DEF Plain, Running
<1>2. CASE kind \in Catchable /\ exceptions # <<>>
  <2>1. Handle(At(exceptions), s, Text) /\ Len(exceptions) > 0
    BY <1>2 DEF Raise, Invariant, TypeOK
  <2>2. /\ s \in Seq(Value) /\ ClosuresNamed(s) /\ Len(s) = Len(stack) - Pops(Current)
    BY <1>1, OperandsThere
  <2>3. /\ Len(s) >= Top.stack_base
        /\ Point(Top).handler # 0 =>
              Len(s) >= Top.stack_base + TypesOf(Top)[Point(Top).handler].height - 1
    BY <1>1, RoomLeft
  <2>4. Text \in Value /\ Text.kind # "closure"
    BY SomeValues DEF Text
  <2> HIDE DEF s
  <2> QED BY <1>1, <2>1, <2>2, <2>3, <2>4, HandledSound
<1>3. CASE ~(kind \in Catchable /\ exceptions # <<>>)
  <2>1. Fail(kind)
    BY <1>3 DEF Raise
  <2> QED BY <1>1, <2>1, FailSound
<1> QED BY <1>2, <1>3

-----------------------------------------------------------------------------
(* Each action keeps the machine as its code is typed.                     *)

LEMMA AdvancedMoved ==
    ASSUME TypeOK
    PROVE  /\ Moved(Advanced, Top.ip + 1, Top.iterators)
           /\ \A its \in Seq(IteratorType) :
                 Moved(Iterating(Advanced, its), Top.ip + 1, its)
<1>1. Top.ip + 1 \in Nat \ {0}
  BY TopFacts DEF FrameType
<1> QED BY <1>1, MovedFacts DEF Advanced

\* An instruction that neither jumps nor touches iterators or handlers.
LEMMA GoesOnSound ==
    ASSUME Invariant, Invariant', Verified, AsTyped, NEW op, Plain(op),
           op \notin {"Jump", "Return", "Throw", "TryBegin", "TryEnd",
                      "IterStart", "IterEnd"},
           NEW s \in Seq(Value), ClosuresNamed(s),
           Len(s) = Len(stack) - Pops(Current) + Pushes(Current),
           Continue(s, Advanced), UNCHANGED exceptions
    PROVE  AsTyped'
<1>1. Fetch(op) /\ Current.op = op /\ status \notin Ended /\ TypeOK
  BY FetchRuns DEF Plain, Invariant
<1>2. Continues(Current)
  BY <1>1 DEF Continues
<1>3. TypesOf(Top)[Top.ip + 1].iterators = Point(Top).iterators
  BY <1>1, <1>2, NextPoint
<1>4. Len(Top.iterators) >= TypesOf(Top)[Top.ip + 1].iterators
  BY <1>1, <1>3, Here
<1> QED BY <1>1, <1>4, AdvancedMoved, AdvanceSound

LEMMA LoadSound ==
    ASSUME Invariant, Invariant', Verified, AsTyped, Load PROVE AsTyped'
<1>1. /\ Plain("LoadConstant") /\ Fetch("LoadConstant")
      /\ Current.op = "LoadConstant" /\ TypeOK /\ status \notin Ended
  BY FetchRuns DEF Load, Plain, Invariant
<1>2. Current.value \in Value
  BY <1>1, FetchFacts
<1>3. Current.value.kind = "closure" => Current.value.arg <= Len(module.functions)
  <2>1. /\ Top.function \in 1 .. Len(module.functions)
        /\ Top.ip \in 1 .. Len(CodeOf(Top.function))
        /\ Current = CodeOf(Top.function)[Top.ip]
    BY <1>1, Here
  <2> QED BY <1>1, <2>1 DEF Verified
<1>4. stack \in Seq(Value) /\ ClosuresNamed(stack)
  BY <1>1, Here
<1>5. Append(stack, Current.value) \in Seq(Value) /\ ClosuresNamed(Append(stack, Current.value))
  BY <1>2, <1>3, <1>4, NamedAppended
<1>6. Len(Append(stack, Current.value)) = Len(stack) - Pops(Current) + Pushes(Current)
  <2>1. Pops(Current) = 0 /\ Pushes(Current) = 1
    BY <1>1 DEF Pops, Pushes
  <2> QED BY <1>2, <1>4, <2>1
<1> QED BY <1>1, <1>5, <1>6, GoesOnSound DEF Load

LEMMA LoadGlobalSound ==
    ASSUME Invariant, Invariant', Verified, AsTyped, LoadGlobal PROVE AsTyped'
<1>1. /\ Plain("LoadGlobal") /\ Fetch("LoadGlobal") /\ Current.op = "LoadGlobal" /\ TypeOK
      /\ Running
  BY FetchRuns DEF LoadGlobal, Plain, Invariant
<1>2. Pops(Current) = 0 /\ Pushes(Current) = 1
  BY <1>1 DEF Pops, Pushes
<1>3. stack \in Seq(Value) /\ ClosuresNamed(stack)
  BY <1>1, FetchRuns, Here
<1>4. CASE Current.arg # 0
  <2>1. Continue(Append(stack, Int1), Advanced) /\ UNCHANGED exceptions
    BY <1>4 DEF LoadGlobal
  <2>2. Append(stack, Int1) \in Seq(Value) /\ ClosuresNamed(Append(stack, Int1))
    <3>1. Int1 \in Value /\ Int1.kind # "closure"
      BY SomeValues DEF Int1
    <3> QED BY <1>3, <3>1, NamedAppended
  <2>3. Len(Append(stack, Int1)) = Len(stack) - Pops(Current) + Pushes(Current)
    BY <1>2, <1>3
  <2> QED BY <1>1, <2>1, <2>2, <2>3, GoesOnSound
<1>5. CASE Current.arg = 0
  <2>1. Below(stack, 0) = stack
    BY <1>3 DEF Below
  <2>2. Raise("NameError", Below(stack, Pops(Current)))
    BY <1>2, <1>5, <2>1 DEF LoadGlobal
  <2> QED BY <1>1, <2>2, RaiseSound
<1> QED BY <1>4, <1>5

LEMMA DropSound ==
    ASSUME Invariant, Invariant', Verified, AsTyped, Drop PROVE AsTyped'
<1>1. PICK op \in {"Pop", "Store"} : Plain(op)
  BY DEF Drop
<1>2. Fetch(op) /\ Current.op = op /\ Running
  BY <1>1, FetchRuns DEF Plain
<1>3. Pops(Current) = 1 /\ Pushes(Current) = 0
  BY <1>2 DEF Pops, Pushes
<1>4. /\ Has(1) /\ Below(stack, 1) \in Seq(Value) /\ ClosuresNamed(Below(stack, 1))
      /\ Len(Below(stack, 1)) = Len(stack) - 1 /\ Len(stack) \in Nat
  BY <1>2, <1>3, OperandsThere DEF Invariant, TypeOK
<1>5. Len(Below(stack, 1)) = Len(stack) - Pops(Current) + Pushes(Current)
  BY <1>3, <1>4
<1> QED BY <1>1, <1>4, <1>5, GoesOnSound DEF Drop

LEMMA BinarySound ==
    ASSUME Invariant, Invariant', Verified, AsTyped, Binary PROVE AsTyped'
<1>1. Plain("Binary") /\ Fetch("Binary") /\ Current.op = "Binary" /\ Running
  BY FetchRuns DEF Binary, Plain
<1>2. Pops(Current) = 2 /\ Pushes(Current) = 1
  BY <1>1 DEF Pops, Pushes
<1>3. /\ Has(2) /\ Below(stack, 2) \in Seq(Value) /\ ClosuresNamed(Below(stack, 2))
      /\ Len(Below(stack, 2)) = Len(stack) - 2 /\ Len(stack) \in Nat
  BY <1>1, <1>2, OperandsThere DEF Invariant, TypeOK
<1>4. CASE At(stack).kind = "int" /\ At(Below(stack, 1)).kind = "int"
  <2>1. Continue(Append(Below(stack, 2), Int1), Advanced) /\ UNCHANGED exceptions
    BY <1>3, <1>4 DEF Binary
  <2>2. Append(Below(stack, 2), Int1) \in Seq(Value) /\ ClosuresNamed(Append(Below(stack, 2), Int1))
    <3>1. Int1 \in Value /\ Int1.kind # "closure"
      BY SomeValues DEF Int1
    <3> QED BY <1>3, <3>1, NamedAppended
  <2>3. Len(Append(Below(stack, 2), Int1)) = Len(stack) - Pops(Current) + Pushes(Current)
    BY <1>2, <1>3
  <2> QED BY <1>1, <2>1, <2>2, <2>3, GoesOnSound
<1>5. CASE ~(At(stack).kind = "int" /\ At(Below(stack, 1)).kind = "int")
  <2>1. Raise("TypeError", Below(stack, Pops(Current)))
    BY <1>2, <1>3, <1>5 DEF Binary
  <2> QED BY <1>1, <2>1, RaiseSound
<1> QED BY <1>4, <1>5

LEMMA BuildListSound ==
    ASSUME Invariant, Invariant', Verified, AsTyped, BuildList PROVE AsTyped'
<1> DEFINE n == Current.arg
           list == [kind |-> "list", arg |-> n]
<1>1. Plain("BuildList") /\ Fetch("BuildList") /\ Current.op = "BuildList" /\ Running /\ TypeOK
  BY FetchRuns DEF BuildList, Plain, Invariant
<1>2. Pops(Current) = n /\ Pushes(Current) = 1
  BY <1>1 DEF Pops, Pushes
<1>3. /\ Has(n) /\ Below(stack, n) \in Seq(Value) /\ ClosuresNamed(Below(stack, n))
      /\ Len(Below(stack, n)) = Len(stack) - n /\ Len(stack) \in Nat /\ n \in Nat
  BY <1>1, <1>2, OperandsThere, FetchFacts DEF TypeOK
<1>4. Continue(Append(Below(stack, n), list), Advanced) /\ UNCHANGED exceptions
  BY <1>3 DEF BuildList
<1>5. Append(Below(stack, n), list) \in Seq(Value) /\ ClosuresNamed(Append(Below(stack, n), list))
  <2>1. list \in Value /\ list.kind # "closure"
    BY <1>3, SomeValues
  <2> HIDE DEF list
  <2> QED BY <1>3, <2>1, NamedAppended
<1>6. Len(Append(Below(stack, n), list)) = Len(stack) - Pops(Current) + Pushes(Current)
  BY <1>2, <1>3
<1> QED BY <1>1, <1>4, <1>5, <1>6, GoesOnSound

LEMMA BuildDictionarySound ==
    ASSUME Invariant, Invariant', Verified, AsTyped, BuildDictionary PROVE AsTyped'
<1> DEFINE n == Current.arg
           dict == [kind |-> "dict", arg |-> n]
           rest == Below(stack, 2 * n)
<1>1. /\ Plain("BuildDictionary") /\ Fetch("BuildDictionary")
      /\ Current.op = "BuildDictionary" /\ Running /\ TypeOK
  BY FetchRuns DEF BuildDictionary, Plain, Invariant
<1>2. Pops(Current) = 2 * n /\ Pushes(Current) = 1
  BY <1>1 DEF Pops, Pushes
<1>3. /\ Has(2 * n) /\ rest \in Seq(Value) /\ ClosuresNamed(rest)
      /\ Len(rest) = Len(stack) - 2 * n /\ Len(stack) \in Nat /\ n \in Nat
  BY <1>1, <1>2, OperandsThere, FetchFacts DEF TypeOK
<1>4. CASE KeysFit(n)
  <2>1. Continue(Append(rest, dict), Advanced) /\ UNCHANGED exceptions
    BY <1>3, <1>4 DEF BuildDictionary
  <2>2. Append(rest, dict) \in Seq(Value) /\ ClosuresNamed(Append(rest, dict))
    <3>1. dict \in Value /\ dict.kind # "closure"
      BY <1>3, SomeValues
    <3> HIDE DEF dict
    <3> QED BY <1>3, <3>1, NamedAppended
  <2>3. Len(Append(rest, dict)) = Len(stack) - Pops(Current) + Pushes(Current)
    BY <1>2, <1>3
  <2> QED BY <1>1, <2>1, <2>2, <2>3, GoesOnSound
<1>5. CASE ~KeysFit(n)
  <2>1. Raise("TypeError", Below(stack, Pops(Current)))
    BY <1>2, <1>3, <1>5 DEF BuildDictionary
  <2> QED BY <1>1, <2>1, RaiseSound
<1> QED BY <1>4, <1>5

LEMMA BranchSound ==
    ASSUME Invariant, Invariant', Verified, AsTyped, Jump \/ JumpIfFalse PROVE AsTyped'
<1>1. ASSUME Jump PROVE AsTyped'
  <2>1. Plain("Jump") /\ Fetch("Jump") /\ Current.op = "Jump" /\ Running
    BY <1>1, FetchRuns DEF Jump, Plain
  <2>2. Pops(Current) = 0
    BY <2>1 DEF Pops
  <2>3. stack \in Seq(Value) /\ ClosuresNamed(stack) /\ Len(stack) = Len(stack) - Pops(Current)
    BY <2>1, <2>2, Here DEF Running, Ended
  <2> QED BY <1>1, <2>1, <2>3, JumpSound DEF Jump, Jumps
<1>2. ASSUME JumpIfFalse PROVE AsTyped'
  <2>1. Plain("JumpIfFalse") /\ Fetch("JumpIfFalse") /\ Current.op = "JumpIfFalse" /\ Running
    BY <1>2, FetchRuns DEF JumpIfFalse, Plain
  <2>2. Pops(Current) = 1 /\ Pushes(Current) = 0
    BY <2>1 DEF Pops, Pushes
  <2>3. /\ Has(1) /\ Below(stack, 1) \in Seq(Value) /\ ClosuresNamed(Below(stack, 1))
        /\ Len(Below(stack, 1)) = Len(stack) - Pops(Current) /\ Len(stack) \in Nat
    BY <2>1, <2>2, OperandsThere DEF Invariant, TypeOK
  <2>4. Len(Below(stack, 1)) = Len(stack) - Pops(Current) + Pushes(Current)
    BY <2>2, <2>3
  <2>5. CASE Truthy(At(stack))
    <3>1. Continue(Below(stack, 1), Advanced) /\ UNCHANGED exceptions
      BY <1>2, <2>3, <2>5 DEF JumpIfFalse
    <3> QED BY <2>1, <2>3, <2>4, <3>1, GoesOnSound
  <2>6. CASE ~Truthy(At(stack))
    <3>1. Continue(Below(stack, 1), MovedTo(Current.arg)) /\ UNCHANGED exceptions
      BY <1>2, <2>3, <2>6 DEF JumpIfFalse
    <3> QED BY <2>1, <2>3, <3>1, JumpSound DEF Jumps
  <2> QED BY <2>5, <2>6
<1> QED BY <1>1, <1>2

\* The machine stops on a limit, and stands at an instruction of its code.
LEMMA StopSound ==
    ASSUME Invariant, Invariant', Verified, AsTyped,
           BudgetExhausted \/ OutOfCode \/ CallTooDeep
    PROVE  AsTyped'
<1>1. CASE BudgetExhausted
  BY <1>1, FailSound DEF BudgetExhausted, Limit
<1>2. CASE OutOfCode
  <2>1. status \notin Ended /\ Top.ip > Len(CodeOf(Top.function))
    BY <1>2 DEF OutOfCode, Running, Ended
  <2>2. Top.ip \in 1 .. Len(CodeOf(Top.function)) /\ Top.function \in 1 .. Len(module.functions)
    BY <2>1, Here
  <2>3. Len(CodeOf(Top.function)) \in Nat
    BY <2>2, VerifiedFacts
  <2> QED BY <2>1, <2>2, <2>3
<1>3. CASE CallTooDeep
  BY <1>3, FailSound, FetchRuns DEF CallTooDeep, Plain, Limit
<1> QED BY <1>1, <1>2, <1>3

\* A call finds what it calls under its arguments.
LEMMA CallFinds ==
    ASSUME Invariant, Verified, AsTyped, Fetch("Call")
    PROVE  /\ Has(Current.arg + 1)
           /\ Pops(Current) = Current.arg + 1 /\ Pushes(Current) = 1
           /\ Callee \in Value
           /\ Callee.kind = "closure" => Callee.arg <= Len(module.functions)
           /\ Below(stack, Current.arg + 1) \in Seq(Value)
           /\ ClosuresNamed(Below(stack, Current.arg + 1))
           /\ Len(Below(stack, Current.arg + 1)) = Len(stack) - (Current.arg + 1)
           /\ Current.arg \in Nat
<1>1. Current.op = "Call" /\ Running /\ TypeOK /\ status \notin Ended
  BY FetchRuns DEF Invariant
<1>2. Pops(Current) = Current.arg + 1 /\ Pushes(Current) = 1
  BY <1>1 DEF Pops, Pushes
<1>3. /\ Has(Current.arg + 1) /\ Below(stack, Current.arg + 1) \in Seq(Value)
      /\ ClosuresNamed(Below(stack, Current.arg + 1))
      /\ Len(Below(stack, Current.arg + 1)) = Len(stack) - (Current.arg + 1)
  BY <1>1, <1>2, OperandsThere
<1>4. Callee \in Value /\ Current.arg \in Nat
  BY <1>1, <1>3, CalleeFacts, FetchFacts
<1>5. Callee.kind = "closure" => Callee.arg <= Len(module.functions)
  <2>1. ClosuresNamed(stack) /\ stack \in Seq(Value)
    BY <1>1, Here
  <2>2. Len(stack) - Current.arg \in 1 .. Len(stack)
    BY <1>3, <1>4, <2>1 DEF Has
  <2> QED BY <2>1, <2>2 DEF Callee, ClosuresNamed
<1> QED BY <1>2, <1>3, <1>4, <1>5

LEMMA CallNothingSound ==
    ASSUME Invariant, Invariant', Verified, AsTyped, CallNothing PROVE AsTyped'
<1>1. Plain("Call") /\ Fetch("Call")
  BY DEF CallNothing, Plain
<1>2. /\ Has(Current.arg + 1) /\ Pops(Current) = Current.arg + 1
      /\ Callee.kind = "closure" => Callee.arg <= Len(module.functions)
      /\ Callee \in Value
  BY <1>1, CallFinds
<1>3. Callee.kind # "closure"
  <2> SUFFICES ASSUME Callee.kind = "closure" PROVE FALSE
    OBVIOUS
  <2>1. Callee.arg > Len(module.functions) /\ Callee.arg <= Len(module.functions)
    BY <1>2 DEF CallNothing
  <2>2. Callee.arg \in Nat /\ Len(module.functions) \in Nat
    BY <1>2, SomeValues DEF Invariant, TypeOK
  <2> QED BY <2>1, <2>2
<1>4. Raise("TypeError", Below(stack, Pops(Current)))
  BY <1>2, <1>3 DEF CallNothing
<1> QED BY <1>1, <1>4, RaiseSound

\* An instruction hands a request to the scheduler.
LEMMA AskSound ==
    ASSUME Invariant, Invariant', Verified, AsTyped, NEW op, Fetch(op),
           op \in {"Call", "ExecuteCommand", "Await"},
           Len(stack') = Len(stack) - Pops(Current), ClosuresNamed(stack'),
           frames' = Advanced, UNCHANGED <<exceptions, error>>, request' # "none"
    PROVE  AsTyped'
<1>1. /\ Running /\ Current.op = op /\ module' = module /\ status \notin Ended
      /\ WaitsForHost' = 1 /\ TypeOK
  BY FetchRuns DEF WaitsForHost, Invariant
<1>2. Pushes(Current) = 1 /\ Continues(Current)
  BY <1>1 DEF Pushes, Continues
<1>3. /\ Top.ip + 1 \in 1 .. Len(CodeOf(Top.function))
      /\ TypesOf(Top)[Top.ip + 1].height = Point(Top).height - Pops(Current) + 1
      /\ TypesOf(Top)[Top.ip + 1].handler = Point(Top).handler
      /\ TypesOf(Top)[Top.ip + 1].iterators = Point(Top).iterators
      /\ Point(Top).handler # 0 =>
             TypesOf(Top)[Point(Top).handler].height <= Point(Top).height - Pops(Current) + 1
  BY <1>1, <1>2, NextPoint
<1>4. /\ Typed(CodeOf(Top.function), TypesOf(Top), Top.ip)
      /\ Point(Top) = TypesOf(Top)[Top.ip] /\ Current = CodeOf(Top.function)[Top.ip]
      /\ Current \in Instruction /\ Point(Top).height \in Nat /\ Top.stack_base \in Nat
      /\ Len(Top.iterators) >= Point(Top).iterators
  BY <1>1, Here
<1>5. /\ Pops(Current) \in Nat /\ Pops(Current) <= Point(Top).height
      /\ Len(stack) = Top.stack_base + Point(Top).height
  BY <1>1, <1>4, PopsType, OperandsThere DEF Typed
<1>6. Moved(frames', Top.ip + 1, Top.iterators)
  BY <1>1, AdvancedMoved
<1>7. /\ TypesOf(Top)[Top.ip + 1].height >= WaitsForHost'
      /\ Len(stack') = Top.stack_base + TypesOf(Top)[Top.ip + 1].height - WaitsForHost'
  BY <1>1, <1>3, <1>4, <1>5
<1>8. Len(Top.iterators) >= TypesOf(Top)[Top.ip + 1].iterators
  BY <1>3, <1>4
<1>9. Point(Top).handler # 0 =>
         TypesOf(Top)[Point(Top).handler].height <= TypesOf(Top)[Top.ip + 1].height
  BY <1>3
<1> QED BY <1>1, <1>3, <1>6, <1>7, <1>8, <1>9, GoSound

LEMMA CallHostSound ==
    ASSUME Invariant, Invariant', Verified, AsTyped, CallHost PROVE AsTyped'
<1>1. /\ Fetch("Call") /\ stack' = Below(stack, Current.arg + 1) /\ frames' = Advanced
      /\ UNCHANGED <<exceptions, error>> /\ request' = "host" /\ module' = module
  BY FetchRuns DEF CallHost
<1>2. /\ Pops(Current) = Current.arg + 1 /\ ClosuresNamed(Below(stack, Current.arg + 1))
      /\ Len(Below(stack, Current.arg + 1)) = Len(stack) - (Current.arg + 1)
  BY <1>1, CallFinds
<1> QED BY <1>1, <1>2, AskSound

LEMMA ExecuteCommandSound ==
    ASSUME Invariant, Invariant', Verified, AsTyped, ExecuteCommand PROVE AsTyped'
<1>1. /\ Fetch("ExecuteCommand") /\ stack' = stack /\ frames' = Advanced
      /\ UNCHANGED <<exceptions, error>> /\ request' = "command"
      /\ Current.op = "ExecuteCommand" /\ status \notin Ended
  BY FetchRuns DEF ExecuteCommand
<1>2. Pops(Current) = 0
  BY <1>1 DEF Pops
<1>3. ClosuresNamed(stack) /\ Len(stack) \in Nat
  BY <1>1, Here
<1> QED BY <1>1, <1>2, <1>3, AskSound

LEMMA AwaitSound ==
    ASSUME Invariant, Invariant', Verified, AsTyped, AwaitFuture \/ AwaitOther
    PROVE  AsTyped'
<1>1. /\ Fetch("Await") /\ Current.op = "Await" /\ Running
  BY FetchRuns DEF AwaitFuture, AwaitOther, Plain
<1>2. Pops(Current) = 1
  BY <1>1 DEF Pops
<1>3. /\ Has(1) /\ ClosuresNamed(Below(stack, 1))
      /\ Len(Below(stack, 1)) = Len(stack) - Pops(Current)
  BY <1>1, <1>2, OperandsThere
<1>4. CASE AwaitFuture
  <2>1. /\ stack' = Below(stack, 1) /\ frames' = Advanced
        /\ UNCHANGED <<exceptions, error>> /\ request' = "await"
    BY <1>4 DEF AwaitFuture
  <2> QED BY <1>1, <1>3, <2>1, AskSound
<1>5. CASE AwaitOther
  <2>1. Plain("Await") /\ Raise("TypeError", Below(stack, Pops(Current)))
    BY <1>2, <1>3, <1>5 DEF AwaitOther
  <2> QED BY <2>1, RaiseSound
<1> QED BY <1>4, <1>5

-----------------------------------------------------------------------------
(* Iterators of typed code.                                                *)

LEMMA IterStartSound ==
    ASSUME Invariant, Invariant', Verified, AsTyped, IterStart PROVE AsTyped'
<1>1. /\ Plain("IterStart") /\ Fetch("IterStart") /\ Current.op = "IterStart" /\ Running
      /\ TypeOK /\ status \notin Ended
  BY FetchRuns DEF IterStart, Plain, Invariant
<1>2. Pops(Current) = 1 /\ Pushes(Current) = 0 /\ Continues(Current)
  BY <1>1 DEF Pops, Pushes, Continues
<1>3. /\ Has(1) /\ Below(stack, 1) \in Seq(Value) /\ ClosuresNamed(Below(stack, 1))
      /\ Len(Below(stack, 1)) = Len(stack) - 1 /\ Len(stack) \in Nat
  BY <1>1, <1>2, OperandsThere DEF TypeOK
<1>4. CASE At(stack).kind \in Iterable
  <2> DEFINE it == [length |-> At(stack).arg, cursor |-> 0]
             its == Append(Top.iterators, it)
  <2>1. it \in IteratorType /\ Top.iterators \in Seq(IteratorType)
    <3>1. At(stack) \in Value
      BY <1>1, <1>3, AtFacts DEF Has, TypeOK
    <3> QED BY <1>1, <3>1, SomeValues, TopFacts DEF IteratorType, FrameType
  <2> HIDE DEF it
  <2>2. its \in Seq(IteratorType) /\ Len(its) = Len(Top.iterators) + 1
    BY <2>1
  <2>3. Continue(Below(stack, 1), Iterating(Advanced, its)) /\ UNCHANGED exceptions
    BY <1>3, <1>4 DEF IterStart, it
  <2> HIDE DEF its
  <2>4. Moved(Iterating(Advanced, its), Top.ip + 1, its)
    BY <1>1, <2>2, AdvancedMoved
  <2>5. Len(its) >= TypesOf(Top)[Top.ip + 1].iterators
    <3>1. TypesOf(Top)[Top.ip + 1].iterators = Point(Top).iterators + 1
      BY <1>1, <1>2, NextPoint
    <3>2. Len(Top.iterators) >= Point(Top).iterators /\ Point(Top).iterators \in Nat
      BY <1>1, Here
    <3> QED BY <2>1, <2>2, <3>1, <3>2
  <2>6. Len(Below(stack, 1)) = Len(stack) - Pops(Current) + Pushes(Current)
    BY <1>2, <1>3
  <2> QED BY <1>1, <1>3, <2>3, <2>4, <2>5, <2>6, AdvanceSound
<1>5. CASE At(stack).kind \notin Iterable
  <2>1. Raise("TypeError", Below(stack, Pops(Current)))
    BY <1>2, <1>3, <1>5 DEF IterStart
  <2> QED BY <1>1, <2>1, RaiseSound
<1> QED BY <1>4, <1>5

\* The iterator that an instruction needs is there.
LEMMA IteratorThere ==
    ASSUME Invariant, Verified, AsTyped, NEW op \in {"IterNext", "IterEnd"}, Fetch(op)
    PROVE  /\ Top.iterators \in Seq(IteratorType) /\ Len(Top.iterators) \in Nat \ {0}
           /\ Top.iterators # <<>>
           /\ Len(Top.iterators) >= Point(Top).iterators
           /\ Point(Top).iterators \in Nat \ {0}
<1>1. Current.op = op /\ status \notin Ended /\ TypeOK
  BY FetchRuns DEF Invariant
<1>2. /\ Typed(CodeOf(Top.function), TypesOf(Top), Top.ip)
      /\ Point(Top) = TypesOf(Top)[Top.ip] /\ Current = CodeOf(Top.function)[Top.ip]
      /\ Len(Top.iterators) >= Point(Top).iterators /\ Point(Top).iterators \in Nat
      /\ Top \in FrameType
  BY <1>1, Here
<1>3. Point(Top).iterators > 0
  BY <1>1, <1>2 DEF Typed
<1>4. Top.iterators \in Seq(IteratorType)
  BY <1>2 DEF FrameType
<1> QED BY <1>2, <1>3, <1>4

LEMMA IterNextSound ==
    ASSUME Invariant, Invariant', Verified, AsTyped, IterNext PROVE AsTyped'
<1>1. /\ Plain("IterNext") /\ Fetch("IterNext") /\ Current.op = "IterNext" /\ Running
      /\ TypeOK /\ status \notin Ended
  BY FetchRuns DEF IterNext, Plain, Invariant
<1>2. Pops(Current) = 0 /\ Pushes(Current) = 1 /\ Continues(Current)
  BY <1>1 DEF Pops, Pushes, Continues
<1>3. /\ Top.iterators \in Seq(IteratorType) /\ Len(Top.iterators) \in Nat \ {0}
      /\ Top.iterators # <<>> /\ Len(Top.iterators) >= Point(Top).iterators
  BY <1>1, IteratorThere
<1>4. stack \in Seq(Value) /\ Len(stack) \in Nat /\ ClosuresNamed(stack)
  BY <1>1, Here
<1> DEFINE it == At(Top.iterators)
           its == Append(Below(Top.iterators, 1), [it EXCEPT !.cursor = @ + 1])
<1>5. CASE it.cursor < it.length
  <2>1. /\ Continue(Append(stack, Int1), Iterating(Advanced, its)) /\ UNCHANGED exceptions
    BY <1>3, <1>5 DEF IterNext
  <2>2. its \in Seq(IteratorType) /\ Len(its) = Len(Top.iterators)
    <3>1. /\ it \in IteratorType /\ Below(Top.iterators, 1) \in Seq(IteratorType)
          /\ Len(Below(Top.iterators, 1)) = Len(Top.iterators) - 1
      <4>1. 1 \in 0 .. Len(Top.iterators) /\ Len(Top.iterators) > 0
        BY <1>3
      <4>2. it \in IteratorType
        BY <1>3, <4>1, AtFacts
      <4> QED BY <1>3, <4>1, <4>2, BelowFacts
    <3> HIDE DEF it
    <3>2. it.cursor + 1 \in Nat
      BY <3>1 DEF IteratorType
    <3>3. [it EXCEPT !.cursor = @ + 1] \in IteratorType
      BY <3>1, <3>2, Zenon DEF IteratorType
    <3> QED BY <1>3, <3>1, <3>3
  <2> HIDE DEF its
  <2>3. Moved(Iterating(Advanced, its), Top.ip + 1, its)
    BY <1>1, <2>2, AdvancedMoved
  <2>4. Len(its) >= TypesOf(Top)[Top.ip + 1].iterators
    <3>1. TypesOf(Top)[Top.ip + 1].iterators = Point(Top).iterators
      BY <1>1, <1>2, NextPoint
    <3> QED BY <1>3, <2>2, <3>1
  <2>5. Append(stack, Int1) \in Seq(Value) /\ ClosuresNamed(Append(stack, Int1))
    <3>1. Int1 \in Value /\ Int1.kind # "closure"
      BY SomeValues DEF Int1
    <3> QED BY <1>4, <3>1, NamedAppended
  <2>6. Len(Append(stack, Int1)) = Len(stack) - Pops(Current) + Pushes(Current)
    BY <1>2, <1>4
  <2> QED BY <1>1, <2>1, <2>3, <2>4, <2>5, <2>6, AdvanceSound
<1>6. CASE ~(it.cursor < it.length)
  <2>1. Continue(stack, MovedTo(Current.arg)) /\ UNCHANGED exceptions
    BY <1>3, <1>6 DEF IterNext
  <2>2. Len(stack) = Len(stack) - Pops(Current)
    BY <1>2, <1>4
  <2> QED BY <1>1, <1>4, <2>1, <2>2, JumpSound DEF Jumps
<1> QED BY <1>5, <1>6

LEMMA IterEndSound ==
    ASSUME Invariant, Invariant', Verified, AsTyped, IterEnd PROVE AsTyped'
<1>1. /\ Plain("IterEnd") /\ Fetch("IterEnd") /\ Current.op = "IterEnd" /\ Running
      /\ TypeOK /\ status \notin Ended
  BY FetchRuns DEF IterEnd, Plain, Invariant
<1>2. Pops(Current) = 0 /\ Pushes(Current) = 0 /\ Continues(Current)
  BY <1>1 DEF Pops, Pushes, Continues
<1>3. /\ Top.iterators \in Seq(IteratorType) /\ Len(Top.iterators) \in Nat \ {0}
      /\ Top.iterators # <<>> /\ Len(Top.iterators) >= Point(Top).iterators
      /\ Point(Top).iterators \in Nat
  BY <1>1, IteratorThere
<1>4. stack \in Seq(Value) /\ Len(stack) \in Nat /\ ClosuresNamed(stack)
  BY <1>1, Here
<1> DEFINE its == Below(Top.iterators, 1)
<1>5. Continue(stack, Iterating(Advanced, its)) /\ UNCHANGED exceptions
  BY <1>3 DEF IterEnd
<1>6. its \in Seq(IteratorType) /\ Len(its) = Len(Top.iterators) - 1
  <2>1. 1 \in 0 .. Len(Top.iterators)
    BY <1>3
  <2> QED BY <1>3, <2>1, BelowFacts
<1> HIDE DEF its
<1>7. Moved(Iterating(Advanced, its), Top.ip + 1, its)
  BY <1>1, <1>6, AdvancedMoved
<1>8. Len(its) >= TypesOf(Top)[Top.ip + 1].iterators
  <2>1. TypesOf(Top)[Top.ip + 1].iterators = Point(Top).iterators - 1
    BY <1>1, <1>2, NextPoint
  <2> QED BY <1>3, <1>6, <2>1
<1>9. Len(stack) = Len(stack) - Pops(Current) + Pushes(Current)
  BY <1>2, <1>4
<1> QED BY <1>1, <1>4, <1>5, <1>7, <1>8, <1>9, AdvanceSound

-----------------------------------------------------------------------------
(* Throws and answers.                                                     *)

LEMMA ThrowSound ==
    ASSUME Invariant, Invariant', Verified, AsTyped, Throw PROVE AsTyped'
<1> DEFINE s == Below(stack, 1)
           v == At(stack)
<1>1. /\ Plain("Throw") /\ Fetch("Throw") /\ Current.op = "Throw" /\ Running
      /\ TypeOK /\ status \notin Ended /\ module' = module /\ request' = "none"
  BY FetchRuns DEF Throw, Plain, Invariant, Running
<1>2. Pops(Current) = 1
  BY <1>1 DEF Pops
<1>3. Has(1) /\ s \in Seq(Value) /\ ClosuresNamed(s)
  BY <1>1, <1>2, OperandsThere
<1>4. CASE Fail("UserThrown") \/ Fail(Limit)
  BY <1>1, <1>4, FailSound DEF Limit
<1>5. CASE exceptions # <<>> /\ Handle(At(exceptions), s, v)
  <2>1. v \in Value /\ (v.kind = "closure" => v.arg <= Len(module.functions))
    <3>1. stack \in Seq(Value) /\ ClosuresNamed(stack) /\ Len(stack) \in 1 .. Len(stack)
      BY <1>1, <1>3, Here DEF Has
    <3> QED BY <3>1, AtFacts DEF ClosuresNamed, At
  <2>2. /\ Len(s) >= Top.stack_base
        /\ Point(Top).handler # 0 =>
              Len(s) >= Top.stack_base + TypesOf(Top)[Point(Top).handler].height - 1
    BY <1>1, <1>2, RoomLeft
  <2>3. Len(exceptions) > 0
    BY <1>1, <1>5 DEF TypeOK
  <2> HIDE DEF s, v
  <2> QED BY <1>1, <1>3, <1>5, <2>1, <2>2, <2>3, HandledSound
<1> QED BY <1>3, <1>4, <1>5 DEF Throw

LEMMA SuspendSound ==
    ASSUME Invariant, Invariant', Verified, AsTyped, SuspendForOperation PROVE AsTyped'
<1>1. /\ module' = module /\ status' \notin Ended /\ WaitsForHost' = WaitsForHost
      /\ UNCHANGED <<stack, frames, exceptions, error>> /\ request # "none"
  BY DEF SuspendForOperation, Ended, WaitsForHost
<1>2. status \notin Ended
  BY <1>1, WaitingHasRoom
<1> QED BY <1>1, <1>2, AsTypedNext DEF AsTyped

LEMMA AnsweredSound ==
    ASSUME Invariant, Invariant', Verified, AsTyped, request # "none",
           NEW v \in Value, v.kind # "closure", NEW bad, Answered(v, bad)
    PROVE  AsTyped'
<1>1. /\ module' = module /\ request' = "none" /\ WaitsForHost = 1 /\ WaitsForHost' = 0
      /\ status \notin Ended /\ TypeOK
  BY WaitingHasRoom DEF Answered, WaitsForHost, Invariant
<1>2. /\ stack \in Seq(Value) /\ ClosuresNamed(stack) /\ Len(stack) \in Nat
      /\ Len(stack) = Top.stack_base + Point(Top).height - WaitsForHost
      /\ Point(Top).height >= WaitsForHost
      /\ Point(Top).height \in Nat /\ Top.stack_base \in Nat
      /\ Point(Top) = TypesOf(Top)[Top.ip]
      /\ Top.ip \in 1 .. Len(CodeOf(Top.function))
      /\ Len(Top.iterators) >= Point(Top).iterators
      /\ Shape(frames, exceptions) /\ Len(frames) \in 1 .. Len(frames)
      /\ Sound(frames, exceptions, Len(stack), WaitsForHost)
      /\ Top = frames[Len(frames)] /\ Top.function \in 1 .. Len(module.functions)
  BY <1>1, Here
<1>3. Len(stack) = Top.stack_base + Point(Top).height - 1 /\ Point(Top).height >= 1
  BY <1>1, <1>2
<1>4. ASSUME Continue(Append(stack, v), frames), UNCHANGED exceptions PROVE AsTyped'
  <2>1. CASE Len(Append(stack, v)) <= MaxStack
    <3>1. stack' = Append(stack, v) /\ frames' = frames /\ error' = error
      BY <1>4, <2>1 DEF Continue
    <3>2. Len(stack') = Len(stack) + 1 /\ ClosuresNamed(stack')
      BY <1>2, <3>1, NamedAppended
    <3>3. Moved(frames', Top.ip, Top.iterators)
      BY <1>2, <3>1 DEF Moved
    <3>4. /\ TypesOf(Top)[Top.ip].height >= WaitsForHost'
          /\ Len(stack') = Top.stack_base + TypesOf(Top)[Top.ip].height - WaitsForHost'
      BY <1>1, <1>2, <1>3, <3>2
    <3>5. ~(WaitsForHost' = 1)
      BY <1>1
    <3>6. /\ Len(Top.iterators) >= TypesOf(Top)[Top.ip].iterators
          /\ TypesOf(Top)[Top.ip].handler = Point(Top).handler
      BY <1>2
    <3> QED BY <1>1, <1>2, <1>4, <3>1, <3>2, <3>3, <3>4, <3>5, <3>6, GoSound
  <2>2. CASE ~(Len(Append(stack, v)) <= MaxStack)
    <3>1. status' \in Ended /\ error' # "Internal"
      BY <1>4, <2>2 DEF Continue, Ended, Limit
    <3> QED BY <1>1, <3>1, AsTypedNext
  <2> QED BY <2>1, <2>2
<1>5. ASSUME Raise("HostError", stack) PROVE AsTyped'
  <2>1. CASE exceptions # <<>>
    <3>1. Handle(At(exceptions), stack, Text) /\ Len(exceptions) > 0
      BY <1>1, <1>5, <2>1 DEF Raise, Catchable, TypeOK
    <3>2. Len(stack) >= Top.stack_base
      BY <1>2, <1>3
    <3>3. ASSUME Point(Top).handler # 0
          PROVE  Len(stack) >= Top.stack_base + TypesOf(Top)[Point(Top).handler].height - 1
      <4> DEFINE h == TypesOf(Top)[Point(Top).handler].height
      <4>1. h - 1 <= Point(Top).height - 1
        BY <1>1, <1>2, <3>3 DEF Sound, RoomFits, Due
      <4>2. h \in Nat
        <5>1. Top.ip <= Len(CodeOf(Top.function))
          BY <1>2, VerifiedFacts
        <5> QED BY <1>2, <3>3, <5>1, HandlerPoint
      <4> HIDE DEF h
      <4>3. Len(stack) >= Top.stack_base + h - 1
        BY <1>2, <1>3, <4>1, <4>2
      <4> QED BY <4>3 DEF h
    <3>4. Text \in Value /\ Text.kind # "closure"
      BY SomeValues DEF Text
    <3> QED BY <1>1, <1>2, <3>1, <3>2, <3>3, <3>4, HandledSound
  <2>2. CASE exceptions = <<>>
    BY <1>1, <1>5, <2>2, FailSound DEF Raise
  <2> QED BY <2>1, <2>2
<1> QED BY <1>4, <1>5 DEF Answered

LEMMA AnswersSound ==
    ASSUME Invariant, Invariant', Verified, AsTyped, Answers PROVE AsTyped'
<1>1. CASE CompleteCommand \/ ResumeAwait
  <2>1. request # "none" /\ Answered(Null, 1) /\ Null \in Value /\ Null.kind # "closure"
    BY <1>1, SomeValues DEF CompleteCommand, ResumeAwait, Null
  <2> QED BY <2>1, AnsweredSound
<1>2. CASE ResumeHostCall
  <2> DEFINE v == [kind |-> "future", arg |-> answer]
  <2>1. request # "none" /\ Answered(v, 2)
    BY <1>2 DEF ResumeHostCall
  <2>2. v \in Value /\ v.kind # "closure"
    BY SomeValues DEF Invariant, TypeOK
  <2> HIDE DEF v
  <2> QED BY <2>1, <2>2, AnsweredSound
<1>3. CASE SuspendForOperation
  BY <1>3, SuspendSound
<1> QED BY <1>1, <1>2, <1>3 DEF Answers

-----------------------------------------------------------------------------
(* Try blocks of typed code.                                               *)

\* A new handler, of the top frame, under which that frame goes on.
LEMMA TryBeginFits ==
    ASSUME NEW fs, NEW exs, Shape(fs, exs), HandlersFit(fs, exs),
           NEW gs, Len(gs) = Len(fs),
           \A i \in 1 .. Len(fs) :
              /\ TypesOf(gs[i]) = TypesOf(fs[i])
              /\ gs[i].stack_base = fs[i].stack_base
              /\ i # Len(fs) => gs[i] = fs[i],
           NEW e \in HandlerType, e.frame_depth = Len(fs),
           e.stack_depth = fs[Len(fs)].stack_base
                             + TypesOf(fs[Len(fs)])[e.handler_ip].height - 1,
           TypesOf(fs[Len(fs)])[e.handler_ip].handler = Point(fs[Len(fs)]).handler,
           Point(gs[Len(fs)]).handler = e.handler_ip
    PROVE  HandlersFit(gs, Append(exs, e))
<1> DEFINE N == Len(exs)
           L == Len(fs)
           all == Append(exs, e)
<1>1. /\ exs \in Seq(HandlerType) /\ N \in Nat /\ L \in Nat \ {0} /\ L \in 1 .. L
      /\ \A x \in 1 .. N : exs[x].frame_depth \in 1 .. L
      /\ \A x, y \in 1 .. N : x < y => exs[x].frame_depth <= exs[y].frame_depth
  BY DEF Shape
<1>2. /\ Len(all) = N + 1 /\ all[N + 1] = e /\ \A x \in 1 .. N : all[x] = exs[x]
  BY <1>1
<1> HIDE DEF all
<1>3. ASSUME NEW x \in 1 .. (N + 1)
      PROVE  LET c == all[x]
                 g == gs[c.frame_depth]
                 q == TypesOf(g)[c.handler_ip]
             IN  /\ c.stack_depth = g.stack_base + q.height - 1
                 /\ q.handler = Outer(all, x)
                 /\ (x = N + 1 \/ all[x + 1].frame_depth # c.frame_depth)
                       => Point(g).handler = c.handler_ip
  <2>1. CASE x = N + 1
    <3>1. Point(fs[L]).handler = Outer(all, N + 1)
      <4>1. CASE N > 0 /\ exs[N].frame_depth = L
        <5>1. N \in 1 .. N /\ N + 1 > 1 /\ (N + 1) - 1 = N
          BY <1>1, <4>1
        <5>2. Point(fs[L]).handler = exs[N].handler_ip
          BY <4>1, <5>1 DEF HandlersFit
        <5>3. all[(N + 1) - 1].frame_depth = all[N + 1].frame_depth
          BY <1>2, <4>1, <5>1
        <5> QED BY <1>2, <5>1, <5>2, <5>3 DEF Outer
      <4>2. CASE ~(N > 0 /\ exs[N].frame_depth = L)
        <5>1. \A y \in 1 .. N : exs[y].frame_depth # L
          <6> TAKE y \in 1 .. N
          <6>1. N \in 1 .. N /\ N > 0 /\ (y = N \/ y < N)
            BY <1>1
          <6>2. exs[N].frame_depth # L /\ exs[N].frame_depth <= L /\ exs[N].frame_depth \in Nat
            BY <1>1, <4>2, <6>1
          <6>3. exs[y].frame_depth <= exs[N].frame_depth /\ exs[y].frame_depth \in Nat
            BY <1>1, <6>1, <6>2
          <6> QED BY <1>1, <6>2, <6>3
        <5>2. Point(fs[L]).handler = 0
          BY <1>1, <5>1 DEF HandlersFit
        <5>3. N + 1 > 1 => all[(N + 1) - 1].frame_depth # all[N + 1].frame_depth
          <6> SUFFICES ASSUME N + 1 > 1 PROVE all[(N + 1) - 1].frame_depth # L
            BY <1>2
          <6>1. (N + 1) - 1 = N /\ N \in 1 .. N
            BY <1>1
          <6> QED BY <1>2, <5>1, <6>1
        <5> QED BY <5>2, <5>3 DEF Outer
      <4> QED BY <4>1, <4>2
    <3> QED BY <1>1, <1>2, <2>1, <3>1
  <2>2. CASE x # N + 1
    <3> DEFINE c == exs[x]
    <3>1. x \in 1 .. N /\ all[x] = c /\ c.frame_depth \in 1 .. L
      BY <1>1, <1>2, <2>2
    <3>2. Outer(all, x) = Outer(exs, x)
      <4>1. x > 1 => x - 1 \in 1 .. N
        BY <1>1, <3>1
      <4> QED BY <1>2, <3>1, <4>1 DEF Outer
    <3>3. ASSUME all[x + 1].frame_depth # c.frame_depth
          PROVE  Point(gs[c.frame_depth]).handler = c.handler_ip
      <4>1. x = N \/ (x + 1 \in 1 .. N /\ all[x + 1] = exs[x + 1])
        BY <1>1, <1>2, <3>1
      <4>2. x = N \/ exs[x + 1].frame_depth # c.frame_depth
        BY <3>3, <4>1
      <4>3. Point(fs[c.frame_depth]).handler = c.handler_ip
        BY <3>1, <4>2 DEF HandlersFit
      <4>4. c.frame_depth # L
        <5> SUFFICES ASSUME c.frame_depth = L PROVE FALSE
          OBVIOUS
        <5>1. x # N
          BY <1>2, <3>3
        <5>2. x + 1 \in 1 .. N /\ x < x + 1
          BY <1>1, <3>1, <5>1
        <5>3. exs[x + 1].frame_depth >= L /\ exs[x + 1].frame_depth \in 1 .. L
          BY <1>1, <3>1, <5>2
        <5> QED BY <1>1, <1>2, <3>3, <5>2, <5>3
      <4> QED BY <3>1, <4>3, <4>4
    <3> QED BY <3>1, <3>2, <3>3, <2>2 DEF HandlersFit
  <2> QED BY <2>1, <2>2
<1>4. ASSUME NEW i \in 1 .. L, \A x \in 1 .. (N + 1) : all[x].frame_depth # i
      PROVE  Point(gs[i]).handler = 0
  <2>1. i # L
    <3>1. N + 1 \in 1 .. (N + 1)
      BY <1>1
    <3> QED BY <1>2, <1>4, <3>1
  <2>2. \A x \in 1 .. N : exs[x].frame_depth # i
    <3> TAKE x \in 1 .. N
    <3>1. x \in 1 .. (N + 1)
      BY <1>1
    <3> QED BY <1>2, <1>4, <3>1
  <2> QED BY <2>1, <2>2 DEF HandlersFit
<1> QED BY <1>2, <1>3, <1>4 DEF HandlersFit, all

\* What TryBegin and TryEnd do to the frames, whatever they do to handlers.
LEMMA TryMoves ==
    ASSUME Invariant, Invariant', Verified, AsTyped,
           NEW op \in {"TryBegin", "TryEnd"}, Fetch(op)
    PROVE  LET outer == IF Point(Top).handler = 0 THEN 0
                        ELSE TypesOf(Top)[Point(Top).handler].handler
               L == Len(frames)
           IN  /\ Len(Advanced) = L
               /\ \A i \in 1 .. L :
                     /\ TypesOf(Advanced[i]) = TypesOf(frames[i])
                     /\ Advanced[i].stack_base = frames[i].stack_base
                     /\ i # L => Advanced[i] = frames[i]
               /\ Point(Advanced[L]).handler = Following(Point(Top), Current, outer).handler
               /\ Shape(Advanced, exceptions') =>
                    /\ FramesFit(Advanced, Len(stack), 0)
                    /\ RoomFits(Advanced, 0)
                    /\ BasesRise(Advanced)
<1> DEFINE h == Point(Top).handler
           outer == IF h = 0 THEN 0 ELSE TypesOf(Top)[h].handler
           L == Len(frames)
           gs == Advanced
<1>1. /\ Current.op = op /\ status \notin Ended /\ TypeOK /\ WaitsForHost = 0
  BY FetchRuns DEF Invariant
<1>2. /\ Typed(CodeOf(Top.function), TypesOf(Top), Top.ip)
      /\ Point(Top) = TypesOf(Top)[Top.ip] /\ Current = CodeOf(Top.function)[Top.ip]
      /\ Point(Top).height \in Nat /\ Point(Top).iterators \in Nat /\ Top.stack_base \in Nat
      /\ Len(Top.iterators) >= Point(Top).iterators
      /\ Len(stack) = Top.stack_base + Point(Top).height - WaitsForHost
      /\ Shape(frames, exceptions) /\ L \in 1 .. L /\ Top = frames[L]
      /\ Sound(frames, exceptions, Len(stack), WaitsForHost)
      /\ Top.function \in 1 .. Len(module.functions) /\ Len(stack) \in Nat
      /\ Top.ip \in 1 .. Len(CodeOf(Top.function))
  BY <1>1, Here
<1>3. /\ Continues(Current) /\ Pops(Current) = 0 /\ Pushes(Current) = 0
  BY <1>1 DEF Continues, Pops, Pushes
<1>4. /\ Top.ip < Len(CodeOf(Top.function))
      /\ TypesOf(Top)[Top.ip + 1] = Following(Point(Top), Current, outer)
  BY <1>2, <1>3 DEF Typed
<1>5. /\ Following(Point(Top), Current, outer).height = Point(Top).height
      /\ Following(Point(Top), Current, outer).iterators = Point(Top).iterators
  BY <1>1, <1>2, <1>3 DEF Following
<1>6. Moved(gs, Top.ip + 1, Top.iterators)
  BY <1>1, AdvancedMoved
<1> HIDE DEF gs
<1>7. /\ Len(gs) = L /\ \A i \in 1 .. L : i < L => gs[i] = frames[i]
      /\ gs[L].function = Top.function /\ gs[L].stack_base = Top.stack_base
      /\ gs[L].ip = Top.ip + 1 /\ gs[L].iterators = Top.iterators
  BY <1>6 DEF Moved
<1>8. TypesOf(gs[L]) = TypesOf(Top) /\ Point(gs[L]) = Following(Point(Top), Current, outer)
  BY <1>4, <1>7 DEF TypesOf, Point
<1>9. L \in Nat /\ \A i \in 1 .. L : i # L => i < L
  BY <1>2
<1>10. /\ \A i \in 1 .. L :
              /\ TypesOf(gs[i]) = TypesOf(frames[i])
              /\ gs[i].stack_base = frames[i].stack_base
              /\ i # L => gs[i] = frames[i]
  BY <1>2, <1>7, <1>8, <1>9
<1>11. ASSUME Shape(gs, exceptions')
       PROVE  FramesFit(gs, Len(stack), 0) /\ RoomFits(gs, 0) /\ BasesRise(gs)
  <2>1. gs[L].ip <= Len(CodeOf(gs[L].function))
    <3>1. Len(CodeOf(Top.function)) \in Nat
      BY <1>2, VerifiedFacts
    <3> QED BY <1>2, <1>4, <1>7, <3>1
  <2>2. /\ Len(gs[L].iterators) >= Point(gs[L]).iterators
        /\ Point(gs[L]).height >= 0
        /\ Len(stack) = frames[L].stack_base + Point(gs[L]).height - 0
    <3>1. /\ Point(gs[L]).height = Point(Top).height
          /\ Point(gs[L]).iterators = Point(Top).iterators
      BY <1>5, <1>8
    <3>2. Len(stack) = Top.stack_base + Point(Top).height - 0
      BY <1>1, <1>2
    <3>3. Point(Top).height >= 0
      BY <1>2
    <3> QED BY <1>2, <1>7, <3>1, <3>2, <3>3
  <2>3. ASSUME Point(gs[L]).handler # 0
        PROVE  TypesOf(gs[L])[Point(gs[L]).handler].height - 1 <= Point(gs[L]).height - 0
    <3>1. /\ TypesOf(gs[L])[Point(gs[L]).handler].height \in Nat
          /\ TypesOf(gs[L])[Point(gs[L]).handler].height <= Point(gs[L]).height + 1
          /\ Point(gs[L]).height \in Nat
      <4>1. L \in 1 .. Len(gs)
        BY <1>2, <1>7
      <4> QED BY <1>11, <2>1, <2>3, <4>1, HandlerPoint, PointFacts
    <3> QED BY <3>1
  <2> QED BY <1>2, <1>7, <2>1, <2>2, <2>3, MoveFits
<1> QED BY <1>7, <1>8, <1>10, <1>11 DEF gs

\* The machine goes on, or stops at the limit.
LEMMA ContinueSound ==
    ASSUME module' = module, error # "Internal", NEW s, NEW fs, Continue(s, fs),
           (stack' = s /\ frames' = fs) =>
              /\ Sound(frames', exceptions', Len(stack'), WaitsForHost')
              /\ ClosuresNamed(stack')
    PROVE  AsTyped'
BY AsTypedNext DEF Continue, Ended, Limit

LEMMA TryBeginSound ==
    ASSUME Invariant, Invariant', Verified, AsTyped, TryBegin PROVE AsTyped'
<1> DEFINE e == [frame_depth |-> Len(frames), stack_depth |-> Len(stack),
                 handler_ip |-> Current.arg]
           L == Len(frames)
           h == Current.arg
<1>1. /\ Plain("TryBegin") /\ Fetch("TryBegin") /\ Current.op = "TryBegin" /\ Running
      /\ TypeOK /\ status \notin Ended /\ module' = module /\ WaitsForHost' = 0
      /\ WaitsForHost = 0
  BY FetchRuns DEF TryBegin, Plain, Invariant, Running, WaitsForHost
<1>2. /\ Typed(CodeOf(Top.function), TypesOf(Top), Top.ip)
      /\ Point(Top) = TypesOf(Top)[Top.ip] /\ Current = CodeOf(Top.function)[Top.ip]
      /\ Point(Top) \in PointType /\ Point(Top).height \in Nat /\ Top.stack_base \in Nat
      /\ Len(stack) = Top.stack_base + Point(Top).height - WaitsForHost
      /\ Shape(frames, exceptions) /\ L \in 1 .. L /\ Top = frames[L]
      /\ Sound(frames, exceptions, Len(stack), WaitsForHost)
      /\ Len(stack) \in Nat /\ error # "Internal" /\ ClosuresNamed(stack)
  BY <1>1, Here
<1>3. h \in Nat \ {0}
  BY <1>1, FetchFacts DEF Jumps
<1>4. TypesOf(Top)[h] = AtTarget(Point(Top), Current)
  BY <1>1, <1>2 DEF Typed, Jumps
<1>5. /\ TypesOf(Top)[h].height = Point(Top).height + 1
      /\ TypesOf(Top)[h].handler = Point(Top).handler
  BY <1>1, <1>2, <1>4 DEF AtTarget, PointType
<1>6. /\ Len(Advanced) = L
      /\ \A i \in 1 .. L :
            /\ TypesOf(Advanced[i]) = TypesOf(frames[i])
            /\ Advanced[i].stack_base = frames[i].stack_base
            /\ i # L => Advanced[i] = frames[i]
      /\ Point(Advanced[L]).handler = h
      /\ Shape(Advanced, exceptions') =>
            FramesFit(Advanced, Len(stack), 0) /\ RoomFits(Advanced, 0) /\ BasesRise(Advanced)
  BY <1>1, TryMoves DEF Following
<1>7. exceptions' = Append(exceptions, e) /\ Continue(stack, Advanced)
  BY DEF TryBegin
<1>8. /\ e \in HandlerType /\ e.frame_depth = L /\ e.handler_ip = h
      /\ e.stack_depth = Top.stack_base + TypesOf(Top)[h].height - 1
  <2>1. e.frame_depth = L /\ e.handler_ip = h /\ e.stack_depth = Len(stack)
    OBVIOUS
  <2>2. e \in HandlerType
    <3>1. L \in Nat \ {0}
      BY <1>2 DEF Shape
    <3> QED BY <1>2, <1>3, <3>1 DEF HandlerType
  <2> HIDE DEF e, h
  <2>3. Len(stack) = Top.stack_base + TypesOf(Top)[h].height - 1
    BY <1>1, <1>2, <1>5
  <2> QED BY <2>1, <2>2, <2>3
<1> HIDE DEF e, h
<1>9. HandlersFit(Advanced, exceptions')
  <2>1. HandlersFit(frames, exceptions)
    BY <1>2 DEF Sound
  <2> QED BY <1>2, <1>5, <1>6, <1>7, <1>8, <2>1, TryBeginFits
<1>10. ASSUME stack' = stack, frames' = Advanced
       PROVE  Sound(frames', exceptions', Len(stack'), WaitsForHost') /\ ClosuresNamed(stack')
  <2>1. Shape(Advanced, exceptions')
    BY <1>1, <1>10, ShapeNext
  <2> QED BY <1>1, <1>2, <1>6, <1>9, <1>10, <2>1 DEF Sound
<1> QED BY <1>1, <1>2, <1>7, <1>10, ContinueSound

LEMMA TryEndSound ==
    ASSUME Invariant, Invariant', Verified, AsTyped, TryEnd PROVE AsTyped'
<1> DEFINE L == Len(frames)
           N == Len(exceptions)
           h == Point(Top).handler
<1>1. /\ Plain("TryEnd") /\ Fetch("TryEnd") /\ Current.op = "TryEnd" /\ Running
      /\ TypeOK /\ status \notin Ended /\ module' = module /\ WaitsForHost' = 0
      /\ WaitsForHost = 0
  BY FetchRuns DEF TryEnd, Plain, Invariant, Running, WaitsForHost
<1>2. /\ Typed(CodeOf(Top.function), TypesOf(Top), Top.ip)
      /\ Point(Top) = TypesOf(Top)[Top.ip] /\ Current = CodeOf(Top.function)[Top.ip]
      /\ Shape(frames, exceptions) /\ L \in 1 .. L /\ Top = frames[L]
      /\ Sound(frames, exceptions, Len(stack), WaitsForHost)
      /\ Len(stack) \in Nat /\ error # "Internal" /\ ClosuresNamed(stack)
  BY <1>1, Here
<1>3. h # 0
  BY <1>1, <1>2 DEF Typed
<1>4. /\ N \in Nat /\ L \in Nat
      /\ \A x \in 1 .. N : exceptions[x].frame_depth \in 1 .. L
      /\ \A x, y \in 1 .. N : x < y => exceptions[x].frame_depth <= exceptions[y].frame_depth
      /\ HandlersFit(frames, exceptions)
  BY <1>2 DEF Shape, Sound
<1>5. N \in 1 .. N /\ exceptions[N].frame_depth = L
  <2>1. PICK x \in 1 .. N : exceptions[x].frame_depth = L
    BY <1>2, <1>3, <1>4 DEF HandlersFit
  <2>2. N \in 1 .. N /\ (x = N \/ x < N)
    BY <1>4
  <2>3. exceptions[N].frame_depth \in 1 .. L /\ exceptions[N].frame_depth >= L
    BY <1>4, <2>1, <2>2
  <2> QED BY <1>4, <2>2, <2>3
<1>6. TypesOf(Top)[h].handler = Outer(exceptions, N)
  BY <1>2, <1>4, <1>5 DEF HandlersFit
<1>7. /\ Len(Advanced) = L
      /\ \A i \in 1 .. L :
            /\ TypesOf(Advanced[i]) = TypesOf(frames[i])
            /\ Advanced[i].stack_base = frames[i].stack_base
            /\ i # L => Advanced[i] = frames[i]
      /\ Point(Advanced[L]).handler = TypesOf(Top)[h].handler
      /\ Shape(Advanced, exceptions') =>
            FramesFit(Advanced, Len(stack), 0) /\ RoomFits(Advanced, 0) /\ BasesRise(Advanced)
  BY <1>1, <1>3, TryMoves DEF Following
<1>8. exceptions' = Below(exceptions, 1) /\ Continue(stack, Advanced)
  <2>1. exceptions # <<>>
    BY <1>5
  <2> QED BY <2>1 DEF TryEnd
<1>9. HandlersFit(Advanced, exceptions')
  <2>1. N > 0 /\ L = exceptions[N].frame_depth
    BY <1>4, <1>5
  <2> QED BY <1>2, <1>4, <1>6, <1>7, <1>8, <2>1, LastHandlerGone
<1>10. ASSUME stack' = stack, frames' = Advanced
       PROVE  Sound(frames', exceptions', Len(stack'), WaitsForHost') /\ ClosuresNamed(stack')
  <2>1. Shape(Advanced, exceptions')
    BY <1>1, <1>10, ShapeNext
  <2> QED BY <1>1, <1>2, <1>7, <1>9, <1>10, <2>1 DEF Sound
<1> QED BY <1>1, <1>2, <1>8, <1>10, ContinueSound

-----------------------------------------------------------------------------
(* Calls and returns.                                                      *)

\* A frame that waits for a result calls function f.
LEMMA PushSound ==
    ASSUME Invariant, Verified, NEW fs, NEW exs, NEW n \in Nat,
           Shape(fs, exs), Sound(fs, exs, n, 1),
           NEW f \in 1 .. Len(module.functions)
    PROVE  Sound(Append(fs, NewFrame(f, n)), exs, n, 0)
<1> DEFINE L == Len(fs)
           new == NewFrame(f, n)
           gs == Append(fs, new)
<1>1. /\ fs \in Seq(FrameType) /\ L \in Nat \ {0} /\ L \in 1 .. L
      /\ \A x \in 1 .. Len(exs) : exs[x].frame_depth \in 1 .. L
      /\ \A x, y \in 1 .. Len(exs) : x < y => exs[x].frame_depth <= exs[y].frame_depth
  BY DEF Shape
<1>2. /\ new.function = f /\ new.ip = 1 /\ new.stack_base = n /\ new.iterators = <<>>
  BY DEF NewFrame
<1>3. /\ Len(CodeOf(f)) \in Nat \ {0} /\ Point(new) = Entry
  BY <1>2, VerifiedFacts DEF Point, TypesOf
<1> HIDE DEF new
<1>4. /\ Len(gs) = L + 1 /\ gs[L + 1] = new /\ \A i \in 1 .. L : gs[i] = fs[i]
  BY <1>1
<1> HIDE DEF gs
<1>5. \A i \in 1 .. (L + 1) : i = L + 1 \/ i \in 1 .. L
  BY <1>1
<1>6. FramesFit(gs, n, 0)
  <2>1. gs[1].stack_base = 0
    <3>1. 1 \in 1 .. L
      BY <1>1
    <3> QED BY <1>4, <3>1 DEF Sound, FramesFit
  <2>2. ASSUME NEW i \in 1 .. (L + 1)
        PROVE  /\ gs[i].ip <= Len(CodeOf(gs[i].function))
               /\ Len(gs[i].iterators) >= Point(gs[i]).iterators
               /\ Point(gs[i]).height >= Due(gs, i, 0)
               /\ End(gs, i, n) = gs[i].stack_base + Point(gs[i]).height - Due(gs, i, 0)
    <3>1. CASE i = L + 1
      <4>1. Due(gs, i, 0) = 0 /\ End(gs, i, n) = n
        BY <1>1, <1>4, <3>1 DEF Due, End
      <4> QED BY <1>2, <1>3, <1>4, <3>1, <4>1 DEF Entry
    <3>2. CASE i \in 1 .. L
      <4>1. /\ fs[i].ip <= Len(CodeOf(fs[i].function))
            /\ Len(fs[i].iterators) >= Point(fs[i]).iterators
            /\ Point(fs[i]).height >= 1
            /\ End(fs, i, n) = fs[i].stack_base + Point(fs[i]).height - 1
        BY <3>2 DEF Sound, FramesFit, Due
      <4>2. Due(gs, i, 0) = 1
        BY <1>1, <1>4, <3>2 DEF Due
      <4>3. End(gs, i, n) = End(fs, i, n)
        <5>1. CASE i = L
          BY <1>1, <1>2, <1>4, <5>1 DEF End
        <5>2. CASE i < L
          <6>1. i + 1 \in 1 .. L
            BY <1>1, <3>2, <5>2
          <6> QED BY <1>1, <1>4, <5>2, <6>1 DEF End
        <5> QED BY <1>1, <3>2, <5>1, <5>2
      <4> QED BY <1>4, <3>2, <4>1, <4>2, <4>3
    <3> QED BY <1>5, <3>1, <3>2
  <2> QED BY <1>4, <2>1, <2>2 DEF FramesFit
<1>7. HandlersFit(gs, exs)
  <2>1. \A i \in 1 .. (L + 1) :
            (\A x \in 1 .. Len(exs) : exs[x].frame_depth # i) => Point(gs[i]).handler = 0
    <3> TAKE i \in 1 .. (L + 1)
    <3>1. CASE i = L + 1
      BY <1>3, <1>4, <3>1 DEF Entry
    <3>2. CASE i \in 1 .. L
      BY <1>4, <3>2 DEF Sound, HandlersFit
    <3> QED BY <1>5, <3>1, <3>2
  <2>2. HandlersFit(fs, exs)
    BY DEF Sound
  <2> QED BY <1>1, <1>4, <2>1, <2>2 DEF HandlersFit
<1>8. RoomFits(gs, 0)
  <2> SUFFICES ASSUME NEW i \in 1 .. (L + 1), Point(gs[i]).handler # 0
               PROVE  TypesOf(gs[i])[Point(gs[i]).handler].height - 1
                        <= Point(gs[i]).height - Due(gs, i, 0)
    BY <1>4 DEF RoomFits
  <2>1. i \in 1 .. L
    BY <1>3, <1>4, <1>5 DEF Entry
  <2>2. Due(gs, i, 0) = 1 /\ Due(fs, i, 1) = 1
    BY <1>1, <1>4, <2>1 DEF Due
  <2> QED BY <1>4, <2>1, <2>2 DEF Sound, RoomFits
<1>9. BasesRise(gs)
  <2> SUFFICES ASSUME NEW i \in 1 .. (L + 1), NEW j \in 1 .. (L + 1), i <= j
               PROVE  gs[i].stack_base <= gs[j].stack_base
    BY <1>4 DEF BasesRise
  <2>1. CASE j \in 1 .. L
    <3>1. i \in 1 .. L
      BY <1>1, <2>1
    <3> QED BY <1>4, <2>1, <3>1 DEF Sound, BasesRise
  <2>2. CASE j = L + 1 /\ i \in 1 .. L
    <3>1. fs[i].stack_base <= fs[L].stack_base
      BY <1>1, <2>2 DEF Sound, BasesRise
    <3>2. n = fs[L].stack_base + Point(fs[L]).height - 1 /\ Point(fs[L]).height >= 1
          /\ fs[L].ip <= Len(CodeOf(fs[L].function))
      BY <1>1 DEF Sound, FramesFit, Due, End
    <3>3. fs[L].stack_base \in Nat /\ Point(fs[L]).height \in Nat
      BY <1>1, <3>2, PointFacts
    <3>4. fs[i].stack_base \in Nat
      <4>1. fs[i] \in FrameType
        BY <1>1, <2>2
      <4> QED BY <4>1 DEF FrameType
    <3>5. fs[i].stack_base <= n
      BY <3>1, <3>2, <3>3, <3>4
    <3> QED BY <1>2, <1>4, <2>2, <3>5
  <2>3. CASE j = L + 1 /\ i = L + 1
    BY <1>2, <1>4, <2>3
  <2> QED BY <1>5, <2>1, <2>2, <2>3
<1> QED BY <1>6, <1>7, <1>8, <1>9 DEF Sound, gs, new

\* The top frame goes, with its handlers, and the one below has its result.
LEMMA PopSound ==
    ASSUME Invariant, Verified, NEW fs, NEW exs, NEW n, NEW due,
           Shape(fs, exs), Sound(fs, exs, n, due), Len(fs) > 1,
           NEW k \in 0 .. Len(exs),
           \A x \in 1 .. k : exs[x].frame_depth < Len(fs),
           \A x \in 1 .. Len(exs) : exs[x].frame_depth < Len(fs) => x <= k
    PROVE  Sound(Below(fs, 1), SubSeq(exs, 1, k), fs[Len(fs)].stack_base + 1, 0)
<1> DEFINE L == Len(fs)
           d == L - 1
           N == Len(exs)
           gs == Below(fs, 1)
           bs == SubSeq(exs, 1, k)
           m == fs[L].stack_base + 1
<1>1. /\ fs \in Seq(FrameType) /\ L \in Nat /\ L \in 1 .. L /\ d \in 1 .. L /\ d < L
      /\ exs \in Seq(HandlerType) /\ N \in Nat /\ k \in Nat
      /\ \A x \in 1 .. N : exs[x].frame_depth \in 1 .. L
      /\ \A i \in 1 .. d : i \in 1 .. L /\ i < L /\ (i = d \/ i + 1 \in 1 .. d)
      /\ \A x \in 1 .. k : x \in 1 .. N
  BY DEF Shape
<1>2. /\ Len(gs) = d /\ \A i \in 1 .. d : gs[i] = fs[i]
  <2>1. 1 \in 0 .. Len(fs)
    BY <1>1
  <2> QED BY <1>1, <2>1, BelowFacts
<1>3. /\ Len(bs) = k /\ \A x \in 1 .. k : bs[x] = exs[x]
  BY <1>1
<1> HIDE DEF gs, bs
<1>4. \A x \in 1 .. k : exs[x].frame_depth \in 1 .. d
  BY <1>1
<1>5. FramesFit(gs, m, 0)
  <2>1. gs[1].stack_base = 0
    <3>1. 1 \in 1 .. d
      BY <1>1
    <3> QED BY <1>2, <3>1 DEF Sound, FramesFit
  <2>2. ASSUME NEW i \in 1 .. d
        PROVE  /\ gs[i].ip <= Len(CodeOf(gs[i].function))
               /\ Len(gs[i].iterators) >= Point(gs[i]).iterators
               /\ Point(gs[i]).height >= Due(gs, i, 0)
               /\ End(gs, i, m) = gs[i].stack_base + Point(gs[i]).height - Due(gs, i, 0)
    <3>1. /\ fs[i].ip <= Len(CodeOf(fs[i].function))
          /\ Len(fs[i].iterators) >= Point(fs[i]).iterators
          /\ Point(fs[i]).height >= 1
          /\ fs[i + 1].stack_base = fs[i].stack_base + Point(fs[i]).height - 1
      BY <1>1 DEF Sound, FramesFit, Due, End
    <3>2. CASE i = d
      <4>1. /\ fs[i].stack_base \in Nat /\ Point(fs[i]).height \in Nat
        BY <1>1, <3>1, PointFacts
      <4>2. Due(gs, i, 0) = 0 /\ End(gs, i, m) = m
        BY <1>1, <1>2, <3>2 DEF Due, End
      <4>3. m = fs[i].stack_base + Point(fs[i]).height - 0
        <5>1. i + 1 = L
          BY <1>1, <3>2
        <5> QED BY <3>1, <4>1, <5>1
      <4>4. Point(fs[i]).height >= 0
        BY <4>1
      <4> HIDE DEF m
      <4> QED BY <1>2, <3>1, <4>2, <4>3, <4>4
    <3>3. CASE i # d
      <4>1. i + 1 \in 1 .. d /\ i < d
        BY <1>1, <3>3
      <4>2. Due(gs, i, 0) = 1 /\ End(gs, i, m) = fs[i + 1].stack_base
        BY <1>2, <4>1 DEF Due, End
      <4> QED BY <1>2, <3>1, <4>2
    <3> QED BY <3>2, <3>3
  <2> QED BY <1>2, <2>1, <2>2 DEF FramesFit
<1>6. HandlersFit(gs, bs)
  <2>1. ASSUME NEW x \in 1 .. k
        PROVE  LET c == bs[x]
                   g == gs[c.frame_depth]
                   q == TypesOf(g)[c.handler_ip]
               IN  /\ c.stack_depth = g.stack_base + q.height - 1
                   /\ q.handler = Outer(bs, x)
                   /\ (x = k \/ bs[x + 1].frame_depth # c.frame_depth)
                         => Point(g).handler = c.handler_ip
    <3> DEFINE c == exs[x]
               g == fs[c.frame_depth]
               q == TypesOf(g)[c.handler_ip]
    <3>1. /\ c.stack_depth = g.stack_base + q.height - 1
          /\ q.handler = Outer(exs, x)
          /\ (x = N \/ exs[x + 1].frame_depth # c.frame_depth) => Point(g).handler = c.handler_ip
      BY <1>1 DEF Sound, HandlersFit
    <3>2. bs[x] = c /\ gs[c.frame_depth] = g
      BY <1>2, <1>3, <1>4
    <3>3. Outer(bs, x) = Outer(exs, x)
      <4>1. x > 1 => x - 1 \in 1 .. k
        BY <1>1
      <4> QED BY <1>3, <4>1 DEF Outer
    <3>4. (x = k \/ bs[x + 1].frame_depth # c.frame_depth)
              => (x = N \/ exs[x + 1].frame_depth # c.frame_depth)
      <4>1. CASE x = k /\ x # N
        <5>1. x + 1 \in 1 .. N /\ ~(x + 1 <= k)
          BY <1>1, <4>1
        <5>2. ~(exs[x + 1].frame_depth < L) /\ c.frame_depth < L
          BY <5>1
        <5> QED BY <5>2
      <4>2. CASE x # k
        <5>1. x + 1 \in 1 .. k
          BY <1>1, <4>2
        <5> QED BY <1>3, <4>2, <5>1
      <4> QED BY <4>1, <4>2
    <3> HIDE DEF c
    <3> QED BY <3>1, <3>2, <3>3, <3>4
  <2>2. ASSUME NEW i \in 1 .. d, \A x \in 1 .. k : bs[x].frame_depth # i
        PROVE  Point(gs[i]).handler = 0
    <3>1. \A x \in 1 .. N : exs[x].frame_depth # i
      <4> TAKE x \in 1 .. N
      <4>1. CASE exs[x].frame_depth < L
        <5>1. x \in 1 .. k
          BY <1>1, <4>1
        <5> QED BY <1>3, <2>2, <5>1
      <4>2. CASE ~(exs[x].frame_depth < L)
        BY <1>1, <4>2
      <4> QED BY <4>1, <4>2
    <3> QED BY <1>1, <1>2, <3>1 DEF Sound, HandlersFit
  <2> QED BY <1>2, <1>3, <2>1, <2>2 DEF HandlersFit
<1>7. RoomFits(gs, 0)
  <2> SUFFICES ASSUME NEW i \in 1 .. d, Point(gs[i]).handler # 0
               PROVE  TypesOf(gs[i])[Point(gs[i]).handler].height - 1
                        <= Point(gs[i]).height - Due(gs, i, 0)
    BY <1>2 DEF RoomFits
  <2>1. TypesOf(fs[i])[Point(fs[i]).handler].height - 1 <= Point(fs[i]).height - 1
    BY <1>1, <1>2 DEF Sound, RoomFits, Due
  <2>2. /\ TypesOf(fs[i])[Point(fs[i]).handler].height \in Nat
        /\ Point(fs[i]).height \in Nat
    <3>1. fs[i].ip <= Len(CodeOf(fs[i].function))
      BY <1>1 DEF Sound, FramesFit
    <3> QED BY <1>1, <1>2, <3>1, HandlerPoint, PointFacts
  <2>3. Due(gs, i, 0) \in {0, 1}
    BY DEF Due
  <2> QED BY <1>2, <2>1, <2>2, <2>3
<1>8. BasesRise(gs)
  <2>1. ASSUME NEW i \in 1 .. d, NEW j \in 1 .. d, i <= j
        PROVE  gs[i].stack_base <= gs[j].stack_base
    <3>1. fs[i].stack_base <= fs[j].stack_base
      BY <1>1, <2>1 DEF Sound, BasesRise
    <3> QED BY <1>2, <3>1
  <2> QED BY <1>2, <2>1 DEF BasesRise
<1> QED BY <1>5, <1>6, <1>7, <1>8 DEF Sound, gs, bs

LEMMA CallClosureSound ==
    ASSUME Invariant, Invariant', Verified, AsTyped, CallClosure PROVE AsTyped'
<1> DEFINE L == Len(frames)
           s == Below(stack, Current.arg + 1)
           gs == Advanced
           new == NewFrame(Callee.arg, Len(s))
<1>1. /\ Plain("Call") /\ Fetch("Call") /\ Current.op = "Call" /\ Running
      /\ TypeOK /\ status \notin Ended /\ module' = module /\ WaitsForHost' = 0
      /\ WaitsForHost = 0
  BY FetchRuns DEF CallClosure, Plain, Invariant, Running, WaitsForHost
<1>2. /\ Pops(Current) = Current.arg + 1 /\ Pushes(Current) = 1
      /\ s \in Seq(Value) /\ ClosuresNamed(s) /\ Len(s) = Len(stack) - Pops(Current)
      /\ Callee \in Value /\ Continues(Current)
  BY <1>1, CallFinds DEF Continues
<1>3. Callee.arg \in 1 .. Len(module.functions)
  <2>1. Callee.arg \in Nat \ {0} /\ Callee.arg <= Len(module.functions)
    BY <1>2 DEF CallClosure, Value
  <2> QED BY <2>1 DEF TypeOK, Invariant
<1>4. /\ Typed(CodeOf(Top.function), TypesOf(Top), Top.ip)
      /\ Point(Top) = TypesOf(Top)[Top.ip] /\ Current = CodeOf(Top.function)[Top.ip]
      /\ Current \in Instruction /\ Point(Top).height \in Nat /\ Top.stack_base \in Nat
      /\ Len(Top.iterators) >= Point(Top).iterators
      /\ Shape(frames, exceptions) /\ L \in 1 .. L /\ Top = frames[L]
      /\ Sound(frames, exceptions, Len(stack), WaitsForHost)
      /\ Len(stack) \in Nat /\ error # "Internal"
      /\ Top.function \in 1 .. Len(module.functions)
  BY <1>1, Here
<1>5. /\ Pops(Current) \in Nat /\ Pops(Current) <= Point(Top).height
      /\ Len(stack) = Top.stack_base + Point(Top).height
  BY <1>1, <1>4, PopsType, OperandsThere DEF Typed
<1>6. /\ Top.ip + 1 \in 1 .. Len(CodeOf(Top.function))
      /\ TypesOf(Top)[Top.ip + 1].height = Point(Top).height - Pops(Current) + 1
      /\ TypesOf(Top)[Top.ip + 1].handler = Point(Top).handler
      /\ TypesOf(Top)[Top.ip + 1].iterators = Point(Top).iterators
      /\ Point(Top).handler # 0 =>
            /\ TypesOf(Top)[Point(Top).handler].height \in Nat
            /\ TypesOf(Top)[Point(Top).handler].height <= Point(Top).height - Pops(Current) + 1
  BY <1>1, <1>2, NextPoint
<1>7. Moved(gs, Top.ip + 1, Top.iterators)
  BY <1>1, AdvancedMoved
<1>8. gs \in Seq(FrameType)
  BY <1>1, AdvanceFacts DEF SameCalls
<1> HIDE DEF gs, s
<1>9. /\ Len(gs) = L /\ \A i \in 1 .. L : i < L => gs[i] = frames[i]
      /\ gs[L].function = Top.function /\ gs[L].stack_base = Top.stack_base
      /\ gs[L].ip = Top.ip + 1 /\ gs[L].iterators = Top.iterators
  BY <1>7 DEF Moved
<1>10. TypesOf(gs[L]) = TypesOf(Top) /\ Point(gs[L]) = TypesOf(Top)[Top.ip + 1]
  BY <1>9 DEF TypesOf, Point
<1>11. Shape(gs, exceptions)
  <2>1. \A i \in 1 .. L : gs[i].function = frames[i].function
    <3>1. \A i \in 1 .. L : i < L \/ i = L
      BY <1>4 DEF Shape
    <3> QED BY <1>4, <1>9, <3>1
  <2> QED BY <1>4, <1>8, <1>9, <2>1 DEF Shape
<1>12. Sound(gs, exceptions, Len(s), 1)
  <2>1. gs[L].ip <= Len(CodeOf(gs[L].function))
    <3>1. Len(CodeOf(Top.function)) \in Nat
      BY <1>4, VerifiedFacts
    <3> QED BY <1>6, <1>9, <3>1
  <2>2. Len(gs[L].iterators) >= Point(gs[L]).iterators
    BY <1>4, <1>6, <1>9, <1>10
  <2>3. /\ Point(gs[L]).height = Point(Top).height - Pops(Current) + 1
        /\ Point(gs[L]).handler = Point(frames[L]).handler
    BY <1>4, <1>6, <1>10
  <2>4. Point(gs[L]).height >= 1
    BY <1>4, <1>5, <2>3
  <2>5. Len(s) = frames[L].stack_base + Point(gs[L]).height - 1
    <3>1. Len(s) = Top.stack_base + Point(Top).height - Pops(Current)
      BY <1>2, <1>4, <1>5
    <3> QED BY <1>4, <1>5, <2>3, <3>1
  <2>6. Point(gs[L]).handler # 0 =>
           TypesOf(gs[L])[Point(gs[L]).handler].height - 1 <= Point(gs[L]).height - 1
    <3> SUFFICES ASSUME Point(Top).handler # 0
                 PROVE  TypesOf(Top)[Point(Top).handler].height - 1 <= Point(gs[L]).height - 1
      BY <1>4, <1>10, <2>3
    <3> DEFINE x == TypesOf(Top)[Point(Top).handler].height
               y == Point(Top).height - Pops(Current) + 1
    <3>1. x \in Nat /\ x <= y /\ y \in Int /\ Point(gs[L]).height = y
      BY <1>4, <1>5, <1>6, <2>3
    <3> HIDE DEF x, y
    <3>2. x - 1 <= y - 1
      BY <3>1
    <3> QED BY <3>1, <3>2 DEF x
  <2>7. Len(s) \in Nat
    BY <1>2
  <2> QED BY <1>4, <1>9, <1>11, <2>1, <2>2, <2>3, <2>4, <2>5, <2>6, <2>7, MoveSound
<1>13. Sound(Append(gs, new), exceptions, Len(s), 0)
  <2>1. Len(s) \in Nat
    BY <1>2
  <2> QED BY <1>3, <1>11, <1>12, <2>1, PushSound
<1>14. Continue(s, Append(gs, new)) /\ exceptions' = exceptions
  BY DEF CallClosure, gs, s
<1> HIDE DEF new
<1>15. ASSUME stack' = s, frames' = Append(gs, new)
       PROVE  Sound(frames', exceptions', Len(stack'), WaitsForHost') /\ ClosuresNamed(stack')
  BY <1>1, <1>2, <1>13, <1>14, <1>15
<1> QED BY <1>1, <1>4, <1>14, <1>15, ContinueSound

LEMMA ReturnSound ==
    ASSUME Invariant, Invariant', Verified, AsTyped, Return PROVE AsTyped'
<1> DEFINE L == Len(frames)
           value == At(stack)
           rest == Below(stack, 1)
           left == Truncate(rest, Top.stack_base)
<1>1. /\ Plain("Return") /\ Fetch("Return") /\ Current.op = "Return" /\ Running
      /\ TypeOK /\ status \notin Ended /\ module' = module /\ WaitsForHost' = 0
      /\ WaitsForHost = 0 /\ HandlersLive
  BY FetchRuns DEF Return, Plain, Invariant, Running, WaitsForHost
<1>2. Pops(Current) = 1
  BY <1>1 DEF Pops
<1>3. /\ Shape(frames, exceptions) /\ L \in 1 .. L /\ Top = frames[L] /\ Top.stack_base \in Nat
      /\ Sound(frames, exceptions, Len(stack), WaitsForHost)
      /\ Len(stack) \in Nat /\ stack \in Seq(Value) /\ error # "Internal"
      /\ ClosuresNamed(stack)
  BY <1>1, Here
<1>4. /\ Has(1) /\ rest \in Seq(Value) /\ ClosuresNamed(rest) /\ Len(rest) >= Top.stack_base
  BY <1>1, <1>2, OperandsThere, RoomLeft
<1>5. stack # <<>> /\ Len(stack) \in 1 .. Len(stack)
  BY <1>3, <1>4 DEF Has
<1>6. value \in Value /\ (value.kind = "closure" => value.arg <= Len(module.functions))
  BY <1>3, <1>5, AtFacts DEF ClosuresNamed, At
<1> HIDE DEF value, rest
<1>7. left \in Seq(Value) /\ Len(left) = Top.stack_base /\ ClosuresNamed(left)
  <2>1. left \in Seq(Value) /\ Len(left) = Top.stack_base
    BY <1>3, <1>4 DEF Truncate
  <2> QED BY <1>3, <1>4, <2>1, NamedTruncated
<1> HIDE DEF left
<1>8. CASE L = 1
  <2>1. status' \in Ended /\ error' = error
    BY <1>8 DEF Return, Ended
  <2> QED BY <1>1, <1>3, <2>1, AsTypedNext
<1>9. CASE L # 1
  <2>1. Continue(Append(left, value), Below(frames, 1)) /\ exceptions' = Retained
    BY <1>5, <1>9 DEF Return, left, value, rest
  <2>2. PICK k \in 0 .. Len(exceptions) :
               /\ Retained = SubSeq(exceptions, 1, k)
               /\ \A i \in 1 .. k : exceptions[i].frame_depth < Len(frames)
               /\ \A i \in 1 .. Len(exceptions) :
                     exceptions[i].frame_depth < Len(frames) => i <= k
    BY <1>1, RetainedFacts
  <2>3. Sound(Below(frames, 1), Retained, Top.stack_base + 1, 0)
    <3>1. L > 1
      <4>1. L \in Nat /\ L # 0 /\ L # 1
        BY <1>3, <1>9 DEF Shape
      <4> HIDE DEF L
      <4> QED BY <4>1
    <3>2. Sound(Below(frames, 1), SubSeq(exceptions, 1, k), frames[Len(frames)].stack_base + 1, 0)
      BY <1>3, <2>2, <3>1, PopSound
    <3> QED BY <1>3, <2>2, <3>2
  <2>4. Len(Append(left, value)) = Top.stack_base + 1 /\ ClosuresNamed(Append(left, value))
    BY <1>6, <1>7, NamedAppended
  <2>5. ASSUME stack' = Append(left, value), frames' = Below(frames, 1)
        PROVE  Sound(frames', exceptions', Len(stack'), WaitsForHost') /\ ClosuresNamed(stack')
    BY <1>1, <2>1, <2>3, <2>4, <2>5
  <2> QED BY <1>1, <1>3, <2>1, <2>5, ContinueSound
<1> QED BY <1>8, <1>9

-----------------------------------------------------------------------------
(* Typed code runs as it is typed.                                         *)

TypedInvariant == Invariant /\ (Verified => AsTyped)

LEMMA TypedInit == Init => TypedInvariant
<1> SUFFICES ASSUME Init PROVE TypedInvariant
  OBVIOUS
<1>1. Invariant
  BY InvariantInit
<1>2. ASSUME Verified PROVE AsTyped
  <2> DEFINE frame == NewFrame(1, 0)
  <2>1. /\ frames = <<frame>> /\ stack = <<>> /\ exceptions = <<>>
        /\ request = "none" /\ error = "none" /\ WaitsForHost = 0
    BY DEF Init, WaitsForHost
  <2>2. frame.function = 1 /\ frame.ip = 1 /\ frame.stack_base = 0 /\ frame.iterators = <<>>
    BY DEF NewFrame
  <2>3. 1 \in 1 .. Len(module.functions)
    BY VmAssumption DEF Init
  <2>4. Len(CodeOf(1)) \in Nat \ {0} /\ Point(frame) = Entry
    BY <1>1, <1>2, <2>2, <2>3, VerifiedFacts DEF Point, TypesOf
  <2> HIDE DEF frame
  <2>5. Len(frames) = 1 /\ frames[1] = frame /\ Len(stack) = 0 /\ Len(exceptions) = 0
    BY <2>1
  <2>6. FramesFit(frames, Len(stack), 0)
    <3>1. Due(frames, 1, 0) = 0 /\ End(frames, 1, 0) = 0
      BY <2>5 DEF Due, End
    <3>2. /\ frame.ip <= Len(CodeOf(frame.function))
          /\ Len(frame.iterators) >= Point(frame).iterators
          /\ Point(frame).height = 0
      BY <2>2, <2>4 DEF Entry
    <3> QED BY <2>2, <2>5, <3>1, <3>2 DEF FramesFit
  <2>7. HandlersFit(frames, exceptions)
    BY <2>4, <2>5 DEF HandlersFit, Entry
  <2>8. RoomFits(frames, 0)
    BY <2>4, <2>5 DEF RoomFits, Entry
  <2>9. BasesRise(frames)
    BY <2>2, <2>5 DEF BasesRise
  <2>10. ClosuresNamed(stack)
    BY <2>5 DEF ClosuresNamed
  <2> QED BY <2>1, <2>6, <2>7, <2>8, <2>9, <2>10 DEF AsTyped, Sound
<1> QED BY <1>1, <1>2 DEF TypedInvariant

LEMMA TypedStep == TypedInvariant /\ [Next]_vars => TypedInvariant'
<1> SUFFICES ASSUME TypedInvariant, [Next]_vars PROVE TypedInvariant'
  OBVIOUS
<1>1. Invariant /\ Invariant'
  BY InvariantStep DEF TypedInvariant
<1>2. module' = module
  BY DEF Next, vars, Step, Answers, BudgetExhausted, OutOfCode, Load, LoadGlobal, Drop,
         Binary, BuildList, BuildDictionary, Jump, JumpIfFalse, CallTooDeep, CallClosure, CallHost, CallNothing,
         Return, IterStart, IterNext, IterEnd, TryBegin, TryEnd, Throw, ExecuteCommand,
         AwaitFuture, AwaitOther, SuspendForOperation, CompleteCommand, ResumeAwait,
         ResumeHostCall, Answered, Plain, Fetch
<1>3. ASSUME Verified' PROVE AsTyped'
  <2>1. Verified
    BY <1>2, <1>3 DEF Verified, CodeOf
  <2>2. AsTyped
    BY <2>1 DEF TypedInvariant
  <2>3. CASE Step
    BY <1>1, <2>1, <2>2, <2>3, StopSound, LoadSound, LoadGlobalSound, DropSound, BinarySound,
       BuildListSound, BuildDictionarySound, BranchSound, CallClosureSound, CallHostSound, CallNothingSound, ReturnSound,
       IterStartSound, IterNextSound, IterEndSound, TryBeginSound, TryEndSound, ThrowSound,
       ExecuteCommandSound, AwaitSound
       DEF Step
  <2>4. CASE Answers
    BY <1>1, <2>1, <2>2, <2>4, AnswersSound
  <2>5. CASE UNCHANGED vars
    <3>1. /\ UNCHANGED <<frames, exceptions, stack, status, error>>
          /\ WaitsForHost' = WaitsForHost
      BY <2>5 DEF vars, WaitsForHost
    <3> QED BY <1>2, <2>2, <3>1, AsTypedNext DEF AsTyped
  <2> QED BY <2>3, <2>4, <2>5 DEF Next
<1> QED BY <1>1, <1>3 DEF TypedInvariant

\* For code that a verifier would pass, in every reachable state the stacks of
\* every frame are as long as the types of its code say and its handlers are
\* those of the types, and no error is an internal one: nothing underflows, no
\* address is out of the code, no function is missing (vm.rs, all instructions,
\* dispatch_catchable_error, call).
THEOREM TypedCodeRunsTyped == Spec => []StackAsTyped
<1>1. TypedInvariant => StackAsTyped
  BY DEF TypedInvariant, AsTyped, Sound, StackAsTyped
<1> QED BY <1>1, TypedInit, TypedStep, PTL DEF Spec

-----------------------------------------------------------------------------
(* Every step uses something up.                                           *)

LEMMA FetchUses ==
    ASSUME Invariant, NEW op, Fetch(op), request' \in {"none", "command", "host", "await"}
    PROVE  StepsLeft' < StepsLeft /\ StepsLeft' >= 0
<1>1. /\ budget \in Nat /\ budget > 0 /\ budget' = budget - 1 /\ request = "none"
      /\ status \notin Ended
  BY VmAssumption DEF Invariant, TypeOK, Fetch, Spent, Running, Ended
<1>2. StepsLeft = 3 * budget + 1
  BY <1>1 DEF StepsLeft
<1>3. StepsLeft' \in 0 .. (3 * (budget - 1) + 3)
  BY <1>1 DEF StepsLeft
<1> QED BY <1>1, <1>2, <1>3

LEMMA EndUses ==
    ASSUME Invariant, status \notin Ended, status' \in Ended
    PROVE  StepsLeft' < StepsLeft /\ StepsLeft' >= 0
<1>1. budget \in Nat
  BY VmAssumption DEF Invariant, TypeOK
<1>2. StepsLeft' = 0 /\ StepsLeft >= 1
  BY <1>1 DEF StepsLeft
<1> QED BY <1>1, <1>2 DEF StepsLeft

LEMMA AnswerUses ==
    ASSUME Invariant, Invariant', Answers
    PROVE  StepsLeft' < StepsLeft /\ StepsLeft' >= 0
<1>1. budget \in Nat /\ budget' = budget /\ request # "none"
  BY VmAssumption DEF Invariant, TypeOK, Answers, SuspendForOperation, CompleteCommand,
                      ResumeAwait, ResumeHostCall, Answered
<1>2. status \notin Ended /\ request \in {"command", "host", "await"}
  BY <1>1, WaitingHasRoom DEF Invariant, TypeOK
<1>3. CASE SuspendForOperation
  <2>1. request = "command" /\ request' = "await" /\ status' \notin Ended
    BY <1>3 DEF SuspendForOperation, Ended
  <2>2. StepsLeft = 3 * budget + 3 /\ StepsLeft' = 3 * budget + 2
    BY <1>1, <1>2, <2>1 DEF StepsLeft
  <2> QED BY <1>1, <2>2
<1>4. CASE ~SuspendForOperation
  <2>1. request' = "none"
    BY <1>4 DEF Answers, CompleteCommand, ResumeAwait, ResumeHostCall, Answered
  <2>2. StepsLeft >= 3 * budget + 2
    BY <1>1, <1>2 DEF StepsLeft
  <2>3. StepsLeft' \in {0, 3 * budget + 1}
    BY <1>1, <2>1 DEF StepsLeft
  <2>4. StepsLeft \in Int
    BY <1>1, <1>2 DEF StepsLeft
  <2> QED BY <1>1, <2>2, <2>3, <2>4
<1> QED BY <1>3, <1>4

\* Every step of the machine lowers a natural number, so no script and no host
\* makes it run for ever (vm.rs, run_quantum and the budget).
THEOREM StepsRunOut == Spec => RunsOut
<1>1. ASSUME Invariant, Invariant', Next PROVE StepsLeft' < StepsLeft /\ StepsLeft' >= 0
  <2>1. request' \in {"none", "command", "host", "await"}
    BY <1>1 DEF Invariant, TypeOK
  <2>2. CASE BudgetExhausted
    <3>1. status \notin Ended /\ status' \in Ended
      BY <2>2 DEF BudgetExhausted, Running, Ended, Fail
    <3> QED BY <1>1, <3>1, EndUses
  <2>3. CASE OutOfCode
    <3>1. status \notin Ended /\ status' \in Ended
      BY <2>3 DEF OutOfCode, Running, Ended, Fail
    <3> QED BY <1>1, <3>1, EndUses
  <2>4. CASE Step /\ ~BudgetExhausted /\ ~OutOfCode
    <3>1. \E op \in {"LoadConstant", "LoadGlobal", "Pop", "Store", "Binary", "BuildList",
                     "BuildDictionary", "Jump",
                     "JumpIfFalse", "Call", "Return", "IterStart", "IterNext", "IterEnd",
                     "TryBegin", "TryEnd", "Throw", "ExecuteCommand", "Await"} : Fetch(op)
      BY <2>4 DEF Step, Load, LoadGlobal, Drop, Binary, BuildList, BuildDictionary, Jump,
                  JumpIfFalse, CallTooDeep,
                  CallClosure, CallHost, CallNothing, Return, IterStart, IterNext, IterEnd,
                  TryBegin, TryEnd, Throw, ExecuteCommand, AwaitFuture, AwaitOther, Plain
    <3> QED BY <1>1, <2>1, <3>1, FetchUses
  <2>5. CASE Answers
    BY <1>1, <2>5, AnswerUses
  <2> QED BY <1>1, <2>2, <2>3, <2>4, <2>5 DEF Next
<1>2. Invariant /\ Invariant' /\ [Next]_vars => [StepsLeft' < StepsLeft /\ StepsLeft' >= 0]_vars
  BY <1>1
<1> QED BY <1>2, MachineSound, PTL DEF Spec, RunsOut
=============================================================================
