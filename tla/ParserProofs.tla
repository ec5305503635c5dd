---------------------------- MODULE ParserProofs ----------------------------
(***************************************************************************)
(* What TLAPS proves of Parser, for every set of lexemes, every text and   *)
(* every bound on the nesting: types, depths and progress, and that the    *)
(* parser follows the reader of VimBlocks.  The last is a simulation; its  *)
(* invariant is Follows, and there is one lemma for each action.           *)
(***************************************************************************)
EXTENDS MCParser, FiniteSetTheorems, SequenceTheorems, TLAPS

-----------------------------------------------------------------------------
(* Lexing.                                                                 *)

LEMMA ProduceType ==
    ASSUME LexTypeOK, NEW k \in Kinds, NEW c \in BOOLEAN, Produce(k, c)
    PROVE  LexTypeOK' /\ current'.kind = k /\ cursor' # cursor
<1>1. LineStart(k) \in {"empty", "colon", "word", "other"}
  BY DEF LexTypeOK, LineStart
<1>2. current' \in Token /\ current'.kind = k
  BY DEF LexTypeOK, Produce, Token
<1>3. line_has_token' \in BOOLEAN /\ line' \in {"empty", "colon", "word", "other"}
  BY <1>1 DEF Produce
<1>4. expects_operand' \in BOOLEAN
  BY ZenonT(30) DEF Produce
<1>5. cursor' \in {0, 1} /\ cursor' # cursor
  BY DEF Produce, LexTypeOK
<1> QED  BY <1>2, <1>3, <1>4, <1>5 DEF LexTypeOK

\* What advance() may do to the lexer, and that it moves the cursor unless the
\* text is over.
LEMMA AdvanceFacts ==
    ASSUME LexTypeOK, Advance
    PROVE  LexTypeOK' /\ (current.kind # "eof" => cursor' # cursor)
<1>1. CASE current.kind = "eof" /\ UNCHANGED lexing
  BY <1>1 DEF lexing, LexTypeOK
<1>2. CASE current.kind # "eof"
  <2>1. PICK l \in Lexemes \cup {"eof", "="} :
            IF OpensComment(l) THEN \E k \in {"nl", "eof"} : Produce(k, TRUE)
                               ELSE Produce(l, FALSE)
    BY <1>2 DEF Advance, AdvanceTo, Following
  <2>2. l \in Kinds
    BY LexerAssumption DEF LexerAssumption, Kinds
  <2>3. "nl" \in Kinds /\ "eof" \in Kinds
    BY DEF Kinds
  <2>4. \E k \in Kinds, c \in BOOLEAN : Produce(k, c)
    <3>1. CASE OpensComment(l)
      BY <2>1, <2>3, <3>1
    <3>2. CASE ~OpensComment(l)
      BY <2>1, <2>2, <3>2
    <3> QED  BY <3>1, <3>2
  <2> QED  BY <2>4, ProduceType
<1> QED  BY <1>1, <1>2 DEF Advance, AdvanceTo

-----------------------------------------------------------------------------
(* The rules.                                                              *)

LEMMA RulesAreSteps ==
    ASSUME NEW k
    PROVE  /\ RuleOf(k) \in Seq(Steps) /\ RuleOf(k) # <<>>
           /\ Opens(k) \in BlockKinds \cup {"none"}
<1>1. /\ "expr" \in Steps /\ "end" \in Steps /\ "target" \in Steps /\ "=" \in Steps
      /\ "in" \in Steps /\ "some" \in Steps /\ "exprs" \in Steps /\ "option" \in Steps
      /\ "sig" \in Steps /\ "attrs" \in Steps /\ "pattern" \in Steps /\ "command" \in Steps
  BY DEF Steps
<1>2. /\ <<"expr", "end">> \in Seq(Steps) /\ <<"some", "end">> \in Seq(Steps)
      /\ <<"target", "=", "expr", "end">> \in Seq(Steps)
      /\ <<"target", "in", "expr", "end">> \in Seq(Steps)
      /\ <<"exprs", "end">> \in Seq(Steps) /\ <<"option", "end">> \in Seq(Steps)
      /\ <<"sig", "attrs", "end">> \in Seq(Steps) /\ <<"pattern", "end">> \in Seq(Steps)
      /\ <<"command", "end">> \in Seq(Steps) /\ <<"end">> \in Seq(Steps)
  BY <1>1
<1>3. RuleOf(k) \in Seq(Steps) /\ RuleOf(k) # <<>>
  BY <1>2 DEF RuleOf
<1>4. Opens(k) \in BlockKinds \cup {"none"}
  BY DEF Opens, BlockKinds
<1> QED  BY <1>3, <1>4

LEMMA RestType ==
    ASSUME todo \in Seq(Steps), todo # <<>>
    PROVE  Rest \in Seq(Steps) /\ Head(todo) \in Steps
BY DEF Rest

LEMMA AtLeastTheEnd ==
    ASSUME TypeOK, NEW step, Matching(step)
    PROVE  /\ mode = "rule" /\ todo \in Seq(Steps) /\ todo # <<>>
           /\ Rest \in Seq(Steps) /\ Head(todo) = step /\ step \in Steps
BY RestType DEF TypeOK, Matching

\* Goes keeps the types if the steps do.
LEMMA GoesType ==
    ASSUME TypeOK, LexTypeOK', NEW steps \in Seq(Steps), Goes(steps)
    PROVE  TypeOK'
BY DEF TypeOK, Goes

LEMMA ErrType ==
    ASSUME TypeOK, LexTypeOK', Err
    PROVE  TypeOK'
<1>1. <<>> \in Seq(Steps)
  OBVIOUS
<1> QED  BY <1>1 DEF TypeOK, Err

LEMMA StillType ==
    ASSUME TypeOK, LexTypeOK', UNCHANGED pvars
    PROVE  TypeOK'
BY DEF TypeOK, pvars

LEMMA StillLexing ==
    ASSUME LexTypeOK, UNCHANGED lexing
    PROVE  LexTypeOK'
BY DEF LexTypeOK, lexing

-----------------------------------------------------------------------------
(* Counting the open blocks.                                               *)

At(s, kinds) == {i \in 1 .. Len(s) : s[i] \in kinds}

LEMMA AppendCounts ==
    ASSUME NEW s \in Seq(BlockKinds), NEW k \in BlockKinds, NEW kinds
    PROVE  /\ Cardinality(At(s, kinds)) \in Nat
           /\ Cardinality(At(Append(s, k), kinds))
                = IF k \in kinds THEN Cardinality(At(s, kinds)) + 1 ELSE Cardinality(At(s, kinds))
<1>1. IsFiniteSet(1 .. Len(s))
  BY FS_Interval
<1>2. IsFiniteSet(At(s, kinds)) /\ Cardinality(At(s, kinds)) \in Nat
  BY <1>1, FS_Subset, FS_CardinalityType DEF At
<1>3. CASE k \in kinds
  <2>1. At(Append(s, k), kinds) = At(s, kinds) \cup {Len(s) + 1}
    BY <1>3 DEF At
  <2>2. Len(s) + 1 \notin At(s, kinds)
    BY DEF At
  <2> QED  BY <2>1, <2>2, <1>2, <1>3, FS_AddElement
<1>4. CASE k \notin kinds
  <2>1. At(Append(s, k), kinds) = At(s, kinds)
    BY <1>4 DEF At
  <2> QED  BY <2>1, <1>2, <1>4
<1> QED  BY <1>2, <1>3, <1>4

\* A sequence without its last element.
LEMMA ButLast ==
    ASSUME NEW S, NEW s \in Seq(S), s # <<>>
    PROVE  LET before == SubSeq(s, 1, Len(s) - 1)
           IN  /\ before \in Seq(S) /\ Len(before) = Len(s) - 1
               /\ \A i \in 1 .. Len(before) : before[i] = s[i]
               /\ s[Len(s)] \in S
               /\ s = Append(before, s[Len(s)])
<1> DEFINE n == Len(s) - 1
           before == SubSeq(s, 1, n)
<1>1. n \in Nat /\ 1 \in Int /\ n \in Int /\ Len(s) = n + 1 /\ \A i \in 1 .. n : s[i] \in S
  OBVIOUS
<1>2. s[n + 1] \in S
  BY <1>1
<1> HIDE DEF n
<1>3. /\ SubSeq(s, 1, n) \in Seq(S)
      /\ Len(SubSeq(s, 1, n)) = IF 1 <= n THEN n - 1 + 1 ELSE 0
      /\ \A i \in 1 .. n - 1 + 1 : SubSeq(s, 1, n)[i] = s[1 + i - 1]
  BY <1>1, SubSeqProperties, SMTT(30)
<1>4. before \in Seq(S) /\ Len(before) = n /\ \A i \in 1 .. n : before[i] = s[i]
  BY <1>1, <1>3
<1> HIDE DEF before
<1>5. /\ Append(before, s[n + 1]) \in Seq(S)
      /\ Len(Append(before, s[n + 1])) = n + 1
      /\ \A i \in 1 .. n + 1 : Append(before, s[n + 1])[i] = s[i]
  BY <1>1, <1>2, <1>4
<1>6. s = Append(before, s[n + 1])
  BY <1>1, <1>5, SeqEqual
<1> QED  BY <1>1, <1>2, <1>4, <1>6 DEF n, before

\* Leave takes a depth back exactly if the block that ends is counted in it.
LEMMA LeaveCounts ==
    ASSUME TypeOK, DepthsMatch, frames # <<>>, Leave
    PROVE  /\ DepthsMatch'
           /\ frames' \in Seq(BlockKinds) /\ loop_depth' \in Nat /\ function_depth' \in Nat
           /\ Len(frames') < Len(frames)
<1> DEFINE before == SubSeq(frames, 1, Len(frames) - 1)
<1>1. frames \in Seq(BlockKinds) /\ Len(frames) \in Nat /\ Len(frames) > 0
  BY DEF TypeOK
<1>2. /\ before \in Seq(BlockKinds) /\ Len(before) = Len(frames) - 1
      /\ \A i \in 1 .. Len(before) : before[i] = frames[i]
      /\ Open \in BlockKinds /\ frames = Append(before, Open)
  BY <1>1, ButLast DEF Open
<1>4. frames' = before
  BY DEF Leave, Outer
<1> HIDE DEF before
<1>5. ASSUME NEW kinds
      PROVE  /\ Cardinality(At(before, kinds)) \in Nat
             /\ Cardinality(At(frames, kinds))
                  = IF Open \in kinds THEN Cardinality(At(before, kinds)) + 1
                                      ELSE Cardinality(At(before, kinds))
  BY <1>2, AppendCounts
<1>6. /\ loop_depth = Cardinality(At(frames, Loops))
      /\ function_depth = Cardinality(At(frames, {"function"}))
  BY DEF DepthsMatch, Framed, At
<1>7. loop_depth' = Cardinality(At(before, Loops)) /\ loop_depth' \in Nat
  BY <1>5, <1>6 DEF Leave
<1>8. function_depth' = Cardinality(At(before, {"function"})) /\ function_depth' \in Nat
  BY <1>5, <1>6 DEF Leave
<1>9. DepthsMatch'
  BY <1>4, <1>7, <1>8 DEF DepthsMatch, Framed, At
<1> QED  BY <1>1, <1>2, <1>4, <1>7, <1>8, <1>9

\* Enter adds to the depths what Leave takes back.
LEMMA EnterCounts ==
    ASSUME TypeOK, DepthsMatch, NEW k \in BlockKinds \cup {"none"}, Enter(k)
    PROVE  /\ DepthsMatch'
           /\ frames' \in Seq(BlockKinds) /\ loop_depth' \in Nat /\ function_depth' \in Nat
<1>1. frames \in Seq(BlockKinds) /\ loop_depth \in Nat /\ function_depth \in Nat
  BY DEF TypeOK
<1>2. /\ loop_depth = Cardinality(At(frames, Loops))
      /\ function_depth = Cardinality(At(frames, {"function"}))
  BY DEF DepthsMatch, Framed, At
<1>3. CASE k = "none"
  <2>1. UNCHANGED <<frames, loop_depth, function_depth>>
    BY <1>3 DEF Enter, Loops
  <2> QED  BY <2>1, <1>1, <1>2 DEF DepthsMatch, Framed, At
<1>4. CASE k \in BlockKinds
  <2>1. frames' = Append(frames, k) /\ frames' \in Seq(BlockKinds)
    BY <1>1, <1>4 DEF Enter, BlockKinds
  <2>2. loop_depth' = Cardinality(At(frames', Loops)) /\ loop_depth' \in Nat
    BY <1>1, <1>2, <1>4, <2>1, AppendCounts DEF Enter
  <2>3. function_depth' = Cardinality(At(frames', {"function"})) /\ function_depth' \in Nat
    BY <1>1, <1>2, <1>4, <2>1, AppendCounts DEF Enter
  <2> QED  BY <2>1, <2>2, <2>3 DEF DepthsMatch, Framed, At
<1> QED  BY <1>3, <1>4

LEMMA StillFramed ==
    ASSUME DepthsMatch, UNCHANGED <<frames, loop_depth, function_depth>>
    PROVE  DepthsMatch'
BY DEF DepthsMatch, Framed

-----------------------------------------------------------------------------
(* One lemma for the steps between statements and one for those of a rule. *)

Inv == TypeOK /\ DepthsMatch

LEMMA BetweenInv ==
    ASSUME Inv, SkipSeparators \/ Synchronize \/ Terminate \/ Unterminated \/ EndOfProgram
    PROVE  Inv'
<1> USE DEF Inv
<1>1. LexTypeOK
  BY DEF TypeOK
<1>2. CASE SkipSeparators
  <2>1. LexTypeOK' /\ UNCHANGED pvars
    BY <1>1, <1>2, AdvanceFacts DEF SkipSeparators
  <2>2. TypeOK'
    BY <2>1, StillType
  <2> QED  BY <2>1, <2>2, StillFramed DEF pvars
<1>3. CASE Synchronize
  <2>1. LexTypeOK'
    BY <1>1, <1>3, AdvanceFacts, StillLexing DEF Synchronize
  <2>2. mode' \in {"between", "sync"}
    BY <1>3 DEF Synchronize
  <2>3. TypeOK'
    BY <1>3, <2>1, <2>2 DEF Synchronize, TypeOK
  <2>4. DepthsMatch'
    BY <1>3, StillFramed DEF Synchronize
  <2> QED  BY <2>3, <2>4
<1>4. CASE Terminate
  <2>1. LexTypeOK' /\ frames # <<>>
    BY <1>1, <1>4, AdvanceFacts DEF Terminate
  <2>2. /\ DepthsMatch'
        /\ frames' \in Seq(BlockKinds) /\ loop_depth' \in Nat /\ function_depth' \in Nat
    BY <1>4, <2>1, LeaveCounts DEF Terminate
  <2>3. todo' \in Seq(Steps) /\ opens' \in BlockKinds \cup {"none"} /\ mode' = "rule"
    BY <1>4, RulesAreSteps DEF Terminate
  <2>4. diagnostics' \in BOOLEAN
    BY <1>4, Zenon DEF Terminate, TypeOK
  <2> QED  BY <2>1, <2>2, <2>3, <2>4 DEF TypeOK
<1>5. CASE Unterminated
  <2>1. LexTypeOK' /\ frames # <<>>
    BY <1>1, <1>5, StillLexing DEF Unterminated
  <2>2. /\ DepthsMatch'
        /\ frames' \in Seq(BlockKinds) /\ loop_depth' \in Nat /\ function_depth' \in Nat
    BY <1>5, <2>1, LeaveCounts DEF Unterminated
  <2> QED  BY <1>5, <2>1, <2>2 DEF TypeOK, Unterminated
<1>6. CASE EndOfProgram
  <2>1. LexTypeOK'
    BY <1>1, <1>6, StillLexing DEF EndOfProgram
  <2>2. TypeOK'
    BY <1>6, <2>1 DEF EndOfProgram, TypeOK
  <2>3. DepthsMatch'
    BY <1>6, StillFramed DEF EndOfProgram
  <2> QED  BY <2>2, <2>3
<1> QED  BY <1>2, <1>3, <1>4, <1>5, <1>6

LEMMA StatementInv ==
    ASSUME Inv, Statement
    PROVE  Inv'
<1> USE DEF Inv
<1>1. LexTypeOK
  BY DEF TypeOK
<1>2. CASE KeywordStatement
  <2>1. LexTypeOK'
    BY <1>1, <1>2, AdvanceFacts DEF KeywordStatement
  <2>2. todo' \in Seq(Steps) /\ opens' \in BlockKinds \cup {"none"} /\ mode' = "rule"
    BY <1>2, RulesAreSteps DEF KeywordStatement
  <2>3. diagnostics' \in BOOLEAN
    BY <1>2, Zenon DEF KeywordStatement
  <2>4. TypeOK'
    BY <1>2, <2>1, <2>2, <2>3 DEF TypeOK, KeywordStatement
  <2> QED  BY <1>2, <2>4, StillFramed DEF KeywordStatement
<1>3. CASE UnexpectedTerminator
  <2>1. LexTypeOK' /\ Err
    BY <1>1, <1>3, StillLexing DEF UnexpectedTerminator
  <2> QED  BY <2>1, ErrType, StillFramed DEF Err
<1>4. CASE AssignmentStatement \/ ExStatement \/ ExpressionStatement
  <2>1. LexTypeOK'
    BY <1>1, <1>4, StillLexing DEF AssignmentStatement, ExStatement, ExpressionStatement
  <2>2. "command" \in Steps /\ "expr" \in Steps /\ "end" \in Steps
    BY DEF Steps
  <2>3. /\ <<"command", "end">> \in Seq(Steps) /\ <<"expr", "end">> \in Seq(Steps)
        /\ RuleOf("let") \in Seq(Steps)
    BY <2>2, RulesAreSteps
  <2>4. PICK steps \in Seq(Steps) : Goes(steps)
    BY <1>4, <2>3, Zenon DEF AssignmentStatement, ExStatement, ExpressionStatement
  <2> QED  BY <2>1, <2>4, GoesType, StillFramed DEF Goes
<1> QED  BY <1>2, <1>3, <1>4 DEF Statement

\* Every step of a rule but EndOfStatement gives the rule up, stays, or goes on.
LEMMA RuleInv ==
    ASSUME Inv, Rule
    PROVE  Inv'
<1> USE DEF Inv
<1>1. LexTypeOK
  BY DEF TypeOK
<1>2. /\ "more" \in Steps /\ "expr" \in Steps /\ "exprs" \in Steps /\ "string" \in Steps
      /\ "raw" \in Steps /\ "comma" \in Steps /\ "ranged" \in Steps /\ "last" \in Steps
  BY DEF Steps
<1>3. CASE Expression
  <2>1. LexTypeOK'
    BY <1>1, <1>3, AdvanceFacts DEF Expression
  <2>2. todo \in Seq(Steps) /\ Rest \in Seq(Steps) /\ mode = "rule"
    BY <1>3, AtLeastTheEnd DEF Expression
  <2>3. CASE UNCHANGED pvars \/ Err
    <3>1. TypeOK'
      BY <2>1, <2>3, StillType, ErrType
    <3> QED  BY <2>3, <3>1, StillFramed DEF pvars, Err
  <2>4. CASE /\ mode' = "rule" /\ todo' = <<"more">> \o Rest
             /\ diagnostics' = \/ diagnostics
                               \/ /\ Head(todo) = "string"
                                  /\ current.kind \notin Strings
             /\ UNCHANGED <<opens, frames, loop_depth, function_depth>>
    <3>1. <<"more">> \o Rest \in Seq(Steps)
      BY <1>2, <2>2
    <3>2. diagnostics' \in BOOLEAN
      BY <2>4, Zenon
    <3>3. TypeOK'
      BY <2>1, <2>4, <3>1, <3>2 DEF TypeOK
    <3> QED  BY <2>4, <3>3, StillFramed
  <2> QED  BY <1>3, <2>3, <2>4 DEF Expression
<1>4. CASE EndOfStatement
  <2>1. LexTypeOK'
    BY <1>1, <1>4, StillLexing DEF EndOfStatement
  <2>2. CASE Err
    BY <2>1, <2>2, ErrType, StillFramed DEF Err
  <2>3. CASE /\ mode' = "between" /\ todo' = <<>> /\ opens' = "none"
             /\ UNCHANGED diagnostics
             /\ Enter(opens)
    <3>1. /\ DepthsMatch'
          /\ frames' \in Seq(BlockKinds) /\ loop_depth' \in Nat /\ function_depth' \in Nat
      BY <2>3, EnterCounts DEF TypeOK
    <3>2. todo' \in Seq(Steps)
      BY <2>3
    <3> QED  BY <2>1, <2>3, <3>1, <3>2 DEF TypeOK
  <2> QED  BY <1>4, <2>2, <2>3 DEF EndOfStatement
<1>5. CASE \/ MoreOfExpression \/ Expect \/ Attributes \/ Listed \/ OptionalComma
           \/ Pattern \/ ExCommand \/ RangedCommand \/ SkipRaw
  <2>1. LexTypeOK'
    BY <1>1, <1>5, AdvanceFacts, StillLexing
       DEF MoreOfExpression, Expect, Attributes, Listed, OptionalComma, Pattern,
           ExCommand, RangedCommand, SkipRaw
  <2>2. mode = "rule" /\ todo \in Seq(Steps) /\ Rest \in Seq(Steps)
    BY <1>5, AtLeastTheEnd
       DEF MoreOfExpression, Expect, Attributes, Listed, OptionalComma, Pattern,
           ExCommand, RangedCommand, SkipRaw
  <2>3. /\ <<"expr", "comma", "exprs">> \o Rest \in Seq(Steps)
        /\ <<"expr", "comma">> \o todo \in Seq(Steps)
        /\ <<"ranged">> \o Rest \in Seq(Steps) /\ <<"last">> \o Rest \in Seq(Steps)
        /\ <<"expr">> \o Rest \in Seq(Steps) /\ <<"string">> \o Rest \in Seq(Steps)
        /\ <<"raw">> \o Rest \in Seq(Steps)
    BY <1>2, <2>2
  <2>4. \/ UNCHANGED pvars
        \/ Err
        \/ \E steps \in Seq(Steps) : Goes(steps)
    BY <1>5, <2>2, <2>3
       DEF MoreOfExpression, Expect, Attributes, Listed, OptionalComma, Pattern,
           ExCommand, RangedCommand, SkipRaw
  <2>5. TypeOK'
    BY <2>1, <2>4, StillType, ErrType, GoesType
  <2>6. DepthsMatch'
    BY <2>4, StillFramed DEF pvars, Err, Goes
  <2> QED  BY <2>5, <2>6
<1> QED  BY <1>3, <1>4, <1>5 DEF Rule

LEMMA InitInv == Init => Inv
<1> SUFFICES ASSUME Init PROVE Inv
  OBVIOUS
<1>1. LexTypeOK
  BY DEF Init, LexInit, LexTypeOK, Token, Kinds
<1>2. TypeOK
  <2>1. <<>> \in Seq(Steps) /\ <<>> \in Seq(BlockKinds)
    OBVIOUS
  <2> QED  BY <1>1, <2>1 DEF Init, TypeOK
<1>3. \A kinds : Framed(kinds) = {}
  BY DEF Init, Framed
<1>4. DepthsMatch
  BY <1>3, FS_EmptySet DEF Init, DepthsMatch
<1> QED  BY <1>2, <1>4 DEF Inv

LEMMA NextInv == Inv /\ [Next]_vars => Inv'
<1> SUFFICES ASSUME Inv, [Next]_vars PROVE Inv'
  OBVIOUS
<1>1. CASE Next
  BY <1>1, BetweenInv, StatementInv, RuleInv DEF Next
<1>2. CASE UNCHANGED vars
  <2>1. UNCHANGED lexing /\ UNCHANGED pvars
    BY <1>2 DEF vars
  <2> QED  BY <2>1, StillLexing, StillType, StillFramed DEF Inv, TypeOK, pvars
<1> QED  BY <1>1, <1>2

\* Every variable keeps its type, on every text.
THEOREM ParserTypes == Spec => []TypeOK
BY InitInv, NextInv, PTL DEF Spec, Inv

\* loop_depth and function_depth count the open loops and functions, however
\* deep they nest and whatever errors close them.
THEOREM ParserDepths == Spec => []DepthsMatch
BY InitInv, NextInv, PTL DEF Spec, Inv

-----------------------------------------------------------------------------
(* The parser reads on.  A rule is ordered: only its first step can be the *)
(* end of an expression, and a step that does anything but to expect       *)
(* tokens comes before those that do less.                                 *)

\* Every step of s comes after k in a rule.
Later(k, s) ==
    \A i \in 1 .. Len(s) : /\ StepRank(s[i]) < 4
                           /\ StepRank(k) > 1 => StepRank(s[i]) < StepRank(k)

Ordered(s) ==
    \A i \in 1 .. Len(s), j \in 1 .. Len(s) :
        i < j => /\ StepRank(s[j]) < 4
                 /\ StepRank(s[i]) > 1 => StepRank(s[j]) < StepRank(s[i])

LEMMA RankType == \A step : StepRank(step) \in {1, 2, 3, 4}
BY DEF StepRank

LEMMA RestOrdered ==
    ASSUME NEW s \in Seq(Steps), s # <<>>, Ordered(s)
    PROVE  /\ Tail(s) \in Seq(Steps)
           /\ Ordered(Tail(s))
           /\ Later(Head(s), Tail(s))
<1>1. /\ Tail(s) \in Seq(Steps) /\ Len(Tail(s)) = Len(s) - 1 /\ Len(s) \in Nat /\ Len(s) > 0
      /\ Head(s) = s[1]
      /\ \A i \in 1 .. Len(Tail(s)) : Tail(s)[i] = s[i + 1]
  OBVIOUS
<1>2. Ordered(Tail(s))
  <2> SUFFICES ASSUME NEW i \in 1 .. Len(Tail(s)), NEW j \in 1 .. Len(Tail(s)), i < j
               PROVE  /\ StepRank(Tail(s)[j]) < 4
                      /\ StepRank(Tail(s)[i]) > 1 => StepRank(Tail(s)[j]) < StepRank(Tail(s)[i])
    BY DEF Ordered
  <2>1. i + 1 \in 1 .. Len(s) /\ j + 1 \in 1 .. Len(s) /\ i + 1 < j + 1
    BY <1>1
  <2> QED  BY <1>1, <2>1 DEF Ordered
<1>3. ASSUME NEW i \in 1 .. Len(Tail(s))
      PROVE  /\ StepRank(Tail(s)[i]) < 4
             /\ StepRank(Head(s)) > 1 => StepRank(Tail(s)[i]) < StepRank(Head(s))
  <2>1. 1 \in 1 .. Len(s) /\ i + 1 \in 1 .. Len(s) /\ 1 < i + 1
    BY <1>1
  <2> QED  BY <1>1, <2>1 DEF Ordered
<1> QED  BY <1>1, <1>2, <1>3 DEF Later

\* A step in front of those that come after it; the result comes after whatever
\* the step and the others come after.
LEMMA PutOrdered ==
    ASSUME NEW s \in Seq(Steps), NEW k \in Steps, Ordered(s), Later(k, s)
    PROVE  /\ <<k>> \o s \in Seq(Steps) /\ Ordered(<<k>> \o s)
           /\ \A h : (/\ Later(h, s) /\ StepRank(k) < 4
                      /\ StepRank(h) > 1 => StepRank(k) < StepRank(h)) => Later(h, <<k>> \o s)
<1> DEFINE t == <<k>> \o s
<1>1. /\ t \in Seq(Steps) /\ Len(t) = Len(s) + 1 /\ Len(s) \in Nat
      /\ t[1] = k
      /\ \A i \in 2 .. Len(t) : i - 1 \in 1 .. Len(s) /\ t[i] = s[i - 1]
  OBVIOUS
<1> HIDE DEF t
<1>2. ASSUME NEW i \in 1 .. Len(t), NEW j \in 1 .. Len(t), i < j
      PROVE  /\ StepRank(t[j]) < 4
             /\ StepRank(t[i]) > 1 => StepRank(t[j]) < StepRank(t[i])
  <2>1. j \in 2 .. Len(t)
    BY <1>1, <1>2
  <2>2. CASE i = 1
    <3>1. t[j] = s[j - 1] /\ j - 1 \in 1 .. Len(s) /\ t[i] = k
      BY <1>1, <2>1, <2>2
    <3>2. /\ StepRank(s[j - 1]) < 4
          /\ StepRank(k) > 1 => StepRank(s[j - 1]) < StepRank(k)
      BY <3>1 DEF Later
    <3> QED  BY <3>1, <3>2
  <2>3. CASE i # 1
    <3>1. i \in 2 .. Len(t) /\ i - 1 < j - 1
      BY <1>1, <1>2, <2>1, <2>3
    <3> QED  BY <1>1, <2>1, <3>1 DEF Ordered
  <2> QED  BY <2>2, <2>3
<1>3. Ordered(t)
  BY <1>2 DEF Ordered
<1>4. ASSUME NEW h, Later(h, s), StepRank(k) < 4, StepRank(h) > 1 => StepRank(k) < StepRank(h)
      PROVE  Later(h, t)
  <2> SUFFICES ASSUME NEW i \in 1 .. Len(t)
               PROVE  /\ StepRank(t[i]) < 4
                      /\ StepRank(h) > 1 => StepRank(t[i]) < StepRank(h)
    BY DEF Later
  <2>1. CASE i = 1
    BY <1>1, <1>4, <2>1
  <2>2. CASE i # 1
    <3>1. i - 1 \in 1 .. Len(s) /\ t[i] = s[i - 1]
      BY <1>1, <2>2
    <3> QED  BY <1>4, <3>1 DEF Later
  <2> QED  BY <2>1, <2>2
<1> QED  BY <1>1, <1>3, <1>4 DEF t

LEMMA RulesOrdered ==
    ASSUME NEW k
    PROVE  Ordered(RuleOf(k))
<1>1. /\ Ordered(<<"expr", "end">>) /\ Ordered(<<"target", "=", "expr", "end">>)
      /\ Ordered(<<"target", "in", "expr", "end">>)
  BY DEF Ordered, StepRank
<1>2. /\ Ordered(<<"some", "end">>) /\ Ordered(<<"exprs", "end">>) /\ Ordered(<<"option", "end">>)
      /\ Ordered(<<"sig", "attrs", "end">>) /\ Ordered(<<"pattern", "end">>)
      /\ Ordered(<<"command", "end">>) /\ Ordered(<<"end">>)
  BY DEF Ordered, StepRank
<1> QED  BY <1>1, <1>2 DEF RuleOf

\* What is left of a rule stays ordered.
LEMMA OrderedStep ==
    ASSUME Inv, Ordered(todo), Next
    PROVE  Ordered(todo')
<1>1. Ordered(<<>>) /\ Ordered(<<"expr", "end">>) /\ Ordered(<<"command", "end">>)
  BY DEF Ordered, StepRank
<1>2. CASE \/ SkipSeparators \/ Synchronize \/ Unterminated \/ EndOfProgram
           \/ UNCHANGED pvars \/ Err
  <2>1. todo' = todo \/ todo' = <<>>
    BY <1>2 DEF SkipSeparators, Synchronize, Unterminated, EndOfProgram, pvars, Err
  <2> QED  BY <1>1, <2>1
<1>3. CASE Terminate \/ KeywordStatement
  BY <1>3, RulesOrdered DEF Terminate, KeywordStatement
<1>4. CASE UnexpectedTerminator \/ AssignmentStatement \/ ExStatement \/ ExpressionStatement
  BY <1>1, <1>4, RulesOrdered DEF UnexpectedTerminator, Err, AssignmentStatement, ExStatement, ExpressionStatement, Goes
<1>5. CASE Rule
  <2>1. CASE todo = <<>>
    <3>1. FALSE
      BY <1>5, <2>1 DEF Rule, Expression, MoreOfExpression, Expect, Attributes, EndOfStatement,
                        Listed, OptionalComma, Pattern, ExCommand, RangedCommand, SkipRaw, Matching
    <3> QED  BY <3>1
  <2>2. CASE todo # <<>>
    <3>1. todo \in Seq(Steps) /\ Head(todo) \in Steps
      BY <2>2 DEF Inv, TypeOK
    <3>2. Rest \in Seq(Steps) /\ Ordered(Rest) /\ Later(Head(todo), Rest)
      BY <2>2, <3>1, RestOrdered DEF Rest
    <3>3. /\ "more" \in Steps /\ "expr" \in Steps /\ "exprs" \in Steps /\ "string" \in Steps
          /\ "raw" \in Steps /\ "comma" \in Steps /\ "ranged" \in Steps /\ "last" \in Steps
          /\ StepRank("more") = 4 /\ StepRank("expr") = 1 /\ StepRank("string") = 1
          /\ StepRank("raw") = 2 /\ StepRank("exprs") = 2 /\ StepRank("some") = 2
          /\ StepRank("command") = 2 /\ StepRank("comma") = 3
          /\ StepRank("ranged") = 2 /\ StepRank("last") = 2
      BY DEF Steps, StepRank
    <3>4. /\ Ordered(<<"more">> \o Rest) /\ Ordered(<<"expr">> \o Rest)
          /\ Ordered(<<"string">> \o Rest)
      <4>1. Later("more", Rest) /\ Later("expr", Rest) /\ Later("string", Rest)
        BY <3>2, <3>3 DEF Later
      <4> QED  BY <3>2, <3>3, <4>1, PutOrdered
    <3>5. ASSUME StepRank(Head(todo)) = 2, NEW k \in {"raw", "ranged", "last"}
          PROVE  Ordered(<<k>> \o Rest)
      <4>1. Later(k, Rest)
        BY <3>2, <3>3, <3>5 DEF Later
      <4> QED  BY <3>2, <3>3, <4>1, PutOrdered
    <3>6. ASSUME NEW list \in Seq(Steps), Ordered(list), Later("comma", list)
          PROVE  Ordered(<<"expr", "comma">> \o list)
      <4> DEFINE more == <<"comma">> \o list
      <4>1. Later("expr", list)
        BY <3>3, <3>6 DEF Later
      <4>2. more \in Seq(Steps) /\ Ordered(more) /\ Later("expr", more)
        BY <3>3, <3>6, <4>1, PutOrdered
      <4>3. <<"expr">> \o more = <<"expr", "comma">> \o list
        BY <3>6
      <4> HIDE DEF more
      <4>4. Ordered(<<"expr">> \o more)
        BY <3>3, <4>2, PutOrdered
      <4> QED  BY <4>3, <4>4
    <3>7. Head(todo) = "exprs" => Ordered(<<"expr", "comma">> \o todo)
      <4>1. SUFFICES ASSUME Head(todo) = "exprs" PROVE Later("comma", todo)
        BY <3>1, <3>6
      <4> SUFFICES ASSUME NEW i \in 1 .. Len(todo)
                   PROVE  StepRank(todo[i]) < 4 /\ StepRank(todo[i]) < StepRank("comma")
        BY DEF Later
      <4>2. CASE i = 1
        BY <3>3, <4>1, <4>2
      <4>3. CASE i # 1
        <5>1. i - 1 \in 1 .. Len(Rest) /\ Rest[i - 1] = todo[i]
          BY <3>1, <4>3 DEF Rest
        <5>2. StepRank(Rest[i - 1]) < StepRank(Head(todo))
          BY <3>2, <3>3, <4>1, <5>1 DEF Later
        <5>3. StepRank(Rest[i - 1]) \in {1, 2, 3, 4}
          BY RankType
        <5> QED  BY <3>3, <4>1, <5>1, <5>2, <5>3
      <4> QED  BY <4>2, <4>3
    <3>14. Head(todo) = "some" => Ordered(<<"expr", "comma", "exprs">> \o Rest)
      <4>1. SUFFICES ASSUME Head(todo) = "some"
                     PROVE  Ordered(<<"expr", "comma", "exprs">> \o Rest)
        OBVIOUS
      <4> DEFINE list == <<"exprs">> \o Rest
      <4>2. ASSUME NEW i \in 1 .. Len(Rest)
            PROVE  StepRank(Rest[i]) < 2 /\ StepRank(Rest[i]) < 3 /\ StepRank(Rest[i]) < 4
        <5>1. StepRank(Rest[i]) < 2
          BY <3>2, <3>3, <4>1 DEF Later
        <5>2. StepRank(Rest[i]) \in {1, 2, 3, 4}
          BY RankType
        <5> QED  BY <5>1, <5>2
      <4>5. Later("exprs", Rest) /\ Later("comma", Rest)
        BY <3>3, <4>2 DEF Later
      <4>3. list \in Seq(Steps) /\ Ordered(list) /\ Later("comma", list)
        BY <3>2, <3>3, <4>5, PutOrdered
      <4>4. <<"expr", "comma">> \o list = <<"expr", "comma", "exprs">> \o Rest
        BY <3>2
      <4> HIDE DEF list
      <4> QED  BY <3>6, <4>3, <4>4
    <3>8. CASE EndOfStatement
      BY <1>1, <3>8 DEF EndOfStatement, Err
    <3>9. CASE Expression
      BY <1>1, <1>2, <3>4, <3>9 DEF Expression, Err
    <3>10. CASE MoreOfExpression \/ Expect \/ Attributes \/ OptionalComma \/ SkipRaw
      <4>1. todo' \in {todo, Rest, <<>>}
        BY <3>10 DEF MoreOfExpression, Expect, Attributes, OptionalComma, SkipRaw, Goes, Err, pvars
      <4> QED  BY <1>1, <3>2, <4>1
    <3>11. CASE Listed
      <4>1. \/ todo' \in {todo, Rest, <<>>}
            \/ Head(todo) = "some" /\ todo' = <<"expr", "comma", "exprs">> \o Rest
            \/ Head(todo) = "exprs" /\ todo' = <<"expr", "comma">> \o todo
            \/ todo' = <<"expr">> \o Rest
        BY <3>11 DEF Listed, Goes, Err, Matching
      <4> QED  BY <1>1, <3>2, <3>4, <3>7, <3>14, <4>1
    <3>12. CASE Pattern
      <4>1. todo' \in {Rest, <<"string">> \o Rest}
        BY <3>12 DEF Pattern, Goes
      <4> QED  BY <3>2, <3>4, <4>1
    <3>13. CASE ExCommand \/ RangedCommand
      <4>1. /\ todo' = Rest \/ todo' = <<>> \/ \E k \in {"raw", "ranged", "last"} : todo' = <<k>> \o Rest
            /\ Head(todo) \in {"command", "ranged", "last"}
        BY <3>13 DEF ExCommand, RangedCommand, Goes, Err, Matching
      <4> QED  BY <1>1, <3>2, <3>3, <3>5, <4>1
    <3> QED  BY <1>5, <3>8, <3>9, <3>10, <3>11, <3>12, <3>13 DEF Rule
  <2> QED  BY <2>1, <2>2
<1> QED  BY <1>2, <1>3, <1>4, <1>5 DEF Next, Statement

Progress == \/ cursor' # cursor
            \/ Phase' < Phase
            \/ Phase' = Phase /\ Len(frames') < Len(frames)

LEMMA Alphabets ==
    /\ \A kind \in BlockKinds : Ends(kind) \cap StatementEnd = {}
    /\ Terminators \cap StatementEnd = {} /\ Starters \cap StatementEnd = {}
    /\ "eof" \in StatementEnd /\ "eof" \notin Separators
    /\ StatementEnd \subseteq Separators \cup {"eof"}
    /\ Names \cap StatementEnd = {} /\ Commands \subseteq Names /\ "name" \in Names
<1>1. \A kind \in BlockKinds : Ends(kind) \cap StatementEnd = {}
  BY DEF Ends, StatementEnd
<1>2. Terminators \cap StatementEnd = {}
  BY <1>1 DEF Terminators
<1> QED  BY <1>1, <1>2 DEF Starters, StatementEnd, Separators, Names, Commands

LEMMA Lower ==
    ASSUME NEW a, NEW b, a \in Nat, b \in Nat, b < a
    PROVE  3 + b < 3 + a /\ 1 + b < 1 + a
OBVIOUS

\* Giving a rule up is progress.
LEMMA ErrProgress ==
    ASSUME mode = "rule", todo # <<>>, UNCHANGED lexing, Err
    PROVE  Progress
<1>1. HeadRank \in {1, 2, 3, 4}
  BY RankType DEF HeadRank
<1>2. mode' = "sync" /\ current' = current
  BY DEF Err, lexing
<1> QED  BY <1>1, <1>2 DEF Progress, Phase

\* So is going on with a step of a lower rank.
LEMMA GoesProgress ==
    ASSUME mode = "rule", UNCHANGED lexing, NEW steps, Goes(steps), HeadRank' < HeadRank
    PROVE  Progress
<1>1. HeadRank \in Nat /\ HeadRank' \in Nat
  <2>1. HeadRank \in {0, 1, 2, 3, 4}
    BY RankType DEF HeadRank
  <2>2. HeadRank' \in {0, 1, 2, 3, 4}
    BY RankType DEF HeadRank
  <2> QED  BY <2>1, <2>2
<1>2. mode' = "rule" /\ current' = current
  BY DEF Goes, lexing
<1>3. CASE current.kind \in StatementEnd
  <2>1. Phase = 3 + HeadRank
    BY <1>3 DEF Phase
  <2>2. Phase' = 3 + HeadRank'
    BY <1>2, <1>3 DEF Phase
  <2>3. Phase' < Phase
    BY <1>1, <2>1, <2>2, Lower, Zenon
  <2> QED  BY <2>3 DEF Progress
<1>4. CASE current.kind \notin StatementEnd
  <2>1. Phase = 1 + HeadRank
    BY <1>4 DEF Phase
  <2>2. Phase' = 1 + HeadRank'
    BY <1>2, <1>4 DEF Phase
  <2>3. Phase' < Phase
    BY <1>1, <2>1, <2>2, Lower, Zenon
  <2> QED  BY <2>3 DEF Progress
<1> QED  BY <1>3, <1>4

LEMMA ReadingProgress ==
    ASSUME Inv, Advance, current.kind # "eof"
    PROVE  Progress
BY AdvanceFacts DEF Inv, TypeOK, Progress

LEMMA BetweenProgress ==
    ASSUME Inv, \/ SkipSeparators \/ Synchronize \/ Terminate \/ Unterminated
                \/ EndOfProgram \/ Statement
    PROVE  Progress
<1>1. CASE SkipSeparators
  BY <1>1, ReadingProgress, Alphabets DEF SkipSeparators
<1>2. CASE Synchronize
  <2>1. CASE current.kind \in StatementEnd
    <3>1. mode = "sync" /\ mode' = "between" /\ current' = current
      BY <1>2, <2>1 DEF Synchronize, lexing
    <3> QED  BY <2>1, <3>1 DEF Progress, Phase
  <2>2. CASE current.kind \notin StatementEnd
    BY <1>2, <2>2, ReadingProgress, Alphabets DEF Synchronize
  <2> QED  BY <2>1, <2>2
<1>3. CASE Terminate
  <2>1. Open \in BlockKinds
    <3>1. frames \in Seq(BlockKinds) /\ frames # <<>>
      BY <1>3 DEF Terminate, Inv, TypeOK
    <3> QED  BY <3>1 DEF Open
  <2>2. current.kind # "eof"
    BY <1>3, <2>1, Alphabets DEF Terminate
  <2> QED  BY <1>3, <2>2, ReadingProgress DEF Terminate
<1>4. CASE Unterminated
  <2>1. Len(frames') < Len(frames)
    BY <1>4, LeaveCounts DEF Unterminated, Inv
  <2>2. Phase = 1 /\ Phase' = 1
    <3>1. mode = "between" /\ mode' = "between" /\ current' = current /\ current.kind = "eof"
      BY <1>4 DEF Unterminated, lexing
    <3> QED  BY <3>1, Alphabets DEF Phase
  <2> QED  BY <2>1, <2>2 DEF Progress
<1>5. CASE EndOfProgram
  <2>1. /\ mode = "between" /\ mode' = "done" /\ current' = current
        /\ current.kind \in StatementEnd
    BY <1>5, Alphabets DEF EndOfProgram, lexing
  <2> QED  BY <2>1 DEF Progress, Phase
<1>6. CASE KeywordStatement
  BY <1>6, ReadingProgress, Alphabets DEF KeywordStatement
<1>7. CASE UnexpectedTerminator
  <2>1. /\ mode = "between" /\ mode' = "sync" /\ current' = current
        /\ current.kind \notin StatementEnd
    BY <1>7, Alphabets DEF UnexpectedTerminator, AtStatement, Err, lexing
  <2> QED  BY <2>1 DEF Progress, Phase
<1>8. CASE AssignmentStatement \/ ExStatement \/ ExpressionStatement
  <2>1. /\ mode = "between" /\ mode' = "rule" /\ current' = current
        /\ current.kind \notin StatementEnd
    BY <1>8, Alphabets DEF AssignmentStatement, ExStatement, ExpressionStatement, AtStatement, Goes, lexing
  <2>2. todo' \in {<<"command", "end">>, <<"expr", "end">>, <<"target", "=", "expr", "end">>}
    BY <1>8 DEF AssignmentStatement, ExStatement, ExpressionStatement, Goes, RuleOf
  <2>3. HeadRank' \in {1, 2}
    BY <2>2 DEF HeadRank, StepRank
  <2>4. Phase = 6
    BY <2>1 DEF Phase
  <2>5. Phase' = 1 + HeadRank'
    BY <2>1 DEF Phase
  <2>6. Phase' < Phase
    <3>1. 1 + 1 < 6 /\ 1 + 2 < 6
      OBVIOUS
    <3> QED  BY <2>3, <2>4, <2>5, <3>1, Zenon
  <2> QED  BY <2>6 DEF Progress
<1> QED  BY <1>1, <1>2, <1>3, <1>4, <1>5, <1>6, <1>7, <1>8 DEF Statement

LEMMA RuleProgress ==
    ASSUME Inv, Ordered(todo), Rule
    PROVE  Progress
<1>1. mode = "rule" /\ todo # <<>> /\ todo \in Seq(Steps)
  BY DEF Rule, Expression, MoreOfExpression, Expect, Attributes, EndOfStatement, Listed,
         OptionalComma, Pattern, ExCommand, RangedCommand, SkipRaw, Matching, Inv, TypeOK
<1>2. Rest \in Seq(Steps) /\ Later(Head(todo), Rest)
  BY <1>1, RestOrdered DEF Rest
<1>3. HeadRank = StepRank(Head(todo))
  BY <1>1 DEF HeadRank
<1>4. ASSUME StepRank(Head(todo)) > 1, UNCHANGED lexing, Goes(Rest)
      PROVE  Progress
  <2>1. CASE Rest = <<>>
    <3>1. HeadRank' = 0
      BY <1>4, <2>1 DEF HeadRank, Goes
    <3>2. HeadRank' < HeadRank
      BY <1>3, <1>4, <3>1, RankType
    <3> QED  BY <1>1, <1>4, <3>2, GoesProgress
  <2>2. CASE Rest # <<>>
    <3>1. 1 \in 1 .. Len(Rest) /\ Head(Rest) = Rest[1]
      BY <1>2, <2>2
    <3>2. HeadRank' = StepRank(Rest[1])
      BY <1>4, <2>2, <3>1 DEF HeadRank, Goes
    <3>3. StepRank(Rest[1]) < StepRank(Head(todo))
      BY <1>2, <1>4, <3>1 DEF Later
    <3>5. HeadRank' < HeadRank
      BY <1>3, <3>2, <3>3
    <3> QED  BY <1>1, <1>4, <3>5, GoesProgress
  <2> QED  BY <2>1, <2>2
<1>5. ASSUME NEW s \in Seq(Steps), NEW k \in {"expr", "string"}, StepRank(Head(todo)) = 2,
             UNCHANGED lexing, Goes(<<k>> \o s)
      PROVE  Progress
  <2>1. <<k>> \o s # <<>> /\ Head(<<k>> \o s) = k
    <3>1. k \in Steps
      BY DEF Steps
    <3> QED  BY <3>1
  <2>2. HeadRank' = 1
    BY <1>5, <2>1 DEF HeadRank, StepRank, Goes
  <2> QED  BY <1>1, <1>3, <1>5, <2>2, GoesProgress
<1>6. CASE Expression
  <2>1. CASE current.kind = "eof"
    <3>1. UNCHANGED lexing
      BY <1>6, <2>1 DEF Expression, Advance, AdvanceTo
    <3>2. Err
      BY <1>6, <2>1 DEF Expression, Operands, Strings, Names, Commands
    <3> QED  BY <1>1, <3>1, <3>2, ErrProgress
  <2>2. CASE current.kind # "eof"
    BY <1>6, <2>2, ReadingProgress DEF Expression
  <2> QED  BY <2>1, <2>2
<1>7. CASE MoreOfExpression
  <2>1. CASE current.kind = "cont"
    BY <1>7, <2>1, ReadingProgress DEF MoreOfExpression
  <2>2. CASE current.kind # "cont"
    <3>1. StepRank(Head(todo)) > 1
      BY <1>7 DEF MoreOfExpression, Matching, StepRank
    <3> QED  BY <1>4, <1>7, <2>2, <3>1 DEF MoreOfExpression
  <2> QED  BY <2>1, <2>2
<1>8. CASE Expect
  <2>1. PICK step \in {"=", "in", "sig"} :
            IF current.kind \in Right(step) THEN Advance /\ Goes(Rest) ELSE UNCHANGED lexing /\ Err
    BY <1>8 DEF Expect
  <2>2. CASE current.kind \in Right(step)
    BY <2>1, <2>2, ReadingProgress DEF Right
  <2>3. CASE current.kind \notin Right(step)
    BY <1>1, <2>1, <2>3, ErrProgress
  <2> QED  BY <2>2, <2>3
<1>9. CASE EndOfStatement
  <2>1. CASE current.kind \in StatementEnd
    <3>1. mode' = "between" /\ current' = current
      BY <1>9, <2>1 DEF EndOfStatement, lexing
    <3>2. HeadRank \in {1, 2, 3, 4}
      BY <1>3, RankType
    <3> QED  BY <1>1, <2>1, <3>1, <3>2 DEF Progress, Phase
  <2>2. CASE current.kind \notin StatementEnd
    BY <1>1, <1>9, <2>2, ErrProgress DEF EndOfStatement
  <2> QED  BY <2>1, <2>2
<1>10. CASE Listed
  <2>1. StepRank(Head(todo)) = 2 /\ UNCHANGED lexing
    BY <1>10 DEF Listed, Matching, StepRank
  <2>2. \/ Err
        \/ Goes(<<"expr", "comma", "exprs">> \o Rest)
        \/ Goes(<<"expr", "comma">> \o todo)
        \/ Goes(<<"expr">> \o Rest)
        \/ Goes(Rest)
    BY <1>10 DEF Listed
  <2>3. CASE Goes(<<"expr", "comma", "exprs">> \o Rest) \/ Goes(<<"expr", "comma">> \o todo)
    <3>1. "expr" \in Steps /\ "comma" \in Steps /\ "exprs" \in Steps
      BY DEF Steps
    <3>2. /\ <<"comma", "exprs">> \o Rest \in Seq(Steps) /\ <<"comma">> \o todo \in Seq(Steps)
          /\ <<"expr", "comma", "exprs">> \o Rest = <<"expr">> \o (<<"comma", "exprs">> \o Rest)
          /\ <<"expr", "comma">> \o todo = <<"expr">> \o (<<"comma">> \o todo)
      BY <1>1, <1>2, <3>1
    <3> QED  BY <1>5, <2>1, <2>3, <3>2
  <2>4. CASE Goes(<<"expr">> \o Rest)
    BY <1>1, <1>2, <1>5, <2>1, <2>4
  <2> QED  BY <1>1, <1>4, <2>1, <2>2, <2>3, <2>4, ErrProgress
<1>11. CASE Pattern
  <2>1. StepRank(Head(todo)) = 2
    BY <1>11 DEF Pattern, Matching, StepRank
  <2>2. CASE current.kind \in {"single", "double"}
    BY <1>11, <2>2, ReadingProgress DEF Pattern, StatementEnd
  <2>3. CASE current.kind \notin {"single", "double"}
    BY <1>2, <1>4, <1>5, <1>11, <2>1, <2>3 DEF Pattern
  <2> QED  BY <2>2, <2>3
<1>12. CASE ExCommand
  <2>1. StepRank(Head(todo)) = 2
    BY <1>12 DEF ExCommand, Matching, StepRank
  <2>2. CASE Advance /\ current.kind \in Words \cup {"number", "single"}
    <3>1. "eof" \notin Words \cup {"number", "single"}
      BY DEF Words, Keywords, Names, Commands
    <3> QED  BY <2>2, <3>1, ReadingProgress
  <2>3. CASE UNCHANGED lexing /\ (Goes(Rest) \/ Err)
    BY <1>1, <1>4, <2>1, <2>3, ErrProgress
  <2> QED  BY <1>12, <2>2, <2>3 DEF ExCommand
<1>13. CASE SkipRaw
  <2>1. StepRank(Head(todo)) = 2
    BY <1>13 DEF SkipRaw, Matching, StepRank
  <2>2. CASE current.kind \in RawEnd
    BY <1>4, <1>13, <2>1, <2>2 DEF SkipRaw, RawEnd, StatementEnd
  <2>3. CASE current.kind \notin RawEnd
    <3>1. current.kind # "eof"
      BY <2>3 DEF RawEnd, StatementEnd
    <3> QED  BY <1>13, <2>3, <3>1, ReadingProgress DEF SkipRaw
  <2> QED  BY <2>2, <2>3
<1>14. CASE Attributes
  <2>1. StepRank(Head(todo)) = 2
    BY <1>14 DEF Attributes, Matching, StepRank
  <2> QED  BY <1>4, <1>14, <2>1, ReadingProgress DEF Attributes
<1>15. CASE OptionalComma
  <2>1. StepRank(Head(todo)) = 3
    BY <1>15 DEF OptionalComma, Matching, StepRank
  <2> QED  BY <1>4, <1>15, <2>1, ReadingProgress DEF OptionalComma
<1>16. CASE RangedCommand
  <2>1. CASE Advance /\ current.kind \in Words \cup {"comma", "number"}
    <3>1. "eof" \notin Words \cup {"comma", "number"}
      BY DEF Words, Keywords, Names, Commands
    <3> QED  BY <2>1, <3>1, ReadingProgress
  <2>2. CASE UNCHANGED lexing /\ Err
    BY <1>1, <2>2, ErrProgress
  <2> QED  BY <1>16, <2>1, <2>2 DEF RangedCommand
<1> QED  BY <1>6, <1>7, <1>8, <1>9, <1>10, <1>11, <1>12, <1>13, <1>14, <1>15, <1>16 DEF Rule

\* The parser never goes round in circles in front of a token: every step that
\* does not read on is nearer to one that does.
THEOREM ParserReadsOn == Spec => ReadsOn
<1>1. Init => Inv /\ Ordered(todo)
  <2>1. Init => Ordered(todo)
    BY DEF Init, Ordered
  <2> QED  BY <2>1, InitInv
<1>2. (Inv /\ Ordered(todo)) /\ [Next]_vars => (Inv /\ Ordered(todo))'
  <2> SUFFICES ASSUME Inv, Ordered(todo), [Next]_vars PROVE Inv' /\ Ordered(todo')
    OBVIOUS
  <2>1. CASE Next
    BY <2>1, NextInv, OrderedStep
  <2>2. CASE UNCHANGED vars
    BY <2>2, NextInv DEF vars, pvars
  <2> QED  BY <2>1, <2>2
<1>3. Inv /\ Ordered(todo) /\ [Next]_vars
        => [\/ cursor' # cursor
            \/ Phase' < Phase
            \/ Phase' = Phase /\ Len(frames') < Len(frames)]_vars
  BY BetweenProgress, RuleProgress DEF Next, Progress
<1> QED  BY <1>1, <1>2, <1>3, PTL DEF Spec, ReadsOn

-----------------------------------------------------------------------------
(* Short sequences.                                                        *)

LEMMA Append1 ==
    ASSUME NEW a, NEW b
    PROVE  Append(<<a>>, b) = <<a, b>>
<1> DEFINE S == {a, b}
<1>1. a \in S /\ b \in S
  OBVIOUS
<1> HIDE DEF S
<1>2. Append(<<a>>, b) \in Seq(S) /\ <<a, b>> \in Seq(S)
  BY <1>1
<1>3. Len(Append(<<a>>, b)) = Len(<<a, b>>)
  BY <1>1
<1>4. \A i \in 1 .. Len(<<a, b>>) : Append(<<a>>, b)[i] = <<a, b>>[i]
  BY <1>1
<1> QED  BY <1>2, <1>3, <1>4, SeqEqual

LEMMA Append2 ==
    ASSUME NEW a, NEW b, NEW c
    PROVE  Append(<<a, b>>, c) = <<a, b, c>>
<1> DEFINE S == {a, b, c}
<1>1. a \in S /\ b \in S /\ c \in S
  OBVIOUS
<1> HIDE DEF S
<1>2. Append(<<a, b>>, c) \in Seq(S) /\ <<a, b, c>> \in Seq(S)
  BY <1>1
<1>3. Len(Append(<<a, b>>, c)) = Len(<<a, b, c>>)
  BY <1>1
<1>4. \A i \in 1 .. Len(<<a, b, c>>) : Append(<<a, b>>, c)[i] = <<a, b, c>>[i]
  BY <1>1
<1> QED  BY <1>2, <1>3, <1>4, SeqEqual

LEMMA Append3 ==
    ASSUME NEW a, NEW b, NEW c, NEW d
    PROVE  Append(<<a, b, c>>, d) = <<a, b, c, d>>
<1> DEFINE S == {a, b, c, d}
<1>1. a \in S /\ b \in S /\ c \in S /\ d \in S
  OBVIOUS
<1> HIDE DEF S
<1>2. Append(<<a, b, c>>, d) \in Seq(S) /\ <<a, b, c, d>> \in Seq(S)
  BY <1>1
<1>3. Len(Append(<<a, b, c>>, d)) = Len(<<a, b, c, d>>)
  BY <1>1
<1>4. \A i \in 1 .. Len(<<a, b, c, d>>) : Append(<<a, b, c>>, d)[i] = <<a, b, c, d>>[i]
  BY <1>1
<1> QED  BY <1>2, <1>3, <1>4, SeqEqual

LEMMA Put1 ==
    ASSUME NEW a, NEW b
    PROVE  <<a>> \o <<b>> = <<a, b>>
<1> DEFINE S == {a, b}
<1>1. a \in S /\ b \in S
  OBVIOUS
<1> HIDE DEF S
<1>2. <<a>> \o <<b>> \in Seq(S) /\ <<a, b>> \in Seq(S)
  BY <1>1
<1>3. Len(<<a>> \o <<b>>) = Len(<<a, b>>)
  BY <1>1
<1>4. \A i \in 1 .. Len(<<a, b>>) : (<<a>> \o <<b>>)[i] = <<a, b>>[i]
  BY <1>1
<1> QED  BY <1>2, <1>3, <1>4, SeqEqual

LEMMA Put2 ==
    ASSUME NEW a, NEW b, NEW c
    PROVE  <<a>> \o <<b, c>> = <<a, b, c>>
<1> DEFINE S == {a, b, c}
<1>1. a \in S /\ b \in S /\ c \in S
  OBVIOUS
<1> HIDE DEF S
<1>2. <<a>> \o <<b, c>> \in Seq(S) /\ <<a, b, c>> \in Seq(S)
  BY <1>1
<1>3. Len(<<a>> \o <<b, c>>) = Len(<<a, b, c>>)
  BY <1>1
<1>4. \A i \in 1 .. Len(<<a, b, c>>) : (<<a>> \o <<b, c>>)[i] = <<a, b, c>>[i]
  BY <1>1
<1> QED  BY <1>2, <1>3, <1>4, SeqEqual

LEMMA PutTwo ==
    ASSUME NEW a, NEW b, NEW c, NEW d
    PROVE  /\ <<a, b>> \o <<c, d>> = <<a, b, c, d>>
           /\ <<a, b, c>> \o <<d>> = <<a, b, c, d>>
<1> DEFINE S == {a, b, c, d}
<1>1. a \in S /\ b \in S /\ c \in S /\ d \in S
  OBVIOUS
<1> HIDE DEF S
<1>2. <<a, b>> \o <<c, d>> \in Seq(S) /\ <<a, b, c>> \o <<d>> \in Seq(S)
      /\ <<a, b, c, d>> \in Seq(S)
  BY <1>1
<1>3. Len(<<a, b>> \o <<c, d>>) = Len(<<a, b, c, d>>)
      /\ Len(<<a, b, c>> \o <<d>>) = Len(<<a, b, c, d>>)
  BY <1>1
<1>4. \A i \in 1 .. Len(<<a, b, c, d>>) :
          /\ (<<a, b>> \o <<c, d>>)[i] = <<a, b, c, d>>[i]
          /\ (<<a, b, c>> \o <<d>>)[i] = <<a, b, c, d>>[i]
  BY <1>1
<1> QED  BY <1>2, <1>3, <1>4, SeqEqual

LEMMA Put3 ==
    ASSUME NEW a, NEW b, NEW c, NEW d
    PROVE  <<a>> \o <<b, c, d>> = <<a, b, c, d>>
<1> DEFINE S == {a, b, c, d}
<1>1. a \in S /\ b \in S /\ c \in S /\ d \in S
  OBVIOUS
<1> HIDE DEF S
<1>2. <<a>> \o <<b, c, d>> \in Seq(S) /\ <<a, b, c, d>> \in Seq(S)
  BY <1>1
<1>3. Len(<<a>> \o <<b, c, d>>) = Len(<<a, b, c, d>>)
  BY <1>1
<1>4. \A i \in 1 .. Len(<<a, b, c, d>>) : (<<a>> \o <<b, c, d>>)[i] = <<a, b, c, d>>[i]
  BY <1>1
<1> QED  BY <1>2, <1>3, <1>4, SeqEqual

-----------------------------------------------------------------------------
(* The commands of VimBlocks.                                              *)

\* What the reader has of a command, by the slot that it needs next.
NeedE == {<<"unlet">>, <<"echo">>, <<"throw">>, <<"return">>, <<"if">>, <<"elseif">>, <<"while">>,
          <<"let", "T", "=">>, <<"T", "=">>, <<"for", "T", "in">>}
NeedT == {<<"let">>, <<"for">>}
NeedAssignment == {<<"let", "T">>, <<"T">>}
Solo  == {<<"break">>, <<"finish">>, <<"else">>, <<"endif">>, <<"endwhile">>, <<"endfor">>, <<"try">>,
          <<"finally">>, <<"endtry">>, <<"endfunction">>}
WithE == {<<"E">>, <<"let", "T", "=", "E">>, <<"T", "=", "E">>, <<"throw", "E">>, <<"return", "E">>,
          <<"if", "E">>, <<"elseif", "E">>, <<"while", "E">>, <<"for", "T", "in", "E">>}
Whole == Solo \cup WithE \cup {<<"catch", "S">>, <<"function", "F">>}

LEMMA FormsStart ==
    ASSUME NEW f \in V!Forms
    PROVE  /\ Len(f) \in Nat /\ f # <<>>
           /\ f[1] \in {"let", "T", "unlet", "echo", "throw", "return", "break", "finish", "if", "elseif",
                "else", "endif", "while", "endwhile", "for", "endfor", "try", "catch", "finally",
                "endtry", "function", "endfunction", "E", "ex", "colon"}
BY DEF V!Forms

\* Follow(w), w no listing, is what comes next in the forms that w begins.
LEMMA FollowIs ==
    ASSUME NEW w, w \notin V!Listing, NEW S,
           \A f \in V!Forms : V!Begins(w, f) /\ Len(f) > Len(w) => f[Len(w) + 1] \in S,
           \A s \in S : \E f \in V!Forms : V!Begins(w, f) /\ Len(f) > Len(w) /\ f[Len(w) + 1] = s
    PROVE  V!Follow(w) = S
BY DEF V!Follow

LEMMA FollowNone ==
    ASSUME NEW w, w \notin V!Listing,
           \A f \in V!Forms : ~(V!Begins(w, f) /\ Len(f) > Len(w))
    PROVE  V!Follow(w) = {}
BY DEF V!Follow

LEMMA FollowOne ==
    ASSUME NEW w, w \notin V!Listing, NEW s,
           \A f \in V!Forms : V!Begins(w, f) /\ Len(f) > Len(w) => f[Len(w) + 1] = s,
           NEW g \in V!Forms, V!Begins(w, g), Len(g) > Len(w), g[Len(w) + 1] = s
    PROVE  V!Follow(w) = {s}
BY DEF V!Follow

LEMMA NotListing ==
    ASSUME NEW w \in NeedE \cup NeedT \cup NeedAssignment \cup Whole
                        \cup {<<"for", "T">>, <<"catch">>, <<"function">>, <<"colon">>}
    PROVE  w \notin V!Listing
BY DEF V!Listing, NeedE, NeedT, NeedAssignment, Whole, Solo, WithE

\* Which forms begin with a word.
LEMMA FormsOf ==
    ASSUME NEW f \in V!Forms
    PROVE  /\ f[1] \in {"break", "finish", "else", "endif", "endwhile", "endfor", "try", "finally",
                        "endtry", "endfunction", "E"} => Len(f) = 1
           /\ f[1] \in {"throw", "if", "elseif", "while"} => f = <<f[1], "E">>
           /\ f[1] = "unlet" => f = <<"unlet", "E">>
           /\ f[1] \in {"return", "echo"} => f = <<f[1]>> \/ f = <<f[1], "E">>
           /\ f[1] = "let" => f = <<"let", "T", "=", "E">>
           /\ f[1] = "T" => f = <<"T", "=", "E">>
           /\ f[1] = "for" => f = <<"for", "T", "in", "E">>
           /\ f[1] = "catch" => f = <<"catch">> \/ f = <<"catch", "S">>
           /\ f[1] = "function" => f = <<"function", "F">>
           /\ f[1] = "colon" => f = <<"colon", "ex">>
BY DEF V!Forms

LEMMA FormsHas ==
    /\ \A k \in {"unlet", "echo", "throw", "return", "if", "elseif", "while"} : <<k, "E">> \in V!Forms
    /\ \A k \in {"echo", "return", "catch"} : <<k>> \in V!Forms
    /\ <<"let", "T", "=", "E">> \in V!Forms /\ <<"T", "=", "E">> \in V!Forms
    /\ <<"for", "T", "in", "E">> \in V!Forms
    /\ <<"catch", "S">> \in V!Forms /\ <<"function", "F">> \in V!Forms
    /\ <<"colon", "ex">> \in V!Forms /\ <<"ex">> \in V!Forms
    /\ Whole \subseteq V!Forms
BY DEF V!Forms, Whole, Solo, WithE

LEMMA WholeEnds == ASSUME NEW w \in Whole PROVE V!Follow(w) = {}
<1>1. ASSUME NEW f \in V!Forms, V!Begins(w, f), Len(f) > Len(w) PROVE FALSE
  <2>1. /\ Len(w) \in Nat /\ 1 \in 1 .. Len(w)
        /\ f[1] = w[1]
    BY <1>1 DEF V!Begins, Whole, Solo, WithE
  <2>2. CASE w \in Solo
    BY <1>1, <2>1, <2>2, FormsOf DEF Solo
  <2>3. CASE w \in WithE
    BY <1>1, <2>1, <2>3, FormsOf DEF WithE
  <2>4. CASE w \in {<<"catch", "S">>, <<"function", "F">>}
    BY <1>1, <2>1, <2>4, FormsOf
  <2> QED  BY <2>2, <2>3, <2>4 DEF Whole
<1>2. w \notin V!Listing
  BY NotListing
<1> QED  BY <1>1, <1>2, FollowNone

LEMMA NeedsE == ASSUME NEW w \in NeedE PROVE V!Follow(w) = {"E"}
<1>1. ASSUME NEW f \in V!Forms, V!Begins(w, f), Len(f) > Len(w) PROVE f[Len(w) + 1] = "E"
  <2>1. 1 \in 1 .. Len(w)
    BY DEF NeedE
  <2>2. f[1] = w[1]
    BY <1>1, <2>1 DEF V!Begins
  <2>3. CASE w = <<"let", "T", "=">>
    BY <1>1, <2>2, <2>3, FormsOf
  <2>4. CASE w = <<"T", "=">>
    BY <1>1, <2>2, <2>4, FormsOf
  <2>5. CASE w = <<"for", "T", "in">>
    BY <1>1, <2>2, <2>5, FormsOf
  <2>6. ASSUME NEW k \in {"unlet", "echo", "throw", "return", "if", "elseif", "while"}, w = <<k>>
        PROVE  f[Len(w) + 1] = "E"
    <3>1. f = <<k>> \/ f = <<k, "E">>
      BY <1>1, <2>2, <2>6, FormsOf
    <3> QED  BY <1>1, <2>6, <3>1
  <2> QED  BY <2>3, <2>4, <2>5, <2>6 DEF NeedE
<1>2. w \notin V!Listing
  BY NotListing
<1>3. ASSUME NEW g \in V!Forms, V!Begins(w, g), Len(g) > Len(w), g[Len(w) + 1] = "E"
      PROVE  V!Follow(w) = {"E"}
  BY <1>1, <1>2, <1>3, FollowOne
<1>4. CASE w = <<"let", "T", "=">>
  <2>1. LET g == <<"let", "T", "=", "E">> IN V!Begins(w, g) /\ Len(g) > Len(w) /\ g[Len(w) + 1] = "E"
    BY <1>4 DEF V!Begins
  <2> QED  BY <1>3, <2>1, FormsHas
<1>5. CASE w = <<"T", "=">>
  <2>1. LET g == <<"T", "=", "E">> IN V!Begins(w, g) /\ Len(g) > Len(w) /\ g[Len(w) + 1] = "E"
    BY <1>5 DEF V!Begins
  <2> QED  BY <1>3, <2>1, FormsHas
<1>6. CASE w = <<"for", "T", "in">>
  <2>1. LET g == <<"for", "T", "in", "E">> IN V!Begins(w, g) /\ Len(g) > Len(w) /\ g[Len(w) + 1] = "E"
    BY <1>6 DEF V!Begins
  <2> QED  BY <1>3, <2>1, FormsHas
<1>7. ASSUME NEW k \in {"unlet", "echo", "throw", "return", "if", "elseif", "while"}, w = <<k>>
      PROVE  V!Follow(w) = {"E"}
  <2>1. LET g == <<k, "E">> IN V!Begins(w, g) /\ Len(g) > Len(w) /\ g[Len(w) + 1] = "E"
    BY <1>7 DEF V!Begins
  <2> QED  BY <1>3, <2>1, FormsHas
<1> QED  BY <1>4, <1>5, <1>6, <1>7 DEF NeedE

LEMMA NeedsT == ASSUME NEW w \in NeedT PROVE V!Follow(w) = {"T"}
<1>1. ASSUME NEW f \in V!Forms, V!Begins(w, f), Len(f) > Len(w) PROVE f[Len(w) + 1] = "T"
  <2>1. 1 \in 1 .. Len(w)
    BY DEF NeedT
  <2>2. f[1] = w[1]
    BY <1>1, <2>1 DEF V!Begins
  <2>3. CASE w = <<"let">>
    BY <1>1, <2>2, <2>3, FormsOf
  <2>4. CASE w = <<"for">>
    BY <1>1, <2>2, <2>4, FormsOf
  <2> QED  BY <2>3, <2>4 DEF NeedT
<1>2. w \notin V!Listing
  BY NotListing
<1>3. CASE w = <<"let">>
  <2>1. LET g == <<"let", "T", "=", "E">> IN V!Begins(w, g) /\ Len(g) > Len(w) /\ g[Len(w) + 1] = "T"
    BY <1>3 DEF V!Begins
  <2> QED  BY <1>1, <1>2, <2>1, FormsHas, FollowOne
<1>4. CASE w = <<"for">>
  <2>1. LET g == <<"for", "T", "in", "E">> IN V!Begins(w, g) /\ Len(g) > Len(w) /\ g[Len(w) + 1] = "T"
    BY <1>4 DEF V!Begins
  <2> QED  BY <1>1, <1>2, <2>1, FormsHas, FollowOne
<1> QED  BY <1>3, <1>4 DEF NeedT

LEMMA NeedsAssignment == ASSUME NEW w \in NeedAssignment PROVE V!Follow(w) = {"="}
<1>1. w \notin V!Listing
  BY NotListing
<1>2. CASE w = <<"let", "T">>
  <2>1. LET g == <<"let", "T", "=", "E">> IN V!Begins(w, g) /\ Len(g) > Len(w) /\ g[Len(w) + 1] = "="
    BY <1>2 DEF V!Begins
  <2>2. \A f \in V!Forms : V!Begins(w, f) /\ Len(f) > Len(w) => f[Len(w) + 1] = "="
    BY <1>2 DEF V!Forms, V!Begins
  <2> QED  BY <1>1, <2>1, <2>2, FormsHas, FollowOne
<1>3. CASE w = <<"T">>
  <2>1. LET g == <<"T", "=", "E">> IN V!Begins(w, g) /\ Len(g) > Len(w) /\ g[Len(w) + 1] = "="
    BY <1>3 DEF V!Begins
  <2>2. \A f \in V!Forms : V!Begins(w, f) /\ Len(f) > Len(w) => f[Len(w) + 1] = "="
    BY <1>3 DEF V!Forms, V!Begins
  <2> QED  BY <1>1, <2>1, <2>2, FormsHas, FollowOne
<1> QED  BY <1>2, <1>3 DEF NeedAssignment

\* And those that stand alone.
LEMMA NeedsOther ==
    /\ V!Follow(<<"for", "T">>) = {"in"}
    /\ V!Follow(<<"catch">>) = {"S"}
    /\ V!Follow(<<"function">>) = {"F"}
    /\ V!Follow(<<"colon">>) = {"ex"}
    /\ \A w \in V!Listing : V!Follow(w) = {"E"}
<1>1. V!Follow(<<"for", "T">>) = {"in"}
  <2>1. \A f \in V!Forms : V!Begins(<<"for", "T">>, f) /\ Len(f) > Len(<<"for", "T">>) 
            => f[Len(<<"for", "T">>) + 1] \in {"in"}
    BY DEF V!Forms, V!Begins
  <2>2. LET f == <<"for", "T", "in", "E">> IN 
          V!Begins(<<"for", "T">>, f) /\ Len(f) > Len(<<"for", "T">>) /\ f[Len(<<"for", "T">>) + 1] = "in"
    BY DEF V!Begins
  <2>3. <<"for", "T">> \notin V!Listing
    BY NotListing
  <2>4. <<"for", "T", "in", "E">> \in V!Forms
    BY FormsHas
  <2> QED  BY <2>1, <2>2, <2>3, <2>4, FollowIs
<1>2. ASSUME NEW k \in {"catch", "function", "colon"}
      PROVE  V!Follow(<<k>>) = {IF k = "catch" THEN "S" ELSE IF k = "function" THEN "F" ELSE "ex"}
  <2> DEFINE s == IF k = "catch" THEN "S" ELSE IF k = "function" THEN "F" ELSE "ex"
  <2>1. \A f \in V!Forms : V!Begins(<<k>>, f) /\ Len(f) > Len(<<k>>) => f[Len(<<k>>) + 1] \in {s}
    BY DEF V!Forms, V!Begins
  <2>2. V!Begins(<<k>>, <<k, s>>) /\ Len(<<k, s>>) > Len(<<k>>) /\ <<k, s>>[Len(<<k>>) + 1] = s
    BY DEF V!Begins
  <2>3. <<k, s>> \in V!Forms
    BY FormsHas
  <2>4. <<k>> \notin V!Listing
    BY NotListing
  <2> QED  BY <2>1, <2>2, <2>3, <2>4, FollowIs
<1> QED  BY <1>1, <1>2 DEF V!Follow

\* At the start of a command.
LEMMA FollowStart ==
    V!Follow(<<>>) = {"let", "T", "unlet", "echo", "throw", "return", "break", "finish", "if", "elseif",
                "else", "endif", "while", "endwhile", "for", "endfor", "try", "catch", "finally",
                "endtry", "function", "endfunction", "E", "ex", "colon"}
<1> DEFINE S == {"let", "T", "unlet", "echo", "throw", "return", "break", "finish", "if", "elseif",
                "else", "endif", "while", "endwhile", "for", "endfor", "try", "catch", "finally",
                "endtry", "function", "endfunction", "E", "ex", "colon"}
<1>1. \A f \in V!Forms : V!Begins(<<>>, f) /\ Len(f) > Len(<<>>) => f[Len(<<>>) + 1] \in S
  BY FormsStart
<1>2. ASSUME NEW s \in S PROVE \E f \in V!Forms : Len(f) > 0 /\ f[1] = s
  <2>1. CASE <<s>> \in V!Forms
    BY <2>1
  <2>2. CASE s \in {"unlet", "throw", "if", "elseif", "while"}
    BY <2>2, FormsHas
  <2>3. CASE s = "let"
    BY <2>3, FormsHas
  <2>4. CASE s = "T"
    BY <2>4, FormsHas
  <2>5. CASE s = "for"
    BY <2>5, FormsHas
  <2>6. CASE s = "function"
    BY <2>6, FormsHas
  <2>7. CASE s = "colon"
    BY <2>7, FormsHas
  <2>8. \/ s \in {"unlet", "throw", "if", "elseif", "while", "let", "T", "for", "function", "colon"}
        \/ s \in {"echo", "return", "catch"}
        \/ <<s>> \in Whole \cup {<<"ex">>}
    BY DEF Whole, Solo, WithE
  <2> QED  BY <2>1, <2>2, <2>3, <2>4, <2>5, <2>6, <2>7, <2>8, FormsHas
<1>3. \A f : V!Begins(<<>>, f) <=> 0 <= Len(f)
  BY DEF V!Begins
<1>4. <<>> \notin V!Listing
  BY DEF V!Listing
<1> HIDE DEF S
<1>5. \A s \in S : \E f \in V!Forms : V!Begins(<<>>, f) /\ Len(f) > Len(<<>>) /\ f[Len(<<>>) + 1] = s
  BY <1>2, <1>3
<1>6. V!Follow(<<>>) = S
  BY <1>1, <1>4, <1>5, FollowIs
<1> QED  BY <1>6 DEF S

\* The readers there may be.
Wordings == Kinds \cup V!Slots \cup {"bad"}
Reader == [words : Seq(Wordings), open : Seq(BlockKinds), refused : BOOLEAN, barred : BOOLEAN,
           joint : BOOLEAN, away : BOOLEAN]

\* The reader after a token.
After(r, k, c) == V!Read(IF c THEN V!Read(r, "double", TRUE) ELSE r, k, FALSE)

Breaks == {"nl", "bar", "semi", "eof", "cont"}

\* What a reader r may become.
Gone(a, r)    == a.away /\ a.refused = r.refused
Lost(a)       == a.away /\ a.refused
Dropped(a, r) == a = [r EXCEPT !.words = V!Bad]
Has(a, r, w)  == a = [r EXCEPT !.words = w, !.joint = FALSE]

LEMMA Departs ==
    ASSUME NEW r, NEW how
    PROVE  Gone(V!Departed(r, how), r)
BY DEF Gone, V!Departed, V!Start

LEMMA DepartsRefused ==
    ASSUME NEW r \in Reader, NEW how
    PROVE  Lost(V!Departed([r EXCEPT !.refused = TRUE], how))
BY DEF Lost, V!Departed, V!Start, Reader

\* A word that fits.
LEMMA WordFits ==
    ASSUME NEW r \in Reader, r.words \notin {<<>>, V!Bad, <<"colon">>}, ~V!InEx(r.words),
           NEW s, s # "bad", V!Follow(r.words) = {s}, NEW l, l # "heredoc", s \in V!Fits(l)
    PROVE  LET a == V!Word(r, l)
               w == IF r.words \in V!Listing THEN r.words ELSE Append(r.words, s)
           IN  \/ Gone(a, r)
               \/ (r.joint => s \in {"E", "T", "S"}) /\ Has(a, r, w)
<1>1. V!SlotOf(r.words, l) = {s}
  BY DEF V!SlotOf
<1>2. (CHOOSE x \in {s} : TRUE) = s
  OBVIOUS
<1> DEFINE w == IF r.words \in V!Listing THEN r.words ELSE Append(r.words, s)
<1>3. V!Taken(r.words, l) = w
  <2>1. r.words # <<"function", "F">>
    BY WholeEnds DEF Whole
  <2> QED  BY <1>1, <1>2, <2>1 DEF V!Taken
<1>4. r.words \in Seq(Wordings) /\ r.words # <<>>
  BY DEF Reader
<1>5. w # V!Bad /\ w # <<>> /\ w[Len(w)] \in {s, "E"}
      /\ (r.words \in V!Listing => s = "E")
      /\ w[Len(w)] = s
  <2>1. CASE r.words \in V!Listing
    <3>1. s = "E"
      BY <2>1, NeedsOther
    <3> QED  BY <2>1, <3>1 DEF V!Listing, V!Bad
  <2>2. CASE r.words \notin V!Listing
    <3>1. w = Append(r.words, s) /\ Len(r.words) \in Nat \ {0}
      BY <1>4, <2>2
    <3>2. Len(w) = Len(r.words) + 1 /\ w[Len(w)] = s
      BY <1>4, <3>1
    <3>3. w # <<>> /\ w # V!Bad
      BY <3>1, <3>2 DEF V!Bad
    <3> QED  BY <2>2, <3>2, <3>3
  <2> QED  BY <2>1, <2>2
<1> HIDE DEF w
<1>6. CASE r.joint /\ s \notin {"E", "T", "S"}
  <2>1. V!Word(r, l) \in {V!Departed(r, "dialect"), V!Departed(r, "backslash")}
    BY <1>3, <1>4, <1>5, <1>6 DEF V!Word
  <2> QED  BY <2>1, Departs
<1>7. CASE ~(r.joint /\ s \notin {"E", "T", "S"})
  <2>1. \/ V!Word(r, l) = V!Departed(r, "dialect")
        \/ V!Word(r, l) = [r EXCEPT !.words = w, !.joint = FALSE]
    BY <1>3, <1>4, <1>5, <1>7 DEF V!Word
  <2> QED  BY <1>7, <2>1, Departs DEF Has, w
<1> QED  BY <1>6, <1>7

\* And one that does not.
LEMMA WordSpoils ==
    ASSUME NEW r \in Reader, r.words \notin {<<>>, V!Bad, <<"colon">>}, ~V!InEx(r.words),
           NEW l, l # "heredoc", V!Fits(l) \cap V!Follow(r.words) = {},
           ~(r.words = <<"function", "F">> /\ l = "attr")
    PROVE  LET a == V!Word(r, l)
           IN  \/ Gone(a, r)
               \/ IF r.words[1] \in V!Header THEN Lost(a) ELSE Dropped(a, r)
<1>1. V!SlotOf(r.words, l) = {}
  BY DEF V!SlotOf
<1>2. V!Taken(r.words, l) = V!Bad
  BY <1>1 DEF V!Taken
<1>3. V!Word(r, l) = V!Departed(r, "dialect") \/ V!Word(r, l) = V!Spoiled(r, l)
  BY <1>2 DEF V!Word
<1>4. CASE r.words[1] \in V!Header
  BY <1>3, <1>4, Departs, DepartsRefused DEF V!Spoiled
<1>5. CASE r.words[1] \notin V!Header
  BY <1>3, <1>5, Departs DEF V!Spoiled, Dropped
<1> QED  BY <1>4, <1>5

\* A comment is passed over, or nothing is compared any more.
LEMMA AfterComment ==
    ASSUME NEW r, ~r.away
    PROVE  V!Read(r, "double", TRUE) = r \/ V!Read(r, "double", TRUE) = V!Departed(r, "quote")
BY DEF V!Read, V!Quoted

LEMMA AwayStays ==
    ASSUME NEW r, r.away, NEW k, NEW c
    PROVE  After(r, k, c) = r
BY DEF After, V!Read

LEMMA AfterIs ==
    ASSUME NEW r, ~r.away, NEW k, NEW c
    PROVE  After(r, k, c) = V!Read(r, k, FALSE) \/ Gone(After(r, k, c), r)
<1>1. CASE c /\ V!Read(r, "double", TRUE) # r
  <2>1. PICK d : d = V!Departed(r, "quote")
    OBVIOUS
  <2>2. V!Read(r, "double", TRUE) = d
    BY <1>1, <2>1, AfterComment
  <2>3. Gone(d, r)
    BY <2>1, Departs
  <2>4. V!Read(d, k, FALSE) = d
    BY <2>3 DEF Gone, V!Read
  <2>5. After(r, k, c) = d
    BY <1>1, <2>2, <2>4 DEF After
  <2> QED  BY <2>3, <2>5
<1>2. CASE ~(c /\ V!Read(r, "double", TRUE) # r)
  BY <1>2 DEF After
<1> QED  BY <1>1, <1>2

\* The same for tokens: k is no break between commands.
LEMMA ReadFits ==
    ASSUME NEW r \in Reader, ~r.away,
           r.words \notin {<<>>, V!Bad, <<"colon">>}, ~V!InEx(r.words),
           NEW s, s # "bad", V!Follow(r.words) = {s}, NEW k, k \notin Breaks \cup {"heredoc"},
           s \in V!Fits(k), NEW c
    PROVE  LET a == After(r, k, c)
               w == IF r.words \in V!Listing THEN r.words ELSE Append(r.words, s)
           IN  \/ Gone(a, r)
               \/ (r.joint => s \in {"E", "T", "S"}) /\ Has(a, r, w)
<1>1. V!Read(r, k, FALSE) = V!Word(r, k)
  <2>1. CASE k = "double"
    <3>1. V!SlotOf(r.words, "double") # {}
      BY <2>1 DEF V!SlotOf
    <3> QED  BY <2>1, <3>1 DEF V!Read, V!Quoted
  <2>2. CASE k # "double"
    BY <2>2 DEF V!Read, Breaks
  <2> QED  BY <2>1, <2>2
<1> DEFINE w == IF r.words \in V!Listing THEN r.words ELSE Append(r.words, s)
<1>2. \/ Gone(V!Word(r, k), r)
      \/ (r.joint => s \in {"E", "T", "S"}) /\ Has(V!Word(r, k), r, w)
  BY WordFits DEF Breaks
<1>3. After(r, k, c) = V!Word(r, k) \/ Gone(After(r, k, c), r)
  BY <1>1, AfterIs
<1> QED  BY <1>2, <1>3

LEMMA ReadSpoils ==
    ASSUME NEW r \in Reader, ~r.away,
           r.words \notin {<<>>, V!Bad, <<"colon">>}, ~V!InEx(r.words),
           NEW k, k \notin Breaks, k = "heredoc" \/ V!Fits(k) \cap V!Follow(r.words) = {},
           ~(r.words = <<"function", "F">> /\ k = "attr"), NEW c
    PROVE  LET a == After(r, k, c)
           IN  \/ Gone(a, r)
               \/ /\ k # "heredoc"
                  /\ IF r.words[1] \in V!Header THEN Lost(a) ELSE Dropped(a, r)
<1>1. CASE k = "heredoc"
  <2>1. V!Read(r, k, FALSE) = V!Departed(r, "heredoc")
    BY <1>1 DEF V!Read, V!Word
  <2> QED  BY <2>1, Departs, AfterIs
<1>2. CASE k # "heredoc"
  <2>1. V!Read(r, k, FALSE) = V!Word(r, k) \/ V!Read(r, k, FALSE) = V!Departed(r, "quote")
    BY <1>2 DEF V!Read, V!Quoted, Breaks
  <2> QED  BY <1>2, <2>1, WordSpoils, AfterIs, Departs
<1> QED  BY <1>1, <1>2

LEMMA ReadCont ==
    ASSUME NEW r, ~r.away, r.words # <<>>, NEW c
    PROVE  LET a == After(r, "cont", c)
           IN  \/ Gone(a, r)
               \/ a = IF r.words = V!Bad \/ r.words[Len(r.words)] \in {"E", "T"} THEN r
                      ELSE [r EXCEPT !.joint = TRUE]
<1>1. V!Read(r, "cont", FALSE) = V!Join(r)
  BY DEF V!Read
<1> QED  BY <1>1, AfterIs DEF V!Join

\* The breaks between commands.
Judges(a, r, k) == a = [r EXCEPT !.words = <<>>, !.joint = FALSE, !.barred = (k = "bar")]

\* A semicolon separates nothing in Vim; it is text in an Ex command.
LEMMA ReadSemicolon ==
    ASSUME NEW r, ~r.away, r.joint \/ ~V!InEx(r.words), NEW c
    PROVE  Gone(After(r, "semi", c), r)
<1>1. V!Read(r, "semi", FALSE) = V!Departed(r, "semicolon")
  BY DEF V!Read
<1> QED  BY <1>1, AfterIs, Departs

LEMMA ReadSeparator ==
    ASSUME NEW r \in Reader, ~r.away, NEW k \in StatementEnd, NEW c,
           k = "semi" => r.joint \/ ~V!InEx(r.words)
    PROVE  LET a == After(r, k, c)
           IN  Gone(a, r) \/ a = V!Separate(r, k)
<1>1. CASE k = "semi"
  BY <1>1, ReadSemicolon
<1>2. CASE k # "semi"
  <2>1. V!Read(r, k, FALSE) = V!Separate(r, k)
    BY <1>2 DEF V!Read, StatementEnd
  <2> QED  BY <2>1, AfterIs
<1> QED  BY <1>1, <1>2

LEMMA EndsNothing ==
    ASSUME NEW r \in Reader, ~r.away, r.words = <<>>, NEW k \in StatementEnd, NEW c
    PROVE  LET a == After(r, k, c) IN Gone(a, r) \/ Judges(a, r, k)
<1>1. V!Judged(r) = r
  BY DEF V!Judged
<1>2. Judges(V!Separate(r, k), r, k)
  BY <1>1 DEF V!Separate, Judges
<1>3. ~V!InEx(r.words)
  BY DEF V!InEx
<1> QED  BY <1>2, <1>3, ReadSeparator

LEMMA EndsForm ==
    ASSUME NEW r \in Reader, ~r.away, r.words \in V!Forms, NEW k \in StatementEnd, NEW c,
           k = "semi" => r.joint \/ ~V!InEx(r.words)
    PROVE  LET a == After(r, k, c)
               p == V!Placed(r, r.words[1])
           IN  \/ Gone(a, r)
               \/ /\ ~r.joint
                  /\ IF p.away THEN a = p ELSE Judges(a, p, k)
<1>1. r.words # <<>>
  BY DEF V!Forms
<1>2. CASE r.joint
  <2>1. V!Judged(r) = V!Departed(r, "backslash")
    BY <1>1, <1>2 DEF V!Judged
  <2>2. V!Separate(r, k) = V!Departed(r, "backslash")
    BY <2>1 DEF V!Separate, V!Departed, V!Start
  <2> QED  BY <2>2, ReadSeparator, Departs
<1>3. CASE ~r.joint
  <2> DEFINE p == V!Placed(r, r.words[1])
  <2>1. V!Judged(r) = p
    BY <1>1, <1>3 DEF V!Judged
  <2> HIDE DEF p
  <2>2. IF p.away THEN V!Separate(r, k) = p ELSE Judges(V!Separate(r, k), p, k)
    BY <2>1 DEF V!Separate, Judges
  <2>3. Gone(After(r, k, c), r) \/ After(r, k, c) = V!Separate(r, k)
    BY ReadSeparator
  <2> QED  BY <1>3, <2>2, <2>3 DEF p
<1> QED  BY <1>2, <1>3

\* A command that is none.
LEMMA EndsNoForm ==
    ASSUME NEW r \in Reader, ~r.away, r.words \notin V!Forms, r.words # <<>>,
           NEW k \in StatementEnd, NEW c
    PROVE  LET a == After(r, k, c)
           IN  \/ Gone(a, r)
               \/ Lost(a)
               \/ /\ r.words[1] \notin V!Header
                  /\ r.words \notin V!Listings \cup {<<"let", "T", "=">>, <<"T", "=">>, <<"throw">>}
                  /\ ~r.joint \/ r.words = V!Bad
                  /\ Judges(a, [r EXCEPT !.refused = TRUE], k)
<1> DEFINE Wanting == {<<"let", "T", "=">>, <<"T", "=">>, <<"throw">>}
<1>4. After(r, k, c) = V!Separate(r, k) \/ Gone(After(r, k, c), r)
  <2>1. ~V!InEx(r.words)
    BY FormsHas DEF V!InEx
  <2> QED  BY <2>1, ReadSeparator
<1>1. CASE r.words \notin V!Listings /\ (\/ r.words[1] \in V!Header
                                         \/ r.words \in Wanting
                                         \/ r.joint /\ r.words # V!Bad)
  <2>1. V!Judged(r) = V!Departed([r EXCEPT !.refused = TRUE], "lost")
    BY <1>1 DEF V!Judged
  <2>2. Lost(V!Judged(r))
    BY <2>1, DepartsRefused
  <2>3. V!Separate(r, k) = V!Judged(r)
    BY <2>2 DEF V!Separate, Lost
  <2> QED  BY <1>4, <2>2, <2>3
<1>2. CASE r.words \notin V!Listings /\ ~(\/ r.words[1] \in V!Header
                                          \/ r.words \in Wanting
                                          \/ r.joint /\ r.words # V!Bad)
  <2>1. V!Judged(r) = [r EXCEPT !.refused = TRUE]
    BY <1>2 DEF V!Judged
  <2>2. ~V!Judged(r).away
    BY <2>1 DEF Reader
  <2>3. Judges(V!Separate(r, k), [r EXCEPT !.refused = TRUE], k)
    BY <2>1, <2>2 DEF V!Separate, Judges
  <2> QED  BY <1>2, <1>4, <2>3
<1>3. CASE r.words \in V!Listings
  <2>1. V!Judged(r) = V!Departed(r, "listing")
    BY <1>3 DEF V!Judged
  <2>2. Gone(V!Judged(r), r)
    BY <2>1, Departs
  <2>3. V!Separate(r, k) = V!Judged(r)
    BY <2>2 DEF V!Separate, Gone
  <2> QED  BY <1>4, <2>2, <2>3
<1> QED  BY <1>1, <1>2, <1>3

-----------------------------------------------------------------------------
\* The first token of a command.
LEMMA FirstKeyword ==
    ASSUME NEW r \in Reader, ~r.away, r.words = <<>>, ~r.joint,
           NEW k \in Starters \cup Terminators \cup Commands, NEW c
    PROVE  LET a == After(r, k, c)
               s == IF k \in Commands THEN "ex" ELSE k
           IN  Gone(a, r) \/ (Has(a, r, <<s>>) /\ ~(s \in {"ex", "colon"} /\ r.barred))
<1> DEFINE s == IF k \in Commands THEN "ex" ELSE k
<1>1. /\ s \in {"let", "unlet", "echo", "throw", "return", "break", "finish", "if", "elseif",
                "else", "endif", "while", "endwhile", "for", "endfor", "try", "catch", "finally",
                "endtry", "function", "endfunction", "ex", "colon"}
      /\ k \notin {"nl", "bar", "eof", "semi", "cont", "double", "heredoc", "number", "single"}
      /\ s = "ex" <=> k \in {"ex", "attr"}
      /\ k \notin {"ex", "attr"} => s = k
      /\ s \in {"ex", "colon"} <=> k \in {"ex", "attr", "colon"}
  BY DEF Starters, Terminators, Ends, BlockKinds, Commands
<1> HIDE DEF s
<1>2. V!SlotOf(<<>>, k) = {s}
  BY <1>1, FollowStart DEF V!SlotOf, V!Fits
<1>6. (CHOOSE x \in {s} : TRUE) = s
  OBVIOUS
<1>3. V!Taken(<<>>, k) = <<s>> /\ <<s>> # V!Bad
  BY <1>1, <1>2, <1>6 DEF V!Taken, V!Bad, V!InEx, V!Listing
<1>4. V!Read(r, k, FALSE) = V!Word(r, k)
  BY <1>1 DEF V!Read
<1>5. \/ V!Word(r, k) = V!Departed(r, "bar")
      \/ /\ V!Word(r, k) = [r EXCEPT !.words = <<s>>, !.joint = FALSE]
         /\ ~(s \in {"ex", "colon"} /\ r.barred)
  <2>1. /\ V!Taken(r.words, k) = <<s>>
        /\ k # "heredoc" /\ r.words # <<"colon">> /\ <<s>> # V!Bad
    BY <1>1, <1>3
  <2>4. ~V!PartsWays(r.words, k)
    BY <1>1 DEF V!PartsWays, V!Listing
  <2>2. CASE s \in {"ex", "colon"} /\ r.barred
    BY <1>1, <2>1, <2>2 DEF V!Word
  <2>3. CASE ~(s \in {"ex", "colon"} /\ r.barred)
    BY <1>1, <2>1, <2>3, <2>4 DEF V!Word
  <2> QED  BY <2>2, <2>3
<1> QED  BY <1>4, <1>5, AfterIs, Departs DEF Has, s

LEMMA FirstOperand ==
    ASSUME NEW r \in Reader, ~r.away, r.words = <<>>, ~r.joint,
           NEW k \in {"name", "x", "single", "sig", "number"}, NEW c
    PROVE  LET a == After(r, k, c)
           IN  Gone(a, r) \/ Has(a, r, IF k = "name" THEN <<"T">> ELSE <<"E">>)
<1> DEFINE s == IF k = "name" THEN "T" ELSE "E"
<1>4. V!Read(r, k, FALSE) = V!Word(r, k)
  BY DEF V!Read
<1>6. CASE k \in {"single", "number"}
  <2>1. V!PartsWays(r.words, k)
    BY <1>6 DEF V!PartsWays
  <2>2. V!Word(r, k) = V!Departed(r, "dialect")
    BY <1>6, <2>1 DEF V!Word
  <2> QED  BY <1>4, <2>2, AfterIs, Departs
<1>7. CASE k \notin {"single", "number"}
  <2>1. V!SlotOf(<<>>, k) = {s}
    BY <1>7, FollowStart DEF V!SlotOf, V!Fits
  <2>2. (CHOOSE x \in {s} : TRUE) = s
    OBVIOUS
  <2>3. V!Taken(<<>>, k) = <<s>> /\ <<s>> # V!Bad
    BY <2>1, <2>2 DEF V!Taken, V!Bad, V!InEx, V!Listing
  <2>4. /\ V!Taken(r.words, k) = <<s>>
        /\ k # "heredoc" /\ r.words # <<"colon">> /\ <<s>> # V!Bad
        /\ k \notin {"ex", "attr", "colon"}
    BY <2>3
  <2>5. ~V!PartsWays(r.words, k)
    BY <1>7 DEF V!PartsWays, V!Listing
  <2>6. V!Word(r, k) = [r EXCEPT !.words = <<s>>, !.joint = FALSE]
    <3> HIDE DEF s
    <3> QED  BY <2>4, <2>5 DEF V!Word
  <2> QED  BY <1>4, <2>6, AfterIs DEF Has
<1> QED  BY <1>6, <1>7

LEMMA FirstOther ==
    ASSUME NEW r \in Reader, ~r.away, r.words = <<>>, ~r.joint,
           NEW k \in {"double", "heredoc", "=", "in", "junk", "comma", "default"}, NEW c
    PROVE  LET a == After(r, k, c)
           IN  Gone(a, r) \/ (k \notin {"double", "heredoc"} /\ Dropped(a, r))
<1>1. CASE k = "double"
  <2>1. V!Read(r, k, FALSE) = V!Departed(r, "quote")
    BY <1>1 DEF V!Read, V!Quoted, V!InEx, V!Bad
  <2> QED  BY <2>1, AfterIs, Departs
<1>2. CASE k = "heredoc"
  <2>1. V!Read(r, k, FALSE) = V!Departed(r, "heredoc")
    BY <1>2 DEF V!Read, V!Word, V!Bad
  <2> QED  BY <2>1, AfterIs, Departs
<1>3. CASE k \in {"=", "in", "junk", "comma", "default"}
  <2>1. V!SlotOf(<<>>, k) = {}
    BY <1>3, FollowStart DEF V!SlotOf, V!Fits
  <2>2. V!Taken(<<>>, k) = V!Bad
    BY <2>1 DEF V!Taken, V!Bad, V!InEx
  <2>3. V!Word(r, k) = V!Spoiled(r, k)
    BY <1>3, <2>2 DEF V!Word, V!PartsWays, V!Listing
  <2>4. V!Spoiled(r, k) = [r EXCEPT !.words = V!Bad]
    BY <1>3 DEF V!Spoiled, V!Header
  <2>5. V!Read(r, k, FALSE) = V!Word(r, k)
    BY <1>3 DEF V!Read
  <2> QED  BY <1>3, <2>3, <2>4, <2>5, AfterIs DEF Dropped
<1> QED  BY <1>1, <1>2, <1>3

\* After a colon, in an Ex command, and in what is no command.
LEMMA ColonReads ==
    ASSUME NEW r \in Reader, ~r.away, r.words = <<"colon">>, NEW k, k \notin Breaks, NEW c
    PROVE  LET a == After(r, k, c)
           IN  \/ Gone(a, r)
               \/ k \in Commands /\ ~r.joint /\ Has(a, r, <<"colon", "ex">>)
<1>1. CASE k \notin Commands
  <2>1. k = "double" => V!SlotOf(r.words, "double") = {}
    BY NeedsOther DEF V!SlotOf, V!Fits
  <2>2. <<"colon">> \notin V!Forms
    BY DEF V!Forms
  <2>3. V!Read(r, k, FALSE) = V!Word(r, k)
    BY <2>1, <2>2 DEF V!Read, V!Quoted, V!Bad, V!InEx, V!Listings, Breaks
  <2>4. V!Word(r, k) \in {V!Departed(r, "heredoc"), V!Departed(r, "colon")}
    BY <1>1 DEF V!Word, Commands
  <2> QED  BY <2>3, <2>4, AfterIs, Departs
<1>2. CASE k \in Commands
  <2>1. V!SlotOf(<<"colon">>, k) = {"ex"}
    BY <1>2, NeedsOther DEF V!SlotOf, V!Fits, Commands
  <2>6. ~V!PartsWays(r.words, k)
    BY <1>2 DEF V!PartsWays, V!Listing, Commands
  <2>2. (CHOOSE x \in {"ex"} : TRUE) = "ex"
    OBVIOUS
  <2>3. V!Taken(<<"colon">>, k) = <<"colon", "ex">>
    <3>1. <<"colon">> \notin V!Listing
      BY DEF V!Listing
    <3>2. <<"colon">> # V!Bad
      BY DEF V!Bad
    <3>3. ~V!InEx(<<"colon">>)
      BY DEF V!InEx
    <3>4. Append(<<"colon">>, "ex") = <<"colon", "ex">>
      BY Append1
    <3> QED  BY <2>1, <2>2, <3>1, <3>2, <3>3, <3>4 DEF V!Taken
  <2>4. \/ V!Word(r, k) = V!Departed(r, "backslash")
        \/ ~r.joint /\ Has(V!Word(r, k), r, <<"colon", "ex">>)
    <3>1. V!Taken(r.words, k) = <<"colon", "ex">> /\ <<"colon", "ex">> # V!Bad /\ r.words # <<>>
      BY <1>2, <2>3 DEF V!Bad
    <3>2. CASE r.joint
      <4>1. <<"colon", "ex">>[Len(<<"colon", "ex">>)] = "ex"
        OBVIOUS
      <4> QED  BY <1>2, <2>6, <3>1, <3>2, <4>1 DEF V!Word, Commands
    <3>3. CASE ~r.joint
      BY <1>2, <2>6, <3>1, <3>3 DEF V!Word, Commands, Has
    <3> QED  BY <3>2, <3>3
  <2>5. V!Read(r, k, FALSE) = V!Word(r, k)
    BY <1>2 DEF V!Read, Commands
  <2> QED  BY <1>2, <2>4, <2>5, AfterIs, Departs
<1> QED  BY <1>1, <1>2

LEMMA ExReads ==
    ASSUME NEW r \in Reader, ~r.away, V!InEx(r.words), NEW k, NEW c,
           k \notin Breaks \/ (k = "semi" /\ ~r.joint)
    PROVE  LET a == After(r, k, c)
           IN  \/ Gone(a, r)
               \/ a = r /\ (r.joint => k = "double") /\ k # "heredoc"
<1>1. CASE k = "double"
  <2>1. V!Read(r, k, FALSE) = r
    BY <1>1 DEF V!Read, V!Quoted
  <2> QED  BY <1>1, <2>1, AfterIs
<1>2. CASE k = "heredoc"
  <2>1. V!Read(r, k, FALSE) = V!Departed(r, "heredoc")
    BY <1>2 DEF V!Read, V!Word, V!Bad, V!InEx
  <2> QED  BY <2>1, AfterIs, Departs
<1>4. CASE k = "semi"
  <2>1. V!Read(r, k, FALSE) = r
    BY <1>4 DEF V!Read, Breaks
  <2> QED  BY <1>4, <2>1, AfterIs DEF Breaks
<1>3. CASE k \notin {"double", "heredoc", "semi"}
  <2>1. V!Read(r, k, FALSE) = V!Word(r, k)
    BY <1>3 DEF V!Read, Breaks
  <2>2. V!Taken(r.words, k) = r.words
    BY DEF V!Taken
  <2>3. r.words # <<>> /\ r.words # <<"colon">> /\ r.words # V!Bad /\ r.words[Len(r.words)] = "ex"
        /\ ~V!PartsWays(r.words, k)
    BY DEF V!InEx, V!Bad, V!PartsWays, V!Listing
  <2>4. CASE r.joint
    <3>1. V!Word(r, k) = V!Departed(r, "backslash")
      BY <1>3, <2>2, <2>3, <2>4 DEF V!Word
    <3> QED  BY <2>1, <3>1, AfterIs, Departs
  <2>5. CASE ~r.joint
    <3>1. V!Word(r, k) = [r EXCEPT !.words = r.words, !.joint = FALSE]
      BY <1>3, <2>2, <2>3, <2>5 DEF V!Word
    <3>2. V!Word(r, k) = r
      BY <2>5, <3>1 DEF Reader
    <3> QED  BY <1>3, <2>1, <2>5, <3>2, AfterIs
  <2> QED  BY <2>4, <2>5
<1> QED  BY <1>1, <1>2, <1>3, <1>4

LEMMA BadReads ==
    ASSUME NEW r \in Reader, ~r.away, r.words = V!Bad, NEW k, k \notin StatementEnd, NEW c
    PROVE  LET a == After(r, k, c) IN Gone(a, r) \/ a = r
<1>1. V!Read(r, k, FALSE) \in {V!Join(r), r, V!Word(r, k)}
  BY DEF V!Read, V!Quoted, StatementEnd
<1>2. V!Join(r) = r
  BY DEF V!Join, V!Bad
<1>3. V!Taken(r.words, k) = V!Bad
  BY DEF V!Taken
<1>4. V!Word(r, k) = [r EXCEPT !.words = V!Bad]
  BY <1>3 DEF V!Word, V!Spoiled, V!Bad, V!Header, V!PartsWays, V!Listing
<1>5. V!Word(r, k) = r
  BY <1>4 DEF Reader
<1> QED  BY <1>1, <1>2, <1>5, AfterIs

\* The reader keeps its type.
LEMMA SlotsType ==
    ASSUME NEW w, NEW l \in Kinds
    PROVE  V!SlotOf(w, l) \subseteq Wordings
<1>1. l \in Wordings /\ "E" \in Wordings /\ "T" \in Wordings /\ "S" \in Wordings
      /\ "F" \in Wordings /\ "ex" \in Wordings
  BY DEF Wordings, V!Slots
<1>2. V!Fits(l) \subseteq {"E", "T", "S", "F", "ex", l}
  BY DEF V!Fits
<1>3. V!SlotOf(w, l) \subseteq {"E", "T", "S", "F", "ex", l}
  BY <1>2 DEF V!SlotOf
<1> QED  BY <1>1, <1>3

LEMMA BadType == V!Bad \in Seq(Wordings) /\ <<>> \in Seq(Wordings)
<1>1. "bad" \in Wordings
  BY DEF Wordings
<1> QED  BY <1>1 DEF V!Bad

LEMMA TakenType ==
    ASSUME NEW w \in Seq(Wordings), NEW l \in Kinds
    PROVE  V!Taken(w, l) \in Seq(Wordings)
<1>1. V!Bad \in Seq(Wordings)
  BY BadType
<1>2. ASSUME V!SlotOf(w, l) # {} PROVE Append(w, CHOOSE s \in V!SlotOf(w, l) : TRUE) \in Seq(Wordings)
  <2>1. (CHOOSE s \in V!SlotOf(w, l) : TRUE) \in V!SlotOf(w, l)
    BY <1>2
  <2>2. (CHOOSE s \in V!SlotOf(w, l) : TRUE) \in Wordings
    BY <2>1, SlotsType
  <2> QED  BY <2>2
<1> QED  BY <1>1, <1>2 DEF V!Taken

LEMMA DepartedType ==
    ASSUME NEW r \in Reader, NEW how
    PROVE  /\ V!Departed(r, how) \in Reader
           /\ V!Departed([r EXCEPT !.refused = TRUE], how) \in Reader
<1>1. <<>> \in Seq(Wordings) /\ <<>> \in Seq(BlockKinds) /\ r.refused \in BOOLEAN
  BY DEF Reader
<1>2. V!Departed(r, how) \in Reader
  BY <1>1 DEF V!Departed, V!Start, Reader
<1>3. V!Departed([r EXCEPT !.refused = TRUE], how) \in Reader
  BY <1>1 DEF V!Departed, V!Start, Reader
<1> QED  BY <1>2, <1>3

LEMMA WordType ==
    ASSUME NEW r \in Reader, NEW l \in Kinds
    PROVE  V!Word(r, l) \in Reader
<1>1. V!Taken(r.words, l) \in Seq(Wordings)
  BY TakenType DEF Reader
<1>2. V!Spoiled(r, l) \in Reader
  <2>1. [r EXCEPT !.words = V!Bad] \in Reader
    BY BadType DEF Reader
  <2> QED  BY <2>1, DepartedType DEF V!Spoiled
<1>3. [r EXCEPT !.words = V!Taken(r.words, l), !.joint = FALSE] \in Reader
  BY <1>1 DEF Reader
<1> QED  BY <1>2, <1>3, DepartedType DEF V!Word

LEMMA PlacedIs ==
    ASSUME NEW r, NEW k
    PROVE  /\ k \in {"if", "while", "for", "try", "function"}
                => V!Placed(r, k) = [r EXCEPT !.open = Append(r.open, k)]
           /\ k \in V!Header \ {"if", "while", "for", "try", "function"}
                => V!Placed(r, k) = IF V!Inside(r, V!Closes(k))
                                    THEN [r EXCEPT !.open = V!Without(r) \o V!Continues(k)]
                                    ELSE [r EXCEPT !.refused = TRUE]
           /\ k = "return" => V!Placed(r, k) = [r EXCEPT !.refused = r.refused \/ ~V!InFunction(r)]
           /\ k = "break" => V!Placed(r, k) = IF V!InSomeLoop(r) /\ ~V!InLoop(r)
                                              THEN V!Departed(r, "break")
                                              ELSE [r EXCEPT !.refused = r.refused \/ ~V!InLoop(r)]
           /\ k \notin V!Header \cup {"return", "break"} => V!Placed(r, k) = r
<1>1. {"if", "while", "for", "try", "function"} \subseteq V!Header
  BY DEF V!Header
<1>2. "return" \notin V!Header /\ "break" \notin V!Header
  BY DEF V!Header
<1>3. CASE k \in {"if", "while", "for", "try", "function"}
  BY <1>1, <1>2, <1>3 DEF V!Placed
<1>4. CASE k \in V!Header \ {"if", "while", "for", "try", "function"}
  BY <1>1, <1>2, <1>4 DEF V!Placed
<1>5. CASE k = "return"
  BY <1>1, <1>2, <1>5 DEF V!Placed
<1>6. CASE k = "break"
  BY <1>1, <1>2, <1>6 DEF V!Placed
<1>7. CASE k \notin V!Header \cup {"return", "break"}
  BY <1>1, <1>7 DEF V!Placed
<1> QED  BY <1>3, <1>4, <1>5, <1>6, <1>7

LEMMA PlacedType ==
    ASSUME NEW r \in Reader, NEW k
    PROVE  V!Placed(r, k) \in Reader
<1>1. CASE k \in {"if", "while", "for", "try", "function"}
  <2>1. Append(r.open, k) \in Seq(BlockKinds)
    BY <1>1 DEF Reader, BlockKinds
  <2>2. V!Placed(r, k) = [r EXCEPT !.open = Append(r.open, k)]
    BY <1>1, PlacedIs
  <2> QED  BY <2>1, <2>2 DEF Reader
<1>2. CASE k \in V!Header \ {"if", "while", "for", "try", "function"}
  <2>1. CASE V!Inside(r, V!Closes(k))
    <3>1. r.open \in Seq(BlockKinds) /\ Len(r.open) \in Nat /\ Len(r.open) > 0
      BY <2>1 DEF V!Inside, Reader
    <3>2. V!Without(r) \in Seq(BlockKinds)
      BY <3>1, ButLast DEF V!Without
    <3>3. V!Continues(k) \in Seq(BlockKinds)
      <4>1. /\ <<"if">> \in Seq(BlockKinds) /\ <<"try">> \in Seq(BlockKinds)
            /\ <<"else">> \in Seq(BlockKinds) /\ <<"finally">> \in Seq(BlockKinds)
            /\ <<>> \in Seq(BlockKinds)
        BY DEF BlockKinds
      <4> QED  BY <4>1 DEF V!Continues
    <3>4. V!Without(r) \o V!Continues(k) \in Seq(BlockKinds)
      BY <3>2, <3>3
    <3>5. V!Placed(r, k) = [r EXCEPT !.open = V!Without(r) \o V!Continues(k)]
      BY <1>2, <2>1, PlacedIs
    <3> QED  BY <3>4, <3>5 DEF Reader
  <2>2. CASE ~V!Inside(r, V!Closes(k))
    <3>1. V!Placed(r, k) = [r EXCEPT !.refused = TRUE]
      BY <1>2, <2>2, PlacedIs
    <3> QED  BY <3>1 DEF Reader
  <2> QED  BY <2>1, <2>2
<1>3. CASE k \notin V!Header
  <2>1. (r.refused \/ ~V!InFunction(r)) \in BOOLEAN /\ (r.refused \/ ~V!InLoop(r)) \in BOOLEAN
    OBVIOUS
  <2>2. [r EXCEPT !.refused = r.refused \/ ~V!InFunction(r)] \in Reader
    BY <2>1 DEF Reader
  <2>3. [r EXCEPT !.refused = r.refused \/ ~V!InLoop(r)] \in Reader
    BY <2>1 DEF Reader
  <2>4. CASE k = "return"
    <3>1. V!Placed(r, k) = [r EXCEPT !.refused = r.refused \/ ~V!InFunction(r)]
      BY <2>4, PlacedIs
    <3> QED  BY <2>2, <3>1
  <2>5. CASE k = "break"
    <3>1. \/ V!Placed(r, k) = [r EXCEPT !.refused = r.refused \/ ~V!InLoop(r)]
          \/ V!Placed(r, k) = V!Departed(r, "break")
      BY <2>5, PlacedIs
    <3> QED  BY <2>3, <3>1, DepartedType
  <2>6. CASE k \notin {"return", "break"}
    BY <1>3, <2>6, PlacedIs
  <2> QED  BY <2>4, <2>5, <2>6
<1> QED  BY <1>1, <1>2, <1>3

LEMMA ReadType ==
    ASSUME NEW r \in Reader, NEW k \in Kinds, NEW c
    PROVE  V!Read(r, k, c) \in Reader
<1>1. V!Judged(r) \in Reader
  BY PlacedType, DepartedType DEF V!Judged, Reader
<1>2. V!Separate(r, k) \in Reader
  <2>1. ASSUME NEW j \in Reader
        PROVE  [j EXCEPT !.words = <<>>, !.joint = FALSE, !.barred = (k = "bar")] \in Reader
    <3>1. (k = "bar") \in BOOLEAN /\ <<>> \in Seq(Wordings)
      OBVIOUS
    <3> QED  BY <3>1 DEF Reader
  <2> QED  BY <1>1, <2>1 DEF V!Separate
<1>3. V!Join(r) \in Reader
  BY DEF V!Join, Reader
<1>4. V!Word(r, k) \in Reader
  BY WordType
<1>5. V!Quoted(r, c) \in Reader
  <2>1. "double" \in Kinds
    BY DEF Kinds, Operands, Strings
  <2>2. V!Quoted(r, c) \in {r, V!Departed(r, "quote"), V!Word(r, "double")}
    BY DEF V!Quoted
  <2>3. /\ r \in Reader /\ V!Departed(r, "quote") \in Reader
        /\ V!Word(r, "double") \in Reader
    BY <2>1, WordType, DepartedType
  <2> QED  BY <2>2, <2>3
<1> QED  BY <1>2, <1>3, <1>4, <1>5, DepartedType DEF V!Read

LEMMA AfterType ==
    ASSUME NEW r \in Reader, NEW k \in Kinds, NEW c
    PROVE  After(r, k, c) \in Reader
<1>1. "double" \in Kinds
  BY DEF Kinds, Operands, Strings
<1> QED  BY <1>1, ReadType DEF After

\* A reader that is bound to refuse the command, whose parser has given it up.
Stuck == Solo \cup {<<"colon">>, <<"function">>, <<"ex">>, <<"colon", "ex">>, <<"function", "F">>,
                    <<"catch", "S">>}

Fails(a, open) ==
    \/ a.words = V!Bad /\ open = a.open
    \/ a.joint /\ a.words \in Stuck /\ (a.words[1] \notin V!Header => open = a.open)
    \/ /\ a.words # <<>> /\ a.words[1] \in Terminators
       /\ ~V!Inside(a, V!Closes(a.words[1])) /\ open = a.open

\* The command is over, and refused.
Over(a, open, k) ==
    /\ a.words = <<>> /\ ~a.joint /\ ~a.away /\ a.refused /\ open = a.open
    /\ k = "bar" => a.barred

LEMMA TerminatorsAre ==
    /\ Terminators = {"elseif", "else", "endif", "endwhile", "endfor", "catch", "finally", "endtry",
                      "endfunction"}
    /\ V!Header = Terminators \cup {"if", "while", "for", "try", "function"}
<1>1. Terminators = {"elseif", "else", "endif", "endwhile", "endfor", "catch", "finally", "endtry",
                      "endfunction"}
  BY DEF Terminators, Ends, BlockKinds
<1>2. V!Header = {"elseif", "else", "endif", "endwhile", "endfor", "catch", "finally", "endtry",
                  "endfunction", "if", "while", "for", "try", "function"}
  BY DEF V!Header
<1> QED  BY <1>1, <1>2

\* An attribute after a function's name and parameters.
LEMMA AttributeReads ==
    ASSUME NEW r \in Reader, ~r.away, r.words = <<"function", "F">>, NEW c
    PROVE  LET a == After(r, "attr", c)
           IN  Gone(a, r) \/ (a = r /\ ~r.joint)
<1>1. V!Taken(r.words, "attr") = r.words /\ r.words[Len(r.words)] = "F"
      /\ ~V!PartsWays(r.words, "attr") /\ r.words # V!Bad
  BY DEF V!Taken, V!PartsWays, V!Listing, V!Bad
<1>2. CASE r.joint
  <2>1. V!Word(r, "attr") = V!Departed(r, "backslash")
    BY <1>1, <1>2 DEF V!Word
  <2>2. V!Read(r, "attr", FALSE) = V!Word(r, "attr")
    BY DEF V!Read
  <2> QED  BY <2>1, <2>2, AfterIs, Departs
<1>3. CASE ~r.joint
  <2>1. V!Word(r, "attr") = [r EXCEPT !.words = r.words, !.joint = FALSE]
    <3>1. r.words # <<>> /\ r.words # <<"colon">> /\ V!Taken(r.words, "attr") # V!Bad
      BY <1>1
    <3> QED  BY <1>1, <1>3, <3>1 DEF V!Word
  <2>2. V!Word(r, "attr") = r
    BY <1>3, <2>1 DEF Reader
  <2>3. V!Read(r, "attr", FALSE) = V!Word(r, "attr")
    BY DEF V!Read
  <2> QED  BY <1>3, <2>2, <2>3, AfterIs
<1> QED  BY <1>2, <1>3

\* Whatever comes after the first word of a header.
LEMMA HeaderReads ==
    ASSUME NEW r \in Reader, ~r.away, r.words # <<>>, r.words[1] \in V!Header,
           NEW k \in Kinds, k \notin Breaks, NEW c
    PROVE  LET a == After(r, k, c)
           IN  \/ Gone(a, r)
               \/ Lost(a)
               \/ r.words = <<"function", "F">> /\ a = r
               \/ \E s \in Wordings : Has(a, r, Append(r.words, s))
<1>1. r.words # V!Bad /\ r.words # <<"colon">> /\ ~V!InEx(r.words) /\ r.words \notin V!Listing
  BY DEF V!Bad, V!InEx, V!Listing, V!Header
<1>2. \/ V!Read(r, k, FALSE) = V!Departed(r, "quote")
      \/ V!Read(r, k, FALSE) = V!Word(r, k)
  BY <1>1 DEF V!Read, V!Quoted, Breaks
<1> DEFINE attribute == r.words = <<"function", "F">> /\ k = "attr"
<1>4. CASE attribute
  BY <1>4, AttributeReads
<1>3. ASSUME ~attribute
      PROVE  \/ Gone(V!Word(r, k), r)
             \/ Lost(V!Word(r, k))
             \/ \E s \in Wordings : Has(V!Word(r, k), r, Append(r.words, s))
  <2>1. CASE k = "heredoc"
    <3>1. V!Word(r, k) = V!Departed(r, "heredoc")
      BY <1>1, <2>1 DEF V!Word
    <3> QED  BY <3>1, Departs
  <2>2. CASE k # "heredoc" /\ V!SlotOf(r.words, k) = {}
    <3>1. V!Taken(r.words, k) = V!Bad
      BY <1>1, <1>3, <2>2 DEF V!Taken
    <3>2. \/ V!Word(r, k) = V!Departed(r, "dialect")
          \/ V!Word(r, k) = V!Departed([r EXCEPT !.refused = TRUE], "lost")
      BY <1>1, <2>2, <3>1 DEF V!Word, V!Spoiled
    <3> QED  BY <3>2, Departs, DepartsRefused
  <2>3. CASE k # "heredoc" /\ V!SlotOf(r.words, k) # {}
    <3>1. PICK s : s = CHOOSE x \in V!SlotOf(r.words, k) : TRUE
      OBVIOUS
    <3>2. s \in V!SlotOf(r.words, k)
      BY <2>3, <3>1
    <3>3. s \in Wordings
      BY <3>2, SlotsType
    <3>4. V!Taken(r.words, k) = Append(r.words, s)
      BY <1>1, <1>3, <2>3, <3>1 DEF V!Taken
    <3>5. Append(r.words, s) # V!Bad
      <4>1. r.words \in Seq(Wordings)
        BY DEF Reader
      <4> QED  BY <3>3, <4>1 DEF V!Bad
    <3>6. \/ V!Word(r, k) \in {V!Departed(r, "dialect"), V!Departed(r, "backslash")}
          \/ V!Word(r, k) = [r EXCEPT !.words = Append(r.words, s), !.joint = FALSE]
      BY <1>1, <2>3, <3>4, <3>5 DEF V!Word
    <3> QED  BY <3>3, <3>6, Departs DEF Has
  <2> QED  BY <2>1, <2>2, <2>3
<1> QED  BY <1>2, <1>3, <1>4, AfterIs, Departs

LEMMA FailsOn ==
    ASSUME NEW r \in Reader, ~r.away, NEW open, Fails(r, open), NEW k \in Kinds, NEW c
    PROVE  LET a == After(r, k, c)
           IN  \/ a.away
               \/ k \in RawEnd /\ Over(a, open, k)
               \/ k \notin StatementEnd /\ Fails(a, open)
<1> DEFINE a == After(r, k, c)
<1>1. a \in Reader
  BY AfterType
<1>2. \A b : (Gone(b, r) \/ Lost(b)) => b.away
  BY DEF Gone, Lost
<1>3. V!Bad # <<>> /\ V!Bad \notin V!Forms /\ V!Bad[1] = "bad"
  BY DEF V!Bad, V!Forms
<1>4. "bad" \notin V!Header
  BY DEF V!Header
<1>8. r.joint \/ ~V!InEx(r.words)
  <2>1. ~V!InEx(V!Bad)
    BY DEF V!InEx, V!Bad
  <2>2. CASE r.words # <<>> /\ r.words[1] \in Terminators
    BY <2>2, TerminatorsAre DEF V!InEx
  <2> QED  BY <2>1, <2>2 DEF Fails
<1>9. k = "semi" => a.away
  BY <1>2, <1>8, ReadSemicolon
<1>10. k \in StatementEnd => k = "semi" \/ k \in RawEnd
  BY DEF RawEnd
<1>5. CASE r.words = V!Bad /\ open = r.open
  <2>1. CASE k \in StatementEnd
    <3>1. Judges(a, [r EXCEPT !.refused = TRUE], k) => Over(a, open, k)
      BY <1>5 DEF Judges, Over, Reader
    <3> QED  BY <1>2, <1>3, <1>5, <1>9, <1>10, <2>1, <3>1, EndsNoForm
  <2>2. CASE k \notin StatementEnd
    BY <1>2, <1>5, <2>2, BadReads DEF Fails
  <2> QED  BY <2>1, <2>2
<1>6. CASE r.joint /\ r.words \in Stuck /\ (r.words[1] \notin V!Header => open = r.open)
  <2>1. r.words # <<>> /\ r.words # V!Bad
    BY <1>6 DEF Stuck, Solo, V!Bad
  <2>2. CASE k \in StatementEnd
    BY <1>2, <1>6, <2>1, <2>2, EndsForm, EndsNoForm
  <2>3. CASE k = "cont"
    <3>1. a.away \/ a = r \/ a = [r EXCEPT !.joint = TRUE]
      BY <1>2, <2>1, <2>3, ReadCont
    <3>2. [r EXCEPT !.joint = TRUE] = r
      BY <1>6 DEF Reader
    <3> QED  BY <2>3, <3>1, <3>2 DEF Fails, StatementEnd
  <2>4. CASE k \notin StatementEnd \cup {"cont"}
    <3>0. k \notin Breaks
      BY <2>4 DEF Breaks, StatementEnd
    <3>1. CASE r.words = <<"colon">>
      BY <1>2, <1>6, <3>0, <3>1, ColonReads
    <3>2. CASE V!InEx(r.words)
      <4>1. a.away \/ a = r
        BY <1>2, <3>0, <3>2, ExReads
      <4> QED  BY <2>4, <4>1
    <3>3. CASE r.words = <<"function">>
      <4>1. V!Follow(r.words) = {"F"} /\ ~V!InEx(r.words) /\ r.words[1] \in V!Header
        BY <3>3, NeedsOther DEF V!InEx, V!Header
      <4>2. CASE "F" \in V!Fits(k)
        <5>1. k # "heredoc"
          BY <4>2 DEF V!Fits
        <5>2. Gone(a, r)
          BY <1>6, <2>1, <3>0, <3>3, <4>1, <4>2, <5>1, ReadFits
        <5> QED  BY <1>2, <5>2
      <4>3. CASE "F" \notin V!Fits(k)
        <5>1. V!Fits(k) \cap V!Follow(r.words) = {}
          BY <4>1, <4>3
        <5> QED  BY <1>2, <2>1, <3>0, <3>3, <4>1, <5>1, ReadSpoils
      <4> QED  BY <4>2, <4>3
    <3>4. CASE r.words \in Whole
      <4>1. V!Follow(r.words) = {} /\ ~V!InEx(r.words) /\ r.words # <<"colon">>
        BY <3>4, WholeEnds DEF V!InEx, Whole, Solo, WithE
      <4>2. a.away \/ (r.words[1] \notin V!Header /\ Dropped(a, r))
        <5>1. CASE r.words = <<"function", "F">> /\ k = "attr"
          BY <1>2, <1>6, <5>1, AttributeReads
        <5>2. CASE ~(r.words = <<"function", "F">> /\ k = "attr")
          BY <1>2, <2>1, <3>0, <4>1, <5>2, ReadSpoils
        <5> QED  BY <5>1, <5>2
      <4>3. Dropped(a, r) => a.words = V!Bad /\ a.open = r.open
        BY DEF Dropped, Reader
      <4> QED  BY <1>6, <2>4, <4>2, <4>3 DEF Fails
    <3> QED  BY <1>6, <3>1, <3>2, <3>3, <3>4 DEF Stuck, Whole, V!InEx
  <2> QED  BY <2>2, <2>3, <2>4
<1>7. CASE /\ r.words # <<>> /\ r.words[1] \in Terminators
           /\ ~V!Inside(r, V!Closes(r.words[1])) /\ open = r.open
  <2>1. r.words[1] \in V!Header \ {"if", "while", "for", "try", "function"}
    BY <1>7, TerminatorsAre
  <2>2. CASE k \in StatementEnd
    <3>1. CASE r.words \in V!Forms
      <4>1. V!Placed(r, r.words[1]) = [r EXCEPT !.refused = TRUE]
        BY <1>7, <2>1, PlacedIs
      <4>2. ~V!Placed(r, r.words[1]).away
        BY <4>1 DEF Reader
      <4>3. Judges(a, [r EXCEPT !.refused = TRUE], k) => Over(a, open, k)
        BY <1>7 DEF Judges, Over, Reader
      <4>4. ~V!InEx(r.words)
        BY <1>7, TerminatorsAre DEF V!InEx
      <4> QED  BY <1>2, <1>9, <1>10, <2>2, <3>1, <4>1, <4>2, <4>3, <4>4, EndsForm
    <3>2. CASE r.words \notin V!Forms
      BY <1>2, <1>7, <2>1, <2>2, <3>2, EndsNoForm
    <3> QED  BY <3>1, <3>2
  <2>3. CASE k = "cont"
    <3>1. a.away \/ a = r \/ a = [r EXCEPT !.joint = TRUE]
      BY <1>2, <1>7, <2>3, ReadCont
    <3>2. LET b == [r EXCEPT !.joint = TRUE] IN b.words = r.words /\ b.open = r.open
      BY DEF Reader
    <3>3. a.away \/ (a.words = r.words /\ a.open = r.open)
      BY <3>1, <3>2
    <3> QED  BY <1>7, <2>3, <3>3 DEF Fails, StatementEnd, V!Inside, V!Innermost
  <2>4. CASE k \notin StatementEnd \cup {"cont"}
    <3>0. k \notin Breaks
      BY <2>4 DEF Breaks, StatementEnd
    <3>1. a.away \/ \E s \in Wordings : Has(a, r, Append(r.words, s))
      <4>1. r.words # <<"function", "F">>
        BY <1>7, TerminatorsAre
      <4> QED  BY <1>2, <1>7, <2>1, <3>0, <4>1, HeaderReads
    <3>2. ASSUME NEW s \in Wordings, Has(a, r, Append(r.words, s)) PROVE Fails(a, open)
      <4>1. a.words = Append(r.words, s) /\ a.open = r.open
        BY <3>2 DEF Has, Reader
      <4>2. a.words # <<>> /\ a.words[1] = r.words[1]
        BY <1>7, <4>1 DEF Reader
      <4> QED  BY <1>7, <4>1, <4>2 DEF Fails, V!Inside, V!Innermost
    <3> QED  BY <2>4, <3>1, <3>2
  <2> QED  BY <2>2, <2>3, <2>4
<1> QED  BY <1>5, <1>6, <1>7 DEF Fails

-----------------------------------------------------------------------------
(* The parser and the reader.                                              *)

\* What the rule expects (t) when the reader has the words w in front of a
\* token of kind k.
Position(w, t, joint, k) ==
    LET over == k \in StatementEnd
    IN  \/ /\ w = <<>> /\ ~joint
           /\ \/ t = <<"target", "=", "expr", "end">> /\ k = "name"
              \/ t = <<"command", "end">> /\ k \in Commands
              \/ /\ t = <<"expr", "end">>
                 /\ k \in {"x", "sig", "single", "number", "double", "heredoc", "=", "in", "junk",
                           "comma", "default"}
        \/ /\ w \in Whole /\ t = <<"end">>
           /\ w \in WithE => k # "cont"
           /\ w = <<"function", "F">> => k # "attr"
        \/ w \in WithE \cup {<<"catch", "S">>} /\ t = <<"more", "end">>
        \/ w \in NeedE \ {<<"unlet">>, <<"echo">>, <<"return">>} /\ t = <<"expr", "end">>
        \/ w = <<"return">> /\ t = <<"option", "end">>
        \/ w = <<"return">> /\ t = <<"expr", "end">> /\ (joint \/ ~over)
        \/ w \in {<<"return">>, <<"echo">>, <<"catch">>} \cup V!Listing /\ t = <<"end">> /\ over
        \/ w = <<"unlet">> /\ t = <<"some", "end">>
        \/ w = <<"echo">> /\ t = <<"exprs", "end">>
        \/ w \in {<<"unlet">>, <<"echo">>} /\ t = <<"expr", "comma", "exprs", "end">> /\ (joint \/ ~over)
        \/ w \in V!Listing /\ t = <<"more", "comma", "exprs", "end">>
        \/ w \in V!Listing /\ t = <<"comma", "exprs", "end">> /\ k # "cont"
        \/ w \in V!Listing /\ t = <<"exprs", "end">> /\ k # "cont"
        \/ w \in V!Listing /\ t = <<"expr", "comma", "exprs", "end">> /\ k # "cont" /\ ~over
        \/ w = <<"let">> /\ t = <<"target", "=", "expr", "end">>
        \/ w \in NeedAssignment /\ t = <<"more", "=", "expr", "end">>
        \/ w \in NeedAssignment /\ t = <<"=", "expr", "end">> /\ k # "cont"
        \/ w = <<"for">> /\ t = <<"target", "in", "expr", "end">>
        \/ w = <<"for", "T">> /\ t = <<"more", "in", "expr", "end">>
        \/ w = <<"for", "T">> /\ t = <<"in", "expr", "end">> /\ k # "cont"
        \/ w = <<"function">> /\ t = <<"sig", "attrs", "end">>
        \/ w = <<"function", "F">> /\ t = <<"attrs", "end">>
        \/ w = <<"catch">> /\ t = <<"pattern", "end">>
        \/ w = <<"catch">> /\ t = <<"string", "end">> /\ (joint \/ ~over)
        \/ w = <<"colon">> /\ t = <<"command", "end">>
        \/ V!InEx(w) /\ t = <<"raw", "end">>
        \/ V!InEx(w) /\ t = <<"end">> /\ (joint \/ k \in RawEnd)

\* The parser has complained about the place of return or break when it starts.
OutOfPlace(r) ==
    /\ r.words # <<>>
    /\ \/ r.words[1] = "return" /\ ~V!InFunction(r)
       \/ r.words[1] = "break" /\ ~V!InSomeLoop(r)

\* The blocks around the rule: the part that the command ends is closed at its
\* first word, and what it begins is opened at its end.
Around(r) ==
    /\ ~r.away
    /\ opens = IF r.words = <<>> THEN "none" ELSE Opens(r.words[1])
    /\ diagnostics <=> (r.refused \/ OutOfPlace(r))
    /\ IF r.words # <<>> /\ r.words[1] \in Terminators
       THEN V!Inside(r, V!Closes(r.words[1])) /\ frames = V!Without(r)
       ELSE frames = r.open

\* An Ex command is parsed from the line that it starts.
OwnLine(r) ==
    todo = <<"command", "end">> =>
        /\ r.words = <<>> => r.barred \/ current.line = "own"
        /\ r.words = <<"colon">> => current.line = "own"

InPlace(r) == Around(r) /\ Position(r.words, todo, r.joint, current.kind) /\ OwnLine(r)

\* The reader had r before the token at the cursor.
HasRead(r) == reader = After(r, current.kind, current.comment)

Settled(r) ==
    /\ r.words = <<>> /\ ~r.joint /\ ~r.away
    /\ frames = r.open /\ (diagnostics <=> r.refused)

Away == reader.away /\ (reader.refused => diagnostics)
AtBreak ==
    /\ mode = "between" /\ current.kind \in Separators \ {"semi"}
    /\ Settled(reader) /\ (reader.barred \/ line = "empty")
AtCommand ==
    /\ mode = "between" /\ current.kind \notin Separators \cup {"eof"}
    /\ \E r \in Reader :
           /\ HasRead(r) /\ Settled(r)
           /\ r.barred \/ (current.line = "own" /\ (current.kind = "colon" => line = "colon"))
InRule == mode = "rule" /\ \E r \in Reader : HasRead(r) /\ InPlace(r)
InSync ==
    /\ mode = "sync" /\ ~reader.away /\ diagnostics
    /\ \/ current.kind \in RawEnd /\ Over(reader, frames, current.kind)
       \/ current.kind \notin StatementEnd /\ Fails(reader, frames)
AtEnd ==
    /\ mode = "between" /\ current.kind = "eof"
    /\ diagnostics <=> (reader.refused \/ frames # reader.open)
    /\ frames # reader.open => Len(frames) < Len(reader.open)
Ended == mode = "done" /\ (diagnostics <=> (reader.refused \/ reader.open # <<>>))

\* The lexer is at the start of a physical line after a newline.
FreshLine == current.kind \in {"nl", "cont"} => line = "empty"

Agrees  == Away \/ AtBreak \/ AtCommand \/ InRule \/ InSync \/ AtEnd \/ Ended
Follows == reader \in Reader /\ FreshLine /\ (mode # "rule" => opens = "none") /\ Agrees

ReadsAlong == reader' = IF cursor' # cursor THEN ReadOn ELSE reader

\* What reading on does.
LEMMA AdvanceReads ==
    ASSUME LexTypeOK, FreshLine, reader \in Reader, Advance, ReadsAlong, current.kind # "eof"
    PROVE  /\ FreshLine' /\ reader' \in Reader
           /\ current'.kind \in Kinds
           /\ \A r : r = reader => HasRead(r)'
           /\ line \in {"empty", "colon"} => current'.line = "own"
           /\ line = "empty" /\ current'.kind = "colon" => line' = "colon"
<1>1. \E k \in Kinds, c \in BOOLEAN : Produce(k, c)
  <2>1. PICK l \in Lexemes \cup {"eof", "="} :
            IF OpensComment(l) THEN \E k \in {"nl", "eof"} : Produce(k, TRUE)
                               ELSE Produce(l, FALSE)
    BY DEF Advance, AdvanceTo, Following
  <2>2. l \in Kinds /\ "nl" \in Kinds /\ "eof" \in Kinds
    BY LexerAssumption DEF LexerAssumption, Kinds
  <2>3. CASE OpensComment(l)
    BY <2>1, <2>2, <2>3
  <2>4. CASE ~OpensComment(l)
    BY <2>1, <2>2, <2>4
  <2> QED  BY <2>3, <2>4
<1>2. PICK k \in Kinds, c \in BOOLEAN : Produce(k, c)
  BY <1>1
<1>3. cursor' # cursor
  BY AdvanceFacts
<1>4. current'.kind = k /\ current'.comment = c
  BY <1>2 DEF Produce
<1>5. reader' = After(reader, k, c)
  BY <1>3, <1>4 DEF ReadsAlong, ReadOn, After
<1>6. reader' \in Reader
  BY <1>5, AfterType
<1>7. FreshLine'
  BY <1>2, <1>4 DEF FreshLine, Produce, LineStart
<1>8. \A r : r = reader => HasRead(r)'
  BY <1>4, <1>5 DEF HasRead
<1>9. line \in {"empty", "colon"} => current'.line = "own"
  BY <1>2 DEF Produce
<1>10. line = "empty" /\ current'.kind = "colon" => line' = "colon"
  BY <1>2, <1>4 DEF Produce, LineStart
<1> QED  BY <1>4, <1>6, <1>7, <1>8, <1>9, <1>10

LEMMA StillReads ==
    ASSUME UNCHANGED lexing, ReadsAlong, reader \in Reader, FreshLine
    PROVE  /\ UNCHANGED <<current, line, cursor>> /\ reader' = reader
           /\ reader' \in Reader /\ FreshLine'
           /\ \A r : HasRead(r) => HasRead(r)'
<1>1. UNCHANGED <<current, line, cursor>>
  BY DEF lexing
<1>2. reader' = reader
  BY <1>1 DEF ReadsAlong
<1> QED  BY <1>1, <1>2 DEF FreshLine, HasRead

\* At the end of the text advance() does nothing.
LEMMA EndReads ==
    ASSUME Advance, current.kind = "eof"
    PROVE  UNCHANGED lexing
BY DEF Advance, AdvanceTo

LEMMA AwayKept ==
    ASSUME LexTypeOK, FreshLine, reader \in Reader, Advance \/ UNCHANGED lexing, ReadsAlong,
           reader.away, reader.refused => diagnostics'
    PROVE  Away'
<1>1. reader' = reader
  <2>1. CASE Advance /\ current.kind # "eof"
    <3>1. PICK r \in Reader : r = reader
      OBVIOUS
    <3>2. HasRead(r)'
      BY <2>1, <3>1, AdvanceReads
    <3>3. reader' = r
      BY <3>1, <3>2, AwayStays DEF HasRead
    <3> QED  BY <3>1, <3>3
  <2>2. CASE UNCHANGED lexing
    BY <2>2, StillReads
  <2> QED  BY <2>1, <2>2, EndReads
<1> QED  BY <1>1 DEF Away

\* After an error.
LEMMA FailingSyncs ==
    ASSUME LexTypeOK, FreshLine, reader \in Reader, Advance \/ UNCHANGED lexing, ReadsAlong,
           mode' = "sync", diagnostics', UNCHANGED frames,
           \/ reader.away
           \/ current.kind \notin StatementEnd /\ Fails(reader, frames)
           \/ UNCHANGED lexing /\ current.kind \in RawEnd /\ Over(reader, frames, current.kind)
    PROVE  Away' \/ InSync'
<1>1. CASE reader.away
  BY <1>1, AwayKept
<1>2. CASE UNCHANGED lexing /\ ~reader.away
  <2>1. reader' = reader /\ current' = current
    BY <1>2, StillReads
  <2> QED  BY <1>2, <2>1 DEF InSync
<1>3. CASE Advance /\ ~reader.away /\ current.kind \notin StatementEnd /\ Fails(reader, frames)
  <2>1. PICK r \in Reader : r = reader
    OBVIOUS
  <2>2. current.kind # "eof"
    BY <1>3 DEF StatementEnd
  <2>3. HasRead(r)' /\ current'.kind \in Kinds
    BY <1>3, <2>1, <2>2, AdvanceReads
  <2>4. \/ reader'.away
        \/ current'.kind \in RawEnd /\ Over(reader', frames, current'.kind)
        \/ current'.kind \notin StatementEnd /\ Fails(reader', frames)
    BY <1>3, <2>1, <2>3, FailsOn DEF HasRead
  <2> QED  BY <2>4 DEF Away, InSync
<1> QED  BY <1>1, <1>2, <1>3

\* Every step reads on or leaves the lexer alone, and takes no complaint back.
LEMMA StepReads ==
    ASSUME Next, TypeOK
    PROVE  /\ Advance \/ UNCHANGED lexing
           /\ diagnostics => diagnostics'
           /\ (mode # "rule" => opens = "none") => (mode' # "rule" => opens' = "none")
<1>1. CASE SkipSeparators \/ Synchronize \/ Terminate \/ Unterminated \/ EndOfProgram
  BY <1>1 DEF SkipSeparators, Synchronize, Terminate, Unterminated, EndOfProgram, pvars
<1>2. CASE Statement
  <2>1. CASE KeywordStatement
    <3>1. diagnostics => diagnostics'
      BY <2>1, Zenon DEF KeywordStatement
    <3> QED  BY <2>1, <3>1 DEF KeywordStatement
  <2>2. CASE UnexpectedTerminator
    BY <2>2 DEF UnexpectedTerminator, Err
  <2>3. CASE AssignmentStatement \/ ExStatement \/ ExpressionStatement
    BY <2>3 DEF AssignmentStatement, ExStatement, ExpressionStatement, Goes
  <2> QED  BY <1>2, <2>1, <2>2, <2>3 DEF Statement
<1>3. CASE Expression
  <2>1. diagnostics => diagnostics'
    BY <1>3, Zenon DEF Expression, Err, pvars
  <2>2. \/ UNCHANGED pvars
        \/ Err
        \/ mode' = "rule"
    BY <1>3, Zenon DEF Expression
  <2>3. Advance
    BY <1>3, Zenon DEF Expression
  <2> QED  BY <2>1, <2>2, <2>3 DEF Err, pvars
<1>4. CASE MoreOfExpression \/ Expect \/ EndOfStatement
  BY <1>4 DEF MoreOfExpression, Expect, EndOfStatement, Err, Goes, pvars
<1>5. CASE Listed \/ Pattern \/ ExCommand \/ SkipRaw
  BY <1>5 DEF Listed, Pattern, ExCommand, SkipRaw, Err, Goes, pvars
<1>6. CASE Attributes \/ OptionalComma \/ RangedCommand
  BY <1>6 DEF Attributes, OptionalComma, RangedCommand, Err, Goes, pvars
<1> QED  BY <1>1, <1>2, <1>3, <1>4, <1>5, <1>6 DEF Next, Rule

LEMMA FollowsRest ==
    ASSUME Inv, Follows, Next, ReadsAlong
    PROVE  /\ reader' \in Reader /\ FreshLine' /\ (mode' # "rule" => opens' = "none")
           /\ Away => Away'
<1>1. LexTypeOK /\ FreshLine /\ reader \in Reader
  BY DEF Inv, TypeOK, Follows
<1>2. Advance \/ UNCHANGED lexing
  BY StepReads DEF Inv
<1>3. reader' \in Reader /\ FreshLine'
  BY <1>1, <1>2, AdvanceReads, EndReads, StillReads
<1>4. Away => Away'
  BY <1>1, <1>2, AwayKept, StepReads DEF Away, Inv
<1> QED  BY <1>3, <1>4, StepReads DEF Follows, Inv

\* The kinds of tokens in front of which mode "between" is in each part.
LEMMA PartsOfBetween ==
    ASSUME Follows, ~Away
    PROVE  /\ mode = "between" /\ current.kind \in Separators => AtBreak
           /\ mode = "between" /\ current.kind = "eof" => AtEnd
           /\ mode = "between" /\ current.kind \notin Separators \cup {"eof"} => AtCommand
           /\ mode = "rule" => InRule
           /\ mode = "sync" => InSync
BY DEF Follows, Agrees, AtBreak, AtEnd, AtCommand, InRule, InSync, Ended, Separators

LEMMA ContNothing ==
    ASSUME NEW r \in Reader, ~r.away, r.words = <<>>, NEW c
    PROVE  LET a == After(r, "cont", c) IN Gone(a, r) \/ a = [r EXCEPT !.barred = FALSE]
<1>1. V!Read(r, "cont", FALSE) = V!Join(r)
  BY DEF V!Read
<1> QED  BY <1>1, AfterIs DEF V!Join

LEMMA SkipSeparatorsFollows ==
    ASSUME Inv, Follows, ~Away, ReadsAlong, SkipSeparators
    PROVE  Agrees'
<1>1. AtBreak
  BY PartsOfBetween DEF SkipSeparators
<1>2. PICK r \in Reader : r = reader
  BY DEF Follows
<1>3. LexTypeOK /\ FreshLine /\ reader \in Reader /\ Advance /\ UNCHANGED pvars
  BY DEF Inv, TypeOK, Follows, SkipSeparators
<1>4. current.kind # "eof"
  BY <1>1 DEF AtBreak, Separators
<1>5. /\ HasRead(r)' /\ FreshLine' /\ current'.kind \in Kinds
      /\ line \in {"empty", "colon"} => current'.line = "own"
      /\ line = "empty" /\ current'.kind = "colon" => line' = "colon"
  BY <1>2, <1>3, <1>4, AdvanceReads
<1>6. Settled(r) /\ (r.barred \/ line = "empty") /\ mode = "between"
  BY <1>1, <1>2 DEF AtBreak
<1>7. UNCHANGED <<mode, frames, diagnostics>>
  BY <1>3 DEF pvars
<1>8. r.words = <<>> /\ ~r.joint /\ ~r.away /\ frames = r.open /\ (diagnostics <=> r.refused)
  BY <1>6 DEF Settled
<1>9. CASE Gone(reader', r)
  BY <1>7, <1>8, <1>9 DEF Agrees, Away, Gone
<1>10. CASE current'.kind \in RawEnd /\ Judges(reader', r, current'.kind)
  <2>1. /\ reader'.words = <<>> /\ ~reader'.joint /\ ~reader'.away /\ reader'.open = r.open
        /\ reader'.refused = r.refused /\ (reader'.barred = (current'.kind = "bar"))
    BY <1>8, <1>10 DEF Judges, Reader
  <2>2. Settled(reader)'
    BY <1>7, <1>8, <2>1 DEF Settled
  <2>3. CASE current'.kind = "eof"
    BY <1>6, <1>7, <1>8, <2>1, <2>3 DEF Agrees, AtEnd
  <2>4. CASE current'.kind \in {"nl", "bar"}
    <3>1. reader'.barred \/ line' = "empty"
      BY <1>5, <2>1, <2>4 DEF FreshLine
    <3> QED  BY <1>6, <1>7, <2>2, <2>4, <3>1 DEF Agrees, AtBreak, Separators
  <2> QED  BY <1>10, <2>3, <2>4 DEF RawEnd, StatementEnd
<1>11. CASE current'.kind = "cont" /\ reader' = [r EXCEPT !.barred = FALSE]
  <2>1. Settled(reader)'
    BY <1>7, <1>8, <1>11 DEF Settled, Reader
  <2>2. line' = "empty"
    BY <1>5, <1>11 DEF FreshLine
  <2> QED  BY <1>6, <1>7, <1>11, <2>1, <2>2 DEF Agrees, AtBreak, Separators
<1>12. CASE current'.kind \notin StatementEnd \cup {"cont"}
  <2>1. Settled(r)'
    BY <1>7, <1>8 DEF Settled
  <2>2. current'.kind \notin Separators \cup {"eof"}
    BY <1>12 DEF Separators, StatementEnd
  <2>3. r.barred \/ (current'.line = "own" /\ (current'.kind = "colon" => line' = "colon"))
    BY <1>5, <1>6
  <2>4. AtCommand'
    BY <1>5, <1>6, <1>7, <2>1, <2>2, <2>3 DEF AtCommand
  <2> QED  BY <2>4 DEF Agrees
<1>13. current'.kind \in StatementEnd => Gone(reader', r) \/ Judges(reader', r, current'.kind)
  BY <1>5, <1>8, EndsNothing DEF HasRead
<1>14. current'.kind = "cont" => Gone(reader', r) \/ reader' = [r EXCEPT !.barred = FALSE]
  BY <1>5, <1>8, ContNothing DEF HasRead
<1>15. current'.kind = "semi" => Gone(reader', r)
  BY <1>5, <1>8, ReadSemicolon DEF HasRead, V!InEx
<1>16. current'.kind \in StatementEnd => current'.kind \in RawEnd \/ current'.kind = "semi"
  BY DEF RawEnd
<1> QED  BY <1>9, <1>10, <1>11, <1>12, <1>13, <1>14, <1>15, <1>16

LEMMA SynchronizeFollows ==
    ASSUME Inv, Follows, ~Away, ReadsAlong, Synchronize
    PROVE  Agrees'
<1>1. InSync
  BY PartsOfBetween DEF Synchronize
<1>2. LexTypeOK /\ FreshLine /\ reader \in Reader
  BY DEF Inv, TypeOK, Follows
<1>3. CASE current.kind \in StatementEnd
  <2>1. mode' = "between" /\ UNCHANGED lexing /\ UNCHANGED <<frames, diagnostics>>
    BY <1>3 DEF Synchronize
  <2>2. reader' = reader /\ current' = current /\ line' = line
    BY <1>2, <2>1, StillReads
  <2>3. Over(reader, frames, current.kind) /\ diagnostics /\ current.kind \in RawEnd
    BY <1>1, <1>3 DEF InSync
  <2>4. CASE current.kind = "eof"
    BY <2>1, <2>2, <2>3, <2>4 DEF Agrees, AtEnd, Over
  <2>5. CASE current.kind \in {"nl", "bar"}
    <3>1. reader.barred \/ line = "empty"
      BY <1>2, <2>3, <2>5 DEF Over, FreshLine
    <3> QED  BY <2>1, <2>2, <2>3, <2>5, <3>1 DEF Agrees, AtBreak, Settled, Separators, Over
  <2> QED  BY <2>3, <2>4, <2>5 DEF RawEnd, StatementEnd
<1>4. CASE current.kind \notin StatementEnd
  <2>1. mode' = "sync" /\ Advance /\ UNCHANGED <<frames, diagnostics>>
    BY <1>4 DEF Synchronize
  <2>2. diagnostics /\ Fails(reader, frames)
    BY <1>1, <1>4 DEF InSync, RawEnd
  <2> QED  BY <1>2, <1>4, <2>1, <2>2, FailingSyncs DEF Agrees
<1> QED  BY <1>3, <1>4

LEMMA UnterminatedFollows ==
    ASSUME Inv, Follows, ~Away, ReadsAlong, Unterminated
    PROVE  Agrees'
<1>1. AtEnd
  BY PartsOfBetween DEF Unterminated
<1>2. reader' = reader /\ current' = current
  BY StillReads DEF Unterminated, Follows
<1>3. frames \in Seq(BlockKinds) /\ frames # <<>> /\ frames' = Outer /\ reader.open \in Seq(BlockKinds)
  BY DEF Unterminated, Leave, Inv, TypeOK, Follows, Reader
<1>4. Len(frames') = Len(frames) - 1 /\ Len(frames) \in Nat /\ Len(reader.open) \in Nat
  BY <1>3, ButLast DEF Outer
<1>5. Len(frames') < Len(reader.open)
  BY <1>1, <1>4 DEF AtEnd
<1>6. mode' = "between" /\ diagnostics' /\ current.kind = "eof"
  BY DEF Unterminated
<1>7. frames' # reader.open
  BY <1>4, <1>5
<1> QED  BY <1>2, <1>5, <1>6, <1>7 DEF Agrees, AtEnd

LEMMA EndOfProgramFollows ==
    ASSUME Inv, Follows, ~Away, ReadsAlong, EndOfProgram
    PROVE  Agrees'
<1>1. AtEnd
  BY PartsOfBetween DEF EndOfProgram
<1>2. reader' = reader
  BY StillReads DEF EndOfProgram, Follows
<1> QED  BY <1>1, <1>2 DEF EndOfProgram, Agrees, AtEnd, Ended

-----------------------------------------------------------------------------
(* Where a command starts.                                                 *)

\* The depths tell what is around.
LEMMA DepthsTell ==
    ASSUME Inv, NEW q, q.open = frames
    PROVE  /\ function_depth = 0 <=> ~V!InFunction(q)
           /\ loop_depth = 0 <=> ~V!InSomeLoop(q)
<1>1. /\ loop_depth = Cardinality(Framed(Loops))
      /\ function_depth = Cardinality(Framed({"function"}))
      /\ frames \in Seq(BlockKinds)
  BY DEF Inv, DepthsMatch, TypeOK
<1>2. \A kinds : IsFiniteSet(Framed(kinds))
  <2>1. IsFiniteSet(1 .. Len(frames))
    BY <1>1, FS_Interval
  <2> QED  BY <2>1, FS_Subset DEF Framed
<1>3. \A kinds : Cardinality(Framed(kinds)) = 0 <=> Framed(kinds) = {}
  BY <1>2, FS_EmptySet
<1>4. Framed({"function"}) = {} <=> ~V!InFunction(q)
  BY DEF Framed, V!InFunction
<1>5. Framed(Loops) = {} <=> ~V!InSomeLoop(q)
  BY DEF Framed, V!InSomeLoop, Loops
<1> QED  BY <1>1, <1>3, <1>4, <1>5

\* What ends a part for the parser ends it for the reader.
LEMMA EndsCloses ==
    ASSUME NEW kind \in BlockKinds, NEW k \in Terminators
    PROVE  k \in Ends(kind) <=> kind \in V!Closes(k)
<1> USE TerminatorsAre
<1>1. CASE k \in {"elseif", "else"}
  BY <1>1 DEF V!Closes, Ends, BlockKinds
<1>2. CASE k = "endif"
  BY <1>2 DEF V!Closes, Ends, BlockKinds
<1>3. CASE k \in {"catch", "finally"}
  BY <1>3 DEF V!Closes, Ends, BlockKinds
<1>4. CASE k = "endtry"
  BY <1>4 DEF V!Closes, Ends, BlockKinds
<1>5. CASE k \in {"endwhile", "endfor", "endfunction"}
  BY <1>5 DEF V!Closes, Ends, BlockKinds
<1> QED  BY <1>1, <1>2, <1>3, <1>4, <1>5

LEMMA EndsAreTerminators ==
    ASSUME NEW kind \in BlockKinds
    PROVE  Ends(kind) \subseteq Terminators
BY DEF Terminators

LEMMA InsideThe ==
    ASSUME Inv, NEW q, q.open = frames, NEW k \in Terminators
    PROVE  V!Inside(q, V!Closes(k)) <=> frames # <<>> /\ k \in Ends(Open)
<1>1. frames \in Seq(BlockKinds)
  BY DEF Inv, TypeOK
<1>2. frames # <<>> => Open \in BlockKinds
  BY <1>1 DEF Open
<1> QED  BY <1>2, EndsCloses DEF V!Inside, V!Innermost, Open

\* A keyword starts its rule.
LEMMA RuleStarts ==
    ASSUME NEW k \in Starters \cup Terminators, NEW next
    PROVE  Position(<<k>>, RuleOf(k), FALSE, next)
<1>1. k \in {"let", "unlet", "echo", "throw", "return", "break", "finish", "if", "elseif",
             "else", "endif", "while", "endwhile", "for", "endfor", "try", "catch", "finally",
             "endtry", "function", "endfunction", "colon"}
  BY TerminatorsAre DEF Starters
<1>2. CASE k \in {"if", "elseif", "while", "throw"}
  <2>1. <<k>> \in NeedE \ {<<"unlet">>, <<"echo">>, <<"return">>}
    BY <1>2 DEF NeedE
  <2> QED  BY <1>2, <2>1 DEF Position, RuleOf
<1>3. CASE <<k>> \in Solo
  <2>1. RuleOf(k) = <<"end">>
    BY <1>3 DEF RuleOf, Solo
  <2>2. <<k>> \in Whole /\ <<k>> \notin WithE
    BY <1>3 DEF Whole, Solo, WithE
  <2> QED  BY <2>1, <2>2 DEF Position
<1>4. CASE k \in {"let", "for"}
  BY <1>4 DEF Position, RuleOf
<1>5. CASE k \in {"unlet", "echo", "return"}
  BY <1>5 DEF Position, RuleOf
<1>6. CASE k \in {"function", "catch", "colon"}
  BY <1>6 DEF Position, RuleOf
<1>7. \/ k \in {"if", "elseif", "while", "throw"}
      \/ k \in {"let", "for"}
      \/ k \in {"unlet", "echo", "return"}
      \/ k \in {"function", "catch", "colon"}
      \/ <<k>> \in Solo
  BY <1>1 DEF Solo
<1> QED  BY <1>2, <1>3, <1>4, <1>5, <1>6, <1>7

\* The reader where a command starts.
LEMMA CommandStarts ==
    ASSUME Inv, Follows, ~Away, mode = "between", current.kind \notin Separators \cup {"eof"}
    PROVE  /\ LexTypeOK /\ FreshLine /\ reader \in Reader /\ opens = "none"
           /\ \E r \in Reader :
                  /\ HasRead(r) /\ Settled(r)
                  /\ r.barred \/ (current.line = "own" /\ (current.kind = "colon" => line = "colon"))
BY PartsOfBetween DEF Inv, TypeOK, Follows, AtCommand

LEMMA KeywordStatementFollows ==
    ASSUME Inv, Follows, ~Away, ReadsAlong, KeywordStatement
    PROVE  Agrees'
<1> DEFINE k == current.kind
<1>1. /\ mode = "between" /\ k \notin Separators \cup {"eof"} /\ k \in Starters /\ Advance
      /\ mode' = "rule" /\ todo' = RuleOf(k) /\ opens' = Opens(k)
      /\ UNCHANGED <<frames, loop_depth, function_depth>>
  BY DEF KeywordStatement, AtStatement
<1>2. diagnostics' <=> (diagnostics \/ Misplaced)
  BY Zenon DEF KeywordStatement
<1>3. LexTypeOK /\ FreshLine /\ reader \in Reader
  BY <1>1, CommandStarts
<1>4. PICK r \in Reader :
        /\ HasRead(r) /\ Settled(r)
        /\ r.barred \/ (current.line = "own" /\ (current.kind = "colon" => line = "colon"))
  BY <1>1, CommandStarts
<1>5. r.words = <<>> /\ ~r.joint /\ ~r.away /\ frames = r.open /\ (diagnostics <=> r.refused)
  BY <1>4 DEF Settled
<1>6. PICK q \in Reader : q = reader
  BY <1>3
<1>7. Gone(q, r) \/ (Has(q, r, <<k>>) /\ (k = "colon" => ~r.barred))
  <2>1. k \notin Commands
    BY <1>1 DEF Starters, Commands
  <2> QED  BY <1>1, <1>4, <1>5, <1>6, <2>1, FirstKeyword DEF HasRead
<1>8. CASE Gone(q, r)
  <2>1. reader.away /\ (reader.refused => diagnostics')
    BY <1>2, <1>5, <1>6, <1>8 DEF Gone
  <2> QED  BY <1>1, <1>3, <2>1, AwayKept DEF Agrees
<1>9. CASE Has(q, r, <<k>>) /\ (k = "colon" => ~r.barred)
  <2>1. /\ q.words = <<k>> /\ q.words # <<>> /\ q.words[1] = k /\ q.joint = FALSE /\ ~q.away
        /\ q.open = frames /\ q.refused = r.refused /\ q.barred = r.barred
    BY <1>5, <1>9 DEF Has, Reader
  <2>2. /\ HasRead(q)'
        /\ line \in {"empty", "colon"} => current'.line = "own"
    BY <1>1, <1>3, <1>6, AdvanceReads
  <2>3. Misplaced <=> OutOfPlace(q)
    <3>1. /\ function_depth = 0 <=> ~V!InFunction(q)
          /\ loop_depth = 0 <=> ~V!InSomeLoop(q)
      BY <2>1, DepthsTell
    <3> QED  BY <2>1, <3>1 DEF Misplaced, OutOfPlace
  <2>4. diagnostics' <=> (q.refused \/ OutOfPlace(q))
    BY <1>2, <1>5, <2>1, <2>3
  <2>5. k \notin Terminators
    BY <1>1, TerminatorsAre DEF Starters
  <2>6. Around(q)'
    BY <1>1, <2>1, <2>4, <2>5 DEF Around, OutOfPlace
  <2>7. Position(q.words, todo', q.joint, current'.kind)
    BY <1>1, <2>1, RuleStarts
  <2>8. OwnLine(q)'
    <3>1. CASE k = "colon"
      BY <1>4, <1>9, <2>1, <2>2, <3>1 DEF OwnLine
    <3>2. CASE k # "colon"
      <4>1. q.words \notin {<<>>, <<"colon">>}
        BY <2>1, <3>2
      <4> QED  BY <4>1 DEF OwnLine
    <3> QED  BY <3>1, <3>2
  <2>9. InRule'
    BY <1>1, <2>2, <2>6, <2>7, <2>8 DEF InRule, InPlace
  <2> QED  BY <2>9 DEF Agrees
<1> QED  BY <1>7, <1>8, <1>9

LEMMA TerminateFollows ==
    ASSUME Inv, Follows, ~Away, ReadsAlong, Terminate
    PROVE  Agrees'
<1> DEFINE k == current.kind
<1>1. /\ mode = "between" /\ frames # <<>> /\ k \in Ends(Open) /\ Advance
      /\ mode' = "rule" /\ todo' = RuleOf(k) /\ opens' = Opens(k)
      /\ frames' = Outer /\ UNCHANGED diagnostics
  BY DEF Terminate, Leave
<1>2. k \in Terminators
  <2>1. frames \in Seq(BlockKinds)
    BY DEF Inv, TypeOK
  <2>2. Open \in BlockKinds
    BY <1>1, <2>1 DEF Open
  <2> QED  BY <1>1, <2>2, EndsAreTerminators
<1>3. k \notin Separators \cup {"eof"}
  BY <1>2, TerminatorsAre DEF Separators
<1>4. LexTypeOK /\ FreshLine /\ reader \in Reader
  BY <1>1, <1>3, CommandStarts
<1>5. PICK r \in Reader : HasRead(r) /\ Settled(r)
  BY <1>1, <1>3, CommandStarts
<1>6. r.words = <<>> /\ ~r.joint /\ ~r.away /\ frames = r.open /\ (diagnostics <=> r.refused)
  BY <1>5 DEF Settled
<1>7. PICK q \in Reader : q = reader
  BY <1>4
<1>8. Gone(q, r) \/ Has(q, r, <<k>>)
  <2>1. k \notin Commands
    BY <1>2, TerminatorsAre DEF Commands
  <2> QED  BY <1>2, <1>5, <1>6, <1>7, <2>1, FirstKeyword DEF HasRead
<1>9. CASE Gone(q, r)
  <2>1. reader.away /\ (reader.refused => diagnostics')
    BY <1>1, <1>6, <1>7, <1>9 DEF Gone
  <2> QED  BY <1>1, <1>4, <2>1, AwayKept DEF Agrees
<1>10. CASE Has(q, r, <<k>>)
  <2>1. /\ q.words = <<k>> /\ q.words # <<>> /\ q.words[1] = k /\ q.joint = FALSE /\ ~q.away
        /\ q.open = frames /\ q.refused = r.refused
    BY <1>6, <1>10 DEF Has, Reader
  <2>2. HasRead(q)'
    BY <1>1, <1>3, <1>4, <1>7, AdvanceReads
  <2>3. k \notin {"return", "break", "colon"}
    BY <1>2, TerminatorsAre
  <2>4. V!Inside(q, V!Closes(k))
    BY <1>1, <1>2, <2>1, InsideThe
  <2>5. frames' = V!Without(q)
    BY <1>1, <2>1 DEF V!Without, Outer
  <2>6. Around(q)'
    BY <1>1, <1>2, <1>6, <2>1, <2>3, <2>4, <2>5 DEF Around, OutOfPlace
  <2>7. Position(q.words, todo', q.joint, current'.kind)
    BY <1>1, <1>2, <2>1, RuleStarts
  <2>8. q.words \notin {<<>>, <<"colon">>}
    BY <2>1, <2>3
  <2>9. InRule'
    BY <1>1, <2>2, <2>6, <2>7, <2>8 DEF InRule, InPlace, OwnLine
  <2> QED  BY <2>9 DEF Agrees
<1> QED  BY <1>8, <1>9, <1>10

LEMMA UnexpectedTerminatorFollows ==
    ASSUME Inv, Follows, ~Away, ReadsAlong, UnexpectedTerminator
    PROVE  Agrees'
<1> DEFINE k == current.kind
<1>1. /\ mode = "between" /\ k \notin Separators \cup {"eof"} /\ k \in Terminators
      /\ frames # <<>> => k \notin Ends(Open)
      /\ UNCHANGED lexing /\ mode' = "sync" /\ diagnostics' /\ UNCHANGED frames
  BY DEF UnexpectedTerminator, AtStatement, Err
<1>2. LexTypeOK /\ FreshLine /\ reader \in Reader
  BY <1>1, CommandStarts
<1>3. PICK r \in Reader : HasRead(r) /\ Settled(r)
  BY <1>1, CommandStarts
<1>4. r.words = <<>> /\ ~r.joint /\ ~r.away /\ frames = r.open
  BY <1>3 DEF Settled
<1>5. Gone(reader, r) \/ Has(reader, r, <<k>>)
  <2>1. k \notin Commands
    BY <1>1, TerminatorsAre DEF Commands
  <2> QED  BY <1>1, <1>3, <1>4, <2>1, FirstKeyword DEF HasRead
<1>6. reader.away \/ Fails(reader, frames)
  <2>1. ASSUME Has(reader, r, <<k>>) PROVE Fails(reader, frames)
    <3>1. reader.words = <<k>> /\ reader.words # <<>> /\ reader.words[1] = k /\ reader.open = frames
      BY <1>4, <2>1 DEF Has, Reader
    <3>2. ~V!Inside(reader, V!Closes(k))
      BY <1>1, <3>1, InsideThe
    <3> QED  BY <1>1, <3>1, <3>2 DEF Fails
  <2> QED  BY <1>5, <2>1 DEF Gone
<1>7. k \notin StatementEnd
  BY <1>1 DEF StatementEnd, Separators
<1> QED  BY <1>1, <1>2, <1>6, <1>7, FailingSyncs DEF Agrees

\* A rule that starts in front of its first token.
LEMMA StatementFollows ==
    ASSUME Inv, Follows, ~Away, ReadsAlong,
           AssignmentStatement \/ ExStatement \/ ExpressionStatement
    PROVE  Agrees'
<1> DEFINE k == current.kind
<1>1. /\ mode = "between" /\ k \notin Separators \cup {"eof"}
      /\ UNCHANGED lexing /\ mode' = "rule" /\ UNCHANGED <<opens, frames, diagnostics>>
      /\ \/ todo' = <<"target", "=", "expr", "end">> /\ k = "name"
         \/ todo' = <<"command", "end">> /\ k \in Commands
         \/ todo' = <<"expr", "end">> /\ k \notin Starters \cup Terminators \cup Names
  BY DEF AssignmentStatement, ExStatement, ExpressionStatement, AtStatement, Goes, RuleOf
<1>2. LexTypeOK /\ FreshLine /\ reader \in Reader /\ opens = "none"
  BY <1>1, CommandStarts
<1>3. PICK r \in Reader :
        /\ HasRead(r) /\ Settled(r)
        /\ r.barred \/ current.line = "own"
  BY <1>1, CommandStarts
<1>4. r.words = <<>> /\ ~r.joint /\ ~r.away /\ frames = r.open /\ (diagnostics <=> r.refused)
  BY <1>3 DEF Settled
<1>5. HasRead(r)' /\ current' = current
  BY <1>1, <1>2, <1>3, StillReads
<1>6. Around(r)'
  BY <1>1, <1>2, <1>4 DEF Around, OutOfPlace
<1>7. k \in Kinds
  BY <1>2 DEF LexTypeOK, Token
<1>8. k \notin Starters \cup Terminators \cup Names
        => k \in {"x", "sig", "single", "number", "double", "heredoc", "=", "in", "junk",
                  "comma", "default"}
  BY <1>1, <1>7, TerminatorsAre
     DEF Kinds, Keywords, Operands, Names, Commands, Strings, Starters, Separators
<1>9. Position(r.words, todo', r.joint, current'.kind)
  BY <1>1, <1>4, <1>5, <1>8 DEF Position
<1>10. OwnLine(r)'
  BY <1>3, <1>4, <1>5 DEF OwnLine
<1>11. InRule'
  BY <1>1, <1>5, <1>6, <1>9, <1>10 DEF InRule, InPlace
<1> QED  BY <1>11 DEF Agrees

-----------------------------------------------------------------------------
(* Inside a rule.                                                          *)

\* The words grow, and what the first of them tells stays.
LEMMA ContextKept ==
    ASSUME NEW r \in Reader, NEW q \in Reader, Around(r), ~q.away,
           q.open = r.open, q.refused = r.refused, q.words # <<>>,
           IF r.words = <<>> THEN q.words[1] \in {"E", "T", "ex"} ELSE q.words[1] = r.words[1],
           UNCHANGED <<opens, frames, diagnostics>>
    PROVE  Around(q)'
<1>1. CASE r.words = <<>>
  <2>1. q.words[1] \notin {"return", "break"} /\ q.words[1] \notin Terminators
    BY <1>1, TerminatorsAre
  <2>2. Opens(q.words[1]) = "none"
    BY <1>1 DEF Opens, BlockKinds
  <2>3. opens = "none" /\ (diagnostics <=> r.refused) /\ frames = r.open
    BY <1>1 DEF Around, OutOfPlace
  <2> QED  BY <2>1, <2>2, <2>3 DEF Around, OutOfPlace
<1>2. CASE r.words # <<>>
  <2>1. OutOfPlace(q) <=> OutOfPlace(r)
    BY <1>2 DEF OutOfPlace, V!InFunction, V!InSomeLoop
  <2>2. \A parts : V!Inside(q, parts) <=> V!Inside(r, parts)
    BY DEF V!Inside, V!Innermost
  <2>3. V!Without(q) = V!Without(r)
    BY DEF V!Without
  <2>4. q.words[1] = r.words[1]
    BY <1>2
  <2>5. OutOfPlace(q)' <=> OutOfPlace(q)
    BY DEF OutOfPlace, V!InFunction, V!InSomeLoop
  <2>6. /\ opens = Opens(r.words[1])
        /\ diagnostics <=> (r.refused \/ OutOfPlace(r))
        /\ IF r.words[1] \in Terminators
           THEN V!Inside(r, V!Closes(r.words[1])) /\ frames = V!Without(r)
           ELSE frames = r.open
    BY <1>2 DEF Around
  <2>7. /\ opens' = Opens(q.words[1])
        /\ diagnostics' <=> (q.refused \/ OutOfPlace(q))
        /\ IF q.words[1] \in Terminators
           THEN V!Inside(q, V!Closes(q.words[1])) /\ frames' = V!Without(q)
           ELSE frames' = q.open
    BY <2>1, <2>2, <2>3, <2>4, <2>6
  <2> QED  BY <2>5, <2>7 DEF Around
<1> QED  BY <1>1, <1>2

\* The rule reads on.
LEMMA GoesOn ==
    ASSUME LexTypeOK, FreshLine, reader \in Reader, ReadsAlong, Advance, current.kind # "eof",
           NEW r \in Reader, Around(r), mode' = "rule", UNCHANGED <<opens, frames, diagnostics>>,
           NEW q \in Reader, q = reader, ~q.away, q.open = r.open, q.refused = r.refused,
           q.words \notin {<<>>, <<"colon">>},
           IF r.words = <<>> THEN q.words[1] \in {"E", "T", "ex"} ELSE q.words[1] = r.words[1],
           \A n \in Kinds : Position(q.words, todo', q.joint, n)
    PROVE  Agrees'
<1>1. HasRead(q)' /\ current'.kind \in Kinds
  BY AdvanceReads
<1>2. Around(q)'
  BY ContextKept
<1>3. Position(q.words, todo', q.joint, current'.kind)
  BY <1>1
<1>4. InRule'
  BY <1>1, <1>2, <1>3 DEF InRule, InPlace, OwnLine
<1> QED  BY <1>4 DEF Agrees

\* Or looks at the token once more.
LEMMA GoesStill ==
    ASSUME FreshLine, reader \in Reader, ReadsAlong, UNCHANGED lexing,
           NEW r \in Reader, HasRead(r), Around(r),
           mode' = "rule", UNCHANGED <<opens, frames, diagnostics>>,
           todo' # <<"command", "end">>, Position(r.words, todo', r.joint, current.kind)
    PROVE  Agrees'
<1>1. HasRead(r)' /\ current' = current
  BY StillReads
<1>2. Around(r)'
  <2>1. OutOfPlace(r)' <=> OutOfPlace(r)
    BY DEF OutOfPlace, V!InFunction, V!InSomeLoop
  <2> QED  BY <2>1 DEF Around, V!Inside, V!Innermost, V!Without
<1>3. InRule'
  BY <1>1, <1>2 DEF InRule, InPlace, OwnLine
<1> QED  BY <1>3 DEF Agrees

\* A command that is no header is given up.
LEMMA DroppedFails ==
    ASSUME NEW r \in Reader, Around(r), r.words = <<>> \/ r.words[1] \notin V!Header,
           NEW a, Dropped(a, r)
    PROVE  Fails(a, frames)
<1>1. a.words = V!Bad /\ a.open = r.open
  BY DEF Dropped, Reader
<1>2. frames = r.open
  BY TerminatorsAre DEF Around
<1> QED  BY <1>1, <1>2 DEF Fails

\* Where a rule is: the reader had r in front of the token.
LEMMA RuleReader ==
    ASSUME Inv, Follows, ~Away, mode = "rule"
    PROVE  /\ LexTypeOK /\ FreshLine /\ reader \in Reader /\ current.kind \in Kinds
           /\ \E r \in Reader :
                  /\ HasRead(r) /\ Around(r) /\ Position(r.words, todo, r.joint, current.kind)
                  /\ OwnLine(r) /\ ~r.away /\ (r.refused => diagnostics)
                  /\ current.kind = "semi" => V!InEx(r.words) /\ ~r.joint
<1>1. LexTypeOK /\ FreshLine /\ reader \in Reader /\ current.kind \in Kinds
  BY DEF Inv, TypeOK, Follows, LexTypeOK, Token
<1>2. PICK r \in Reader :
          /\ HasRead(r) /\ Around(r) /\ Position(r.words, todo, r.joint, current.kind)
          /\ OwnLine(r) /\ ~r.away /\ (r.refused => diagnostics)
  BY PartsOfBetween DEF InRule, InPlace, Around
<1>3. ASSUME current.kind = "semi", r.joint \/ ~V!InEx(r.words) PROVE FALSE
  <2>1. Gone(reader, r)
    BY <1>2, <1>3, ReadSemicolon DEF HasRead
  <2> QED  BY <1>2, <2>1 DEF Gone, Away
<1> QED  BY <1>1, <1>2, <1>3

\* Gone with nothing new refused.
LEMMA GoneAgrees ==
    ASSUME LexTypeOK, FreshLine, reader \in Reader, Advance \/ UNCHANGED lexing, ReadsAlong,
           NEW r, r.refused => diagnostics', Gone(reader, r) \/ (Lost(reader) /\ diagnostics')
    PROVE  Agrees'
<1>1. reader.away /\ (reader.refused => diagnostics')
  BY DEF Gone, Lost
<1> QED  BY <1>1, AwayKept DEF Agrees

\* The words there may be in a rule but for an Ex command's.
Worded == NeedE \cup NeedT \cup NeedAssignment \cup Whole \cup V!Listing
            \cup {<<"for", "T">>, <<"catch">>, <<"function">>}

LEMMA WordsThere ==
    ASSUME NEW w \in Worded
    PROVE  w \notin {<<>>, V!Bad, <<"colon">>} /\ ~V!InEx(w)
<1>1. CASE w \in NeedE \cup NeedT \cup NeedAssignment
  BY <1>1 DEF NeedE, NeedT, NeedAssignment, V!Bad, V!InEx
<1>2. CASE w \in Whole
  BY <1>2 DEF Whole, Solo, WithE, V!Bad, V!InEx
<1>3. CASE w \in V!Listing \cup {<<"for", "T">>, <<"catch">>, <<"function">>}
  BY <1>3 DEF V!Listing, V!Bad, V!InEx
<1> QED  BY <1>1, <1>2, <1>3 DEF Worded

LEMMA NoForms ==
    ASSUME NEW w \in (NeedE \ {<<"echo">>, <<"return">>}) \cup NeedT \cup NeedAssignment
                        \cup {<<"for", "T">>, <<"function">>, <<"colon">>}
    PROVE  w \notin V!Forms
<1>1. CASE w \in NeedE \ {<<"echo">>, <<"return">>}
  BY <1>1 DEF NeedE, V!Forms
<1>2. CASE w \in NeedT \cup NeedAssignment
  BY <1>2 DEF NeedT, NeedAssignment, V!Forms
<1>3. CASE w \in {<<"for", "T">>, <<"function">>, <<"colon">>}
  BY <1>3 DEF V!Forms
<1> QED  BY <1>1, <1>2, <1>3

LEMMA Tails ==
    /\ \A s : Tail(<<s, "end">>) = <<"end">>
    /\ \A s : Tail(<<s, "exprs", "end">>) = <<"exprs", "end">>
    /\ \A s : Tail(<<s, "comma", "exprs", "end">>) = <<"comma", "exprs", "end">>
    /\ \A s : Tail(<<s, "attrs", "end">>) = <<"attrs", "end">>
    /\ \A s : Tail(<<s, "expr", "end">>) = <<"expr", "end">>
    /\ \A s, op : Tail(<<s, op, "expr", "end">>) = <<op, "expr", "end">>
OBVIOUS

-----------------------------------------------------------------------------
(* The steps of a rule that only look at a token.                          *)

LEMMA MoreOfExpressionFollows ==
    ASSUME Inv, Follows, ~Away, ReadsAlong, MoreOfExpression
    PROVE  Agrees'
<1>1. mode = "rule" /\ todo \in Seq(Steps) /\ todo # <<>> /\ Head(todo) = "more"
  BY AtLeastTheEnd DEF MoreOfExpression, Inv
<1>2. LexTypeOK /\ FreshLine /\ reader \in Reader /\ current.kind \in Kinds
  BY <1>1, RuleReader
<1>3. PICK r \in Reader :
        /\ HasRead(r) /\ Around(r) /\ Position(r.words, todo, r.joint, current.kind)
        /\ ~r.away /\ (r.refused => diagnostics)
  BY <1>1, RuleReader
<1>4. \/ r.words \in WithE \cup {<<"catch", "S">>} /\ todo = <<"more", "end">>
      \/ r.words \in V!Listing /\ todo = <<"more", "comma", "exprs", "end">>
      \/ r.words \in NeedAssignment /\ todo = <<"more", "=", "expr", "end">>
      \/ r.words = <<"for", "T">> /\ todo = <<"more", "in", "expr", "end">>
  BY <1>1, <1>3 DEF Position
<1>5. CASE current.kind = "cont"
  <2>1. Advance /\ UNCHANGED pvars
    BY <1>5 DEF MoreOfExpression
  <2>2. r.words # <<>> /\ r.words # <<"colon">>
    <3>1. r.words \in Worded
      BY <1>4 DEF Worded, Whole
    <3> QED  BY <3>1, WordsThere
  <2>3. Gone(reader, r) \/ reader = r \/ reader = [r EXCEPT !.joint = TRUE]
    BY <1>3, <1>5, <2>2, ReadCont DEF HasRead
  <2>4. CASE Gone(reader, r)
    BY <1>2, <1>3, <2>1, <2>4, GoneAgrees DEF pvars
  <2>5. CASE ~Gone(reader, r)
    <3>1. /\ reader.words = r.words /\ reader.open = r.open /\ reader.refused = r.refused
          /\ ~reader.away
      BY <1>3, <2>3, <2>5 DEF Reader
    <3>2. \A j, n : Position(r.words, todo, j, n)
      BY <1>4 DEF Position
    <3>3. mode' = "rule" /\ UNCHANGED <<opens, frames, diagnostics, todo>>
      BY <1>1, <2>1 DEF pvars
    <3>4. PICK q \in Reader : q = reader
      BY <1>2
    <3>5. \A n \in Kinds : Position(q.words, todo', q.joint, n)
      BY <3>1, <3>2, <3>3, <3>4
    <3> QED  BY <1>2, <1>3, <1>5, <2>1, <2>2, <3>1, <3>3, <3>4, <3>5, GoesOn
  <2> QED  BY <2>4, <2>5
<1>6. CASE current.kind # "cont"
  <2>1. UNCHANGED lexing /\ mode' = "rule" /\ todo' = Rest /\ UNCHANGED <<opens, frames, diagnostics>>
    BY <1>6 DEF MoreOfExpression, Goes
  <2>2. todo' = Tail(todo)
    BY <2>1 DEF Rest
  <2>3. Position(r.words, todo', r.joint, current.kind) /\ todo' # <<"command", "end">>
    <3>1. CASE r.words \in WithE \cup {<<"catch", "S">>} /\ todo = <<"more", "end">>
      <4>1. todo' = <<"end">> /\ r.words \in Whole
        BY <2>2, <3>1 DEF Whole
      <4>2. r.words # <<"function", "F">>
        BY <3>1 DEF WithE
      <4> QED  BY <1>6, <4>1, <4>2 DEF Position
    <3>2. CASE r.words \in V!Listing /\ todo = <<"more", "comma", "exprs", "end">>
      <4>1. todo' = <<"comma", "exprs", "end">>
        BY <2>2, <3>2
      <4> QED  BY <1>6, <3>2, <4>1 DEF Position
    <3>3. CASE r.words \in NeedAssignment /\ todo = <<"more", "=", "expr", "end">>
      <4>1. todo' = <<"=", "expr", "end">>
        BY <2>2, <3>3
      <4> QED  BY <1>6, <3>3, <4>1 DEF Position
    <3>4. CASE r.words = <<"for", "T">> /\ todo = <<"more", "in", "expr", "end">>
      <4>1. todo' = <<"in", "expr", "end">>
        BY <2>2, <3>4
      <4> QED  BY <1>6, <3>4, <4>1 DEF Position
    <3> QED  BY <1>4, <3>1, <3>2, <3>3, <3>4
  <2> QED  BY <1>2, <1>3, <2>1, <2>3, GoesStill
<1> QED  BY <1>5, <1>6

LEMMA ListedFollows ==
    ASSUME Inv, Follows, ~Away, ReadsAlong, Listed
    PROVE  Agrees'
<1>0. mode = "rule" /\ UNCHANGED lexing
  BY DEF Listed, Matching
<1>1. todo \in Seq(Steps) /\ todo # <<>> /\ Head(todo) \in {"some", "exprs", "option"}
  BY AtLeastTheEnd DEF Listed, Inv
<1>2. LexTypeOK /\ FreshLine /\ reader \in Reader /\ current.kind \in Kinds
  BY <1>0, RuleReader
<1>3. PICK r \in Reader :
        /\ HasRead(r) /\ Around(r) /\ Position(r.words, todo, r.joint, current.kind)
        /\ ~r.away /\ (r.refused => diagnostics)
        /\ current.kind = "semi" => V!InEx(r.words) /\ ~r.joint
  BY <1>0, RuleReader
<1>4. /\ Head(todo) = "option" => r.words = <<"return">> /\ todo = <<"option", "end">>
      /\ Head(todo) = "some" => r.words = <<"unlet">> /\ todo = <<"some", "end">>
      /\ Head(todo) = "exprs" =>
            /\ todo = <<"exprs", "end">>
            /\ r.words = <<"echo">> \/ (r.words \in V!Listing /\ current.kind # "cont")
  BY <1>1, <1>3 DEF Position
<1>5. CASE Err
  <2>1. Head(todo) = "some" /\ current.kind \in StatementEnd
    BY <1>5 DEF Listed, Matching, Err, Goes
  <2>2. r.words \notin V!Forms /\ r.words # <<>> /\ r.words[1] = "unlet"
    <3>1. r.words = <<"unlet">> /\ <<"unlet">> \in NeedE \ {<<"echo">>, <<"return">>}
      BY <1>4, <2>1 DEF NeedE
    <3> QED  BY <3>1, NoForms
  <2>3. frames = r.open /\ mode' = "sync" /\ diagnostics' /\ UNCHANGED frames
    BY <1>3, <1>5, <2>2, TerminatorsAre DEF Around, Err
  <2>4. \/ reader.away
        \/ Judges(reader, [r EXCEPT !.refused = TRUE], current.kind)
    BY <1>3, <2>1, <2>2, EndsNoForm DEF HasRead, Gone, Lost
  <2>5. reader.away \/ Over(reader, frames, current.kind)
    BY <1>3, <2>3, <2>4 DEF Judges, Over, Reader
  <2>6. current.kind \in RawEnd
    <3>1. ~V!InEx(r.words)
      BY <2>2, FormsHas DEF V!InEx
    <3> QED  BY <1>3, <2>1, <3>1 DEF RawEnd
  <2> QED  BY <1>0, <1>2, <2>3, <2>5, <2>6, FailingSyncs DEF Agrees
<1>6. CASE ~Err
  <2>1. mode' = "rule" /\ UNCHANGED <<opens, frames, diagnostics>>
    BY <1>6 DEF Listed, Goes
  <2>2. Position(r.words, todo', r.joint, current.kind) /\ todo' # <<"command", "end">>
    <3>1. CASE current.kind \in StatementEnd
      <4>1. todo' = Tail(todo) /\ Head(todo) \in {"exprs", "option"}
        BY <1>6, <3>1 DEF Listed, Goes, Rest, Matching
      <4>2. todo' = <<"end">> /\ r.words \in {<<"return">>, <<"echo">>, <<"catch">>} \cup V!Listing
        BY <1>1, <1>4, <4>1, Tails
      <4> QED  BY <3>1, <4>2 DEF Position
    <3>2. CASE current.kind \notin StatementEnd
      <4>1. CASE Head(todo) = "some"
        <5>1. r.words = <<"unlet">> /\ Tail(todo) = <<"end">>
          BY <1>4, <4>1, Tails
        <5>2. todo' = <<"expr", "comma", "exprs">> \o <<"end">>
          BY <3>2, <4>1, <5>1 DEF Listed, Goes, Rest, Matching
        <5>3. todo' = <<"expr", "comma", "exprs", "end">>
          BY <5>2, PutTwo
        <5> QED  BY <3>2, <5>1, <5>3 DEF Position
      <4>2. CASE Head(todo) = "exprs"
        <5>1. /\ todo = <<"exprs", "end">>
              /\ r.words = <<"echo">> \/ (r.words \in V!Listing /\ current.kind # "cont")
          BY <1>4, <4>2
        <5>2. todo' = <<"expr", "comma">> \o <<"exprs", "end">>
          BY <3>2, <4>2, <5>1 DEF Listed, Goes, Rest, Matching
        <5>3. todo' = <<"expr", "comma", "exprs", "end">>
          BY <5>2, PutTwo
        <5> QED  BY <3>2, <5>1, <5>3 DEF Position
      <4>3. CASE Head(todo) = "option"
        <5>1. Tail(todo) = <<"end">> /\ r.words = <<"return">>
          BY <1>4, <4>3, Tails
        <5>2. todo' = <<"expr">> \o <<"end">>
          BY <3>2, <4>3, <5>1 DEF Listed, Goes, Rest, Matching
        <5>3. todo' = <<"expr", "end">>
          BY <5>2, Put1
        <5> QED  BY <3>2, <5>1, <5>3 DEF Position
      <4> QED  BY <1>1, <4>1, <4>2, <4>3
    <3> QED  BY <3>1, <3>2
  <2> QED  BY <1>0, <1>2, <1>3, <2>1, <2>2, GoesStill
<1> QED  BY <1>5, <1>6

LEMMA OptionalCommaFollows ==
    ASSUME Inv, Follows, ~Away, ReadsAlong, OptionalComma
    PROVE  Agrees'
<1>1. mode = "rule" /\ todo \in Seq(Steps) /\ todo # <<>> /\ Head(todo) = "comma"
  BY AtLeastTheEnd DEF OptionalComma, Inv
<1>2. LexTypeOK /\ FreshLine /\ reader \in Reader /\ current.kind \in Kinds
  BY <1>1, RuleReader
<1>3. PICK r \in Reader :
        /\ HasRead(r) /\ Around(r) /\ Position(r.words, todo, r.joint, current.kind)
        /\ ~r.away /\ (r.refused => diagnostics)
  BY <1>1, RuleReader
<1>4. r.words \in V!Listing /\ todo = <<"comma", "exprs", "end">> /\ current.kind # "cont"
  BY <1>1, <1>3 DEF Position
<1>5. CASE current.kind = "comma"
  <2>1. Advance /\ UNCHANGED diagnostics
    BY <1>5 DEF OptionalComma, Goes
  <2>2. r.words # <<>> /\ r.words # <<"colon">>
    BY <1>4 DEF V!Listing
  <2>3. V!PartsWays(r.words, "comma")
    BY <1>4 DEF V!PartsWays
  <2>4. V!Word(r, "comma") = V!Departed(r, "dialect")
    BY <2>2, <2>3 DEF V!Word
  <2>5. V!Read(r, "comma", FALSE) = V!Word(r, "comma")
    BY <1>3 DEF V!Read
  <2>6. Gone(reader, r)
    BY <1>3, <1>5, <2>4, <2>5, AfterIs, Departs DEF HasRead
  <2> QED  BY <1>2, <1>3, <2>1, <2>6, GoneAgrees
<1>6. CASE current.kind # "comma"
  <2>1. UNCHANGED lexing /\ mode' = "rule" /\ todo' = Rest /\ UNCHANGED <<opens, frames, diagnostics>>
    BY <1>6 DEF OptionalComma, Goes
  <2>2. todo' = <<"exprs", "end">>
    BY <1>4, <2>1, Tails DEF Rest
  <2>3. Position(r.words, todo', r.joint, current.kind) /\ todo' # <<"command", "end">>
    BY <1>4, <2>2 DEF Position
  <2> QED  BY <1>2, <1>3, <2>1, <2>3, GoesStill
<1> QED  BY <1>5, <1>6

LEMMA AttributesFollows ==
    ASSUME Inv, Follows, ~Away, ReadsAlong, Attributes
    PROVE  Agrees'
<1>1. mode = "rule" /\ todo \in Seq(Steps) /\ todo # <<>> /\ Head(todo) = "attrs"
  BY AtLeastTheEnd DEF Attributes, Inv
<1>2. LexTypeOK /\ FreshLine /\ reader \in Reader /\ current.kind \in Kinds
  BY <1>1, RuleReader
<1>3. PICK r \in Reader :
        /\ HasRead(r) /\ Around(r) /\ Position(r.words, todo, r.joint, current.kind)
        /\ ~r.away /\ (r.refused => diagnostics)
  BY <1>1, RuleReader
<1>4. r.words = <<"function", "F">> /\ todo = <<"attrs", "end">>
  BY <1>1, <1>3 DEF Position
<1>5. CASE current.kind = "attr"
  <2>1. Advance /\ UNCHANGED pvars
    BY <1>5 DEF Attributes
  <2>2. Gone(reader, r) \/ reader = r
    BY <1>3, <1>4, <1>5, AttributeReads DEF HasRead
  <2>3. CASE Gone(reader, r)
    BY <1>2, <1>3, <2>1, <2>3, GoneAgrees DEF pvars
  <2>4. CASE reader = r
    <3>1. mode' = "rule" /\ UNCHANGED <<opens, frames, diagnostics, todo>>
      BY <1>1, <2>1 DEF pvars
    <3>2. \A n \in Kinds : Position(r.words, todo', r.joint, n)
      BY <1>4, <3>1 DEF Position
    <3>3. r.words # <<>> /\ r.words # <<"colon">>
      BY <1>4
    <3> QED  BY <1>2, <1>3, <1>5, <2>1, <2>4, <3>1, <3>2, <3>3, GoesOn
  <2> QED  BY <2>2, <2>3, <2>4
<1>6. CASE current.kind # "attr"
  <2>1. UNCHANGED lexing /\ mode' = "rule" /\ todo' = Rest /\ UNCHANGED <<opens, frames, diagnostics>>
    BY <1>6 DEF Attributes, Goes
  <2>2. todo' = <<"end">>
    BY <1>4, <2>1, Tails DEF Rest
  <2>3. r.words \in Whole /\ r.words \notin WithE
    BY <1>4 DEF Whole, WithE
  <2>4. Position(r.words, todo', r.joint, current.kind) /\ todo' # <<"command", "end">>
    BY <1>6, <2>2, <2>3 DEF Position
  <2> QED  BY <1>2, <1>3, <2>1, <2>4, GoesStill
<1> QED  BY <1>5, <1>6

-----------------------------------------------------------------------------
(* The words and separators that a rule names.                             *)

\* The slots of tokens.
LEMMA FitsIs ==
    ASSUME NEW k \in Kinds
    PROVE  /\ "=" \in V!Fits(k) <=> k = "="
           /\ "in" \in V!Fits(k) <=> k = "in"
           /\ "F" \in V!Fits(k) <=> k \in {"sig", "default"}
           /\ "S" \in V!Fits(k) <=> k \in {"single", "double"}
           /\ "T" \in V!Fits(k) <=> k \in Names \cup {"x"}
           /\ "E" \in V!Fits(k) <=> k \in Operands \ {"heredoc"}
<1>1. k \notin {"E", "T", "S", "F"}
  BY DEF Kinds, Keywords, Operands, Names, Commands, Strings
<1>2. CASE k \in {"x", "name"}
  BY <1>2 DEF V!Fits, Names, Commands, Operands, Strings
<1>3. CASE k \in {"ex", "attr"}
  BY <1>3 DEF V!Fits, Names, Commands, Operands, Strings
<1>4. CASE k \in {"sig", "default"}
  BY <1>4 DEF V!Fits, Names, Commands, Operands, Strings
<1>5. CASE k \in {"number", "single", "double"}
  BY <1>5 DEF V!Fits, Names, Commands, Operands, Strings
<1>6. CASE k \notin {"x", "name", "ex", "attr", "sig", "default", "number", "single", "double"}
  <2>1. V!Fits(k) = {k}
    BY <1>6 DEF V!Fits
  <2> QED  BY <1>1, <1>6, <2>1 DEF Names, Commands, Operands, Strings
<1> QED  BY <1>2, <1>3, <1>4, <1>5, <1>6

\* The token that the rule names: step and slot s.
LEMMA NamedReads ==
    ASSUME Inv, Follows, ~Away, ReadsAlong, mode = "rule", Advance, current.kind \notin Breaks \cup {"heredoc"},
           NEW r \in Reader, HasRead(r), Around(r), ~r.away, r.refused => diagnostics,
           r.words \in Worded \ V!Listing,
           NEW s, s # "bad", V!Follow(r.words) = {s}, s \in V!Fits(current.kind),
           mode' = "rule", UNCHANGED <<opens, frames, diagnostics>>,
           \A n \in Kinds : Position(Append(r.words, s), todo', FALSE, n)
    PROVE  Agrees'
<1>1. LexTypeOK /\ FreshLine /\ reader \in Reader /\ current.kind \in Kinds
  BY RuleReader
<1>2. r.words \notin {<<>>, V!Bad, <<"colon">>} /\ ~V!InEx(r.words)
  BY WordsThere
<1>3. Gone(reader, r) \/ Has(reader, r, Append(r.words, s))
  BY <1>2, ReadFits DEF HasRead
<1>4. CASE Gone(reader, r)
  BY <1>1, <1>4, GoneAgrees
<1>5. CASE Has(reader, r, Append(r.words, s))
  <2>1. PICK q \in Reader : q = reader
    BY <1>1
  <2>2. /\ q.words = Append(r.words, s) /\ q.joint = FALSE
        /\ q.open = r.open /\ q.refused = r.refused /\ ~q.away
    BY <1>5, <2>1 DEF Has, Reader
  <2>3. r.words \in Seq(Wordings) /\ r.words # <<>>
    BY <1>2 DEF Reader
  <2>4. q.words[1] = r.words[1] /\ q.words # <<>> /\ q.words # <<"colon">>
    BY <2>2, <2>3
  <2>5. \A n \in Kinds : Position(q.words, todo', q.joint, n)
    BY <2>2
  <2>6. current.kind # "eof"
    BY DEF Breaks
  <2> QED  BY <1>1, <1>2, <2>1, <2>2, <2>4, <2>5, <2>6, GoesOn
<1> QED  BY <1>3, <1>4, <1>5

\* A token that the command has no place for: the parser gives up in front of
\* it.
LEMMA SpoiledFails ==
    ASSUME Inv, Follows, ~Away, ReadsAlong, mode = "rule", Advance \/ UNCHANGED lexing,
           current.kind \notin Breaks,
           NEW r \in Reader, HasRead(r), Around(r), ~r.away,
           r.words \in Worded, V!Fits(current.kind) \cap V!Follow(r.words) = {},
           ~(r.words = <<"function", "F">> /\ current.kind = "attr"),
           mode' = "sync", diagnostics', UNCHANGED frames
    PROVE  Agrees'
<1>1. LexTypeOK /\ FreshLine /\ reader \in Reader
  BY RuleReader
<1>2. r.words \notin {<<>>, V!Bad, <<"colon">>} /\ ~V!InEx(r.words)
  BY WordsThere
<1>3. \/ reader.away
      \/ r.words[1] \notin V!Header /\ Dropped(reader, r)
  BY <1>2, ReadSpoils DEF HasRead, Gone, Lost
<1>4. reader.away \/ Fails(reader, frames)
  BY <1>3, DroppedFails
<1>5. current.kind \notin StatementEnd
  BY DEF Breaks, StatementEnd
<1> QED  BY <1>1, <1>4, <1>5, FailingSyncs DEF Agrees

\* A command that ends too early: the parser gives up in front of the end.
LEMMA EndedFails ==
    ASSUME Inv, Follows, ~Away, ReadsAlong, mode = "rule", UNCHANGED lexing,
           current.kind \in StatementEnd,
           NEW r \in Reader, HasRead(r), Around(r), ~r.away,
           r.words # <<>>, r.words \notin V!Forms,
           mode' = "sync", diagnostics', UNCHANGED frames
    PROVE  Agrees'
<1>1. LexTypeOK /\ FreshLine /\ reader \in Reader
  BY RuleReader
<1>2. \/ reader.away
      \/ /\ r.words[1] \notin V!Header
         /\ Judges(reader, [r EXCEPT !.refused = TRUE], current.kind)
  BY EndsNoForm DEF HasRead, Gone, Lost
<1>3. r.words[1] \notin V!Header => frames = r.open
  BY TerminatorsAre DEF Around
<1>4. reader.away \/ Over(reader, frames, current.kind)
  BY <1>2, <1>3 DEF Judges, Over, Reader
<1>5. reader.away \/ current.kind \in RawEnd
  <2>1. ~V!InEx(r.words)
    BY FormsHas DEF V!InEx
  <2>2. current.kind = "semi" => reader.away
    BY <2>1, ReadSemicolon DEF HasRead, Gone
  <2> QED  BY <2>2 DEF RawEnd
<1> QED  BY <1>1, <1>4, <1>5, FailingSyncs DEF Agrees

LEMMA ExpectFollows ==
    ASSUME Inv, Follows, ~Away, ReadsAlong, Expect
    PROVE  Agrees'
<1>0. PICK step \in {"=", "in", "sig"} :
        /\ Matching(step)
        /\ IF current.kind \in Right(step) THEN Advance /\ Goes(Rest)
                                  ELSE UNCHANGED lexing /\ Err
  BY DEF Expect
<1>1. mode = "rule" /\ todo \in Seq(Steps) /\ todo # <<>> /\ Head(todo) = step
  BY <1>0, AtLeastTheEnd DEF Inv
<1>2. LexTypeOK /\ FreshLine /\ reader \in Reader /\ current.kind \in Kinds
  BY <1>1, RuleReader
<1>3. PICK r \in Reader :
        /\ HasRead(r) /\ Around(r) /\ Position(r.words, todo, r.joint, current.kind)
        /\ ~r.away /\ (r.refused => diagnostics)
  BY <1>1, RuleReader
<1>4. /\ step = "=" => r.words \in NeedAssignment /\ todo = <<"=", "expr", "end">> /\ current.kind # "cont"
      /\ step = "in" => r.words = <<"for", "T">> /\ todo = <<"in", "expr", "end">> /\ current.kind # "cont"
      /\ step = "sig" => r.words = <<"function">> /\ todo = <<"sig", "attrs", "end">>
  BY <1>1, <1>3 DEF Position
<1> DEFINE s == IF step = "sig" THEN "F" ELSE step
<1>5. V!Follow(r.words) = {s} /\ s # "bad" /\ (s \in V!Fits(current.kind) <=> current.kind \in Right(step))
  <2>1. V!Follow(r.words) = {s} /\ s # "bad"
    <3>1. CASE step = "="
      BY <1>4, <3>1, NeedsAssignment
    <3>2. CASE step = "in"
      BY <1>4, <3>2, NeedsOther
    <3>3. CASE step = "sig"
      BY <1>4, <3>3, NeedsOther
    <3> QED  BY <3>1, <3>2, <3>3
  <2>2. s \in V!Fits(current.kind) <=> current.kind \in Right(step)
    BY <1>2, FitsIs DEF Right
  <2> QED  BY <2>1, <2>2
<1>6. r.words \in Worded \ V!Listing /\ r.words \notin V!Forms /\ r.words # <<"function", "F">>
  <2>1. r.words \in NeedAssignment \cup {<<"for", "T">>, <<"function">>}
    BY <1>4
  <2>2. r.words # <<"function", "F">>
    BY <2>1 DEF NeedAssignment
  <2> QED  BY <2>1, <2>2, NotListing, NoForms DEF Worded
<1>7. r.words \notin {<<>>, V!Bad, <<"colon">>} /\ ~V!InEx(r.words)
  BY <1>6, WordsThere
<1> HIDE DEF s
<1>8. CASE current.kind \in Right(step)
  <2>1. Advance /\ mode' = "rule" /\ todo' = Tail(todo) /\ UNCHANGED <<opens, frames, diagnostics>>
    BY <1>0, <1>8 DEF Goes, Rest
  <2>2. \A n \in Kinds : Position(Append(r.words, s), todo', FALSE, n)
    <3>1. CASE step = "="
      <4>1. todo' = <<"expr", "end">> /\ s = "="
        BY <1>4, <2>1, <3>1, Tails DEF s
      <4>2. Append(r.words, "=") \in {<<"let", "T", "=">>, <<"T", "=">>}
        <5>1. r.words = <<"let", "T">> \/ r.words = <<"T">>
          BY <1>4, <3>1 DEF NeedAssignment
        <5>2. CASE r.words = <<"let", "T">>
          BY <5>2, Append2
        <5>3. CASE r.words = <<"T">>
          BY <5>3, Append1
        <5> QED  BY <5>1, <5>2, <5>3
      <4>3. Append(r.words, "=") \in NeedE \ {<<"unlet">>, <<"echo">>, <<"return">>}
        BY <4>2 DEF NeedE
      <4> QED  BY <4>1, <4>3 DEF Position
    <3>2. CASE step = "in"
      <4>1. todo' = <<"expr", "end">> /\ s = "in"
        BY <1>4, <2>1, <3>2, Tails DEF s
      <4>2. Append(r.words, "in") = <<"for", "T", "in">>
        BY <1>4, <3>2, Append2
      <4>3. Append(r.words, "in") \in NeedE \ {<<"unlet">>, <<"echo">>, <<"return">>}
        BY <4>2 DEF NeedE
      <4> QED  BY <4>1, <4>3 DEF Position
    <3>3. CASE step = "sig"
      <4>1. todo' = <<"attrs", "end">> /\ s = "F"
        BY <1>4, <2>1, <3>3, Tails DEF s
      <4>2. Append(r.words, "F") = <<"function", "F">>
        BY <1>4, <3>3, Append1
      <4> QED  BY <4>1, <4>2 DEF Position
    <3> QED  BY <3>1, <3>2, <3>3
  <2>3. current.kind \notin Breaks \cup {"heredoc"}
    BY <1>8 DEF Breaks, Right
  <2> QED  BY <1>1, <1>3, <1>5, <1>6, <1>8, <2>1, <2>2, <2>3, NamedReads
<1>9. CASE current.kind \notin Right(step)
  <2>1. UNCHANGED lexing /\ mode' = "sync" /\ diagnostics' /\ UNCHANGED frames
    BY <1>0, <1>9 DEF Err
  <2>2. CASE current.kind \in StatementEnd
    BY <1>1, <1>3, <1>6, <1>7, <2>1, <2>2, EndedFails
  <2>3. CASE current.kind = "cont"
    <3>1. r.words = <<"function">>
      BY <1>4, <2>3
    <3>2. \/ Gone(reader, r)
          \/ reader = [r EXCEPT !.joint = TRUE]
      <4>1. r.words # <<>> /\ r.words # V!Bad /\ r.words[Len(r.words)] \notin {"E", "T"}
        BY <3>1 DEF V!Bad
      <4> QED  BY <1>3, <2>3, <4>1, ReadCont DEF HasRead
    <3>3. reader.away \/ (reader.joint /\ reader.words = <<"function">>)
      BY <3>1, <3>2 DEF Gone, Reader
    <3>4. <<"function">> \in Stuck /\ "function" \in V!Header
      BY DEF Stuck, V!Header
    <3>5. reader.away \/ Fails(reader, frames)
      BY <3>3, <3>4 DEF Fails
    <3> QED  BY <1>2, <2>1, <2>3, <3>5, FailingSyncs DEF Agrees, StatementEnd
  <2>4. CASE current.kind \notin StatementEnd \cup {"cont"}
    <3>1. current.kind \notin Breaks
      BY <2>4 DEF Breaks, StatementEnd
    <3>2. V!Fits(current.kind) \cap V!Follow(r.words) = {}
      BY <1>5, <1>9
    <3> QED  BY <1>1, <1>3, <1>6, <2>1, <3>1, <3>2, SpoiledFails
  <2> QED  BY <2>2, <2>3, <2>4
<1> QED  BY <1>8, <1>9

LEMMA PatternFollows ==
    ASSUME Inv, Follows, ~Away, ReadsAlong, Pattern
    PROVE  Agrees'
<1>1. mode = "rule" /\ todo \in Seq(Steps) /\ todo # <<>> /\ Head(todo) = "pattern"
  BY AtLeastTheEnd DEF Inv, Pattern
<1>2. LexTypeOK /\ FreshLine /\ reader \in Reader /\ current.kind \in Kinds
  BY <1>1, RuleReader
<1>3. PICK r \in Reader :
        /\ HasRead(r) /\ Around(r) /\ Position(r.words, todo, r.joint, current.kind)
        /\ ~r.away /\ (r.refused => diagnostics)
  BY <1>1, RuleReader
<1>4. r.words = <<"catch">> /\ todo = <<"pattern", "end">>
  BY <1>1, <1>3 DEF Position
<1>5. Rest = <<"end">>
  BY <1>4, Tails DEF Rest
<1>6. CASE current.kind \in {"single", "double"}
  <2>1. Advance /\ mode' = "rule" /\ todo' = <<"end">> /\ UNCHANGED <<opens, frames, diagnostics>>
    BY <1>5, <1>6 DEF Pattern, Goes, StatementEnd
  <2>2. V!Follow(r.words) = {"S"} /\ r.words \in Worded \ V!Listing
    BY <1>4, NeedsOther, NotListing DEF Worded
  <2>3. "S" \in V!Fits(current.kind)
    BY <1>2, <1>6, FitsIs
  <2>4. Append(r.words, "S") = <<"catch", "S">>
    BY <1>4, Append1
  <2>5. <<"catch", "S">> \in Whole /\ <<"catch", "S">> \notin WithE /\ <<"catch", "S">> # <<"function", "F">>
    BY DEF Whole, WithE
  <2>6. \A n \in Kinds : Position(Append(r.words, "S"), todo', FALSE, n)
    BY <2>1, <2>4, <2>5 DEF Position
  <2>7. current.kind \notin Breaks \cup {"heredoc"}
    BY <1>6 DEF Breaks
  <2> QED  BY <1>1, <1>3, <2>1, <2>2, <2>3, <2>6, <2>7, NamedReads
<1>7. CASE current.kind \notin {"single", "double"}
  <2>1. UNCHANGED lexing /\ mode' = "rule" /\ UNCHANGED <<opens, frames, diagnostics>>
    BY <1>7 DEF Pattern, Goes
  <2>2. Position(r.words, todo', r.joint, current.kind) /\ todo' # <<"command", "end">>
    <3>1. CASE current.kind \in StatementEnd
      <4>1. todo' = <<"end">>
        BY <1>5, <1>7, <3>1 DEF Pattern, Goes
      <4> QED  BY <1>4, <3>1, <4>1 DEF Position
    <3>2. CASE current.kind \notin StatementEnd
      <4>1. todo' = <<"string">> \o <<"end">>
        BY <1>5, <1>7, <3>2 DEF Pattern, Goes
      <4>2. todo' = <<"string", "end">>
        BY <4>1, Put1
      <4> QED  BY <1>4, <3>2, <4>2 DEF Position
    <3> QED  BY <3>1, <3>2
  <2> QED  BY <1>1, <1>2, <1>3, <2>1, <2>2, GoesStill
<1> QED  BY <1>6, <1>7

-----------------------------------------------------------------------------
(* Ex commands.                                                            *)

ExWords == {<<"ex">>, <<"colon", "ex">>}

LEMMA ExWordsAre ==
    ASSUME NEW w
    PROVE  /\ V!InEx(w) <=> w \in ExWords
           /\ w \in ExWords => /\ w \notin {<<>>, V!Bad, <<"colon">>}
                               /\ w[Len(w)] = "ex" /\ w[1] \in {"ex", "colon"}
                               /\ w \in V!Forms /\ w \in Stuck /\ w \notin Whole
<1>1. V!InEx(w) <=> w \in ExWords
  BY DEF V!InEx, ExWords
<1>2. ASSUME w \in ExWords
      PROVE  /\ w \notin {<<>>, V!Bad, <<"colon">>}
             /\ w[Len(w)] = "ex" /\ w[1] \in {"ex", "colon"}
  <2>1. CASE w = <<"ex">>
    BY <2>1 DEF V!Bad
  <2>2. CASE w = <<"colon", "ex">>
    BY <2>2 DEF V!Bad
  <2> QED  BY <1>2, <2>1, <2>2 DEF ExWords
<1>3. w \in ExWords => w \in V!Forms /\ w \in Stuck
  BY FormsHas DEF ExWords, Stuck
<1>4. w \in ExWords => w \notin Whole
  BY DEF ExWords, Whole, Solo, WithE
<1> QED  BY <1>1, <1>2, <1>3, <1>4

\* Nothing of the command was read.
LEMMA NothingYet ==
    ASSUME NEW w, w = <<>>, NEW t, NEW j, NEW k, Position(w, t, j, k)
    PROVE  /\ ~j
           /\ \/ t = <<"target", "=", "expr", "end">> /\ k = "name"
              \/ t = <<"command", "end">> /\ k \in Commands
              \/ t = <<"expr", "end">>
                    /\ k \in {"x", "sig", "single", "number", "double", "heredoc", "=", "in", "junk",
                             "comma", "default"}
<1>1. w \notin Worded
  BY WordsThere
<1>2. w \notin ExWords
  BY ExWordsAre
<1>3. ~V!InEx(w)
  BY <1>2, ExWordsAre
<1>4. /\ w \notin NeedE \cup NeedT \cup NeedAssignment \cup Whole \cup V!Listing
      /\ w \notin WithE
  BY <1>1 DEF Worded, Whole
<1> QED  BY <1>3, <1>4 DEF Position

LEMMA ExGoesOn ==
    ASSUME Inv, Follows, ~Away, ReadsAlong, mode = "rule", Advance, current.kind # "eof",
           NEW r \in Reader, HasRead(r), Around(r), ~r.away, r.refused => diagnostics,
           r.words \in ExWords \cup {<<>>, <<"colon">>},
           \/ Gone(reader, r)
           \/ \E w \in ExWords : /\ Has(reader, r, w)
                                 /\ r.words = <<>> => w[1] = "ex"
                                 /\ r.words # <<>> => w[1] = r.words[1]
           \/ reader = r /\ r.words \in ExWords
           \/ reader = [r EXCEPT !.joint = TRUE] /\ r.words \in ExWords,
           mode' = "rule", UNCHANGED <<opens, frames, diagnostics>>,
           \A w \in ExWords, n \in Kinds :
               reader.words = w => Position(w, todo', reader.joint, n)
    PROVE  Agrees'
<1>1. LexTypeOK /\ FreshLine /\ reader \in Reader /\ current.kind \in Kinds
  BY RuleReader
<1>2. CASE Gone(reader, r)
  BY <1>1, <1>2, GoneAgrees
<1>3. CASE ~Gone(reader, r)
  <2>1. PICK q \in Reader : q = reader
    BY <1>1
  <2>2. /\ q.words \in ExWords /\ q.open = r.open /\ q.refused = r.refused /\ ~q.away
        /\ r.words = <<>> => q.words[1] = "ex"
        /\ r.words # <<>> => q.words[1] = r.words[1]
    <3>1. CASE reader = r /\ r.words \in ExWords
      BY <2>1, <3>1, ExWordsAre
    <3>2. CASE reader = [r EXCEPT !.joint = TRUE] /\ r.words \in ExWords
      <4>1. /\ q.words = r.words /\ q.open = r.open /\ q.refused = r.refused /\ ~q.away
        BY <2>1, <3>2 DEF Reader
      <4> QED  BY <3>2, <4>1, ExWordsAre
    <3>3. ASSUME NEW w \in ExWords, Has(reader, r, w),
                 r.words = <<>> => w[1] = "ex", r.words # <<>> => w[1] = r.words[1]
          PROVE  /\ q.words \in ExWords /\ q.open = r.open /\ q.refused = r.refused /\ ~q.away
                 /\ r.words = <<>> => q.words[1] = "ex"
                 /\ r.words # <<>> => q.words[1] = r.words[1]
      BY <2>1, <3>3 DEF Has, Reader
    <3> QED  BY <1>3, <3>1, <3>2, <3>3
  <2>3. q.words \notin {<<>>, <<"colon">>}
    BY <2>2, ExWordsAre
  <2>4. \A n \in Kinds : Position(q.words, todo', q.joint, n)
    BY <2>1, <2>2
  <2> QED  BY <1>1, <2>1, <2>2, <2>3, <2>4, GoesOn
<1> QED  BY <1>2, <1>3

LEMMA ExCommandFollows ==
    ASSUME Inv, Follows, ~Away, ReadsAlong, ExCommand
    PROVE  Agrees'
<1> DEFINE k == current.kind
<1>1. mode = "rule" /\ todo \in Seq(Steps) /\ todo # <<>> /\ Head(todo) = "command"
  BY AtLeastTheEnd DEF Inv, ExCommand
<1>2. LexTypeOK /\ FreshLine /\ reader \in Reader /\ k \in Kinds
  BY <1>1, RuleReader
<1>3. PICK r \in Reader :
        /\ HasRead(r) /\ Around(r) /\ Position(r.words, todo, r.joint, k)
        /\ OwnLine(r) /\ ~r.away /\ (r.refused => diagnostics)
  BY <1>1, RuleReader
<1>4. /\ todo = <<"command", "end">>
      /\ r.words = <<"colon">> \/ (r.words = <<>> /\ k \in Commands)
  BY <1>1, <1>3 DEF Position
<1>5. Rest = <<"end">>
  BY <1>4, Tails DEF Rest
<1>6. CASE Own /\ k \in Words
  <2>1. Advance /\ mode' = "rule" /\ todo' = <<"raw">> \o <<"end">> /\ UNCHANGED <<opens, frames, diagnostics>>
    <3>1. k \notin {"number", "single"}
      BY <1>6 DEF Words, Keywords, Names, Commands
    <3> QED  BY <1>5, <1>6, <3>1 DEF ExCommand, Goes, Own
  <2>2. todo' = <<"raw", "end">>
    BY <2>1, Put1
  <2>3. k \notin Breaks
    BY <1>6 DEF Breaks, Words, Keywords, Names, Commands
  <2>4. \/ Gone(reader, r)
        \/ \E w \in ExWords : /\ Has(reader, r, w)
                              /\ r.words = <<>> => w[1] = "ex"
                              /\ r.words # <<>> => w[1] = r.words[1]
    <3>1. CASE r.words = <<"colon">>
      <4>1. Gone(reader, r) \/ Has(reader, r, <<"colon", "ex">>)
        BY <1>3, <2>3, <3>1, ColonReads DEF HasRead
      <4>2. <<"colon", "ex">> \in ExWords /\ <<"colon", "ex">>[1] = r.words[1] /\ r.words # <<>>
        BY <3>1 DEF ExWords
      <4> QED  BY <4>1, <4>2
    <3>2. CASE r.words = <<>> /\ k \in Commands
      <4>1. ~r.joint
        BY <1>3, <3>2, NothingYet
      <4>2. Gone(reader, r) \/ Has(reader, r, <<"ex">>)
        BY <1>3, <3>2, <4>1, FirstKeyword DEF HasRead
      <4>3. <<"ex">> \in ExWords /\ <<"ex">>[1] = "ex"
        BY DEF ExWords
      <4> QED  BY <3>2, <4>2, <4>3
    <3> QED  BY <1>4, <3>1, <3>2
  <2>5. \A w \in ExWords : \A j, n : Position(w, todo', j, n)
    BY <2>2, ExWordsAre DEF Position
  <2>6. k # "eof"
    BY <2>3 DEF Breaks
  <2> QED  BY <1>1, <1>3, <1>4, <2>1, <2>4, <2>5, <2>6, ExGoesOn
<1>7. CASE ~Own
  <2>1. r.words = <<>> /\ k \in Commands /\ r.barred
    BY <1>3, <1>4, <1>7 DEF OwnLine, Own
  <2>2. ~r.joint
    BY <1>3, <2>1, NothingYet
  <2>3. Gone(reader, r)
    BY <1>3, <2>1, <2>2, FirstKeyword DEF HasRead
  <2>4. UNCHANGED lexing /\ (diagnostics => diagnostics')
    BY <1>7 DEF ExCommand, Err, Goes
  <2> QED  BY <1>2, <1>3, <2>3, <2>4, GoneAgrees
<1>8. CASE Own /\ k \notin Words \cup {"number", "single"}
  <2>1. UNCHANGED lexing /\ mode' = "sync" /\ diagnostics' /\ UNCHANGED frames
    BY <1>8 DEF ExCommand, Err
  <2>2. r.words = <<"colon">> /\ k \notin Commands
    BY <1>4, <1>8 DEF Words, Names
  <2>3. r.words # <<>> /\ r.words[1] \notin V!Header /\ r.words[1] \notin Terminators
    BY <2>2, TerminatorsAre
  <2>4. frames = r.open
    BY <1>3, <2>3 DEF Around
  <2>5. CASE k \in StatementEnd
    <3>1. r.words \notin V!Forms
      BY <2>2, NoForms
    <3> QED  BY <1>1, <1>3, <2>1, <2>3, <2>5, <3>1, EndedFails
  <2>6. CASE k = "cont"
    <3>1. r.words # V!Bad /\ r.words[Len(r.words)] \notin {"E", "T"}
      BY <2>2 DEF V!Bad
    <3>2. Gone(reader, r) \/ reader = [r EXCEPT !.joint = TRUE]
      BY <1>3, <2>3, <2>6, <3>1, ReadCont DEF HasRead
    <3>3. r.words \in Stuck
      BY <2>2 DEF Stuck
    <3>4. reader.away \/ (reader.joint /\ reader.words \in Stuck /\ reader.open = frames)
      BY <2>4, <3>2, <3>3 DEF Gone, Reader
    <3>5. reader.away \/ Fails(reader, frames)
      BY <3>4 DEF Fails
    <3> QED  BY <1>2, <2>1, <2>6, <3>5, FailingSyncs DEF Agrees, StatementEnd
  <2>7. CASE k \notin StatementEnd \cup {"cont"}
    <3>1. k \notin Breaks
      BY <2>7 DEF Breaks, StatementEnd
    <3>2. Gone(reader, r)
      BY <1>3, <2>2, <3>1, ColonReads DEF HasRead
    <3> QED  BY <1>2, <1>3, <2>1, <3>2, GoneAgrees
  <2> QED  BY <2>5, <2>6, <2>7
<1>9. CASE Own /\ k \in {"number", "single"}
  <2>1. (Advance \/ UNCHANGED lexing) /\ (diagnostics => diagnostics')
    BY <1>9 DEF ExCommand, Err, Goes
  <2>2. k \notin Commands /\ k \notin Breaks
    BY <1>9 DEF Commands, Breaks
  <2>3. Gone(reader, r)
    BY <1>3, <1>4, <2>2, ColonReads DEF HasRead
  <2> QED  BY <1>2, <1>3, <2>1, <2>3, GoneAgrees
<1> QED  BY <1>6, <1>7, <1>8, <1>9

\* A range is read only where the reader has given up.
LEMMA RangedCommandFollows ==
    ASSUME Inv, Follows, ~Away, RangedCommand
    PROVE  Agrees'
<1>1. mode = "rule" /\ todo # <<>> /\ Head(todo) \in {"ranged", "last"}
  BY DEF RangedCommand, Matching
<1>2. PICK r \in Reader : Position(r.words, todo, r.joint, current.kind)
  BY <1>1, RuleReader
<1>3. FALSE
  BY <1>1, <1>2 DEF Position
<1> QED  BY <1>3

LEMMA SkipRawFollows ==
    ASSUME Inv, Follows, ~Away, ReadsAlong, SkipRaw
    PROVE  Agrees'
<1> DEFINE k == current.kind
<1>1. mode = "rule" /\ todo \in Seq(Steps) /\ todo # <<>> /\ Head(todo) = "raw"
  BY AtLeastTheEnd DEF Inv, SkipRaw
<1>2. LexTypeOK /\ FreshLine /\ reader \in Reader /\ k \in Kinds
  BY <1>1, RuleReader
<1>3. PICK r \in Reader :
        /\ HasRead(r) /\ Around(r) /\ Position(r.words, todo, r.joint, k)
        /\ ~r.away /\ (r.refused => diagnostics)
        /\ k = "semi" => V!InEx(r.words) /\ ~r.joint
  BY <1>1, RuleReader
<1>4. todo = <<"raw", "end">> /\ r.words \in ExWords
  BY <1>1, <1>3, ExWordsAre DEF Position
<1>5. Rest = <<"end">>
  BY <1>4, Tails DEF Rest
<1>6. CASE k \in RawEnd
  <2>1. UNCHANGED lexing /\ mode' = "rule" /\ todo' = <<"end">> /\ UNCHANGED <<opens, frames, diagnostics>>
    BY <1>5, <1>6 DEF SkipRaw, Goes, RawEnd, StatementEnd
  <2>2. Position(r.words, todo', r.joint, k)
    BY <1>4, <1>6, <2>1, ExWordsAre DEF Position
  <2> QED  BY <1>2, <1>3, <2>1, <2>2, GoesStill
<1>7. CASE k = "cont"
  <2>1. Advance /\ mode' = "rule" /\ todo' = <<"end">> /\ UNCHANGED <<opens, frames, diagnostics>>
    BY <1>5, <1>7 DEF SkipRaw, Goes, RawEnd, StatementEnd
  <2>2. r.words # <<>> /\ r.words # V!Bad /\ r.words[Len(r.words)] \notin {"E", "T"}
    BY <1>4, ExWordsAre
  <2>3. Gone(reader, r) \/ reader = [r EXCEPT !.joint = TRUE]
    BY <1>3, <1>7, <2>2, ReadCont DEF HasRead
  <2>4. CASE Gone(reader, r)
    BY <1>2, <1>3, <2>1, <2>4, GoneAgrees
  <2>5. CASE reader = [r EXCEPT !.joint = TRUE]
    <3>1. reader.joint
      BY <2>5 DEF Reader
    <3>2. \A w \in ExWords, n \in Kinds : Position(w, todo', reader.joint, n)
      BY <2>1, <3>1, ExWordsAre DEF Position
    <3> QED  BY <1>1, <1>3, <1>4, <1>7, <2>1, <2>5, <3>2, ExGoesOn
  <2> QED  BY <2>3, <2>4, <2>5
<1>8. CASE k \notin RawEnd \cup {"cont", "heredoc"}
  <2>1. Advance
    BY <1>8 DEF SkipRaw
  <2>2. (k \notin Breaks \/ (k = "semi" /\ ~r.joint)) /\ k # "eof"
    BY <1>3, <1>8 DEF Breaks, RawEnd, StatementEnd
  <2>3. Gone(reader, r) \/ (reader = r /\ k # "heredoc")
    BY <1>3, <1>4, <2>2, ExReads, ExWordsAre DEF HasRead
  <2>4. CASE Gone(reader, r)
    <3>1. UNCHANGED diagnostics
      BY <1>8 DEF SkipRaw, Goes, pvars
    <3> QED  BY <1>2, <1>3, <2>1, <2>4, <3>1, GoneAgrees
  <2>5. CASE reader = r /\ k # "heredoc"
    <3>1. mode' = "rule" /\ UNCHANGED <<todo, opens, frames, diagnostics>>
      BY <1>1, <1>8, <2>5 DEF SkipRaw, pvars
    <3>2. \A w \in ExWords : \A j, n : Position(w, todo', j, n)
      BY <1>4, <3>1, ExWordsAre DEF Position
    <3> QED  BY <1>1, <1>3, <1>4, <2>1, <2>2, <2>5, <3>1, <3>2, ExGoesOn
  <2> QED  BY <2>3, <2>4, <2>5
<1>9. CASE k = "heredoc"
  <2>1. Advance /\ UNCHANGED diagnostics
    BY <1>9 DEF SkipRaw, Goes, RawEnd, StatementEnd
  <2>2. k \notin Breaks
    BY <1>9 DEF Breaks
  <2>3. Gone(reader, r)
    BY <1>3, <1>4, <1>9, <2>2, ExReads, ExWordsAre DEF HasRead
  <2> QED  BY <1>2, <1>3, <2>1, <2>3, GoneAgrees
<1> QED  BY <1>6, <1>7, <1>8, <1>9

-----------------------------------------------------------------------------
(* The end of a statement or of a header.                                  *)

LEMMA EnterIs ==
    ASSUME NEW kind, Enter(kind)
    PROVE  frames' = IF kind = "none" THEN frames ELSE Append(frames, kind)
BY DEF Enter

\* The block that the parser opens is the one that the reader opens.
LEMMA PlacedOpens ==
    ASSUME NEW r \in Reader, Around(r), r.words # <<>>, Enter(opens), UNCHANGED diagnostics
    PROVE  LET p == V!Placed(r, r.words[1])
           IN  \/ Gone(p, r)
               \/ ~p.away /\ p.open = frames' /\ (diagnostics' <=> p.refused)
<1> DEFINE k == r.words[1]
           p == V!Placed(r, k)
<1>1. /\ ~r.away /\ opens = Opens(k)
      /\ diagnostics <=> (r.refused \/ OutOfPlace(r))
      /\ frames' = IF opens = "none" THEN frames ELSE Append(frames, opens)
      /\ r.refused \in BOOLEAN /\ r.open \in Seq(BlockKinds)
  BY EnterIs DEF Around, Reader
<1>2. CASE k \in {"if", "while", "for", "try", "function"}
  <2>1. p = [r EXCEPT !.open = Append(r.open, k)]
    BY <1>2, PlacedIs
  <2>2. k \notin Terminators /\ opens = k /\ k # "none"
    BY <1>1, <1>2, TerminatorsAre DEF Opens, BlockKinds
  <2>3. frames = r.open /\ ~OutOfPlace(r)
    BY <1>2, <2>2 DEF Around, OutOfPlace
  <2>4. p.open = Append(r.open, k) /\ p.refused = r.refused /\ ~p.away
    BY <1>1, <2>1 DEF Reader
  <2> QED  BY <1>1, <2>2, <2>3, <2>4
<1>3. CASE k \in Terminators
  <2>1. V!Inside(r, V!Closes(k)) /\ frames = V!Without(r)
    BY <1>3 DEF Around
  <2>2. k \in V!Header \ {"if", "while", "for", "try", "function"}
    BY <1>3, TerminatorsAre
  <2>3. p = [r EXCEPT !.open = V!Without(r) \o V!Continues(k)]
    BY <2>1, <2>2, PlacedIs
  <2>4. p.open = V!Without(r) \o V!Continues(k) /\ p.refused = r.refused /\ ~p.away
    BY <1>1, <2>3 DEF Reader
  <2>5. ~OutOfPlace(r)
    BY <1>3, TerminatorsAre DEF OutOfPlace
  <2>6. frames \in Seq(BlockKinds)
    <3>1. r.open # <<>>
      BY <2>1 DEF V!Inside
    <3> QED  BY <1>1, <2>1, <3>1, ButLast DEF V!Without
  <2>7. p.open = frames'
    <3>1. CASE opens = "none"
      <4>1. V!Continues(k) = <<>>
        BY <1>1, <1>3, <3>1, TerminatorsAre DEF Opens, V!Continues, BlockKinds
      <4>2. frames \o <<>> = frames
        BY <2>6
      <4> QED  BY <1>1, <2>1, <2>4, <3>1, <4>1, <4>2
    <3>2. CASE opens # "none"
      <4>1. V!Continues(k) = <<opens>> /\ opens \in BlockKinds
        <5>1. CASE k \in {"elseif", "catch"}
          BY <1>1, <5>1 DEF Opens, V!Continues, BlockKinds
        <5>2. CASE k \in {"else", "finally"}
          BY <1>1, <5>2 DEF Opens, V!Continues, BlockKinds
        <5>3. CASE k \notin {"elseif", "catch", "else", "finally"}
          BY <1>1, <1>3, <3>2, <5>3, TerminatorsAre DEF Opens, BlockKinds
        <5> QED  BY <5>1, <5>2, <5>3
      <4>2. frames \o <<opens>> = Append(frames, opens)
        BY <2>6, <4>1
      <4> QED  BY <1>1, <2>1, <2>4, <3>2, <4>1, <4>2
    <3> QED  BY <3>1, <3>2
  <2> QED  BY <1>1, <2>4, <2>5, <2>7
<1>4. CASE k \notin V!Header
  <2>1. opens = "none" /\ frames = r.open
    BY <1>1, <1>4, TerminatorsAre DEF Opens, BlockKinds, Around
  <2>2. frames' = r.open
    BY <1>1, <2>1
  <2>3. CASE k = "return"
    <3>1. p = [r EXCEPT !.refused = r.refused \/ ~V!InFunction(r)]
      BY <2>3, PlacedIs
    <3>2. p.open = r.open /\ ~p.away /\ (p.refused <=> r.refused \/ ~V!InFunction(r))
      BY <1>1, <3>1 DEF Reader
    <3>3. OutOfPlace(r) <=> ~V!InFunction(r)
      BY <2>3 DEF OutOfPlace
    <3> QED  BY <1>1, <2>2, <3>2, <3>3
  <2>4. CASE k = "break"
    <3>1. p = IF V!InSomeLoop(r) /\ ~V!InLoop(r) THEN V!Departed(r, "break")
              ELSE [r EXCEPT !.refused = r.refused \/ ~V!InLoop(r)]
      BY <2>4, PlacedIs
    <3>2. CASE V!InSomeLoop(r) /\ ~V!InLoop(r)
      BY <3>1, <3>2, Departs
    <3>3. CASE ~(V!InSomeLoop(r) /\ ~V!InLoop(r))
      <4>1. p.open = r.open /\ ~p.away /\ (p.refused <=> r.refused \/ ~V!InLoop(r))
        BY <1>1, <3>1, <3>3 DEF Reader
      <4>2. OutOfPlace(r) <=> ~V!InSomeLoop(r)
        BY <2>4 DEF OutOfPlace
      <4>3. V!InLoop(r) => V!InSomeLoop(r)
        BY DEF V!InLoop, V!InSomeLoop
      <4> QED  BY <1>1, <2>2, <3>3, <4>1, <4>2, <4>3
    <3> QED  BY <3>2, <3>3
  <2>5. CASE k \notin {"return", "break"}
    <3>1. p = r
      BY <1>4, <2>5, PlacedIs
    <3>2. ~OutOfPlace(r)
      BY <2>5 DEF OutOfPlace
    <3> QED  BY <1>1, <2>2, <3>1, <3>2
  <2> QED  BY <2>3, <2>4, <2>5
<1> QED  BY <1>2, <1>3, <1>4, TerminatorsAre

\* The command is over, for the parser and for the reader.
LEMMA EndsWell ==
    ASSUME Inv, Follows, ~Away, ReadsAlong, EndOfStatement, current.kind \in RawEnd,
           NEW r \in Reader, HasRead(r), Around(r), ~r.away, r.refused => diagnostics,
           r.words \in V!Forms
    PROVE  Agrees'
<1> DEFINE p == V!Placed(r, r.words[1])
<1>1. mode = "rule" /\ UNCHANGED lexing /\ mode' = "between" /\ UNCHANGED diagnostics /\ Enter(opens)
  BY DEF EndOfStatement, Matching, RawEnd
<1>2. LexTypeOK /\ FreshLine /\ reader \in Reader
  BY <1>1, RuleReader
<1>3. r.words # <<>>
  BY FormsStart
<1>4. Gone(p, r) \/ (~p.away /\ p.open = frames' /\ (diagnostics' <=> p.refused))
  BY <1>1, <1>3, PlacedOpens
<1>9. current.kind \in StatementEnd /\ current.kind # "semi"
  BY DEF RawEnd
<1>5. \/ Gone(reader, r)
      \/ IF p.away THEN reader = p ELSE Judges(reader, p, current.kind)
  BY <1>9, EndsForm DEF HasRead
<1>6. p \in Reader
  BY PlacedType
<1> HIDE DEF p
<1>7. CASE Gone(reader, r)
  BY <1>1, <1>2, <1>7, GoneAgrees
<1>8. CASE ~Gone(reader, r)
  <2>1. ~p.away /\ p.open = frames' /\ (diagnostics' <=> p.refused) /\ Judges(reader, p, current.kind)
    BY <1>4, <1>5, <1>8 DEF Gone
  <2>2. /\ reader.words = <<>> /\ ~reader.joint /\ ~reader.away /\ reader.open = frames'
        /\ diagnostics' <=> reader.refused
        /\ reader.barred = (current.kind = "bar")
    BY <1>6, <2>1 DEF Judges, Reader
  <2>3. reader' = reader /\ current' = current /\ line' = line
    BY <1>1, <1>2, StillReads
  <2>4. Settled(reader)'
    BY <2>2, <2>3 DEF Settled
  <2>5. CASE current.kind = "eof"
    BY <1>1, <2>2, <2>3, <2>5 DEF Agrees, AtEnd
  <2>6. CASE current.kind \in {"nl", "bar"}
    <3>1. reader'.barred \/ line' = "empty"
      BY <1>2, <2>2, <2>3, <2>6 DEF FreshLine
    <3> QED  BY <1>1, <2>3, <2>4, <2>6, <3>1 DEF Agrees, AtBreak, Separators
  <2> QED  BY <1>9, <2>5, <2>6 DEF StatementEnd
<1> QED  BY <1>7, <1>8

LEMMA EndOfStatementFollows ==
    ASSUME Inv, Follows, ~Away, ReadsAlong, EndOfStatement
    PROVE  Agrees'
<1> DEFINE k == current.kind
<1>1. mode = "rule" /\ todo \in Seq(Steps) /\ todo # <<>> /\ Head(todo) = "end"
  BY AtLeastTheEnd DEF Inv, EndOfStatement
<1>2. LexTypeOK /\ FreshLine /\ reader \in Reader /\ k \in Kinds
  BY <1>1, RuleReader
<1>3. PICK r \in Reader :
        /\ HasRead(r) /\ Around(r) /\ Position(r.words, todo, r.joint, k)
        /\ ~r.away /\ (r.refused => diagnostics)
        /\ k = "semi" => V!InEx(r.words) /\ ~r.joint
  BY <1>1, RuleReader
<1>4. \/ /\ r.words \in Whole /\ (r.words \in WithE => k # "cont")
         /\ r.words = <<"function", "F">> => k # "attr"
      \/ r.words \in {<<"return">>, <<"echo">>, <<"catch">>} \cup V!Listing /\ k \in StatementEnd
      \/ r.words \in ExWords /\ (r.joint \/ k \in RawEnd)
  BY <1>1, <1>3, ExWordsAre DEF Position
<1>5. CASE k \in StatementEnd
  <2>1. r.words \in V!Forms
    <3>1. r.words \in V!Listing => r.words \in V!Forms
      BY FormsHas DEF V!Listing
    <3>2. r.words \in {<<"return">>, <<"echo">>, <<"catch">>} => r.words \in V!Forms
      BY FormsHas
    <3> QED  BY <1>4, <3>1, <3>2, FormsHas, ExWordsAre
  <2>2. k \in RawEnd
    <3>1. k # "semi"
      BY <1>3, <1>4, ExWordsAre DEF RawEnd, ExWords, V!Listing
    <3> QED  BY <1>5, <3>1 DEF RawEnd
  <2> QED  BY <1>3, <2>1, <2>2, EndsWell
<1>6. CASE k \notin StatementEnd
  <2>1. UNCHANGED lexing /\ mode' = "sync" /\ diagnostics' /\ UNCHANGED frames
    BY <1>6 DEF EndOfStatement, Err
  <2>2. r.words[1] \notin V!Header => frames = r.open
    <3>1. r.words # <<>>
      <4>1. r.words \in Worded \cup ExWords
        BY <1>4, <1>6 DEF Worded
      <4> QED  BY <4>1, WordsThere, ExWordsAre
    <3> QED  BY <1>3, <3>1, TerminatorsAre DEF Around
  <2>3. CASE r.words \in Whole /\ k # "cont"
    <3>1. k \notin Breaks
      BY <1>6, <2>3 DEF Breaks, StatementEnd
    <3>2. r.words \in Worded /\ V!Follow(r.words) = {}
      BY <2>3, WholeEnds DEF Worded
    <3>3. ~(r.words = <<"function", "F">> /\ k = "attr")
      BY <1>4, <2>3, ExWordsAre DEF V!Listing
    <3> QED  BY <1>1, <1>3, <2>1, <3>1, <3>2, <3>3, SpoiledFails
  <2>4. CASE r.words \in Whole /\ k = "cont"
    <3>0. r.words \in Solo \cup {<<"catch", "S">>, <<"function", "F">>}
      BY <1>4, <1>6, <2>4, ExWordsAre DEF Whole
    <3>1. r.words \in Stuck
      BY <3>0 DEF Stuck
    <3>2. r.words # <<>> /\ r.words # V!Bad
      BY <2>4, WordsThere DEF Worded
    <3>3. r.words[Len(r.words)] \notin {"E", "T"}
      <4>1. CASE r.words \in Solo
        <5>1. PICK x \in {"break", "finish", "else", "endif", "endwhile", "endfor", "try", "finally",
                          "endtry", "endfunction"} : r.words = <<x>>
          BY <4>1 DEF Solo
        <5> QED  BY <5>1
      <4>2. CASE r.words \in {<<"catch", "S">>, <<"function", "F">>}
        BY <4>2
      <4> QED  BY <3>0, <4>1, <4>2
    <3>4. Gone(reader, r) \/ reader = [r EXCEPT !.joint = TRUE]
      BY <1>3, <2>4, <3>2, <3>3, ReadCont DEF HasRead
    <3>5. \/ reader.away
          \/ reader.joint /\ reader.words = r.words /\ reader.open = r.open
      BY <3>4 DEF Gone, Reader
    <3>6. reader.away \/ Fails(reader, frames)
      BY <2>2, <3>1, <3>5 DEF Fails
    <3> QED  BY <1>2, <1>6, <2>1, <3>6, FailingSyncs DEF Agrees
  <2>5. CASE r.words \in ExWords /\ r.joint
    <3>1. r.words \in Stuck /\ r.words # <<>> /\ r.words # V!Bad
          /\ r.words[Len(r.words)] \notin {"E", "T"} /\ V!InEx(r.words)
      BY <2>5, ExWordsAre
    <3>2. [r EXCEPT !.joint = TRUE] = r
      BY <2>5 DEF Reader
    <3>3. Gone(reader, r) \/ reader = r
      <4>1. CASE k = "cont"
        BY <1>3, <3>1, <3>2, <4>1, ReadCont DEF HasRead
      <4>2. CASE k # "cont"
        <5>1. k \notin Breaks
          BY <1>6, <4>2 DEF Breaks, StatementEnd
        <5> QED  BY <1>3, <3>1, <5>1, ExReads DEF HasRead
      <4> QED  BY <4>1, <4>2
    <3>4. reader.away \/ Fails(reader, frames)
      BY <2>2, <2>5, <3>1, <3>3 DEF Fails, Gone
    <3> QED  BY <1>2, <1>6, <2>1, <3>4, FailingSyncs DEF Agrees
  <2> QED  BY <1>4, <1>6, <2>3, <2>4, <2>5 DEF RawEnd
<1> QED  BY <1>5, <1>6

-----------------------------------------------------------------------------
(* Expressions.                                                            *)

\* Where an operand is needed, and after what.
Needing(w, t, joint, k) ==
    LET over == k \in StatementEnd
    IN  \/ w \in NeedE \ {<<"unlet">>, <<"echo">>} /\ t = <<"expr", "end">>
             /\ (w = <<"return">> => joint \/ ~over)
        \/ w \in {<<"unlet">>, <<"echo">>} /\ t = <<"expr", "comma", "exprs", "end">> /\ (joint \/ ~over)
        \/ w \in V!Listing /\ t = <<"expr", "comma", "exprs", "end">> /\ k # "cont" /\ ~over
        \/ w = <<"let">> /\ t = <<"target", "=", "expr", "end">>
        \/ w = <<"for">> /\ t = <<"target", "in", "expr", "end">>
        \/ w = <<"catch">> /\ t = <<"string", "end">> /\ (joint \/ ~over)

Slot(w) == IF w \in NeedT THEN "T" ELSE IF w = <<"catch">> THEN "S" ELSE "E"

LEMMA OperandNeeded ==
    ASSUME NEW w, NEW t, NEW j, NEW k, Position(w, t, j, k), t # <<>>,
           Head(t) \in {"expr", "target", "string"}
    PROVE  Needing(w, t, j, k) \/ w = <<>>
<1>1. CASE w = <<"return">> /\ t = <<"expr", "end">> /\ (j \/ k \notin StatementEnd)
  BY <1>1 DEF Needing, NeedE
<1>2. CASE w \in NeedE \ {<<"unlet">>, <<"echo">>, <<"return">>} /\ t = <<"expr", "end">>
  BY <1>2 DEF Needing
<1> QED  BY <1>1, <1>2 DEF Position, Needing

LEMMA NeedingIs ==
    ASSUME NEW w, NEW t, NEW j, NEW k, Needing(w, t, j, k)
    PROVE  /\ w \in Worded /\ V!Follow(w) = {Slot(w)} /\ Slot(w) # "bad" /\ Slot(w) \in {"E", "T", "S"}
           /\ w \in NeedE \cup NeedT \cup V!Listing \cup {<<"catch">>}
           /\ w \notin V!Listing => w[Len(w)] \notin {"E", "T"}
           /\ Head(t) = "target" <=> Slot(w) = "T"
           /\ Head(t) = "string" <=> Slot(w) = "S"
           /\ w \in NeedT <=> Slot(w) = "T"
           /\ w = <<"catch">> <=> Slot(w) = "S"
<1>1. CASE w \in NeedE
  <2>1. w \notin NeedT /\ w # <<"catch">> /\ w[Len(w)] \notin {"E", "T"}
    <3>1. w \notin NeedT /\ w # <<"catch">>
      BY <1>1 DEF NeedE, NeedT
    <3>2. w[Len(w)] \notin {"E", "T"}
      <4>1. CASE w \in {<<"let", "T", "=">>, <<"T", "=">>, <<"for", "T", "in">>}
        BY <4>1
      <4>2. ASSUME NEW x \in {"unlet", "echo", "throw", "return", "if", "elseif", "while"},
                   w = <<x>>
            PROVE  w[Len(w)] \notin {"E", "T"}
        BY <4>2
      <4> QED  BY <1>1, <4>1, <4>2 DEF NeedE
    <3> QED  BY <3>1, <3>2
  <2>2. Head(t) = "expr"
    BY <1>1, <2>1 DEF Needing, NeedT
  <2> QED  BY <1>1, <2>1, <2>2, NeedsE DEF Slot, Worded
<1>2. CASE w \in V!Listing
  <2>1. w \notin NeedT /\ w # <<"catch">>
    BY <1>2 DEF V!Listing, NeedT
  <2>2. Head(t) = "expr"
    BY <1>2, <2>1 DEF Needing, NeedT
  <2> QED  BY <1>2, <2>1, <2>2, NeedsOther DEF Slot, Worded
<1>3. CASE w = <<"let">> /\ t = <<"target", "=", "expr", "end">>
  <2>1. w \in NeedT /\ w # <<"catch">> /\ w[Len(w)] \notin {"E", "T"}
    BY <1>3 DEF NeedT
  <2> QED  BY <1>3, <2>1, NeedsT DEF Slot, Worded
<1>4. CASE w = <<"for">> /\ t = <<"target", "in", "expr", "end">>
  <2>1. w \in NeedT /\ w # <<"catch">> /\ w[Len(w)] \notin {"E", "T"}
    BY <1>4 DEF NeedT
  <2> QED  BY <1>4, <2>1, NeedsT DEF Slot, Worded
<1>5. CASE w = <<"catch">> /\ t = <<"string", "end">>
  <2>1. w \notin NeedT /\ w[Len(w)] \notin {"E", "T"}
    BY <1>5 DEF NeedT
  <2> QED  BY <1>5, <2>1, NeedsOther DEF Slot, Worded
<1>6. \/ w \in NeedE \cup V!Listing
      \/ w = <<"let">> /\ t = <<"target", "=", "expr", "end">>
      \/ w = <<"for">> /\ t = <<"target", "in", "expr", "end">>
      \/ w = <<"catch">> /\ t = <<"string", "end">>
  BY DEF Needing, NeedE
<1> QED  BY <1>1, <1>2, <1>3, <1>4, <1>5, <1>6

\* The operand is missing at the end of the command: all is lost.
LEMMA OperandMissing ==
    ASSUME NEW r \in Reader, ~r.away, NEW k \in StatementEnd, NEW c, NEW t,
           Needing(r.words, t, r.joint, k)
    PROVE  After(r, k, c).away
<1> DEFINE a == After(r, k, c)
<1>1. r.words # <<>> /\ r.words # V!Bad
  BY NeedingIs, WordsThere
<1>2. CASE r.words \in {<<"return">>, <<"echo">>, <<"catch">>}
  <2>1. r.joint
    <3>1. r.words \notin V!Listing
      BY <1>2 DEF V!Listing
    <3>2. CASE r.words = <<"return">>
      BY <3>1, <3>2 DEF Needing
    <3>3. CASE r.words = <<"echo">>
      BY <3>1, <3>3 DEF Needing
    <3>4. CASE r.words = <<"catch">>
      <4>1. r.words \notin NeedE
        BY <3>4 DEF NeedE
      <4> QED  BY <3>1, <3>4, <4>1 DEF Needing
    <3> QED  BY <1>2, <3>2, <3>3, <3>4
  <2>2. r.words \in V!Forms
    BY <1>2, FormsHas
  <2> QED  BY <2>1, <2>2, EndsForm DEF Gone
<1>3. CASE r.words \notin {<<"return">>, <<"echo">>, <<"catch">>}
  <2>1. r.words \in NeedE \cup NeedT
    <3>1. CASE r.words \in NeedE \ {<<"unlet">>, <<"echo">>}
      BY <3>1
    <3>2. CASE r.words \in {<<"unlet">>, <<"let">>, <<"for">>}
      BY <3>2 DEF NeedE, NeedT
    <3> QED  BY <1>3, <3>1, <3>2 DEF Needing
  <2>2. r.words \notin V!Forms
    BY <1>3, <2>1, NoForms
  <2>3. \/ r.joint
        \/ r.words[1] \in V!Header
        \/ r.words \in {<<"let">>, <<"let", "T", "=">>, <<"T", "=">>, <<"throw">>}
    <3>1. CASE r.words = <<"unlet">>
      BY <3>1 DEF Needing, V!Listing
    <3>2. CASE r.words # <<"unlet">>
      BY <1>3, <2>1, <3>2 DEF NeedE, NeedT, V!Header
    <3> QED  BY <3>1, <3>2
  <2> QED  BY <1>1, <2>2, <2>3, EndsNoForm DEF Gone, Lost, V!Listings
<1> QED  BY <1>2, <1>3

\* A continuation in front of the operand.
LEMMA OperandWaits ==
    ASSUME NEW w, NEW t, NEW j, Needing(w, t, j, "cont"), NEW n
    PROVE  Position(w, t, TRUE, n)
<1>1. CASE w \in NeedE \ {<<"unlet">>, <<"echo">>} /\ t = <<"expr", "end">>
  <2>1. CASE w = <<"return">>
    BY <1>1, <2>1 DEF Position
  <2>2. CASE w # <<"return">>
    BY <1>1, <2>2 DEF Position
  <2> QED  BY <2>1, <2>2
<1> QED  BY <1>1 DEF Needing, Position

\* What comes after the operand.
LEMMA OperandTaken ==
    ASSUME NEW w, NEW t, NEW j, NEW k, Needing(w, t, j, k), NEW n, NEW i,
           NEW s, s = Slot(w)
    PROVE  Position(IF w \in V!Listing THEN w ELSE Append(w, s), <<"more">> \o Tail(t), i, n)
<1>1. CASE w \in NeedE \ {<<"unlet">>, <<"echo">>} /\ t = <<"expr", "end">>
  <2>1. <<"more">> \o Tail(t) = <<"more", "end">>
    BY <1>1, Put1
  <2>2. Slot(w) = "E" /\ w \notin V!Listing
    BY <1>1, NotListing DEF Slot, NeedE, NeedT
  <2>3. Append(w, "E") \in WithE
    <3>1. CASE w = <<"let", "T", "=">>
      BY <3>1, Append3 DEF WithE
    <3>2. CASE w = <<"T", "=">>
      BY <3>2, Append2 DEF WithE
    <3>3. CASE w = <<"for", "T", "in">>
      BY <3>3, Append3 DEF WithE
    <3>4. ASSUME NEW x \in {"throw", "return", "if", "elseif", "while"}, w = <<x>>
          PROVE  Append(w, "E") \in WithE
      BY <3>4, Append1 DEF WithE
    <3> QED  BY <1>1, <3>1, <3>2, <3>3, <3>4 DEF NeedE
  <2> QED  BY <2>1, <2>2, <2>3 DEF Position
<1>2. CASE w \in {<<"unlet">>, <<"echo">>} /\ t = <<"expr", "comma", "exprs", "end">>
  <2>1. <<"more">> \o Tail(t) = <<"more", "comma", "exprs", "end">>
    BY <1>2, Put3
  <2>2. Slot(w) = "E" /\ w \notin V!Listing
    BY <1>2 DEF Slot, NeedT, V!Listing
  <2>3. Append(w, "E") \in V!Listing
    BY <1>2, Append1 DEF V!Listing
  <2> QED  BY <2>1, <2>2, <2>3 DEF Position
<1>3. CASE w \in V!Listing /\ t = <<"expr", "comma", "exprs", "end">>
  <2>1. <<"more">> \o Tail(t) = <<"more", "comma", "exprs", "end">>
    BY <1>3, Put3
  <2> QED  BY <1>3, <2>1 DEF Position
<1>4. CASE w = <<"let">> /\ t = <<"target", "=", "expr", "end">>
  <2>1. <<"more">> \o Tail(t) = <<"more", "=", "expr", "end">>
    BY <1>4, Put3
  <2>2. Slot(w) = "T" /\ w \notin V!Listing
    BY <1>4 DEF Slot, NeedT, V!Listing
  <2>3. Append(w, "T") \in NeedAssignment
    BY <1>4, Append1 DEF NeedAssignment
  <2> QED  BY <2>1, <2>2, <2>3 DEF Position
<1>5. CASE w = <<"for">> /\ t = <<"target", "in", "expr", "end">>
  <2>1. <<"more">> \o Tail(t) = <<"more", "in", "expr", "end">>
    BY <1>5, Put3
  <2>2. Slot(w) = "T" /\ w \notin V!Listing
    BY <1>5 DEF Slot, NeedT, V!Listing
  <2>3. Append(w, "T") = <<"for", "T">>
    BY <1>5, Append1
  <2> QED  BY <2>1, <2>2, <2>3 DEF Position
<1>6. CASE w = <<"catch">> /\ t = <<"string", "end">>
  <2>1. <<"more">> \o Tail(t) = <<"more", "end">>
    BY <1>6, Put1
  <2>2. Slot(w) = "S" /\ w \notin V!Listing
    BY <1>6 DEF Slot, NeedT, V!Listing
  <2>3. Append(w, "S") = <<"catch", "S">>
    BY <1>6, Append1
  <2> QED  BY <2>1, <2>2, <2>3 DEF Position
<1> QED  BY <1>1, <1>2, <1>3, <1>4, <1>5, <1>6 DEF Needing

LEMMA ExpressionSteps ==
    ASSUME Inv, Expression
    PROVE  /\ mode = "rule" /\ todo \in Seq(Steps) /\ todo # <<>>
           /\ Head(todo) \in {"expr", "target", "string"} /\ Advance
           /\ current.kind = "cont" => UNCHANGED pvars
           /\ current.kind \notin Operands \cup {"cont"} => Err
           /\ (Head(todo) = "target" /\ current.kind \in Operands \ (Names \cup {"x"})) => Err
           /\ (current.kind \in Operands /\ (Head(todo) = "target" => current.kind \in Names \cup {"x"})) =>
                 /\ mode' = "rule" /\ todo' = <<"more">> \o Tail(todo) /\ UNCHANGED <<opens, frames>>
                 /\ diagnostics' <=> \/ diagnostics
                                     \/ Head(todo) = "string" /\ current.kind \notin Strings
<1>1. mode = "rule" /\ todo # <<>> /\ Head(todo) \in {"expr", "target", "string"} /\ Advance
  BY DEF Expression, Matching
<1>2. todo \in Seq(Steps)
  BY DEF Inv, TypeOK
<1>3. "cont" \notin Operands
  BY DEF Operands, Names, Commands, Strings
<1>4. current.kind = "cont" => UNCHANGED pvars
  BY <1>3 DEF Expression
<1>5. current.kind \notin Operands \cup {"cont"} => Err
  BY DEF Expression
<1>6. (Head(todo) = "target" /\ current.kind \in Operands \ (Names \cup {"x"})) => Err
  BY <1>3 DEF Expression
<1>7. ASSUME current.kind \in Operands, Head(todo) = "target" => current.kind \in Names \cup {"x"}
      PROVE  /\ mode' = "rule" /\ todo' = <<"more">> \o Tail(todo) /\ UNCHANGED <<opens, frames>>
             /\ diagnostics' = \/ diagnostics
                               \/ Head(todo) = "string" /\ current.kind \notin Strings
  BY <1>3, <1>7 DEF Expression, Rest
<1> QED  BY <1>1, <1>2, <1>4, <1>5, <1>6, <1>7

\* The expression of a command that has no keyword.
LEMMA FirstExpressionFollows ==
    ASSUME Inv, Follows, ~Away, ReadsAlong, Expression,
           NEW r \in Reader, HasRead(r), Around(r), Position(r.words, todo, r.joint, current.kind),
           ~r.away, r.refused => diagnostics, r.words = <<>>
    PROVE  Agrees'
<1> DEFINE k == current.kind
<1>1. /\ mode = "rule" /\ Head(todo) \in {"expr", "target", "string"} /\ Advance
      /\ k \notin Operands \cup {"cont"} => Err
      /\ (k \in Operands /\ (Head(todo) = "target" => k \in Names \cup {"x"})) =>
            /\ mode' = "rule" /\ todo' = <<"more">> \o Tail(todo) /\ UNCHANGED <<opens, frames>>
            /\ diagnostics' <=> \/ diagnostics
                                \/ Head(todo) = "string" /\ k \notin Strings
  BY ExpressionSteps
<1>2. LexTypeOK /\ FreshLine /\ reader \in Reader /\ k \in Kinds
  BY <1>1, RuleReader
<1>3. /\ ~r.joint
      /\ \/ todo = <<"target", "=", "expr", "end">> /\ k = "name"
         \/ todo = <<"expr", "end">>
              /\ k \in {"x", "sig", "single", "number", "double", "heredoc", "=", "in", "junk",
                        "comma", "default"}
  BY <1>1, NothingYet
<1>4. CASE k \in {"=", "in", "junk", "comma", "default"}
  <2>1. Gone(reader, r) \/ Dropped(reader, r)
    BY <1>3, <1>4, FirstOther DEF HasRead
  <2>2. mode' = "sync" /\ diagnostics' /\ UNCHANGED frames
    BY <1>1, <1>4 DEF Err, Operands, Names, Commands, Strings
  <2>3. reader.away \/ Fails(reader, frames)
    BY <2>1, DroppedFails DEF Gone
  <2>4. k \notin StatementEnd
    BY <1>4 DEF StatementEnd
  <2> QED  BY <1>1, <1>2, <2>2, <2>3, <2>4, FailingSyncs DEF Agrees
<1>5. CASE k \in {"name", "x", "sig", "single", "number", "double", "heredoc"}
  <2>1. /\ mode' = "rule" /\ todo' = <<"more">> \o Tail(todo) /\ UNCHANGED <<opens, frames>>
        /\ diagnostics' <=> diagnostics
    <3>1. k \in Operands /\ (k = "name" => k \in Names \cup {"x"})
      BY <1>5 DEF Operands, Names, Strings
    <3>2. Head(todo) # "string" /\ (Head(todo) = "target" => k = "name")
      BY <1>3
    <3> QED  BY <1>1, <3>1, <3>2
  <2>2. UNCHANGED diagnostics
    <3>1. diagnostics \in BOOLEAN
      BY DEF Inv, TypeOK
    <3>2. diagnostics' \in BOOLEAN
      BY NextInv DEF Next, Rule, Inv, TypeOK
    <3> QED  BY <2>1, <3>1, <3>2
  <2>3. CASE Gone(reader, r)
    BY <1>1, <1>2, <2>2, <2>3, GoneAgrees
  <2>4. CASE ~Gone(reader, r)
    <3>1. k \in {"name", "x", "sig", "single", "number"}
      BY <1>3, <1>5, <2>4, FirstOther DEF HasRead
    <3>2. Has(reader, r, IF k = "name" THEN <<"T">> ELSE <<"E">>)
      BY <1>3, <2>4, <3>1, FirstOperand DEF HasRead
    <3>3. PICK q \in Reader : q = reader
      BY <1>2
    <3>4. /\ q.words = IF k = "name" THEN <<"T">> ELSE <<"E">>
          /\ q.open = r.open /\ q.refused = r.refused /\ ~q.away
      BY <3>2, <3>3 DEF Has, Reader
    <3>5. q.words \notin {<<>>, <<"colon">>} /\ q.words[1] \in {"E", "T", "ex"}
      BY <3>4
    <3>6. \A n \in Kinds : Position(q.words, todo', q.joint, n)
      <4>1. CASE k = "name"
        <5>1. todo' = <<"more", "=", "expr", "end">>
          <6>1. Tail(todo) = <<"=", "expr", "end">>
            BY <1>3, <4>1, Tails
          <6> QED  BY <2>1, <6>1, Put3
        <5>2. q.words \in NeedAssignment
          BY <3>4, <4>1 DEF NeedAssignment
        <5> QED  BY <5>1, <5>2 DEF Position
      <4>2. CASE k # "name"
        <5>1. todo' = <<"more", "end">>
          <6>1. Tail(todo) = <<"end">>
            BY <1>3, <4>2, Tails
          <6> QED  BY <2>1, <6>1, Put1
        <5>2. q.words \in WithE
          BY <3>4, <4>2 DEF WithE
        <5> QED  BY <5>1, <5>2 DEF Position
      <4> QED  BY <4>1, <4>2
    <3>7. k # "eof"
      BY <3>1
    <3> QED  BY <1>1, <1>2, <2>1, <2>2, <3>3, <3>4, <3>5, <3>6, <3>7, GoesOn
  <2> QED  BY <2>3, <2>4
<1> QED  BY <1>3, <1>4, <1>5

LEMMA ExpressionFollows ==
    ASSUME Inv, Follows, ~Away, ReadsAlong, Expression
    PROVE  Agrees'
<1> DEFINE k == current.kind
<1>1. /\ mode = "rule" /\ todo \in Seq(Steps) /\ todo # <<>>
      /\ Head(todo) \in {"expr", "target", "string"} /\ Advance
      /\ k = "cont" => UNCHANGED pvars
      /\ k \notin Operands \cup {"cont"} => Err
      /\ (Head(todo) = "target" /\ k \in Operands \ (Names \cup {"x"})) => Err
      /\ (k \in Operands /\ (Head(todo) = "target" => k \in Names \cup {"x"})) =>
            /\ mode' = "rule" /\ todo' = <<"more">> \o Tail(todo) /\ UNCHANGED <<opens, frames>>
            /\ diagnostics' <=> \/ diagnostics
                                \/ Head(todo) = "string" /\ k \notin Strings
  BY ExpressionSteps
<1>2. LexTypeOK /\ FreshLine /\ reader \in Reader /\ k \in Kinds
  BY <1>1, RuleReader
<1>3. PICK r \in Reader :
        /\ HasRead(r) /\ Around(r) /\ Position(r.words, todo, r.joint, k)
        /\ ~r.away /\ (r.refused => diagnostics)
  BY <1>1, RuleReader
<1>4. CASE r.words = <<>>
  BY <1>3, <1>4, FirstExpressionFollows
<1>5. CASE r.words # <<>>
  <2> DEFINE w == r.words
  <2>1. Needing(w, todo, r.joint, k)
    BY <1>1, <1>3, <1>5, OperandNeeded
  <2>2. PICK s : s = Slot(w)
    OBVIOUS
  <2>3. /\ w \in Worded /\ V!Follow(w) = {s} /\ s # "bad" /\ s \in {"E", "T", "S"}
        /\ w \notin V!Listing => w[Len(w)] \notin {"E", "T"}
        /\ Head(todo) = "target" <=> s = "T"
        /\ Head(todo) = "string" <=> s = "S"
    BY <2>1, <2>2, NeedingIs
  <2>4. w \notin {<<>>, V!Bad, <<"colon">>} /\ ~V!InEx(w)
    BY <2>3, WordsThere
  <2>8. w # <<"function", "F">>
    <3>1. w \in NeedE \cup NeedT \cup V!Listing \cup {<<"catch">>}
      BY <2>1, NeedingIs
    <3> QED  BY <3>1 DEF NeedE, NeedT, V!Listing
  <2>5. CASE k \in StatementEnd
    <3>1. reader.away
      BY <1>3, <2>1, <2>5, OperandMissing DEF HasRead
    <3>2. mode' = "sync" /\ diagnostics' /\ UNCHANGED frames
      BY <1>1, <2>5 DEF Err, Operands, Names, Commands, Strings, StatementEnd
    <3> QED  BY <1>1, <1>2, <3>1, <3>2, FailingSyncs DEF Agrees
  <2>6. CASE k = "cont"
    <3>1. w \notin V!Listing
      <4>1. w \in V!Listing => w \notin NeedE \cup NeedT \cup {<<"catch">>}
        BY NotListing
      <4>2. <<"unlet">> \in NeedE /\ <<"echo">> \in NeedE /\ <<"let">> \in NeedT /\ <<"for">> \in NeedT
        BY DEF NeedE, NeedT
      <4> QED  BY <2>1, <2>6, <4>1, <4>2 DEF Needing
    <3>2. Gone(reader, r) \/ reader = [r EXCEPT !.joint = TRUE]
      BY <1>3, <2>3, <2>4, <2>6, <3>1, ReadCont DEF HasRead
    <3>3. mode' = "rule" /\ UNCHANGED <<todo, opens, frames, diagnostics>>
      BY <1>1, <2>6 DEF pvars
    <3>4. CASE Gone(reader, r)
      BY <1>1, <1>2, <1>3, <3>3, <3>4, GoneAgrees
    <3>5. CASE reader = [r EXCEPT !.joint = TRUE]
      <4>1. PICK q \in Reader : q = reader
        BY <1>2
      <4>2. /\ q.words = w /\ q.joint = TRUE /\ q.open = r.open /\ q.refused = r.refused
            /\ ~q.away
        BY <1>3, <3>5, <4>1 DEF Reader
      <4>3. \A n \in Kinds : Position(q.words, todo', q.joint, n)
        BY <2>1, <2>6, <3>3, <4>2, OperandWaits
      <4> QED  BY <1>1, <1>2, <1>3, <2>4, <2>6, <3>3, <4>1, <4>2, <4>3, GoesOn
    <3> QED  BY <3>2, <3>4, <3>5
  <2>7. CASE k \notin StatementEnd \cup {"cont"}
    <3>1. k \notin Breaks /\ k # "eof"
      BY <2>7 DEF Breaks, StatementEnd
    <3>2. /\ "T" \in V!Fits(k) <=> k \in Names \cup {"x"}
          /\ "E" \in V!Fits(k) <=> k \in Operands \ {"heredoc"}
          /\ "S" \in V!Fits(k) <=> k \in {"single", "double"}
      BY <1>2, FitsIs
    <3>3. CASE \/ k \notin Operands
               \/ Head(todo) = "target" /\ k \in Operands \ (Names \cup {"x"})
      <4>1. mode' = "sync" /\ diagnostics' /\ UNCHANGED frames
        BY <1>1, <2>7, <3>3 DEF Err
      <4>2. s \notin V!Fits(k)
        BY <2>3, <3>2, <3>3 DEF Operands, Names, Commands, Strings
      <4>3. V!Fits(k) \cap V!Follow(w) = {}
        BY <2>3, <4>2
      <4> QED  BY <1>1, <1>3, <2>3, <2>8, <3>1, <4>1, <4>3, SpoiledFails
    <3>4. CASE k \in Operands /\ (Head(todo) = "target" => k \in Names \cup {"x"})
      <4>1. /\ mode' = "rule" /\ todo' = <<"more">> \o Tail(todo) /\ UNCHANGED <<opens, frames>>
            /\ diagnostics' <=> (diagnostics \/ (s = "S" /\ k \notin Strings))
        BY <1>1, <2>3, <3>4
      <4>2. CASE s \in V!Fits(k) /\ k # "heredoc"
        <5>1. UNCHANGED diagnostics
          <6>1. diagnostics \in BOOLEAN
            BY DEF Inv, TypeOK
          <6>2. diagnostics' \in BOOLEAN
            BY NextInv DEF Next, Rule, Inv, TypeOK
          <6>3. s = "S" => k \in Strings
            BY <3>2, <4>2 DEF Strings
          <6> QED  BY <4>1, <6>1, <6>2, <6>3
        <5>2. Gone(reader, r) \/ Has(reader, r, IF w \in V!Listing THEN w ELSE Append(w, s))
          BY <1>3, <2>3, <2>4, <3>1, <4>2, ReadFits DEF HasRead
        <5>3. CASE Gone(reader, r)
          BY <1>1, <1>2, <1>3, <5>1, <5>3, GoneAgrees
        <5>4. CASE Has(reader, r, IF w \in V!Listing THEN w ELSE Append(w, s))
          <6>1. PICK q \in Reader : q = reader
            BY <1>2
          <6>2. /\ q.words = IF w \in V!Listing THEN w ELSE Append(w, s)
                /\ q.open = r.open /\ q.refused = r.refused /\ ~q.away
            BY <1>3, <5>4, <6>1 DEF Has, Reader
          <6>3. w \in Seq(Wordings)
            BY DEF Reader
          <6>4. q.words \notin {<<>>, <<"colon">>} /\ q.words[1] = w[1]
            <7>1. CASE w \in V!Listing
              BY <2>4, <6>2, <7>1
            <7>2. CASE w \notin V!Listing
              BY <2>4, <6>2, <6>3, <7>2
            <7> QED  BY <7>1, <7>2
          <6>5. \A n \in Kinds : Position(q.words, todo', q.joint, n)
            BY <2>1, <2>2, <4>1, <6>2, OperandTaken
          <6> QED  BY <1>1, <1>2, <1>3, <1>5, <3>1, <4>1, <5>1, <6>1, <6>2, <6>4, <6>5, GoesOn
        <5> QED  BY <5>2, <5>3, <5>4
      <4>3. CASE ~(s \in V!Fits(k) /\ k # "heredoc")
        <5>1. k = "heredoc" \/ V!Fits(k) \cap V!Follow(w) = {}
          BY <2>3, <4>3
        <5>2. Gone(reader, r) \/ (k # "heredoc" /\ s \notin V!Fits(k))
          BY <1>3, <2>4, <2>8, <3>1, <4>3, <5>1, ReadSpoils DEF HasRead
        <5>3. CASE Gone(reader, r)
          BY <1>1, <1>2, <1>3, <4>1, <5>3, GoneAgrees
        <5>4. CASE k # "heredoc" /\ s \notin V!Fits(k)
          <6>1. s = "S"
            BY <2>3, <3>2, <3>4, <5>4
          <6>2. k \notin Strings
            BY <3>2, <5>4, <6>1 DEF Strings
          <6>3. diagnostics'
            BY <4>1, <6>1, <6>2
          <6>4. w[1] \in V!Header
            <7>1. w = <<"catch">>
              BY <2>1, <2>2, <6>1, NeedingIs
            <7> QED  BY <7>1 DEF V!Header
          <6>5. Gone(reader, r) \/ Lost(reader)
            BY <1>3, <2>4, <2>8, <3>1, <5>1, <6>4, ReadSpoils DEF HasRead
          <6> QED  BY <1>1, <1>2, <1>3, <6>3, <6>5, GoneAgrees
        <5> QED  BY <5>2, <5>3, <5>4
      <4> QED  BY <4>2, <4>3
    <3> QED  BY <3>3, <3>4
  <2> QED  BY <2>5, <2>6, <2>7
<1> QED  BY <1>4, <1>5

-----------------------------------------------------------------------------
(* The parser follows the reader.                                          *)

LEMMA InitFollows == MCInit => Follows
<1> SUFFICES ASSUME MCInit PROVE Follows
  OBVIOUS
<1>1. /\ reader = V!Start /\ mode = "between" /\ opens = "none" /\ frames = <<>>
      /\ diagnostics = FALSE /\ line = "empty" /\ current.kind = "nl"
  BY DEF MCInit, Init, LexInit
<1>2. <<>> \in Seq(Wordings) /\ <<>> \in Seq(BlockKinds)
  OBVIOUS
<1>3. V!Start \in Reader
  BY <1>2 DEF V!Start, Reader
<1>4. Settled(reader)
  BY <1>1 DEF Settled, V!Start
<1>5. AtBreak
  BY <1>1, <1>4 DEF AtBreak, Separators
<1> QED  BY <1>1, <1>3, <1>5 DEF Follows, Agrees, FreshLine

LEMMA StepFollows ==
    ASSUME Inv, Follows, Next, ReadsAlong
    PROVE  Follows'
<1>1. reader' \in Reader /\ FreshLine' /\ (mode' # "rule" => opens' = "none")
  BY FollowsRest
<1>2. CASE Away
  BY <1>1, <1>2, FollowsRest DEF Follows, Agrees
<1>3. CASE ~Away
  <2> SUFFICES Agrees'
    BY <1>1 DEF Follows
  <2>1. CASE SkipSeparators
    BY <1>3, <2>1, SkipSeparatorsFollows
  <2>2. CASE Synchronize
    BY <1>3, <2>2, SynchronizeFollows
  <2>3. CASE Terminate
    BY <1>3, <2>3, TerminateFollows
  <2>4. CASE Unterminated
    BY <1>3, <2>4, UnterminatedFollows
  <2>5. CASE EndOfProgram
    BY <1>3, <2>5, EndOfProgramFollows
  <2>6. CASE Statement
    <3>1. CASE KeywordStatement
      BY <1>3, <3>1, KeywordStatementFollows
    <3>2. CASE UnexpectedTerminator
      BY <1>3, <3>2, UnexpectedTerminatorFollows
    <3>3. CASE AssignmentStatement \/ ExStatement \/ ExpressionStatement
      BY <1>3, <3>3, StatementFollows
    <3> QED  BY <2>6, <3>1, <3>2, <3>3 DEF Statement
  <2>7. CASE Rule
    <3>1. CASE Expression
      BY <1>3, <3>1, ExpressionFollows
    <3>2. CASE MoreOfExpression
      BY <1>3, <3>2, MoreOfExpressionFollows
    <3>3. CASE Expect
      BY <1>3, <3>3, ExpectFollows
    <3>4. CASE EndOfStatement
      BY <1>3, <3>4, EndOfStatementFollows
    <3>5. CASE Listed
      BY <1>3, <3>5, ListedFollows
    <3>6. CASE Pattern
      BY <1>3, <3>6, PatternFollows
    <3>7. CASE ExCommand
      BY <1>3, <3>7, ExCommandFollows
    <3>8. CASE SkipRaw
      BY <1>3, <3>8, SkipRawFollows
    <3>9. CASE Attributes
      BY <1>3, <3>9, AttributesFollows
    <3>10. CASE OptionalComma
      BY <1>3, <3>10, OptionalCommaFollows
    <3>11. CASE RangedCommand
      BY <1>3, <3>11, RangedCommandFollows
    <3> QED  BY <2>7, <3>1, <3>2, <3>3, <3>4, <3>5, <3>6, <3>7, <3>8, <3>9, <3>10, <3>11 DEF Rule
  <2> QED  BY <2>1, <2>2, <2>3, <2>4, <2>5, <2>6, <2>7 DEF Next
<1> QED  BY <1>2, <1>3

LEMMA StutterFollows ==
    ASSUME Follows, UNCHANGED mcvars
    PROVE  Follows'
<1>1. /\ UNCHANGED <<current, line, mode, todo, opens, frames, diagnostics, reader>>
  BY DEF mcvars, vars, pvars, lexing
<1>2. /\ Away => Away'
      /\ AtBreak => AtBreak'
      /\ InSync => InSync'
      /\ AtEnd => AtEnd'
      /\ Ended => Ended'
  BY <1>1 DEF Away, AtBreak, Settled, InSync, AtEnd, Ended
<1>3. AtCommand => AtCommand'
  BY <1>1 DEF AtCommand, HasRead, Settled
<1>4. ASSUME NEW r \in Reader, HasRead(r), InPlace(r)
      PROVE  HasRead(r)' /\ InPlace(r)'
  <2>1. HasRead(r)'
    BY <1>1, <1>4 DEF HasRead
  <2>2. OutOfPlace(r)' <=> OutOfPlace(r)
    BY DEF OutOfPlace, V!InFunction, V!InSomeLoop
  <2>3. Around(r)'
    BY <1>1, <1>4, <2>2 DEF InPlace, Around, V!Inside, V!Innermost, V!Without
  <2>4. OwnLine(r)'
    BY <1>1, <1>4 DEF InPlace, OwnLine
  <2>5. Position(r.words, todo', r.joint, current'.kind)
    BY <1>1, <1>4 DEF InPlace
  <2> QED  BY <2>1, <2>3, <2>4, <2>5 DEF InPlace
<1>5. InRule => InRule'
  BY <1>1, <1>4 DEF InRule
<1> QED  BY <1>1, <1>2, <1>3, <1>5 DEF Follows, Agrees, FreshLine

LEMMA NextFollows == Inv /\ Follows /\ [MCNext]_mcvars => Inv' /\ Follows'
<1> SUFFICES ASSUME Inv, Follows, [MCNext]_mcvars PROVE Inv' /\ Follows'
  OBVIOUS
<1>1. [Next]_vars
  BY DEF MCNext, mcvars
<1>2. MCNext => Follows'
  BY StepFollows DEF MCNext, ReadsAlong
<1>3. UNCHANGED mcvars => Follows'
  BY StutterFollows
<1> QED  BY <1>1, <1>2, <1>3, NextInv

\* In front of a command nothing has changed the blocks of the reader.
LEMMA FollowsNesting ==
    ASSUME Inv, Follows
    PROVE  SameNesting
<1> SUFFICES ASSUME mode = "between", current.kind # "eof", ~reader.away PROVE frames = reader.open
  BY DEF SameNesting
<1>1. ~Away
  BY DEF Away
<1>2. CASE current.kind \in Separators
  BY <1>1, <1>2, PartsOfBetween DEF AtBreak, Settled
<1>3. CASE current.kind \notin Separators
  <2>1. PICK r \in Reader : HasRead(r) /\ Settled(r)
    BY <1>1, <1>3, CommandStarts
  <2>2. r.words = <<>> /\ ~r.joint /\ ~r.away /\ frames = r.open
    BY <2>1 DEF Settled
  <2>3. current.kind \in Kinds
    BY DEF Inv, TypeOK, LexTypeOK, Token
  <2>4. \/ current.kind \in Starters \cup Terminators \cup Commands
        \/ current.kind \in {"name", "x", "single", "sig", "number"}
        \/ current.kind \in {"double", "heredoc", "=", "in", "junk", "comma", "default"}
    BY <1>3, <2>3, TerminatorsAre
    DEF Kinds, Keywords, Operands, Names, Commands, Strings, Starters, Separators
  <2>5. (\E w : Has(reader, r, w)) \/ Dropped(reader, r)
    BY <2>1, <2>2, <2>4, FirstKeyword, FirstOperand, FirstOther DEF HasRead, Gone
  <2> QED  BY <2>2, <2>5 DEF Has, Dropped, Reader
<1> QED  BY <1>2, <1>3

LEMMA FollowsAccepts ==
    ASSUME Follows
    PROVE  AcceptsExactly
BY DEF Follows, Agrees, Away, AtBreak, AtCommand, InRule, InSync, AtEnd, Ended, AcceptsExactly

\* Where a command starts, the parser has those blocks open that the commands
\* so far leave open in Vim, whatever the text, up to the first departure.
THEOREM ParserNestsAsVim == MCSpec => []SameNesting
<1>1. MCInit => Inv /\ Follows
  BY InitInv, InitFollows DEF MCInit
<1>2. Inv /\ Follows => SameNesting
  BY FollowsNesting
<1> QED  BY <1>1, <1>2, NextFollows, PTL DEF MCSpec

\* A refused command never passes without a diagnostic; and a whole text in which
\* VimBlocks marks no departure is parsed without one exactly if it is a script.
THEOREM ParserAcceptsExactly == MCSpec => []AcceptsExactly
<1>1. MCInit => Inv /\ Follows
  BY InitInv, InitFollows DEF MCInit
<1>2. Inv /\ Follows => AcceptsExactly
  BY FollowsAccepts
<1> QED  BY <1>1, <1>2, NextFollows, PTL DEF MCSpec
=============================================================================
