---------------------------- MODULE EditorProofs -----------------------------
(***************************************************************************)
(* For any texts, addresses and bounds: the editor's buffer keeps a line,   *)
(* its cursor stays on one, and the commands show and delete the lines that *)
(* Vim's help gives for their ranges.                                       *)
(***************************************************************************)
EXTENDS VimRanges, SequenceTheorems, FiniteSetTheorems, WellFoundedInduction, TLAPS

\* What the steps below need and keep: the buffer with its cursor.
BufferOK ==
    /\ lines \in Seq(Texts)
    /\ cursor \in Nat \X Nat
    /\ CursorInBuffer

\* Whatever an address resolves to, what is left of it lies in the buffer.
LEMMA ClampedInBuffer ==
    ASSUME lines \in Seq(Texts), lines # <<>>, NEW line
    PROVE  Clamped(line) \in 1 .. Len(lines)
  BY DEF Clamped

LEMMA RangeInBuffer ==
    ASSUME lines \in Seq(Texts), lines # <<>>, NEW range
    PROVE  /\ Low(range) \in 1 .. Len(lines)
           /\ High(range) \in 1 .. Len(lines)
           /\ Low(range) <= High(range)
  <1> DEFINE start == Clamped(ResolveStart(range))
             end == Clamped(ResolveEnd(range))
  <1>1. start \in 1 .. Len(lines) /\ end \in 1 .. Len(lines)
    BY ClampedInBuffer
  <1>2. /\ Low(range) = IF start <= end THEN start ELSE end
        /\ High(range) = IF start <= end THEN end ELSE start
    BY DEF Low, High
  <1> HIDE DEF start, end
  <1> QED BY <1>1, <1>2

\* A deletion leaves a buffer with a line.
LEMMA DeletionLeavesALine ==
    ASSUME lines \in Seq(Texts), NEW low \in 1 .. Len(lines), NEW high \in 1 .. Len(lines)
    PROVE  /\ NeverEmpty(WithoutLines(low, high)) \in Seq(Texts)
           /\ NeverEmpty(WithoutLines(low, high)) # <<>>
  <1>1. SubSeq(lines, 1, low - 1) \in Seq(Texts)
    OBVIOUS
  <1>2. SubSeq(lines, high + 1, Len(lines)) \in Seq(Texts)
    OBVIOUS
  <1>3. WithoutLines(low, high) \in Seq(Texts)
    BY <1>1, <1>2 DEF WithoutLines
  <1> QED BY <1>3, EditorAssumption DEF NeverEmpty, EditorAssumption

LEMMA BufferInit == Init => BufferOK
  <1> SUFFICES ASSUME Init PROVE BufferOK
    OBVIOUS
  <1>1. PICK n \in 1 .. MaxLines : lines \in [1 .. n -> Texts]
    BY DEF Init
  <1>2. lines \in Seq(Texts) /\ Len(lines) = n
    BY <1>1, EditorAssumption DEF EditorAssumption
  <1>3. cursor = <<1, 0>>
    BY DEF Init
  <1> QED BY <1>1, <1>2, <1>3, EditorAssumption
        DEF BufferOK, CursorInBuffer, EditorAssumption

LEMMA RefusalKeepsBuffer ==
    ASSUME BufferOK, NEW code, Refused(code)
    PROVE  BufferOK'
  BY DEF Refused, BufferOK, CursorInBuffer, bufferVars

LEMMA CallsKeepBuffer ==
    ASSUME BufferOK, Calls
    PROVE  BufferOK'
  <1>1. CASE BadRequest
    BY <1>1, RefusalKeepsBuffer DEF BadRequest
  <1>2. CASE Message
    BY <1>2 DEF Message, BufferOK, CursorInBuffer, bufferVars
  <1>3. ASSUME NEW line \in LineNumbers, Getline(line)
        PROVE  BufferOK'
    <2>1. CASE BadLine(line, 1)
      BY <2>1, RefusalKeepsBuffer DEF BadLine
    <2> QED BY <1>3, <2>1 DEF Getline, BufferOK, CursorInBuffer, bufferVars
  <1>4. ASSUME NEW line \in LineNumbers, NEW text \in Texts, Setline(line, text)
        PROVE  BufferOK'
    <2>1. CASE BadLine(line, 1)
      BY <2>1, RefusalKeepsBuffer DEF BadLine
    <2>2. CASE lines' = [lines EXCEPT ![line] = text] /\ UNCHANGED cursor
      <3>1. lines \in [1 .. Len(lines) -> Texts] /\ Len(lines) \in Nat
        BY DEF BufferOK
      <3>2. lines' \in [1 .. Len(lines) -> Texts]
        BY <2>2, <3>1
      <3>3. lines' \in Seq(Texts) /\ Len(lines') = Len(lines)
        BY <3>1, <3>2
      <3> QED BY <2>2, <3>1, <3>3 DEF BufferOK, CursorInBuffer
    <2> QED BY <1>4, <2>1, <2>2 DEF Setline
  <1>5. ASSUME NEW line \in LineNumbers, NEW text \in Texts, AppendLine(line, text)
        PROVE  BufferOK'
    <2>1. CASE BadLine(line, 0)
      BY <2>1, RefusalKeepsBuffer DEF BadLine
    <2>2. CASE /\ line = 0 \/ InBuffer(line)
               /\ lines' = InsertAt(lines, line + 1, text)
               /\ UNCHANGED cursor
      <3>1. line \in 0 .. Len(lines)
        BY <2>2, EditorAssumption DEF InBuffer, EditorAssumption, BufferOK
      <3>2. /\ SubSeq(lines, 1, line) \in Seq(Texts)
            /\ Len(SubSeq(lines, 1, line)) = line
            /\ SubSeq(lines, line + 1, Len(lines)) \in Seq(Texts)
            /\ Len(SubSeq(lines, line + 1, Len(lines))) = Len(lines) - line
        BY <3>1 DEF BufferOK
      <3>3. (line + 1) - 1 = line
        BY <3>1
      <3>4. lines' = SubSeq(lines, 1, line) \o <<text>> \o SubSeq(lines, line + 1, Len(lines))
        BY <2>2, <3>3, Zenon DEF InsertAt
      <3> DEFINE before == SubSeq(lines, 1, line)
                 after == SubSeq(lines, line + 1, Len(lines))
      <3> HIDE DEF before, after
      <3>5. (before \o <<text>>) \in Seq(Texts) /\ Len(before \o <<text>>) = line + 1
        BY <3>1, <3>2 DEF before, after
      <3>6. lines' = (before \o <<text>>) \o after
        BY <3>4 DEF before, after
      <3>7. lines' \in Seq(Texts) /\ Len(lines') = Len(lines) + 1
        <4>1. after \in Seq(Texts) /\ Len(after) = Len(lines) - line
          BY <3>2 DEF after
        <4> DEFINE begun == before \o <<text>>
        <4> HIDE DEF begun
        <4>2. begun \in Seq(Texts) /\ Len(begun) = line + 1
          BY <3>5 DEF begun
        <4>3. (begun \o after) \in Seq(Texts) /\ Len(begun \o after) = Len(begun) + Len(after)
          BY <4>1, <4>2, ConcatProperties
        <4>4. lines' = begun \o after
          BY <3>6 DEF begun
        <4>5. Len(lines) \in Nat
          BY DEF BufferOK
        <4>6. (line + 1) + (Len(lines) - line) = Len(lines) + 1
          BY <3>1, <4>5
        <4> QED BY <4>1, <4>2, <4>3, <4>4, <4>6
      <3> QED BY <2>2, <3>7 DEF BufferOK, CursorInBuffer
    <2> QED BY <1>5, <2>1, <2>2 DEF AppendLine
  <1>6. ASSUME NEW line \in LineNumbers, NEW column \in Columns, Cursor(line, column)
        PROVE  BufferOK'
    <2>1. CASE BadLine(line, 1)
      BY <2>1, RefusalKeepsBuffer DEF BadLine
    <2>2. CASE Refused("E16")
      BY <2>2, RefusalKeepsBuffer
    <2>3. CASE /\ InBuffer(line)
               /\ column >= 0
               /\ cursor' = <<line, column>>
               /\ UNCHANGED lines
      BY <2>3, EditorAssumption DEF InBuffer, EditorAssumption, BufferOK, CursorInBuffer
    <2> QED BY <1>6, <2>1, <2>2, <2>3 DEF Cursor
  <1> QED BY <1>1, <1>2, <1>3, <1>4, <1>5, <1>6 DEF Calls

LEMMA DeletionKeepsBuffer ==
    ASSUME BufferOK, NEW range, DeleteLines(range)
    PROVE  BufferOK'
  <1>1. Low(range) \in 1 .. Len(lines) /\ High(range) \in 1 .. Len(lines)
    BY RangeInBuffer DEF BufferOK, CursorInBuffer
  <1>2. lines' \in Seq(Texts) /\ lines' # <<>>
    BY <1>1, DeletionLeavesALine DEF DeleteLines, BufferOK
  <1>3. Len(lines') \in Nat \ {0}
    BY <1>2
  <1>4. cursor' = IF cursor[1] > Len(lines') THEN <<Len(lines'), cursor[2]>> ELSE cursor
    BY DEF DeleteLines
  <1>5. cursor' \in Nat \X Nat /\ cursor'[1] \in 1 .. Len(lines')
    BY <1>3, <1>4 DEF BufferOK, CursorInBuffer
  <1> QED BY <1>2, <1>5 DEF BufferOK, CursorInBuffer

LEMMA CommandsKeepBuffer ==
    ASSUME BufferOK, Commands
    PROVE  BufferOK'
  <1>1. CASE UNCHANGED bufferVars
    BY <1>1 DEF BufferOK, CursorInBuffer, bufferVars
  <1>2. CASE \E range \in Ranges \cup {NoRange} : DeleteLines(range)
    BY <1>2, DeletionKeepsBuffer
  <1> QED BY <1>1, <1>2
        DEF Commands, Counted, Configured, LogRange, Refused

LEMMA BufferNext == BufferOK /\ [Next]_vars => BufferOK'
  <1> SUFFICES ASSUME BufferOK, [Next]_vars PROVE BufferOK'
    OBVIOUS
  <1>1. CASE UNCHANGED vars
    BY <1>1 DEF vars, bufferVars, BufferOK, CursorInBuffer
  <1> QED BY <1>1, CallsKeepBuffer, CommandsKeepBuffer DEF Next

\* After any calls and commands the buffer has a line and the cursor is on
\* one: clamp never meets an empty buffer, whatever ranges resolve to.
THEOREM CursorStaysInBuffer == Spec => []CursorInBuffer
  <1>1. BufferOK => CursorInBuffer
    BY DEF BufferOK
  <1> QED BY <1>1, BufferInit, BufferNext, PTL DEF Spec

(***************************************************************************)
(* Induction over the numbers, with a set for the property, and functions  *)
(* on 0 .. m given by their first value and each from the one before it.   *)
(***************************************************************************)
LEMMA EveryNumber ==
    ASSUME NEW P, 0 \in P, \A n \in Nat : n \in P => n + 1 \in P
    PROVE  Nat \subseteq P
<1> DEFINE T == {n \in Nat : n \notin P}
<1> SUFFICES ASSUME T # {} PROVE FALSE
  OBVIOUS
<1>1. PICK x \in T : \A y \in T : <<y, x>> \notin OpToRel(<, Nat)
  <2>1. T \subseteq Nat
    OBVIOUS
  <2> HIDE DEF T
  <2> QED BY <2>1, NatLessThanWellFounded, WFMin
<1>2. \A y \in T : ~(y < x)
  BY <1>1 DEF OpToRel
<1>3. x - 1 \notin T /\ x \in Nat \ {0}
  BY <1>2
<1> QED BY <1>3

Iterates(g, m, first, step) ==
    g[0] = first /\ \A i \in 1 .. m : g[i] = step[<<i, g[i - 1]>>]

LEMMA IterationExists ==
    ASSUME NEW X, NEW first \in X, NEW m \in Nat, NEW step \in [(1 .. m) \X X -> X]
    PROVE  \E g \in [0 .. m -> X] : Iterates(g, m, first, step)
<1> DEFINE Upto(g, n) == Iterates(g, n, first, step)
           P == {n \in Nat : n <= m => \E g \in [0 .. n -> X] : Upto(g, n)}
<1>1. 0 \in P
  <2>1. [i \in 0 .. 0 |-> first] \in [0 .. 0 -> X] /\ Upto([i \in 0 .. 0 |-> first], 0)
    BY DEF Iterates
  <2> QED BY <2>1
<1>2. ASSUME NEW n \in Nat, n \in P PROVE n + 1 \in P
  <2> SUFFICES ASSUME n + 1 <= m PROVE \E g \in [0 .. (n + 1) -> X] : Upto(g, n + 1)
    OBVIOUS
  <2>1. PICK g \in [0 .. n -> X] : Upto(g, n)
    BY <1>2
  <2> DEFINE h == [i \in 0 .. (n + 1) |-> IF i = n + 1 THEN step[<<n + 1, g[n]>>] ELSE g[i]]
  <2>2. h \in [0 .. (n + 1) -> X]
    OBVIOUS
  <2>3. h[0] = first /\ h[n + 1] = step[<<n + 1, h[n]>>]
    BY <2>1 DEF Iterates
  <2>4. ASSUME NEW i \in 1 .. n PROVE h[i] = step[<<i, h[i - 1]>>]
    <3>1. h[i] = g[i] /\ h[i - 1] = g[i - 1]
      OBVIOUS
    <3> QED BY <2>1, <3>1 DEF Iterates
  <2> HIDE DEF h
  <2>5. \A i \in 1 .. (n + 1) : i \in 1 .. n \/ i = n + 1
    OBVIOUS
  <2>6. (n + 1) - 1 = n
    OBVIOUS
  <2>7. Upto(h, n + 1)
    BY <2>3, <2>4, <2>5, <2>6 DEF Iterates
  <2> QED BY <2>2, <2>7
<1>3. Nat \subseteq P
  <2> HIDE DEF P
  <2> QED BY <1>1, <1>2, EveryNumber
<1> QED BY <1>3

(***************************************************************************)
(* Offsets: the sums that Vim's help gives, and what the code computes.    *)
(***************************************************************************)

LEMMA Sums ==
    ASSUME NEW numbers \in Seq(Int)
    PROVE  \E s \in [0 .. Len(numbers) -> Int] :
              /\ s[0] = 0
              /\ \A i \in 1 .. Len(numbers) : s[i] = s[i - 1] + numbers[i]
              /\ \A k \in 0 .. Len(numbers) : SumTo(numbers, k) = s[k]
<1> DEFINE m == Len(numbers)
           body(g) == [n \in 0 .. m |-> IF n = 0 THEN 0 ELSE g[n - 1] + numbers[n]]
           step == [x \in (1 .. m) \X Int |-> x[2] + numbers[x[1]]]
           sum == CHOOSE g : g = body(g)
<1>1. m \in Nat /\ \A i \in 1 .. m : numbers[i] \in Int /\ i \in 0 .. m /\ i - 1 \in 0 .. m /\ i # 0
  OBVIOUS
<1>2. \A k : SumTo(numbers, k) = sum[k]
  BY DEF SumTo
<1> HIDE DEF m
<1>3. step \in [(1 .. m) \X Int -> Int]
  BY <1>1
<1>4. PICK g \in [0 .. m -> Int] : Iterates(g, m, 0, step)
  <2>1. 0 \in Int
    OBVIOUS
  <2> HIDE DEF step
  <2> QED BY <1>1, <1>3, <2>1, IterationExists
<1>5. ASSUME NEW i \in 1 .. m PROVE g[i] = g[i - 1] + numbers[i]
  <2>1. g[i - 1] \in Int
    BY <1>1
  <2> QED BY <1>4, <2>1 DEF Iterates
<1>6. \A n \in 0 .. m : n = 0 \/ n \in 1 .. m
  BY <1>1
<1>7. g = body(g)
  <2>1. \A n \in 0 .. m : g[n] = body(g)[n]
    BY <1>1, <1>4, <1>5, <1>6 DEF Iterates
  <2> QED BY <2>1
<1>8. sum = body(sum)
  <2> HIDE DEF body
  <2> QED BY <1>7
<1> HIDE DEF sum, step
<1>9. /\ 0 \in 0 .. m /\ sum[0] = 0
      /\ \A n \in 1 .. m : sum[n] = sum[n - 1] + numbers[n]
  <2> DEFINE b == body(sum)
  <2>1. 0 \in 0 .. m /\ b[0] = 0 /\ \A n \in 1 .. m : b[n] = sum[n - 1] + numbers[n]
    BY <1>1
  <2> HIDE DEF b
  <2> QED BY <1>8, <2>1 DEF b
<1> DEFINE P == {n \in Nat : n <= m => sum[n] = g[n]}
<1>10. 0 \in P
  BY <1>4, <1>9 DEF Iterates
<1>11. ASSUME NEW n \in Nat, n \in P PROVE n + 1 \in P
  <2> SUFFICES ASSUME n + 1 <= m PROVE sum[n + 1] = g[n + 1]
    OBVIOUS
  <2>1. n + 1 \in 1 .. m /\ (n + 1) - 1 = n /\ sum[n] = g[n]
    BY <1>1, <1>11
  <2> QED BY <1>5, <1>9, <2>1
<1>12. Nat \subseteq P
  <2> HIDE DEF P
  <2> QED BY <1>10, <1>11, EveryNumber
<1>13. \A k \in 0 .. m : SumTo(numbers, k) = g[k]
  BY <1>1, <1>2, <1>12
<1> QED BY <1>4, <1>5, <1>13 DEF Iterates, m

\* What the code computes; the argument is that of Sums, with another step.
LEMMA Offsets ==
    ASSUME NEW line \in Nat, NEW offsets \in Seq(Int)
    PROVE  \E u \in [0 .. Len(offsets) -> Nat] :
              /\ u[0] = line
              /\ \A i \in 1 .. Len(offsets) : u[i] = Saturating(u[i - 1], offsets[i])
              /\ OffsetBy(line, offsets) = u[Len(offsets)]
<1> DEFINE m == Len(offsets)
           body(g) == [n \in 0 .. m |-> IF n = 0 THEN line ELSE Saturating(g[n - 1], offsets[n])]
           step == [x \in (1 .. m) \X Nat |-> Saturating(x[2], offsets[x[1]])]
           upto == CHOOSE g : g = body(g)
<1>1. m \in Nat /\ \A i \in 1 .. m : offsets[i] \in Int /\ i \in 0 .. m /\ i - 1 \in 0 .. m /\ i # 0
  OBVIOUS
<1>2. OffsetBy(line, offsets) = upto[m]
  BY DEF OffsetBy
<1> HIDE DEF m
<1>3. step \in [(1 .. m) \X Nat -> Nat]
  BY <1>1 DEF Saturating
<1>4. PICK g \in [0 .. m -> Nat] : Iterates(g, m, line, step)
  <2>1. line \in Nat
    OBVIOUS
  <2> HIDE DEF step
  <2> QED BY <1>1, <1>3, <2>1, IterationExists
<1>5. ASSUME NEW i \in 1 .. m PROVE g[i] = Saturating(g[i - 1], offsets[i])
  <2>1. g[i - 1] \in Nat
    BY <1>1
  <2> QED BY <1>4, <2>1 DEF Iterates
<1>6. \A n \in 0 .. m : n = 0 \/ n \in 1 .. m
  BY <1>1
<1>7. g = body(g)
  <2>1. \A n \in 0 .. m : g[n] = body(g)[n]
    BY <1>1, <1>4, <1>5, <1>6 DEF Iterates
  <2> QED BY <2>1
<1>8. upto = body(upto)
  <2> HIDE DEF body
  <2> QED BY <1>7
<1> HIDE DEF upto, step
<1>9. /\ 0 \in 0 .. m /\ upto[0] = line
      /\ \A n \in 1 .. m : upto[n] = Saturating(upto[n - 1], offsets[n])
  <2> DEFINE b == body(upto)
  <2>1. 0 \in 0 .. m /\ b[0] = line
        /\ \A n \in 1 .. m : b[n] = Saturating(upto[n - 1], offsets[n])
    BY <1>1
  <2> HIDE DEF b
  <2> QED BY <1>8, <2>1 DEF b
<1> DEFINE P == {n \in Nat : n <= m => upto[n] = g[n]}
<1>10. 0 \in P
  BY <1>4, <1>9 DEF Iterates
<1>11. ASSUME NEW n \in Nat, n \in P PROVE n + 1 \in P
  <2> SUFFICES ASSUME n + 1 <= m PROVE upto[n + 1] = g[n + 1]
    OBVIOUS
  <2>1. n + 1 \in 1 .. m /\ (n + 1) - 1 = n /\ upto[n] = g[n]
    BY <1>1, <1>11
  <2> QED BY <1>5, <1>9, <2>1
<1>12. Nat \subseteq P
  <2> HIDE DEF P
  <2> QED BY <1>10, <1>11, EveryNumber
<1>13. upto[m] = g[m]
  BY <1>1, <1>12
<1> QED BY <1>2, <1>4, <1>5, <1>13 DEF Iterates, m

\* Where no offset leads up again from before line 0, saturating after each
\* offset is saturating the sum.
LEMMA OffsetsSaturate ==
    ASSUME NEW line \in Nat, NEW offsets \in Seq(Int),
           \A i, j \in 1 .. Len(offsets) :
              i < j /\ line + SumTo(offsets, i) < 0 => ~(offsets[j] > 0)
    PROVE  /\ SumTo(offsets, Len(offsets)) \in Int
           /\ OffsetBy(line, offsets) = Saturating(line, SumTo(offsets, Len(offsets)))
<1> DEFINE m == Len(offsets)
<1>1. m \in Nat /\ \A i \in 1 .. m : offsets[i] \in Int
  OBVIOUS
<1>2. PICK s \in [0 .. m -> Int] :
         /\ s[0] = 0
         /\ \A i \in 1 .. m : s[i] = s[i - 1] + offsets[i]
         /\ \A k \in 0 .. m : SumTo(offsets, k) = s[k]
  BY Sums
<1>3. PICK u \in [0 .. m -> Nat] :
         /\ u[0] = line
         /\ \A i \in 1 .. m : u[i] = Saturating(u[i - 1], offsets[i])
         /\ OffsetBy(line, offsets) = u[m]
  BY Offsets
<1>4. \A i, j \in 1 .. m : i < j /\ line + s[i] < 0 => ~(offsets[j] > 0)
  BY <1>1, <1>2
<1> HIDE DEF m
<1> DEFINE P == {n \in Nat : n <= m => u[n] = Saturating(line, s[n])}
<1>5. 0 \in P
  BY <1>2, <1>3 DEF Saturating
<1>6. ASSUME NEW n \in Nat, n \in P PROVE n + 1 \in P
  <2> SUFFICES ASSUME n + 1 <= m PROVE u[n + 1] = Saturating(line, s[n + 1])
    OBVIOUS
  <2>1. /\ n + 1 \in 1 .. m /\ n \in 0 .. m /\ (n + 1) - 1 = n
        /\ u[n] = Saturating(line, s[n])
    BY <1>1, <1>6
  <2>2. u[n + 1] = Saturating(u[n], offsets[n + 1]) /\ s[n + 1] = s[n] + offsets[n + 1]
    BY <1>2, <1>3, <2>1
  <2>3. s[n] \in Int /\ offsets[n + 1] \in Int
    BY <1>1, <2>1
  <2>4. CASE line + s[n] < 0
    <3>1. n \in 1 .. m /\ n < n + 1
      BY <1>1, <1>2, <2>1, <2>4
    <3>2. ~(offsets[n + 1] > 0)
      BY <1>4, <2>1, <2>4, <3>1
    <3> QED BY <2>1, <2>2, <2>3, <2>4, <3>2 DEF Saturating
  <2>5. CASE ~(line + s[n] < 0)
    BY <2>1, <2>2, <2>3, <2>5 DEF Saturating
  <2> QED BY <2>4, <2>5
<1>7. Nat \subseteq P
  <2> HIDE DEF P
  <2> QED BY <1>5, <1>6, EveryNumber
<1>8. u[m] = Saturating(line, s[m]) /\ SumTo(offsets, m) = s[m] /\ s[m] \in Int
  BY <1>1, <1>2, <1>7
<1> QED BY <1>3, <1>8 DEF m

(***************************************************************************)
(* Ranges: what the code resolves is what Vim's help says.                 *)
(***************************************************************************)

\* A usize has nothing below 0.
Usize(line) == IF line < 0 THEN 0 ELSE line

LEMMA AddressAsVim ==
    ASSUME BufferOK, NEW address \in Addresses, address.base # "elsewhere",
           ~Rebounds(address, cursor[1])
    PROVE  /\ VimLine(address, cursor[1]) \in Int
           /\ ResolveAddress(address) = Usize(VimLine(address, cursor[1]))
<1>1. address \in [base : Bases, line : Nat, offsets : Seq(Int)]
  BY EditorAssumption DEF EditorAssumption
<1>2. address.base \in {"current", "last", "line"} /\ address.line \in Nat
      /\ address.offsets \in Seq(Int)
  BY <1>1 DEF Bases
<1>3. cursor[1] \in Nat /\ Len(lines) \in Nat
  BY DEF BufferOK
<1>4. /\ BaseLine(address) = BaseOf(address, cursor[1])
      /\ BaseLine(address) \in Nat
  BY <1>2, <1>3 DEF BaseLine, BaseOf
<1>5. \A i, j \in 1 .. Len(address.offsets) :
         i < j /\ BaseLine(address) + SumTo(address.offsets, i) < 0
           => ~(address.offsets[j] > 0)
  BY <1>4 DEF Rebounds
<1> DEFINE sum == SumTo(address.offsets, Len(address.offsets))
<1>6. sum \in Int /\ OffsetBy(BaseLine(address), address.offsets) = Saturating(BaseLine(address), sum)
  BY <1>2, <1>4, <1>5, OffsetsSaturate
<1>7. VimLine(address, cursor[1]) = BaseLine(address) + sum
  BY <1>4 DEF VimLine
<1>8. ResolveAddress(address) = OffsetBy(BaseLine(address), address.offsets)
  BY DEF ResolveAddress
<1> HIDE DEF sum
<1> QED BY <1>4, <1>6, <1>7, <1>8 DEF Saturating, Usize

\* The forms of a range, and what tells them from no range.
LEMMA RangeForms ==
    ASSUME NEW range \in Ranges
    PROVE  /\ range # NoRange
           /\ \/ /\ range.start = [base |-> "whole", line |-> 0, offsets |-> <<>>]
                 /\ range.end = NoAddress
              \/ /\ range.start \in Addresses
                 /\ range.start.base \notin {"whole", "none"}
                 /\ range.end = NoAddress
                 /\ range.separator \in {"none", ",", ";"}
              \/ /\ range.start \in Addresses
                 /\ range.start.base \notin {"whole", "none"}
                 /\ range.end \in Addresses
                 /\ range.end # NoAddress
                 /\ range.separator \in {",", ";"}
<1>1. \A a \in Addresses : a.base \notin {"whole", "none"}
  BY EditorAssumption DEF EditorAssumption, Bases
<1>2. NoAddress.base = "none" /\ NoRange.start = NoAddress
  BY DEF NoAddress, NoRange
<1>3. NoAddress \notin Addresses
  BY <1>1, <1>2
<1> DEFINE whole == [base |-> "whole", line |-> 0, offsets |-> <<>>]
<1>4. \/ range = [start |-> whole, end |-> NoAddress, separator |-> "none"]
      \/ range \in [start : Addresses, end : {NoAddress}, separator : {"none", ",", ";"}]
      \/ range \in [start : Addresses, end : Addresses, separator : {",", ";"}]
  BY DEF Ranges
<1>5. whole.base = "whole"
  OBVIOUS
<1> HIDE DEF whole
<1>6. CASE range = [start |-> whole, end |-> NoAddress, separator |-> "none"]
  <2>1. range.start = whole /\ range.end = NoAddress
    BY <1>6
  <2>2. range # NoRange
    BY <1>2, <1>5, <2>1
  <2> QED BY <2>1, <2>2 DEF whole
<1>7. CASE range \in [start : Addresses, end : {NoAddress}, separator : {"none", ",", ";"}]
  BY <1>1, <1>2, <1>3, <1>7
<1>8. CASE range \in [start : Addresses, end : Addresses, separator : {",", ";"}]
  BY <1>1, <1>2, <1>3, <1>8
<1> QED BY <1>4, <1>6, <1>7, <1>8

LEMMA RangeAsVim ==
    ASSUME BufferOK, NEW range \in Ranges, ~Departs(range)
    PROVE  /\ VimStart(range) \in Int /\ ResolveStart(range) = Usize(VimStart(range))
           /\ VimEnd(range) \in Int /\ ResolveEnd(range) = Usize(VimEnd(range))
<1>1. Len(lines) \in Nat
  BY DEF BufferOK
<1>2. range # NoRange
  BY RangeForms
<1>3. CASE /\ range.start = [base |-> "whole", line |-> 0, offsets |-> <<>>]
           /\ range.end = NoAddress
  <2>1. range.start.base = "whole" /\ range.start.offsets = <<>>
    BY <1>3
  <2>2. BaseLine(range.start) = 1
    BY <2>1 DEF BaseLine
  <2>3. <<>> \in Seq(Int) /\ Len(<<>>) = 0
    OBVIOUS
  <2>4. OffsetBy(1, <<>>) = 1
    <3>1. PICK u \in [0 .. Len(<<>>) -> Nat] : u[0] = 1 /\ OffsetBy(1, <<>>) = u[Len(<<>>)]
      BY <2>3, Offsets, Zenon
    <3> QED BY <2>3, <3>1
  <2>5. ResolveAddress(range.start) = 1
    BY <2>1, <2>2, <2>4 DEF ResolveAddress
  <2> QED BY <1>1, <1>2, <1>3, <2>1, <2>5
        DEF ResolveStart, ResolveEnd, VimStart, VimEnd, Usize
<1>4. ASSUME range.start \in Addresses, range.start.base \notin {"whole", "none"}
      PROVE  VimStart(range) \in Int /\ ResolveStart(range) = Usize(VimStart(range))
  <2>1. range.start.base # "elsewhere" /\ ~Rebounds(range.start, cursor[1])
    BY <1>4 DEF Departs
  <2>2. /\ VimLine(range.start, cursor[1]) \in Int
        /\ ResolveAddress(range.start) = Usize(VimLine(range.start, cursor[1]))
    BY <1>4, <2>1, AddressAsVim
  <2> QED BY <1>2, <1>4, <2>2 DEF ResolveStart, VimStart
<1>5. CASE /\ range.start \in Addresses
           /\ range.start.base \notin {"whole", "none"}
           /\ range.end = NoAddress
           /\ range.separator \in {"none", ",", ";"}
  <2>1. range.separator # ","
    BY <1>5 DEF Departs
  <2>2. ResolveEnd(range) = ResolveStart(range) /\ VimEnd(range) = VimStart(range)
    BY <1>5, <2>1 DEF ResolveEnd, VimEnd
  <2> QED BY <1>4, <1>5, <2>2
<1>6. CASE /\ range.start \in Addresses
           /\ range.start.base \notin {"whole", "none"}
           /\ range.end \in Addresses
           /\ range.end # NoAddress
           /\ range.separator \in {",", ";"}
  <2>1. /\ range.end.base # "elsewhere" /\ ~Rebounds(range.end, cursor[1])
        /\ range.separator = ";" => range.end.base # "current"
    BY <1>6 DEF Departs
  <2>2. /\ VimLine(range.end, cursor[1]) \in Int
        /\ ResolveAddress(range.end) = Usize(VimLine(range.end, cursor[1]))
    BY <1>6, <2>1, AddressAsVim
  <2>3. range.end.base \in {"current", "last", "line"}
    BY <1>6, <2>1, EditorAssumption DEF EditorAssumption, Bases
  <2>4. range.separator = ";" =>
          VimLine(range.end, VimStart(range)) = VimLine(range.end, cursor[1])
    BY <2>1, <2>3 DEF VimLine, BaseOf
  <2>5. VimEnd(range) = VimLine(range.end, cursor[1])
    BY <1>6, <2>4 DEF VimEnd
  <2> QED BY <1>4, <1>6, <2>2, <2>5 DEF ResolveEnd
<1> QED BY <1>3, <1>4, <1>5, <1>6, RangeForms

\* Clamping two ends into the buffer keeps the lines between them, if there are
\* any.
LEMMA ClampedKeepsLines ==
    ASSUME Len(lines) \in Nat \ {0}, NEW s \in Int, NEW e \in Int, s <= e,
           NEW n \in 1 .. Len(lines), s <= n, n <= e
    PROVE  /\ Clamped(Usize(s)) <= Clamped(Usize(e))
           /\ \A k \in 1 .. Len(lines) :
                 (s <= k /\ k <= e) <=> k \in Clamped(Usize(s)) .. Clamped(Usize(e))
  BY DEF Clamped, Usize

LEMMA WithinIsLowToHigh ==
    ASSUME BufferOK, NEW range \in Ranges \cup {NoRange}, range = NoRange \/ ~Departs(range)
    PROVE  Within(range) = Low(range) .. High(range)
<1>1. Len(lines) \in Nat /\ cursor[1] \in 1 .. Len(lines)
  BY DEF BufferOK, CursorInBuffer
<1>2. CASE range = NoRange
  <2>1. ResolveStart(range) = cursor[1]
    BY <1>2 DEF ResolveStart
  <2>2. range.end = NoAddress /\ range.start.base = "none"
    BY <1>2 DEF NoRange, NoAddress
  <2>3. ResolveEnd(range) = cursor[1]
    BY <2>1, <2>2 DEF ResolveEnd
  <2>4. Low(range) = cursor[1] /\ High(range) = cursor[1]
    BY <1>1, <2>1, <2>3 DEF Low, High, Clamped
  <2> QED BY <1>1, <1>2, <2>4 DEF Within
<1>3. CASE range # NoRange
  <2> DEFINE s == VimStart(range)
             e == VimEnd(range)
             low == Clamped(Usize(s))
             high == Clamped(Usize(e))
  <2>1. s \in Int /\ e \in Int /\ ResolveStart(range) = Usize(s) /\ ResolveEnd(range) = Usize(e)
    BY <1>3, RangeAsVim
  <2>2. Within(range) = {k \in 1 .. Len(lines) : (s <= k /\ k <= e) \/ (e <= k /\ k <= s)}
    BY <1>3 DEF Within, VimRange
  <2>3. PICK n \in 1 .. Len(lines) : (s <= n /\ n <= e) \/ (e <= n /\ n <= s)
    BY <1>3 DEF Departs, VimRange
  <2>4. /\ Low(range) = IF low <= high THEN low ELSE high
        /\ High(range) = IF low <= high THEN high ELSE low
    BY <2>1 DEF Low, High
  <2>5. low \in 1 .. Len(lines) /\ high \in 1 .. Len(lines)
    BY ClampedInBuffer DEF BufferOK, CursorInBuffer
  <2> HIDE DEF s, e
  <2>6. CASE s <= e
    <3>1. s <= n /\ n <= e
      BY <1>1, <2>1, <2>3, <2>6
    <3>2. /\ low <= high
          /\ \A k \in 1 .. Len(lines) : (s <= k /\ k <= e) <=> k \in low .. high
      BY <1>1, <2>1, <2>6, <3>1, ClampedKeepsLines
    <3>3. \A k \in 1 .. Len(lines) : e <= k /\ k <= s => s <= k /\ k <= e
      BY <1>1, <2>1, <2>6
    <3>4. Low(range) = low /\ High(range) = high
      BY <2>4, <3>2
    <3> HIDE DEF low, high
    <3>5. low .. high \subseteq 1 .. Len(lines)
      BY <1>1, <2>5
    <3>6. Within(range) = {k \in 1 .. Len(lines) : s <= k /\ k <= e}
      BY <2>2, <3>3
    <3> QED BY <3>2, <3>4, <3>5, <3>6
  <2>7. CASE ~(s <= e)
    <3>1. e <= s /\ e <= n /\ n <= s
      BY <1>1, <2>1, <2>3, <2>7
    <3>2. /\ high <= low
          /\ \A k \in 1 .. Len(lines) : (e <= k /\ k <= s) <=> k \in high .. low
      BY <1>1, <2>1, <3>1, ClampedKeepsLines
    <3>3. \A k \in 1 .. Len(lines) : ~(s <= k /\ k <= e)
      BY <1>1, <2>1, <2>7
    <3> HIDE DEF low, high
    <3>4. Low(range) = high /\ High(range) = low
      BY <1>1, <2>4, <2>5, <3>2
    <3>5. high .. low \subseteq 1 .. Len(lines)
      BY <1>1, <2>5
    <3>6. Within(range) = {k \in 1 .. Len(lines) : e <= k /\ k <= s}
      BY <2>2, <3>3
    <3> QED BY <3>2, <3>4, <3>5, <3>6
  <2> QED BY <2>6, <2>7
<1> QED BY <1>2, <1>3

(***************************************************************************)
(* Listings.                                                               *)
(***************************************************************************)

LEMMA ShownInOrder ==
    ASSUME lines \in Seq(Texts), NEW low \in 1 .. Len(lines), NEW high \in 1 .. Len(lines),
           low <= high
    PROVE  Lists(Numbered(low, high), low .. high, [n \in 1 .. Len(lines) |-> <<n, lines[n]>>])
<1> DEFINE of == [n \in 1 .. Len(lines) |-> <<n, lines[n]>>]
<1>0. \A n \in low .. high : of[n] = <<n, lines[n]>>
  OBVIOUS
<1> HIDE DEF of
<1>1. Cardinality(low .. high) = high - low + 1
  BY FS_Interval
<1>2. Len(Numbered(low, high)) = high - low + 1
  BY DEF Numbered
<1>3. ASSUME NEW n \in low .. high
      PROVE  Numbered(low, high)[Cardinality({m \in low .. high : m <= n})] = <<n, lines[n]>>
  <2>1. {m \in low .. high : m <= n} = low .. n
    OBVIOUS
  <2>2. Cardinality(low .. n) = n - low + 1
    BY FS_Interval
  <2>3. n - low + 1 \in 1 .. (high - low + 1) /\ low + (n - low + 1) - 1 = n
    OBVIOUS
  <2> QED BY <2>1, <2>2, <2>3 DEF Numbered
<1>4. Lists(Numbered(low, high), low .. high, of)
  BY <1>0, <1>1, <1>2, <1>3 DEF Lists
<1> QED BY <1>4 DEF of

LEMMA KeptInOrder ==
    ASSUME lines \in Seq(Texts), NEW low \in 1 .. Len(lines), NEW high \in 1 .. Len(lines),
           low <= high
    PROVE  Lists(WithoutLines(low, high), (1 .. Len(lines)) \ (low .. high), lines)
<1> DEFINE L == Len(lines)
           S == (1 .. L) \ (low .. high)
           before == SubSeq(lines, 1, low - 1)
           after == SubSeq(lines, high + 1, L)
<1>1. L \in Nat /\ low \in 1 .. L /\ high \in 1 .. L
  OBVIOUS
<1>2. /\ before \in Seq(Texts) /\ Len(before) = low - 1
      /\ \A i \in 1 .. (low - 1) : before[i] = lines[i]
  OBVIOUS
<1>3. /\ after \in Seq(Texts) /\ Len(after) = L - high
      /\ \A i \in 1 .. (L - high) : after[i] = lines[high + i]
  OBVIOUS
<1>4. WithoutLines(low, high) = before \o after
  BY DEF WithoutLines
<1> HIDE DEF before, after
<1>5. /\ Len(before \o after) = low - 1 + (L - high)
      /\ \A i \in 1 .. (low - 1) : (before \o after)[i] = lines[i]
      /\ \A i \in low .. (low - 1 + L - high) : (before \o after)[i] = lines[i + high - low + 1]
  <2>1. /\ Len(before \o after) = low - 1 + (L - high)
        /\ \A i \in 1 .. (low - 1 + (L - high)) :
              (before \o after)[i] = IF i <= low - 1 THEN before[i] ELSE after[i - (low - 1)]
    <3>1. /\ Len(before \o after) = Len(before) + Len(after)
          /\ \A i \in 1 .. Len(before) + Len(after) :
                (before \o after)[i] = IF i <= Len(before) THEN before[i]
                                       ELSE after[i - Len(before)]
      BY <1>2, <1>3, ConcatProperties, Zenon
    <3> QED BY <1>2, <1>3, <3>1, Zenon
  <2>2. ASSUME NEW i \in low .. (low - 1 + L - high)
        PROVE  (before \o after)[i] = lines[i + high - low + 1]
    <3>1. /\ i \in 1 .. (low - 1 + (L - high)) /\ ~(i <= low - 1)
          /\ i - (low - 1) \in 1 .. (L - high)
          /\ high + (i - (low - 1)) = i + high - low + 1
      BY <1>1
    <3> QED BY <1>3, <2>1, <3>1
  <2>3. ASSUME NEW i \in 1 .. (low - 1) PROVE (before \o after)[i] = lines[i]
    <3>1. i \in 1 .. (low - 1 + (L - high)) /\ i <= low - 1
      BY <1>1
    <3> QED BY <1>2, <2>1, <3>1
  <2> QED BY <2>1, <2>2, <2>3
<1> HIDE DEF L
<1>6. Cardinality(S) = low - 1 + (L - high)
  <2>1. (1 .. L) \cap (low .. high) = low .. high
    BY <1>1
  <2>2. /\ IsFiniteSet(1 .. L) /\ Cardinality(1 .. L) = L
        /\ Cardinality(low .. high) = high - low + 1
    BY <1>1, FS_Interval
  <2>3. Cardinality((1 .. L) \ (low .. high))
          = Cardinality(1 .. L) - Cardinality((1 .. L) \cap (low .. high))
    BY <2>2, FS_Difference, Zenon
  <2>4. Cardinality(S) = L - (high - low + 1)
    BY <2>1, <2>2, <2>3, Zenon
  <2> HIDE DEF S
  <2> QED BY <1>1, <2>4
<1> HIDE DEF S
<1>7. ASSUME NEW n \in S
      PROVE  (before \o after)[Cardinality({m \in S : m <= n})] = lines[n]
  <2>1. n \in 1 .. L /\ (n < low \/ n > high)
    BY <1>1 DEF S
  <2>2. CASE n < low
    <3>1. {m \in S : m <= n} = 1 .. n
      BY <1>1, <2>1, <2>2 DEF S
    <3>2. Cardinality(1 .. n) = n
      BY <2>1, FS_Interval
    <3>3. n \in 1 .. (low - 1)
      BY <1>1, <2>1, <2>2
    <3> QED BY <1>5, <3>1, <3>2, <3>3
  <2>3. CASE n > high
    <3>1. {m \in S : m <= n} = (1 .. n) \ (low .. high)
      BY <1>1, <2>1, <2>3 DEF S
    <3>2. (1 .. n) \cap (low .. high) = low .. high
      BY <1>1, <2>1, <2>3
    <3>3. /\ IsFiniteSet(1 .. n) /\ Cardinality(1 .. n) = n
          /\ Cardinality(low .. high) = high - low + 1
      BY <1>1, <2>1, FS_Interval
    <3>4. Cardinality((1 .. n) \ (low .. high)) = n - (high - low + 1)
      <4>1. Cardinality((1 .. n) \ (low .. high))
              = Cardinality(1 .. n) - Cardinality((1 .. n) \cap (low .. high))
        BY <3>3, FS_Difference, Zenon
      <4> QED BY <3>2, <3>3, <4>1
    <3>5. /\ n - (high - low + 1) \in low .. (low - 1 + L - high)
          /\ (n - (high - low + 1)) + high - low + 1 = n
      BY <1>1, <2>1, <2>3
    <3> QED BY <1>5, <3>1, <3>4, <3>5
  <2> QED BY <2>1, <2>2, <2>3
<1> QED BY <1>4, <1>5, <1>6, <1>7 DEF Lists, S, L

(***************************************************************************)
(* The commands.                                                           *)
(***************************************************************************)

LEMMA DeletionAsVim ==
    ASSUME BufferOK, NEW range \in Ranges \cup {NoRange}, range = NoRange \/ ~Departs(range),
           DeleteLines(range)
    PROVE  DeletesAsVim
<1> DEFINE low == Low(range)
           high == High(range)
           kept == WithoutLines(low, high)
<1>1. lines \in Seq(Texts) /\ Len(lines) \in Nat /\ lines # <<>>
  BY DEF BufferOK, CursorInBuffer
<1>2. low \in 1 .. Len(lines) /\ high \in 1 .. Len(lines) /\ low <= high
  BY <1>1, RangeInBuffer
<1>3. request'.range = range
  BY DEF DeleteLines, Asked
<1>4. Within(range) = low .. high
  BY WithinIsLowToHigh
<1>5. lines' = NeverEmpty(kept)
  BY DEF DeleteLines
<1> HIDE DEF low, high
<1>6. Lists(kept, (1 .. Len(lines)) \ (low .. high), lines)
  BY <1>1, <1>2, KeptInOrder
<1>7. kept \in Seq(Texts) /\ Len(kept) = low - 1 + (Len(lines) - high)
  <2>1. /\ SubSeq(lines, 1, low - 1) \in Seq(Texts)
        /\ Len(SubSeq(lines, 1, low - 1)) = low - 1
        /\ SubSeq(lines, high + 1, Len(lines)) \in Seq(Texts)
        /\ Len(SubSeq(lines, high + 1, Len(lines))) = Len(lines) - high
    BY <1>1, <1>2
  <2> QED BY <2>1, ConcatProperties DEF WithoutLines
<1> HIDE DEF kept
<1>8. CASE low .. high = 1 .. Len(lines)
  <2>1. low = 1 /\ high = Len(lines)
    BY <1>1, <1>2, <1>8
  <2>2. kept = <<>>
    BY <1>1, <1>7, <2>1
  <2> QED BY <1>3, <1>4, <1>5, <1>8, <2>2 DEF DeletesAsVim, NeverEmpty
<1>9. CASE low .. high # 1 .. Len(lines)
  <2>1. ~(low = 1 /\ high = Len(lines))
    BY <1>9
  <2>2. Len(kept) # 0
    BY <1>1, <1>2, <1>7, <2>1
  <2>3. kept # <<>>
    BY <1>7, <2>2
  <2> QED BY <1>3, <1>4, <1>5, <1>6, <1>9, <2>3 DEF DeletesAsVim, NeverEmpty
<1> QED BY <1>8, <1>9

LEMMA LogAsVim ==
    ASSUME BufferOK, NEW range \in Ranges \cup {NoRange}, range = NoRange \/ ~Departs(range),
           LogRange(range)
    PROVE  ShowsAsVim
<1>1. lines \in Seq(Texts) /\ lines # <<>>
  BY DEF BufferOK, CursorInBuffer
<1>2. /\ Low(range) \in 1 .. Len(lines) /\ High(range) \in 1 .. Len(lines)
      /\ Low(range) <= High(range)
  BY <1>1, RangeInBuffer
<1>3. request'.range = range /\ reply'.shown = Numbered(Low(range), High(range))
  BY DEF LogRange, Asked, Replies
<1>4. Within(range) = Low(range) .. High(range)
  BY WithinIsLowToHigh
<1>5. Lists(Numbered(Low(range), High(range)), Low(range) .. High(range),
            [n \in 1 .. Len(lines) |-> <<n, lines[n]>>])
  BY <1>1, <1>2, ShownInOrder
<1> QED BY <1>3, <1>4, <1>5 DEF ShowsAsVim

\* Every step but the two commands asks for something else.
LEMMA OtherRequests ==
    ASSUME Next
    PROVE  \/ \E range \in Ranges \cup {NoRange} : DeleteLines(range) \/ LogRange(range)
           \/ request'.name = "other"
<1>1. Ok => request'.name = "other"
  BY DEF Ok, Asked
<1>2. \A code : Refused(code) => request'.name = "other"
  BY DEF Refused, Asked
<1>3. \A range : Asked("other", range) => request'.name = "other"
  BY DEF Asked
<1>4. Calls => request'.name = "other"
  BY <1>1, <1>2, <1>3
  DEF Calls, BadRequest, Message, Getline, Setline, AppendLine, Cursor, BadLine
<1>5. CASE Commands
  BY <1>1, <1>2, <1>3, <1>5
  DEF Commands, Counted, Configured
<1> QED BY <1>4, <1>5 DEF Next

LEMMA StepsAsVim ==
    ASSUME BufferOK, Next, request'.range = NoRange \/ ~Departs(request'.range)
    PROVE  /\ request'.name = "DeleteLines" => DeletesAsVim
           /\ request'.name = "LogRange" => ShowsAsVim
<1>1. CASE \E range \in Ranges \cup {NoRange} : DeleteLines(range)
  <2>1. PICK range \in Ranges \cup {NoRange} : DeleteLines(range)
    BY <1>1
  <2>2. request' = [name |-> "DeleteLines", range |-> range]
    BY <2>1 DEF DeleteLines, Asked
  <2> QED BY <2>1, <2>2, DeletionAsVim
<1>2. CASE \E range \in Ranges \cup {NoRange} : LogRange(range)
  <2>1. PICK range \in Ranges \cup {NoRange} : LogRange(range)
    BY <1>2
  <2>2. request' = [name |-> "LogRange", range |-> range]
    BY <2>1 DEF LogRange, Asked
  <2> QED BY <2>1, <2>2, LogAsVim
<1> QED BY <1>1, <1>2, OtherRequests

\* For any addresses with any number of offsets, in a buffer of any length: but
\* for the departures that Departs lists, the two commands show and delete exactly
\* the lines of the buffer that lie in their range by Vim's help, saturated and
\* clamped ends included (mock_editor.rs, resolve_address, resolve_range and the
\* commands DeleteLines and LogRange).
THEOREM RangesAreVims == Spec => RangesAsVim
<1>1. BufferOK /\ [Next]_vars =>
        [(request'.range = NoRange \/ ~Departs(request'.range)) =>
           /\ request'.name = "DeleteLines" => DeletesAsVim
           /\ request'.name = "LogRange" => ShowsAsVim]_vars
  BY StepsAsVim
<1> QED BY <1>1, BufferInit, BufferNext, PTL DEF Spec, RangesAsVim
=============================================================================
