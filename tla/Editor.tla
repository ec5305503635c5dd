------------------------------- MODULE Editor --------------------------------
(***************************************************************************)
(* The mock editor (mock_editor.rs): the host behind which the examples and *)
(* the tests run scripts.  One mutex guards its state, and every future is  *)
(* done at its first poll, so each call is one step.  An Ex command brings  *)
(* the range that ex_parser.rs has read: one or two addresses, each a base  *)
(* with offsets, which the command resolves against cursor and buffer.      *)
(* What no buffer command reads (options, highlights, older messages and    *)
(* commands, the counters) is left out.                                     *)
(***************************************************************************)
EXTENDS Integers, Sequences, SequencesExt

CONSTANTS
    Texts,             \* what a line may hold
    EmptyText,         \* String::new()
    Addresses,         \* of ranges: [base, line, offsets]
    LineNumbers,       \* arguments of getline, setline, append and cursor
    Columns,           \* the column argument of cursor
    MaxLines           \* bound of the model: append stops there

\* What an address starts from; elsewhere: marks and patterns.
Bases == {"current", "last", "line", "elsewhere"}

ASSUME EditorAssumption ==
    /\ EmptyText \in Texts
    /\ LineNumbers \subseteq Int
    /\ Columns \subseteq Int
    /\ Addresses \subseteq [base : Bases, line : Nat, offsets : Seq(Int)]
    /\ MaxLines \in Nat

VARIABLES
    lines,      \* of the current buffer
    cursor,     \* line and column, from 1 and from 0
    request,    \* the last function or command, with the command's range
    reply       \* what it answered: an error code or "ok", and the lines shown

bufferVars == <<lines, cursor>>
vars == <<bufferVars, request, reply>>

-----------------------------------------------------------------------------
(* Addresses and ranges, as ExLineParser::range builds them: `%` alone, an  *)
(* address, or an address, a separator and perhaps another address.         *)

NoAddress == [base |-> "none", line |-> 0, offsets |-> <<>>]
NoRange == [start |-> NoAddress, end |-> NoAddress, separator |-> "none"]

Ranges ==
    LET whole == [base |-> "whole", line |-> 0, offsets |-> <<>>]
    IN  {[start |-> whole, end |-> NoAddress, separator |-> "none"]}
        \cup [start : Addresses, end : {NoAddress}, separator : {"none", ",", ";"}]
        \cup [start : Addresses, end : Addresses, separator : {",", ";"}]

\* Address::Offset: saturating_add and saturating_sub of a usize.
Saturating(line, amount) == IF line + amount < 0 THEN 0 ELSE line + amount

\* Marks and searches are not looked up: the fallback is line 1.
BaseLine(address) ==
    CASE address.base = "current" -> cursor[1]
      [] address.base = "last"    -> Len(lines)
      [] address.base = "line"    -> address.line
      [] OTHER                    -> 1

\* The offsets applied to a line one after the other.
OffsetBy(line, offsets) ==
    LET upto[n \in 0 .. Len(offsets)] ==
            IF n = 0 THEN line ELSE Saturating(upto[n - 1], offsets[n])
    IN  upto[Len(offsets)]

\* Mutant of ResolveAddress: offsets are counted from the cursor.
ResolveFromCursor(address) ==
    OffsetBy(IF address.offsets = <<>> THEN BaseLine(address) ELSE cursor[1], address.offsets)

ResolveAddress(address) == OffsetBy(BaseLine(address), address.offsets)

ResolveStart(range) ==
    IF range = NoRange THEN cursor[1] ELSE ResolveAddress(range.start)

ResolveEnd(range) ==
    CASE range.end # NoAddress        -> ResolveAddress(range.end)
      [] range.start.base = "whole"   -> Len(lines)
      [] OTHER                        -> ResolveStart(range)

\* clamp(1, line_count), which panics when there is no line.
Clamped(line) ==
    IF line \in 1 .. Len(lines) THEN line ELSE IF line > Len(lines) THEN Len(lines) ELSE 1

\* The first and the last line of a range, whichever way round it is given.
Low(range) ==
    LET start == Clamped(ResolveStart(range))
        end == Clamped(ResolveEnd(range))
    IN  IF start <= end THEN start ELSE end

High(range) ==
    LET start == Clamped(ResolveStart(range))
        end == Clamped(ResolveEnd(range))
    IN  IF start <= end THEN end ELSE start

-----------------------------------------------------------------------------
Asked(name, range) == request' = [name |-> name, range |-> range]

Replies(code, shown) == reply' = [code |-> code, shown |-> shown]

Ok == Asked("other", NoRange) /\ Replies("ok", <<>>)

Refused(code) ==
    /\ Asked("other", NoRange)
    /\ Replies(code, <<>>)
    /\ UNCHANGED bufferVars

Numbered(low, high) == [i \in 1 .. (high - low + 1) |-> <<low + i - 1, lines[low + i - 1]>>]

\* line_index: the lines a call may name; append may name 0 too.
InBuffer(line) == 1 <= line /\ line <= Len(lines)

Init ==
    /\ lines \in UNION {[1 .. n -> Texts] : n \in 1 .. MaxLines}
    /\ cursor = <<1, 0>>
    /\ request = [name |-> "other", range |-> NoRange]
    /\ reply = [code |-> "ok", shown |-> <<>>]

-----------------------------------------------------------------------------
(* Host::call.                                                             *)

\* Wrong arguments, an unknown function or an unknown command.
BadRequest == \E code \in {"E119", "E745", "E730", "E117", "E492"} : Refused(code)

BadLine(line, first) ==
    /\ line < first \/ line > Len(lines)
    /\ Refused("E16")

Getline(line) ==
    \/ BadLine(line, 1)
    \/ /\ InBuffer(line)
       /\ Asked("other", NoRange)
       /\ Replies("ok", Numbered(line, line))
       /\ UNCHANGED bufferVars

Setline(line, text) ==
    \/ BadLine(line, 1)
    \/ /\ InBuffer(line)
       /\ lines' = [lines EXCEPT ![line] = text]
       /\ Ok
       /\ UNCHANGED cursor

AppendLine(line, text) ==
    \/ BadLine(line, 0)
    \/ /\ line = 0 \/ InBuffer(line)
       /\ Len(lines) < MaxLines
       /\ lines' = InsertAt(lines, line + 1, text)
       /\ Ok
       /\ UNCHANGED cursor

Cursor(line, column) ==
    \/ BadLine(line, 1)
    \/ InBuffer(line) /\ column < 0 /\ Refused("E16")
    \/ /\ InBuffer(line)
       /\ column >= 0
       /\ cursor' = <<line, column>>
       /\ Ok
       /\ UNCHANGED lines

Message == Ok /\ UNCHANGED bufferVars

-----------------------------------------------------------------------------
(* Host::execute_command.                                                  *)

\* :write, :syntax reset, and the two that may refuse their arguments, :set and
\* :highlight.
Counted == Ok /\ UNCHANGED bufferVars

Configured == Counted \/ Refused("E474")

WithoutLines(low, high) == SubSeq(lines, 1, low - 1) \o SubSeq(lines, high + 1, Len(lines))

\* Mutant of NeverEmpty: the last line can go.
MaybeEmpty(kept) == kept

NeverEmpty(kept) == IF kept = <<>> THEN <<EmptyText>> ELSE kept

DeleteLines(range) ==
    /\ lines' = NeverEmpty(WithoutLines(Low(range), High(range)))
    /\ cursor' = IF cursor[1] > Len(lines') THEN <<Len(lines'), cursor[2]>> ELSE cursor
    /\ Asked("DeleteLines", range)
    /\ Replies("ok", <<>>)

LogRange(range) ==
    /\ Asked("LogRange", range)
    /\ Replies("ok", Numbered(Low(range), High(range)))
    /\ UNCHANGED bufferVars

-----------------------------------------------------------------------------
Calls ==
    \/ BadRequest
    \/ Message
    \/ \E line \in LineNumbers :
        \/ Getline(line)
        \/ \E text \in Texts : Setline(line, text) \/ AppendLine(line, text)
        \/ \E column \in Columns : Cursor(line, column)

Commands ==
    \/ Counted \/ Configured
    \/ \E range \in Ranges \cup {NoRange} : DeleteLines(range) \/ LogRange(range)

Next == Calls \/ Commands

Spec == Init /\ [][Next]_vars

-----------------------------------------------------------------------------
\* The buffer has a line and the cursor is on one, after any calls and
\* commands, whole-file deletions included: nothing clamps to an empty range
\* (which panics with the mutex held and leaves the editor unusable), and the
\* cursor line is one a script can use.
CursorInBuffer ==
    /\ lines # <<>>
    /\ cursor[1] \in 1 .. Len(lines)
=============================================================================
