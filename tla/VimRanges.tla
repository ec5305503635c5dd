----------------------------- MODULE VimRanges ------------------------------
(***************************************************************************)
(* What Vim's help says of ranges (references/cmdline.txt, "Ex             *)
(* command-line ranges"), and that the editor's commands keep to it.       *)
(***************************************************************************)
EXTENDS Editor, FiniteSets

\* "Each line specifier may be followed by one or more '+' or '-' and an
\* optional number.  That value is added or subtracted from the preceding line
\* number."  The sum of the first k.
SumTo(numbers, k) ==
    LET sum[n \in 0 .. Len(numbers)] == IF n = 0 THEN 0 ELSE sum[n - 1] + numbers[n]
    IN  sum[k]

BaseOf(address, dot) == CASE address.base = "current" -> dot
                          [] address.base = "last"    -> Len(lines)
                          [] address.base = "line"    -> address.line

VimLine(address, dot) ==
    BaseOf(address, dot) + SumTo(address.offsets, Len(address.offsets))

VimStart(range) ==
    IF range.start.base = "whole" THEN 1 ELSE VimLine(range.start, cursor[1])

\* "When separated with ';' the cursor position will be set to that line before
\* interpreting the next line specifier.  This doesn't happen for ','."
VimEnd(range) ==
    LET dot == IF range.separator = ";" THEN VimStart(range) ELSE cursor[1]
    IN  IF range.start.base = "whole" THEN Len(lines)
        ELSE IF range.separator = "none" THEN VimStart(range)
        ELSE IF range.end = NoAddress THEN dot
        ELSE VimLine(range.end, dot)

VimRange(range) ==
    {n \in 1 .. Len(lines) : \/ VimStart(range) <= n /\ n <= VimEnd(range)
                             \/ VimEnd(range) <= n /\ n <= VimStart(range)}

\* Offsets that lead before line 0 and then up again.
Rebounds(address, dot) ==
    \E i, j \in 1 .. Len(address.offsets) :
        /\ i < j /\ address.offsets[j] > 0
        /\ BaseOf(address, dot) + SumTo(address.offsets, i) < 0

\* Where the editor is known to go its own way: marks and patterns are line 1;
\* nothing after a comma is the first address again, not the cursor's line; a
\* "." after a ";" is the cursor's line as it was; offsets saturate at 0, from
\* which a rebound starts; and a range without a line in the buffer is its
\* nearest line.
Departs(range) ==
    \/ "elsewhere" \in {range.start.base, range.end.base}
    \/ range.separator = "," /\ range.end = NoAddress
    \/ range.separator = ";" /\ range.end.base = "current"
    \/ range.start.base # "whole" /\ Rebounds(range.start, cursor[1])
    \/ range.end # NoAddress /\ Rebounds(range.end, cursor[1])
    \/ VimRange(range) = {}

\* s has, for each line number of S and nothing else, its item in `of`, in the
\* order of the numbers.
Lists(s, S, of) ==
    /\ Len(s) = Cardinality(S)
    /\ \A n \in S : s[Cardinality({m \in S : m <= n})] = of[n]

\* The lines a command with that range is about.
Within(range) == IF range = NoRange THEN {cursor[1]} ELSE VimRange(range)

\* :DeleteLines leaves the other lines, or an empty one if there are none.
DeletesAsVim ==
    IF Within(request'.range) = 1 .. Len(lines) THEN lines' = <<EmptyText>>
    ELSE Lists(lines', (1 .. Len(lines)) \ Within(request'.range), lines)

\* :LogRange shows the lines with their numbers.
ShowsAsVim ==
    Lists(reply'.shown, Within(request'.range), [n \in 1 .. Len(lines) |-> <<n, lines[n]>>])

\* But for the departures, a command shows or deletes exactly the lines of the
\* buffer that lie in its range by Vim's help: backwards, with offsets, with an
\* end before the first or after the last line; and the cursor's line without a
\* range.  The other lines stay and keep their order.
RangesAsVim ==
    [][(request'.range = NoRange \/ ~Departs(request'.range)) =>
         /\ request'.name = "DeleteLines" => DeletesAsVim
         /\ request'.name = "LogRange" => ShowsAsVim]_vars
=============================================================================
