----------------------------- MODULE ReadWindow -----------------------------
(***************************************************************************)
(* The read tool of anchored-standard.ts: the window of a file that one    *)
(* call shows, and the footer that tells the model how to go on.           *)
(*                                                                         *)
(* A text is the sequence of the parts between its newlines, and a part is *)
(* the bytes that it takes when it is shown.                               *)
(***************************************************************************)
EXTENDS Integers, Sequences, SequencesExt

CONSTANTS
  MaxBytes,  \* READ_MAX_BYTES
  MaxLine,   \* the bytes of a line that is truncated to READ_MAX_LINE_LENGTH
  MaxLimit   \* READ_LIMIT

ReadConstants == {MaxBytes, MaxLine, MaxLimit} \subseteq Nat \ {0} /\ MaxLine <= MaxBytes

\* What ends without a newline is a line too, unless it is empty.
Lines(text) == IF text # <<>> /\ Last(text) = 0 THEN Front(text) ELSE text

\* truncateLine
Shown(line) == IF line > MaxLine THEN MaxLine ELSE line

\* lineByteSize
Bytes(line, shown) == Shown(line) + (IF shown = <<>> THEN 0 ELSE 1)

\* Mutation of FlushLine: a line that does not fit is left out, and what
\* follows is shown if it fits.
FlushLineSkipping(window, line, offset, limit) ==
  LET number == window.total + 1
      bytes  == Bytes(line, window.lines)
      now    == [window EXCEPT !.total = number]
  IN  IF number < offset \/ Len(window.lines) >= limit THEN now
      ELSE IF window.bytes + bytes > MaxBytes THEN [now EXCEPT !.capped = TRUE]
      ELSE [now EXCEPT !.lines = Append(@, number), !.bytes = @ + bytes]

\* flushLine
FlushLine(window, line, offset, limit) ==
  LET number == window.total + 1
      bytes  == Bytes(line, window.lines)
      now    == [window EXCEPT !.total = number]
  IN  IF window.capped \/ number < offset \/ Len(window.lines) >= limit THEN now
      ELSE IF window.bytes + bytes > MaxBytes THEN [now EXCEPT !.capped = TRUE]
      ELSE [now EXCEPT !.lines = Append(@, number), !.bytes = @ + bytes]

\* buildReadWindow
BuildReadWindow(text, offset, limit) ==
  FoldLeft(LAMBDA window, line : FlushLine(window, line, offset, limit),
           [lines |-> <<>>, total |-> 0, bytes |-> 0, capped |-> FALSE], Lines(text))

\* It throws.
OutOfRange(window, offset) ==
  ~window.capped /\ offset > window.total /\ ~(window.total = 0 /\ offset = 1)

\* formatReadOutput: the offset that the footer names, or 0 at the end of the
\* file.
NextOffset(window, offset) ==
  LET endLine == IF window.lines = <<>> THEN offset - 1 ELSE Last(window.lines)
  IN  IF window.capped \/ endLine < window.total THEN endLine + 1 ELSE 0

=============================================================================
