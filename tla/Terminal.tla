------------------------------ MODULE Terminal ------------------------------
(***************************************************************************)
(* What the console promises whoever prints on it: the last lines of the   *)
(* text are on the screen.  There is no cursor: writing goes on at the end *)
(* of the last line.  Screen implements it.                                *)
(***************************************************************************)
EXTENDS SequencesExt

CONSTANTS Rows, Cols,   \* the size of the screen, in characters
          Chars         \* what can be printed, but the end of a line

VARIABLE lines          \* the lines on the screen, the last one being written

\* The lines that fit on the screen: older ones have scrolled out.
OnScreen(text) == SubSeq(text, Max({1, Len(text) - Rows + 1}), Len(text))

Init == lines = << <<>> >>

\* A character goes to the end of the last line; a full line is followed by a new one.
Put(c) ==
  LET line == Append(Last(lines), c)
  IN lines' = OnScreen(Front(lines) \o <<line>>
                         \o IF Len(line) = Cols THEN << <<>> >> ELSE <<>>)

NewLine == lines' = OnScreen(Append(lines, <<>>))

Next == NewLine \/ \E c \in Chars : Put(c)

Spec == Init /\ [][Next]_lines
=============================================================================
