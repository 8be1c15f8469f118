------------------------------- MODULE Screen -------------------------------
(***************************************************************************)
(* The console on the screen: cputchar of kernel/console.c with its cursor *)
(* over the frame buffer of drivers/video.c.                               *)
(*                                                                         *)
(* A frame is kept twice: `base' is what the display shows, `buffer' a     *)
(* copy in memory that is drawn in and flushed.  Everything is done under  *)
(* the lock of the console (module Klog); a step here is one call of       *)
(* screen_input_char or of screen_move.  A pixel is abstracted to what was *)
(* drawn there: one point of one glyph, the background, or what the boot   *)
(* loader left.                                                            *)
(***************************************************************************)
EXTENDS Integers, SequencesExt

CONSTANTS
  Width, Height,     \* the screen, in pixels
  FontW, FontH,      \* a glyph, in pixels; 1 and 1 in text mode
  Chars,             \* characters the font has a glyph for
  Leftovers          \* the pixels the boot loader may have left on the display

\* What a place of the console shows that has no character.
Blank == "blank"

ASSUME SizeAssumption ==
  FontW \in 1..Width /\ FontH \in 1..Height /\ Width \in Nat /\ Height \in Nat
\* What the boot loader left, and the background, are no characters.
ASSUME CharsAssumption == Chars \cap (Leftovers \cup {"black", Blank}) = {}

VARIABLES
  x, y,              \* console.x and console.y, in characters
  base, buffer,      \* screen_info.base and screen_info.buffer
  scroll             \* has cputchar still to test for the end of the screen?

vars == <<x, y, base, buffer, scroll>>

-----------------------------------------------------------------------------

Points   == (0..Width - 1) \X (0..Height - 1)
\* The point (dx, dy) of the glyph of c; a colour is a glyph of one point.
Glyph(c, dx, dy) == <<c, dx, dy>>
Black    == Glyph("black", 0, 0)
Leftover == {Glyph(l, 0, 0) : l \in Leftovers}
Pixels   == {Black} \cup Leftover
              \cup {Glyph(c, dx, dy) : c \in Chars, dx \in 0..FontW - 1, dy \in 0..FontH - 1}

\* console_init: xlimit and ylimit.
XLimit == Width \div FontW
YLimit == Height \div FontH

\* Slip: the height of the rectangle is taken for its end.
FlushedShort(frame, drawn, x0, x1, y0, y1) ==
  [p \in Points |-> IF p[1] \in x0..x1 - 1 /\ p[2] \in y0..y1 - y0 - 1
                    THEN drawn[p] ELSE frame[p]]
\* screen_flush_buffer: the display after the rectangle that was drawn is copied to
\* it.  Whoever draws flushes at once, so the rectangles of screen_buffer_write are
\* never joined.
Flushed(frame, drawn, x0, x1, y0, y1) ==
  [p \in Points |-> IF p[1] \in x0..x1 - 1 /\ p[2] \in y0..y1 - 1
                    THEN drawn[p] ELSE frame[p]]

\* screen_input_char: the buffer with the glyph of c at (px, py).  What lies beyond the
\* screen is left out by screen_put_pixel.
Drawn(px, py, c) ==
  [p \in Points |-> IF p[1] \in px..px + FontW - 1 /\ p[2] \in py..py + FontH - 1
                    THEN Glyph(c, p[1] - px, p[2] - py) ELSE buffer[p]]

\* screen_move: the buffer after the lines have gone up.  They are read from the
\* display, not from the buffer; what the boot loader left moves along.
Moved(step) ==
  [p \in Points |-> IF p[2] < Height - step THEN base[<<p[1], p[2] + step>>] ELSE Black]

\* Slip: the wrap is tested for one character late.
WrapLate(cx) == cx > XLimit
\* The test for the end of the line.
AtLineEnd(cx) == cx = XLimit

-----------------------------------------------------------------------------

\* screen_init clears the buffer but not the display.
Init == /\ x = 0 /\ y = 0 /\ scroll = FALSE
        /\ base \in [Points -> Leftover]
        /\ buffer = [p \in Points |-> Black]

\* The cursor goes to (cx, cy), or to the next line.
MoveTo(cx, cy) == /\ x' = IF AtLineEnd(cx) THEN 0 ELSE cx
                  /\ y' = IF AtLineEnd(cx) THEN cy + 1 ELSE cy
                  /\ scroll' = TRUE

\* cputchar of a character, up to the test for the end of the screen.
PutChar(c) ==
  /\ ~scroll
  /\ buffer' = Drawn(x * FontW, y * FontH, c)
  /\ base' = Flushed(base, buffer', x * FontW, (x + 1) * FontW, y * FontH, (y + 1) * FontH)
  /\ MoveTo(x + 1, y)

\* cputchar of '\n'.
NewLine == ~scroll /\ MoveTo(0, y + 1) /\ UNCHANGED <<base, buffer>>

\* The rest of cputchar: at the end of the screen everything goes up by a row.
Scroll ==
  /\ scroll /\ scroll' = FALSE /\ UNCHANGED x
  /\ \/ /\ y = YLimit
        /\ buffer' = Moved(FontH)
        /\ base' = Flushed(base, buffer', 0, Width, 0, Height)
        /\ y' = y - 1
     \/ y # YLimit /\ UNCHANGED <<y, base, buffer>>

Next == NewLine \/ Scroll \/ \E c \in Chars : PutChar(c)

Spec == Init /\ [][Next]_vars

-----------------------------------------------------------------------------
(* Properties.                                                             *)

\* The character the display shows at a place of the console; Blank if it shows none,
\* or not the whole of it.
Shown(row, col) ==
  LET Is(c) == \A dx \in 0..FontW - 1, dy \in 0..FontH - 1 :
                 base[<<col * FontW + dx, row * FontH + dy>>] = Glyph(c, dx, dy)
  IN IF \E c \in Chars : Is(c) THEN CHOOSE c \in Chars : Is(c) ELSE Blank

\* What can be read in a row, from the left up to the first place that shows nothing.
Line(row) ==
  LET end == Min({XLimit} \cup {col \in 0..XLimit - 1 : Shown(row, col) = Blank})
  IN [i \in 1..end |-> Shown(row, i - 1)]

\* Every variable has its type, and the cursor is on the screen, but between the end of
\* the last line and the scroll.
TypeOK ==
  /\ base \in [Points -> Pixels] /\ buffer \in [Points -> Pixels]
  /\ scroll \in BOOLEAN
  /\ x \in 0..XLimit - 1
  /\ y \in 0..IF scroll THEN YLimit ELSE YLimit - 1

\* The lines on the screen.  While the scroll is due, the new line has no row yet.
TextLines ==
  LET rows == [r \in 1..Min({y + 1, YLimit}) |-> Line(r - 1)]
  IN IF y = YLimit THEN Append(Tail(rows), <<>>) ELSE rows

Text == INSTANCE Terminal WITH Rows <- YLimit, Cols <- XLimit, lines <- TextLines
\* What is printed is what Terminal says, call by call: no character is lost.
Prints == /\ NewLine => Text!NewLine
          /\ Scroll => UNCHANGED TextLines
          /\ \A c \in Chars : PutChar(c) => Text!Put(c)
\* The display shows the last lines of what was printed: the wrap, the scroll, the
\* rectangle that is flushed and the copy the scroll reads agree (console.c, video.c).
TerminalSpec == Text!Spec /\ [][Prints]_vars
=============================================================================
