-------------------------------- MODULE Format --------------------------------
(***************************************************************************)
(* Formatted output: vprintfmt and vsnprintf of lib/printfmt.c, and        *)
(* strftime of lib/time.c.  A string is a sequence of characters, without  *)
(* the NUL that ends it; an error message counts as one character.         *)
(***************************************************************************)
EXTENDS Integers, Sequences, SequencesExt

CONSTANTS IntMod,   \* 2^32: an unsigned int is below it
          LongMod   \* 2^64

ASSUME WidthAssumption == IntMod \in Nat /\ LongMod \in Nat /\ IntMod <= LongMod

NUL == "NUL"
E_INVAL == 2
ErrorStrings == <<"unspecified error", "bad environment", "invalid parameter", "out of memory",
                  "out of environments", "segmentation fault", "env is not recving",
                  "unexpected end of file">>
MAXERROR == 8

Digits == <<"0", "1", "2", "3", "4", "5", "6", "7", "8", "9", "a", "b", "c", "d", "e", "f">>
DigitValue(c) == (CHOOSE i \in 1..16 : Digits[i] = c) - 1
IsDigit(c) == \E i \in 1..10 : Digits[i] = c
Fill(c, n) == IF n > 0 THEN [i \in 1..n |-> c] ELSE <<>>

\* Slip: the last digit is padded for as well.
PadAll(padc, width) == Fill(padc, width)
PadBefore(padc, width) == Fill(padc, width - 1)
\* printnum: the digits in front first, each with one place less to pad.
Printnum(num, base, width, padc) ==
  LET put[n \in Nat, w \in Int] ==
        (IF n >= base THEN put[n \div base, w - 1] ELSE PadBefore(padc, w))
          \o <<Digits[(n % base) + 1]>>
  IN put[num, width]

\* What vprintfmt keeps of a %-escape.
Flags == [padc : {" ", "-", "0"}, width : Int, precision : Int, lflag : 0..2, alt : BOOLEAN]
NoFlags == [padc |-> " ", width |-> -1, precision |-> -1, lflag |-> 0, alt |-> FALSE]
\* process_precision: the first number is the width.
WithNumber(s, n) == IF s.width < 0 THEN [s EXCEPT !.width = n, !.precision = -1]
                    ELSE [s EXCEPT !.precision = n]

\* A string that is not there, and what is put out for it.
Null == <<"NULL">>
Shown(arg) == IF arg = Null THEN <<"(", "n", "u", "l", "l", ")">> ELSE arg
\* %s: padding in front, at most precision characters, and spaces up to the width.
FormatString(s, arg) ==
  LET str  == Shown(arg)
      len  == IF s.precision >= 0 /\ s.precision < Len(str) THEN s.precision ELSE Len(str)
      left == IF s.width > 0 /\ s.padc # "-" THEN Fill(s.padc, s.width - len) ELSE <<>>
      text == [i \in 1..len |-> IF s.alt /\ str[i] = "ctl" THEN "?" ELSE str[i]]
  IN left \o text \o Fill(" ", s.width - Len(left) - len)

\* d, u, o, p and x.  An int is taken as unsigned, with or without a sign.
FormatNumber(s, conv, arg) ==
  LET num  == arg % (IF s.lflag = 0 /\ conv # "p" THEN IntMod ELSE LongMod)
      base == CASE conv \in {"d", "u"} -> 10 [] conv = "o" -> 8 [] OTHER -> 16
      neg  == conv = "d" /\ num >= LongMod \div 2
  IN (IF conv = "p" THEN <<"0", "x">> ELSE <<>>) \o (IF neg THEN <<"-">> ELSE <<>>)
       \o Printnum(IF neg THEN LongMod - num ELSE num, base, s.width, s.padc)

FormatError(err) ==
  LET e == IF err < 0 THEN -err ELSE err
  IN IF e >= MAXERROR THEN <<"error ">> \o Printnum(e, 10, -1, " ") ELSE <<ErrorStrings[e + 1]>>

CharAt(fmt, i) == IF i <= Len(fmt) THEN fmt[i] ELSE NUL

\* vprintfmt.  text is what it puts out from character i on, when the next argument is
\* number k; inside a %-escape, from is the place of the escape, behind its %, else 0.
Vprintfmt(fmt, args) ==
  LET end(i) == CHOOSE j \in i..Len(fmt) + 1 :
                  ~IsDigit(CharAt(fmt, j)) /\ \A m \in i..j - 1 : IsDigit(fmt[m])
      number(i) == FoldLeft(LAMBDA n, c : 10 * n + DigitValue(c), 0, SubSeq(fmt, i, end(i) - 1))
      text[i \in Nat, from \in Nat, s \in Flags, k \in Nat] ==
        LET ch == CharAt(fmt, i)
            more(t) == text[i + 1, from, t, k]
            done(out) == out \o text[i + 1, 0, NoFlags, k + 1]
        IN IF from = 0
           THEN IF i > Len(fmt) THEN <<>>
                ELSE IF ch = "%" THEN text[i + 1, i + 1, NoFlags, k]
                ELSE <<ch>> \o text[i + 1, 0, NoFlags, k]
           ELSE CASE ch \in {"-", "0"} -> more([s EXCEPT !.padc = ch])
                  [] ch = "."  -> more([s EXCEPT !.width = IF @ < 0 THEN 0 ELSE @])
                  [] ch = "#"  -> more([s EXCEPT !.alt = TRUE])
                  [] ch = "l"  -> more([s EXCEPT !.lflag = IF @ < 2 THEN @ + 1 ELSE @])
                  [] ch = "*"  -> text[i + 1, from, WithNumber(s, args[k]), k + 1]
                  [] ch # "0" /\ IsDigit(ch) -> text[end(i), from, WithNumber(s, number(i)), k]
                  [] ch = "c"  -> done(<<args[k]>>)
                  [] ch = "e"  -> done(FormatError(args[k]))
                  [] ch = "s"  -> done(FormatString(s, args[k]))
                  [] ch \in {"d", "u", "o", "p", "x"} -> done(FormatNumber(s, ch, args[k]))
                  [] ch = "%"  -> <<"%">> \o text[i + 1, 0, NoFlags, k]
                  [] OTHER     -> <<"%">> \o text[from, 0, NoFlags, k]
  IN text[1, 0, NoFlags, 1]

\* The address of no buffer.
NoBuffer == -1
HasRoom(b) == b.buf < b.ebuf
\* sprintputch
Sprintputch(b, ch) ==
  [b EXCEPT !.cnt = @ + 1,
            !.mem = IF HasRoom(b) THEN [@ EXCEPT ![b.buf] = ch] ELSE @,
            !.buf = IF HasRoom(b) THEN @ + 1 ELSE @]
\* vsnprintf to address buf of mem: what memory is then, and the result.
Vsnprintf(mem, buf, n, fmt, args) ==
  IF buf = NoBuffer \/ n < 1 THEN [mem |-> mem, cnt |-> -E_INVAL]
  ELSE LET b == FoldLeft(Sprintputch, [mem |-> mem, buf |-> buf, ebuf |-> buf + n - 1, cnt |-> 0],
                         Vprintfmt(fmt, args))
       IN [mem |-> [b.mem EXCEPT ![b.buf] = NUL], cnt |-> b.cnt]

-----------------------------------------------------------------------------
(* strftime.                                                               *)

NoField == [align |-> 0, d |-> -1]
\* The number a letter stands for, and the digits it takes at least.
Field(letter, tm) ==
  CASE letter = "d" -> [align |-> 2, d |-> tm.mday]
    [] letter = "H" -> [align |-> 2, d |-> tm.hour]
    [] letter = "I" -> [align |-> 2, d |-> ((tm.hour + 11) % 12) + 1]
    [] letter = "M" -> [align |-> 2, d |-> tm.min]
    [] letter = "m" -> [align |-> 2, d |-> tm.mon + 1]
    [] letter = "S" -> [align |-> 2, d |-> tm.sec]
    [] letter = "Y" -> [align |-> 0, d |-> tm.year + 1900]
    [] letter = "y" -> [align |-> 2, d |-> (tm.year + 1900) % 100]
    [] OTHER -> NoField

\* A turn of strftime's loop, at character i of fmt with p characters written.  Only
\* numbers know of max.
StrfTurn(s, fmt, max, tm) ==
  LET field == Field(CharAt(fmt, s.i + 1), tm)
      put   == Vsnprintf(s.mem, s.p, max - s.p, <<"%", "0", "*", "d">>, <<field.align, field.d>>)
      literal(ch, next) == [mem |-> [s.mem EXCEPT ![s.p] = ch], p |-> s.p + 1, i |-> next]
  IN IF s.i > Len(fmt) THEN s
     ELSE IF fmt[s.i] # "%" THEN literal(fmt[s.i], s.i + 1)
     ELSE IF CharAt(fmt, s.i + 1) = "%" THEN literal("%", s.i + 2)
     ELSE IF field = NoField THEN [s EXCEPT !.i = @ + 2]
     ELSE [mem |-> put.mem, p |-> s.p + put.cnt, i |-> s.i + 2]
\* strftime to the start of mem; a turn leaves at least one character of fmt behind.
Strftime(mem, max, fmt, tm) ==
  LET after[k \in 0..Len(fmt)] ==
        IF k = 0 THEN [mem |-> mem, p |-> 0, i |-> 1] ELSE StrfTurn(after[k - 1], fmt, max, tm)
      last == after[Len(fmt)]
  IN [mem |-> last.mem, len |-> last.p]

=============================================================================
