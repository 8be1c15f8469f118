---------------------------------- MODULE Rtc ----------------------------------
(***************************************************************************)
(* The real-time clock of arch/x86/clock.c: rtc_get_datetime reads one     *)
(* register after the other of a clock that goes on.                       *)
(***************************************************************************)
EXTENDS Calendar, Sequences

\* How the clock keeps a number: as two decimal digits, or as it is.
Bcd(n) == (n \div 10) * 16 + (n % 10)
bcd2byte(x) == ((x \div 16) % 16) * 10 + (x % 16)
Registers(t, bcd) ==
  LET tm == Gmtime(t)
      as(n) == IF bcd THEN Bcd(n) ELSE n
  IN [year |-> as(tm.year % 100), mon |-> as(tm.mon + 1), day |-> as(tm.mday),
      hour |-> as(tm.hour), min |-> as(tm.min), sec |-> as(tm.sec)]

\* The registers in the order they are read, the seconds once more.
ReadOrder == <<"year", "mon", "day", "hour", "min", "sec", "sec">>

\* Two-digit years below 70 are of this century.
FullYear(year) == IF 1900 + year < 1970 THEN year + 100 ELSE year

\* rtc_get_datetime, when the registers are shown[i] at the read i of a round; a round
\* whose seconds differ is followed by one at the time of its last read.
RtcGetDatetime(shown, bcd) ==
  LET read(i) == shown[i][ReadOrder[i]]
      again   == read(CHOOSE i \in 1..6 : ReadOrder[i] = "sec") # read(7)
      of(f)   == IF again THEN shown[7][f] ELSE read(CHOOSE i \in 1..6 : ReadOrder[i] = f)
      num(f)  == IF bcd THEN bcd2byte(of(f)) ELSE of(f)
  IN [year |-> FullYear(num("year")), mon |-> num("mon") - 1, mday |-> num("day"),
      hour |-> num("hour"), min |-> num("min"), sec |-> num("sec"), gmtoff |-> 0]

\* arch_get_hw_timestamp
HwTimestamp(shown, bcd) == Mktime(RtcGetDatetime(shown, bcd))

=============================================================================
