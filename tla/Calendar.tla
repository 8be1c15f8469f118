------------------------------- MODULE Calendar -------------------------------
(***************************************************************************)
(* The calendar of lib/time.c: gmtime, localtime and mktime.               *)
(*                                                                         *)
(* A timestamp is 32 bits of seconds since 1970, too many for TLC's        *)
(* integers, so it is kept as the day and the second of the day, which are *)
(* the code's first quotient and its remainders.                           *)
(***************************************************************************)
EXTENDS Integers

DaySecs == 86400
\* 2^32 seconds
Wrap == [day |-> 49710, sec |-> 23296]
Before(t, u) == t.day < u.day \/ (t.day = u.day /\ t.sec < u.sec)
\* Adding to an unsigned 32-bit number of seconds.
Plus(t, secs) ==
  LET d   == t.day + (t.sec + secs) \div DaySecs
      sum == [day |-> d, sec |-> (t.sec + secs) % DaySecs]
  IN IF Before(sum, Wrap) /\ d >= 0 THEN sum
     ELSE LET s == sum.sec + (IF d < 0 THEN Wrap.sec ELSE -Wrap.sec)
          IN [day |-> d + (IF d < 0 THEN Wrap.day ELSE -Wrap.day) + s \div DaySecs,
              sec |-> s % DaySecs]

LocalOffset == 8 * 3600               \* LOCAL_TIMEZONE

-----------------------------------------------------------------------------
(* _gmtime; years are counted from 1900.                                   *)

Days == <<31, 28, 31, 30, 31, 30, 31, 31, 30, 31, 30, 31>>
Leap(year) == \/ year % 4 = 0 /\ year % 100 # 0
              \/ (year + 300) % 400 = 0
YearDays(year) == IF Leap(year) THEN 366 ELSE 365
MonthDays(year, mon) == Days[mon + 1] + (IF Leap(year) /\ mon = 1 THEN 1 ELSE 0)

\* Slip: years divisible by 400 are forgotten.
Century(year) == (year + 99) \div 100
\* The leap days the groups of four years before this one have not had.
LeapFix(year) == (year + 99) \div 100 - (year + 299) \div 400

\* off is __tm_gmtoff, the seconds by which the clock on the wall is ahead.
GmtimeOff(t0, off) ==
  LET t     == Plus(t0, off)
      days  == t.day + 25567
      first == (days \div 1461) * 4
      \* the day counted from the start of each year the loop comes to
      from[y \in first..first + 5] ==
        IF y = first THEN (days % 1461) + LeapFix(first) ELSE from[y - 1] - YearDays(y - 1)
      year  == CHOOSE y \in first..first + 4 :
                 from[y] < YearDays(y) /\ \A x \in first..y - 1 : from[x] >= YearDays(x)
      inYear[m \in 0..12] ==
        IF m = 0 THEN from[year] ELSE inYear[m - 1] - MonthDays(year, m - 1)
      mon   == CHOOSE m \in 0..11 :
                 inYear[m] < MonthDays(year, m)
                 /\ \A k \in 0..m - 1 : inYear[k] >= MonthDays(year, k)
  IN [year |-> year, yday |-> from[year], mon |-> mon, mday |-> inYear[mon] + 1,
      wday |-> (t.day + 4) % 7,
      hour |-> t.sec \div 3600, min |-> (t.sec \div 60) % 60, sec |-> t.sec % 60,
      gmtoff |-> off]

Gmtime(t)    == GmtimeOff(t, 0)
Localtime(t) == GmtimeOff(t, LocalOffset)

-----------------------------------------------------------------------------
(* mktime: February is counted last, because it has the leap day.          *)

\* mon -= 2, and 12 more if nothing is left.
FromMarch(mon) == IF mon + 1 - 2 <= 0 THEN mon + 1 + 10 ELSE mon + 1 - 2

Mktime(tm) ==
  LET mon  == FromMarch(tm.mon)
      year == tm.year + 1900 - (IF tm.mon + 1 - 2 <= 0 THEN 1 ELSE 0)
      days == year \div 4 - year \div 100 + year \div 400 + (367 * mon) \div 12
              + tm.mday + year * 365 - 719499
  IN Plus([day |-> days, sec |-> tm.hour * 3600 + tm.min * 60 + tm.sec], -tm.gmtoff)

=============================================================================
