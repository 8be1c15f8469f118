-------------------------------- MODULE MCLib --------------------------------
(***************************************************************************)
(* The functions of the library over bounded inputs.  A behavior is one    *)
(* call of bitmap_set and bitmap_find, of memcpy and memmove, of           *)
(* kmalloc_size_index, of vprintfmt, vsnprintf and strftime, of            *)
(* rtc_get_datetime, of the divisions and shifts, or the calendar going    *)
(* from day to day through all days a timestamp can say.                   *)
(***************************************************************************)
EXTENDS Calendar, Bitmap, MemCopy, KmallocIndex, Format, Rtc, Divide

CONSTANTS Sizes,      \* sizes of a bitmap, in bits
          MaxLen,     \* length of a range of bits
          MapBytes,   \* bytes of a bitmap
          MemSize,    \* bytes of memory a copy stays in
          MaxCopy     \* bytes copied

ASSUME BoundsAssumption == MaxLen \in Nat /\ MapBytes \in Nat /\ MemSize \in Nat /\ MaxCopy \in Nat
\* The bits of a bitmap are bits of its bytes, and far fewer than a size_t can count.
ASSUME SizesAssumption == /\ Sizes \subseteq 0..MapBytes * ByteBits
                          /\ MapBytes * ByteBits + MaxLen < SizeMax

VARIABLE job

\* Around the lengths of numbers in each base, and around half of what a long holds.
Numbers == {0, 7, 8, 9, 10, 16, 99, 100, 255, 4095, 4096, 8191}
\* Days before a new day, month, year and century, and the last the clock can say.
Eves == {58, 364, 788, 11015, 36523}
\* By how many seconds the clock is later at each of the seven reads: one second at
\* most goes by in a round.
Lates == {[i \in 1..7 |-> IF i > k THEN 1 ELSE 0] : k \in 0..7}

\* What is asked of the library.
BitJobs(map, size) == [kind : {"bits"}, map : {map}, size : {size}, value : {0, 1},
                       start : (0..MapBytes * ByteBits) \cup {SizeMax - 1}, len : 0..MaxLen]
CopyJobs   == [kind : {"copy"}, d : 0..MemSize, s : 0..MemSize, n : 0..MaxCopy]
SizeJobs   == [kind : {"size"}, size : 1..MaxKmallocCacheSize]
FirstDay   == [kind |-> "day", day |-> 0]
\* Numbers with the paddings printfmt.c and error.c:3-4 agree on: for "-" the comment at
\* printfmt.c:58 says another side than the code pads.
NumberJobs == [kind : {"number"}, num : Numbers, conv : {"d", "u", "o", "x"},
               pad : {"", "0"}, width : 0..5]
\* Strings without padding and width, which error.c:3-4 has for numbers only.
StringJobs == [kind : {"string"}, str : {Null} \cup UNION {[1..n -> {"a", "ctl"}] : n \in 0..3},
               alt : BOOLEAN, precision : {-1} \cup 1..4, room : 1..6]
StampJobs  == [kind : {"stamp"}, year : {70, 99, 100, 206}, mon : {0, 8, 9, 11},
               mday : {1, 10, 31}, hour : {0, 9, 23}, min : {0, 59}, sec : {5, 10}]
ClockJobs  == [kind : {"clock"}, day : Eves, sec : {0, 59, 3599, 86399}, late : Lates,
               bcd : BOOLEAN]
DivideJobs == [kind : {"divide"}, a : 0..Pow2[NumBits] - 1]

Init ==
  \/ \E map \in [0..MapBytes - 1 -> SUBSET Bits], size \in Sizes : job \in BitJobs(map, size)
  \/ job \in CopyJobs
  \/ job \in SizeJobs
  \/ job = FirstDay
  \/ job \in NumberJobs
  \/ job \in StringJobs
  \/ job \in StampJobs
  \/ job \in ClockJobs
  \/ job \in DivideJobs
Tomorrow == job.kind = "day" /\ job.day < Wrap.day /\ job' = [job EXCEPT !.day = @ + 1]
Spec == Init /\ [][Tomorrow]_job

-----------------------------------------------------------------------------
\* The date after a date.
DateAfter(tm) ==
  LET y     == tm.year + 1900
      leap  == (y % 4 = 0 /\ y % 100 # 0) \/ y % 400 = 0
      month == tm.mon + 1
      days  == IF month = 2 THEN IF leap THEN 29 ELSE 28
               ELSE IF month \in {4, 6, 9, 11} THEN 30 ELSE 31
      last  == tm.mday = days
      eve   == last /\ month = 12
  IN [year |-> tm.year + (IF eve THEN 1 ELSE 0),
      mon  |-> (tm.mon + (IF last THEN 1 ELSE 0)) % 12,
      mday |-> IF last THEN 1 ELSE tm.mday + 1,
      yday |-> IF eve THEN 0 ELSE tm.yday + 1,
      wday |-> (tm.wday + 1) % 7]
DateOf(tm) == [f \in {"year", "mon", "mday", "yday", "wday"} |-> tm[f]]
At(day, sec) == [day |-> day, sec |-> sec]

\* Every day a timestamp can say has the date after the date of the day before, the
\* first is Thursday, 1 January 1970: the correction of time.c:39 and the loops after
\* it find the right year, month and day from 1970 to 2106.
CalendarAdvances ==
  job.kind = "day" =>
    DateOf(Gmtime(At(job.day, 0)))
      = IF job.day = 0
        THEN [year |-> 70, mon |-> 0, mday |-> 1, yday |-> 0, wday |-> 4]
        ELSE DateAfter(Gmtime(At(job.day - 1, 0)))

\* mktime is the inverse of gmtime and of localtime: the date broken down comes back
\* as the same 32 bits, at every hour the local day changes, and where the local time
\* is beyond what 32 bits hold.
RoundTrip ==
  job.kind = "day" =>
    \A sec \in {0, 23295, 57600} :
      LET t == At(job.day, sec) IN
      Before(t, Wrap) => Mktime(Gmtime(t)) = t /\ Mktime(Localtime(t)) = t

\* The calendar is right in both directions.
CalendarRight == CalendarAdvances /\ RoundTrip

\* bitmap_set gives the bits of the range the value and leaves the other bits of the
\* map, wherever in their bytes the range starts and ends.  With a start of -1, the
\* answer of a search that failed, it changes no bit of the map.
SetsTheRange ==
  job.kind = "bits" =>
    LET after == OnesOf(BitmapSet(job.map, job.size, job.value, job.start, job.len))
        named == Named(job.size, job.start, job.len)
    IN after \cap (0..job.size - 1)
         = (0..job.size - 1) \cap (IF job.value = 1 THEN OnesOf(job.map) \cup named
                                   ELSE OnesOf(job.map) \ named)

\* bitmap_find answers with the first bit of the range that has the value, and -1 if
\* there is none.  With a start of -1 it never answers with a bit of the map, which is
\* what ends the loops of memory.c:47 and 118.
FindsTheFirst ==
  job.kind = "bits" =>
    LET answer == BitmapFind(job.map, job.size, job.value, job.start, job.len)
        right  == {i \in Named(job.size, job.start, job.len) :
                     (i \in OnesOf(job.map)) = (job.value = 1)}
    IN IF job.start + job.len >= SizeMax THEN answer \notin 0..job.size - 1
       ELSE IF right = {} THEN answer = -1 ELSE answer = Least(right)

\* The bytes and masks of lib/bitmap.c do to a range what it says, bit by bit.
BitmapsRight == SetsTheRange /\ FindsTheFirst

-----------------------------------------------------------------------------
\* Every byte different.
Memory == [a \in 0..MemSize + MaxCopy + 2 * WordSize |-> a]

\* memmove brings every byte to its place, however source and destination overlap and
\* wherever they lie in their words.
MovesTheBytes ==
  job.kind = "copy" =>
    \A i \in 0..job.n - 1 : Memmove(Memory, job.d, job.s, job.n)[job.d + i] = job.s + i

\* memcpy writes beyond its last byte, since its second loop tests a pointer it does not
\* advance, but never beyond the word of that byte.
StaysInTheWord ==
  job.kind = "copy" =>
    \A a \in DOMAIN Memory :
      Memcpy(Memory, job.d, job.s, job.n)[a] # a => a \in job.d..WordAlign(job.d + job.n) - 1

\* The cache kmalloc takes for a size has objects at least that big.
CacheFits ==
  job.kind = "size" =>
    /\ SizeIndex(job.size) + 1 \in DOMAIN CacheSizes
    /\ job.size <= CacheSizes[SizeIndex(job.size) + 1]

\* Bits and bytes get where they should; bitmap_set changes no other bit of the map, memcpy
\* nothing beyond the word of its last byte; and the cache kmalloc takes has room.
MemoryRight == BitmapsRight /\ MovesTheBytes /\ StaysInTheWord /\ CacheFits

-----------------------------------------------------------------------------
\* The number of digits of a number, and what digits say.
Length(num, base) == CHOOSE n \in 1..16 : num < base^n /\ (n > 1 => num >= base^(n - 1))
Said(digits, base) == FoldLeft(LAMBDA n, c : n * base + DigitValue(c), 0, digits)
BaseOf(conv) == CASE conv = "o" -> 8 [] conv = "x" -> 16 [] OTHER -> 10
Flag(c) == IF c = "" THEN <<>> ELSE <<c>>
Pad(c) == IF c = "" THEN " " ELSE c

\* A number of the size of a long comes out with its digits, none in front that is 0,
\* padded to the width on the left with spaces or zeros; a negative one after its sign,
\* which the width does not count.
NumbersFormat ==
  job.kind = "number" =>
    LET out  == Vprintfmt(<<"%">> \o Flag(job.pad) \o Flag(IF job.width = 0 THEN "" ELSE Digits[job.width + 1])
                            \o <<"l", job.conv>>, <<job.num>>)
        neg  == job.conv = "d" /\ job.num >= LongMod \div 2
        num  == IF neg THEN LongMod - job.num ELSE job.num
        body == IF neg THEN Tail(out) ELSE out
        n    == Length(num, BaseOf(job.conv))
    IN /\ neg => Head(out) = "-"
       /\ Len(body) = IF job.width > n THEN job.width ELSE n
       /\ \A i \in 1..Len(body) - n : body[i] = Pad(job.pad)
       /\ Said(SubSeq(body, Len(body) - n + 1, Len(body)), BaseOf(job.conv)) = num

\* A string comes out as far as the precision says, with "#" its control characters as
\* "?", and "(null)" for none; vsnprintf keeps a prefix that fits with its NUL, touches
\* nothing behind the buffer, and says how long the whole is.
StringsFormat ==
  job.kind = "string" =>
    LET fmt  == <<"%">> \o (IF job.alt THEN <<"#">> ELSE <<>>)
                  \o (IF job.precision < 0 THEN <<>> ELSE <<".", Digits[job.precision + 1]>>) \o <<"s">>
        out  == Vprintfmt(fmt, <<job.str>>)
        text == IF job.str = Null THEN <<"(", "n", "u", "l", "l", ")">> ELSE job.str
        n    == IF job.precision >= 0 THEN Smaller(job.precision, Len(text)) ELSE Len(text)
        got  == Vsnprintf([i \in 0..9 |-> "old"], 0, job.room, fmt, <<job.str>>)
        kept == Smaller(Len(out), job.room - 1)
    IN /\ Len(out) = n
       /\ \A i \in 1..n : out[i] = IF job.alt /\ text[i] = "ctl" THEN "?" ELSE text[i]
       /\ got.cnt = Len(out)
       /\ \A i \in 0..9 : got.mem[i] = IF i < kept THEN out[i + 1] ELSE IF i = kept THEN NUL ELSE "old"

\* The time stamp of clock_handler fits the 24 bytes it has for it, with its NUL, and says
\* the date in digits of fixed places.
Stamp == <<"%", "Y", "-", "%", "m", "-", "%", "d", ":", "%", "H", ":", "%", "M", ":", "%", "S">>
StampsFit ==
  job.kind = "stamp" =>
    LET got == Strftime([i \in 0..29 |-> "old"], 24, Stamp, job)
        say(from, n) == Said([i \in 1..n |-> got.mem[from + i - 1]], 10)
    IN /\ got.len = 19 /\ got.mem[19] = NUL /\ \A i \in 20..29 : got.mem[i] = "old"
       /\ say(0, 4) = job.year + 1900 /\ say(5, 2) = job.mon + 1 /\ say(8, 2) = job.mday
       /\ say(11, 2) = job.hour /\ say(14, 2) = job.min /\ say(17, 2) = job.sec

\* Formatted output says what it is given, in the space it is given.
FormatRight == NumbersFormat /\ StringsFormat /\ StampsFit

\* The time at boot is one the clock showed while it was read, unless a minute begins just
\* between the first six reads: the seconds, read twice and last, are 0 both times then,
\* and the result of rtc_get_datetime is early, never late.
ClockRight ==
  job.kind = "clock" =>
    LET t   == At(job.day, job.sec)
        now == Plus(t, job.late[7])
    IN \A shown \in {[i \in 1..7 |-> Registers(Plus(t, job.late[i]), job.bcd)]} :
         LET got == HwTimestamp(shown, job.bcd)
         IN /\ ~Before(now, got)
            /\ got \in {t, now} \/ (now.sec % 60 = 0 /\ job.late[6] = 1)

\* What the kernel says the time is: the calendar on each of its days, and the time it
\* begins with.
TimeRight == CalendarRight /\ ClockRight

\* Signed quotients go towards 0, and the remainder has the sign of the numerator.
Towards0(a, b) == LET q == (IF a < 0 THEN -a ELSE a) \div (IF b < 0 THEN -b ELSE b)
                  IN IF (a < 0) = (b < 0) THEN q ELSE -q

\* Division of two words by shifting and subtracting is division, signed and unsigned, for
\* every divisor but 0, and the shifts and counts of bits are what they are called.
DivisionRight ==
  job.kind = "divide" =>
    LET a == job.a IN
    /\ \A b \in 1..Pow2[NumBits] - 1 :
         /\ Divmod(a, b) = [q |-> a \div b, r |-> a % b]
         /\ Divdi3(a, b) = U64(Towards0(Signed(a), Signed(b)))
         /\ Moddi3(a, b) = U64(Signed(a) - Signed(b) * Towards0(Signed(a), Signed(b)))
    /\ \A k \in 0..2 * NumBits - 1 :
         /\ Ashldi3(a, k) = U64(a * Pow2[k % NumBits])
         /\ Lshrdi3(a, k) = a \div Pow2[k % NumBits]
         /\ Signed(Ashrdi3(a, k)) = Signed(a) \div Pow2[k % NumBits]
    /\ a # 0 => /\ Pow2[NumBits - 1 - Clzdi2(a)] <= a /\ a < Pow2[NumBits - Clzdi2(a)]
                /\ a % Pow2[Ctzdi2(a)] = 0 /\ a % Pow2[Ctzdi2(a) + 1] # 0
    /\ Ffsdi2(a) = IF a = 0 THEN 0 ELSE Ctzdi2(a) + 1

=============================================================================
