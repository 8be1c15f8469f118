------------------------------- MODULE LibProofs -------------------------------
(***************************************************************************)
(* Theorems about the library functions of MCLib, for every value of its   *)
(* constants.                                                              *)
(*                                                                         *)
(* A loop is a function of the turn in the modules.  The first part shows  *)
(* that such a function exists (TurnsExist) and how to argue from turn to  *)
(* turn (Upwards); the rest uses these two where a loop is followed.       *)
(***************************************************************************)
EXTENDS MCLib, FiniteSetTheorems, TLAPS

\* A set of natural numbers that is not empty has a least element: the intervals up to
\* its elements are well-founded by inclusion.
LEMMA LeastExists ==
  ASSUME NEW S \in SUBSET Nat, S # {}
  PROVE  \E x \in S : \A y \in S : x <= y
<1> DEFINE R == StrictSubsetOrdering(Nat)
           T == {0..x : x \in S}
<1>1. T \subseteq FiniteSubsetsOf(Nat)
  <2> SUFFICES ASSUME NEW x \in S PROVE 0..x \in FiniteSubsetsOf(Nat)
    OBVIOUS
  <2>1. x \in Int /\ 0 \in Int
    OBVIOUS
  <2>2. IsFiniteSet(0..x)
    BY <2>1, FS_Interval
  <2> QED BY <2>2 DEF FiniteSubsetsOf
<1>2. T # {}
  OBVIOUS
<1>3. IsWellFoundedOn(R, FiniteSubsetsOf(Nat))
  BY FS_StrictSubsetOrderingWellFounded
<1>4. PICK t \in T : \A u \in T : ~(<<u, t>> \in R)
  <2> HIDE DEF R, T
  <2> QED BY <1>1, <1>2, <1>3, WFMin
<1>5. PICK x \in S : t = 0..x
  OBVIOUS
<1>6. ASSUME NEW y \in S, y < x PROVE FALSE
  <2>1. 0..y \subseteq 0..x /\ 0..y # 0..x
    BY <1>6
  <2>2. <<0..y, 0..x>> \in R
    BY <2>1 DEF StrictSubsetOrdering
  <2> QED BY <1>4, <1>5, <2>2
<1>7. \A y \in S : x <= y
  BY <1>6
<1> QED BY <1>7

\* Induction, with a set in the place of a predicate: what holds of 0 and is kept from
\* one turn to the next holds of every turn.
LEMMA Upwards ==
  ASSUME NEW n \in Nat, NEW S, 0 \in S, \A i \in 0..n - 1 : i \in S => i + 1 \in S
  PROVE  \A i \in 0..n : i \in S
<1> DEFINE T == {i \in 0..n : i \notin S}
<1> SUFFICES ASSUME T # {} PROVE FALSE
  OBVIOUS
<1>1. T \in SUBSET Nat
  OBVIOUS
<1>2. PICK x \in T : \A y \in T : x <= y
  BY <1>1, LeastExists
<1>3. x # 0 /\ x - 1 \in 0..n - 1 /\ x - 1 \notin T
  BY <1>2
<1> QED BY <1>3

\* What a function of turns is: x at first, g of the turn before after that.
AreTurns(h, n, x, g) == \A i \in 0..n : h[i] = IF i = 0 THEN x ELSE g[<<i, h[i - 1]>>]

\* The loops of the library are functions defined by recursion; the turns of a loop exist.
LEMMA TurnsExist ==
  ASSUME NEW n \in Nat, NEW S, NEW x \in S, NEW g \in [(1..n) \X S -> S]
  PROVE  \E h \in [0..n -> S] : AreTurns(h, n, x, g)
<1> DEFINE Good(h, m) == \A i \in 0..m : h[i] = IF i = 0 THEN x ELSE g[<<i, h[i - 1]>>]
           T == {m \in 0..n : \E h \in [0..m -> S] : Good(h, m)}
<1>1. 0 \in T
  <2>1. Good([i \in 0..0 |-> x], 0) /\ [i \in 0..0 |-> x] \in [0..0 -> S]
    OBVIOUS
  <2>2. 0 \in 0..n
    OBVIOUS
  <2> HIDE DEF Good
  <2> QED BY <2>1, <2>2
<1>2. ASSUME NEW m \in 0..n - 1, m \in T PROVE m + 1 \in T
  <2>1. PICK h \in [0..m -> S] : Good(h, m)
    BY <1>2
  <2> DEFINE k == [i \in 0..m + 1 |-> IF i = m + 1 THEN g[<<m + 1, h[m]>>] ELSE h[i]]
  <2>2. h[m] \in S /\ m + 1 \in 1..n
    OBVIOUS
  <2>3. g[<<m + 1, h[m]>>] \in S
    BY <2>2
  <2>4. k \in [0..m + 1 -> S]
    BY <2>3
  <2>5. ASSUME NEW i \in 0..m + 1 PROVE k[i] = IF i = 0 THEN x ELSE g[<<i, k[i - 1]>>]
    <3>1. CASE i = m + 1
      <4>1. k[i - 1] = h[m] /\ i # 0
        BY <3>1
      <4> QED BY <3>1, <4>1
    <3>2. CASE i # m + 1
      <4>1. i \in 0..m /\ k[i] = h[i]
        BY <3>2
      <4>2. i # 0 => k[i - 1] = h[i - 1]
        BY <4>1
      <4> QED BY <4>1, <4>2, <2>1
    <3> QED BY <3>1, <3>2
  <2>6. Good(k, m + 1)
    BY <2>5
  <2>7. m + 1 \in 0..n
    OBVIOUS
  <2> HIDE DEF k, Good
  <2> QED BY <2>4, <2>6, <2>7
<1> HIDE DEF T
<1>3. n \in T
  BY <1>1, <1>2, Upwards, n \in 0..n
<1> QED BY <1>3 DEF T, AreTurns

-----------------------------------------------------------------------------
\* The cache is that of the least size that is enough.
LEMMA CacheIsBigEnough ==
  ASSUME NEW size \in 1..MaxKmallocCacheSize
  PROVE  /\ SizeIndex(size) + 1 \in DOMAIN CacheSizes
         /\ size <= CacheSizes[SizeIndex(size) + 1]
<1> DEFINE x == ((size + WordBytes - 1) \div WordBytes) * WordBytes - 1
           two == Narrow(Narrow(Narrow([fls |-> 1, size |-> x], 8, 256), 4, 16), 2, 4)
           fls == Narrow(two, 1, 2).fls
<1>1. x \in 7..2047 /\ size <= x + 1 /\ x % 8 = 7
  BY DEF MaxKmallocCacheSize, WordBytes
<1>2. SizeIndex(size) = fls - 3 + (IF fls \in {6, 7} /\ two.size % 2 = 1 THEN 1 ELSE 0) + Skip(fls)
  BY DEF SizeIndex
<1> HIDE DEF x
<1>3. \/ x = 7 /\ fls = 3
      \/ x = 15 /\ fls = 4
      \/ x \in 16..31 /\ fls = 5
      \/ x \in 32..47 /\ fls = 6 /\ two.size % 2 = 0
      \/ x \in 48..63 /\ fls = 6 /\ two.size % 2 = 1
      \/ x \in 64..127 /\ fls = 7 /\ two.size % 2 = 1
      \/ x \in 128..255 /\ fls = 8
      \/ x \in 256..511 /\ fls = 9
      \/ x \in 512..1023 /\ fls = 10
      \/ x \in 1024..2047 /\ fls = 11
  <2> DEFINE one == Narrow([fls |-> 1, size |-> x], 8, 256)
             half == Narrow(one, 4, 16)
  <2>a. half = Narrow(one, 4, 16)
    OBVIOUS
  <2>b. two = Narrow(half, 2, 4)
    OBVIOUS
  <2>c. fls = Narrow(two, 1, 2).fls
    OBVIOUS
  <2>1. one = IF x >= 256 THEN [fls |-> 9, size |-> x \div 256] ELSE [fls |-> 1, size |-> x]
    BY <1>1 DEF Narrow
  <2>2. CASE x >= 256
    <3>1. one.fls = 9 /\ one.size \in 1..7 /\ (one.size = x \div 256)
      BY <2>1, <2>2, <1>1
    <3>2. half = one
      BY <3>1, <2>1, <2>2 DEF Narrow
    <3>3. two = IF one.size >= 4 THEN [fls |-> 11, size |-> one.size \div 4] ELSE one
      BY <3>1, <3>2 DEF Narrow
    <3>4. fls = IF x < 512 THEN 9 ELSE IF x < 1024 THEN 10 ELSE 11
      <4>1. CASE one.size >= 4
        <5>1. two.fls = 11 /\ two.size = one.size \div 4
          BY <3>3, <4>1
        <5>2. one.size \div 4 = 1 /\ 1 \div 2 = 0
          BY <3>1, <4>1
        <5>3. x >= 1024
          BY <3>1, <4>1, <1>1
        <5> HIDE DEF two, fls, one
        <5> QED BY <1>1, <2>c, <5>1, <5>2, <5>3 DEF Narrow
      <4>2. CASE one.size < 4
        <5>1. two = one /\ x < 1024
          BY <3>1, <3>3, <4>2, <1>1
        <5>2. two.size \div 2 # 0 <=> x >= 512
          BY <5>1, <3>1, <4>2, <1>1
        <5>3. fls = IF two.size \div 2 # 0 THEN 10 ELSE 9
          <6>1. two.fls = 9 /\ (two.size \div 2 # 0 \/ two.size \div 2 = 0)
            BY <5>1, <3>1
          <6> HIDE DEF two, fls, one
          <6>2. CASE two.size \div 2 # 0
            BY <2>c, <6>1, <6>2 DEF Narrow
          <6>3. CASE two.size \div 2 = 0
            BY <2>c, <6>1, <6>3 DEF Narrow
          <6> QED BY <6>2, <6>3
        <5> QED BY <1>1, <5>1, <5>2, <5>3
      <4> QED BY <4>1, <4>2, <3>1
    <3> QED BY <3>4, <2>2, <1>1
  <2>3. CASE x < 256
    <3>1. one = [fls |-> 1, size |-> x]
      BY <2>1, <2>3, <1>1
    <3>2. half = IF x >= 16 THEN [fls |-> 5, size |-> x \div 16] ELSE [fls |-> 1, size |-> x]
      BY <3>1, <2>3, <1>1 DEF Narrow
    <3> HIDE DEF one, half
    <3>3. CASE x < 16
      <4>1. two = [fls |-> 3, size |-> x \div 4]
        BY <3>2, <3>3, <1>1 DEF Narrow
      <4>2. fls = IF x = 7 THEN 3 ELSE 4
        <5> HIDE DEF two
        <5>1. x = 7 \/ x = 15
          BY <3>3, <1>1
        <5>2. two.fls = 3 /\ (two.size \div 2 = IF x = 7 THEN 0 ELSE 1)
          BY <4>1, <5>1
        <5> QED BY <5>1, <5>2 DEF Narrow
      <4> QED BY <4>2, <3>3, <1>1
    <3>4. CASE x >= 16
      <4>1. half.fls = 5 /\ half.size = x \div 16 /\ half.size \in 1..15
        BY <3>2, <3>4, <2>3, <1>1
      <4>2. two = IF x >= 64 THEN [fls |-> 7, size |-> x \div 64] ELSE half
        <5>1. (x \div 16) \div 4 = x \div 64 /\ ((x \div 16) \div 4 # 0 <=> x >= 64)
          BY <1>1
        <5>2. two = IF half.size \div 4 # 0 THEN [fls |-> half.fls + 2, size |-> half.size \div 4] ELSE half
          <6> HIDE DEF half, two
          <6> QED BY <2>b DEF Narrow
        <5> HIDE DEF half, two
        <5> QED BY <5>1, <5>2, <4>1
      <4>3. two.fls = (IF x >= 64 THEN 7 ELSE 5)
            /\ two.size = IF x >= 64 THEN x \div 64 ELSE x \div 16
        BY <4>1, <4>2
      <4>4. two.size \in 1..3
        BY <4>3, <3>4, <2>3, <1>1
      <4> HIDE DEF two
      <4>5. fls = IF two.size >= 2 THEN two.fls + 1 ELSE two.fls
        BY <4>3, <4>4 DEF Narrow
      <4>6. x \in 16..255
        BY <3>4, <2>3, <1>1
      <4>7. CASE x >= 64
        <5>1. two.fls = 7 /\ two.size = x \div 64
          BY <4>3, <4>7
        <5>2. x < 128 <=> two.size = 1
          BY <5>1, <4>6, <4>7
        <5> QED BY <5>1, <5>2, <4>4, <4>5, <4>6, <4>7
      <4>8. CASE x < 64
        BY <4>3, <4>5, <4>6, <4>8
      <4> QED BY <4>7, <4>8, <4>6
    <3> QED BY <3>3, <3>4, <1>1
  <2> QED BY <2>2, <2>3, <1>1
<1> HIDE DEF fls, two
<1> QED BY <1>1, <1>2, <1>3 DEF Skip, CacheSizes


-----------------------------------------------------------------------------
(* Bitmaps.                                                                *)

\* A number is its byte and its bit in the byte.
LEMMA ByteAndBit ==
  ASSUME NEW i \in Int
  PROVE  /\ i \div ByteBits \in Int /\ i % ByteBits \in Bits
         /\ i = (i \div ByteBits) * ByteBits + (i % ByteBits)
  BY ByteBitsAssumption DEF Bits

LEMMA BitOfByte ==
  ASSUME NEW b \in Int, NEW o \in Bits
  PROVE  (b * ByteBits + o) \div ByteBits = b /\ (b * ByteBits + o) % ByteBits = o
  BY ByteBitsAssumption DEF Bits

LEMMA NatProduct == \A x, y \in Nat : x * y \in Nat
  OBVIOUS

\* A byte ends before the next one starts.
LEMMA NextByte ==
  ASSUME NEW b \in Int, NEW c \in Int
  PROVE  /\ b * ByteBits \in Int
         /\ b < c => b * ByteBits + ByteBits <= c * ByteBits
         /\ b * ByteBits < c * ByteBits => b < c
<1>1. ByteBits \in Nat \ {0}
  BY ByteBitsAssumption
<1>2. ASSUME NEW p \in Int, NEW q \in Int, p < q PROVE p * ByteBits + ByteBits <= q * ByteBits
  <2> DEFINE d == q - p - 1
  <2>1. d \in Nat /\ q = p + 1 + d
    BY <1>2
  <2> HIDE DEF d
  <2>2. q * ByteBits = p * ByteBits + ByteBits + d * ByteBits /\ d * ByteBits >= 0
    BY <1>1, <2>1
  <2>3. p * ByteBits \in Int /\ d * ByteBits \in Int /\ q * ByteBits \in Int
    BY <1>1, <2>1
  <2> QED BY <1>1, <2>2, <2>3
<1>3. b < c => b * ByteBits + ByteBits <= c * ByteBits
  BY <1>2
<1>4. c < b => c * ByteBits + ByteBits <= b * ByteBits
  BY <1>2
<1>5. b * ByteBits \in Int /\ c * ByteBits \in Int
  BY <1>1
<1>6. b = c => b * ByteBits = c * ByteBits
  OBVIOUS
<1> QED BY <1>1, <1>3, <1>4, <1>5, <1>6

FirstBit(size, start) == Smaller(size, start)
EndBit(size, start, len) == Smaller(size, (start + len) % SizeMax)

\* What the masks of a range say: no bit before the range, at most one mask for a byte,
\* and, if the range does not wrap, its bits and no others.
LEMMA MasksAreRight ==
  ASSUME NEW size \in Nat, NEW start \in Nat, NEW len \in Nat
  PROVE  /\ \A m \in Masks(size, start, len) :
              /\ m = <<m[1], m[2]>> /\ m[1] \in Int /\ m[2] \subseteq Bits
              /\ \A o \in m[2] : FirstBit(size, start) <= m[1] * ByteBits + o
         /\ \A m, n \in Masks(size, start, len) : m[1] = n[1] => m = n
         /\ FirstBit(size, start) <= EndBit(size, start, len) =>
              \A b \in Int : \A o \in Bits :
                (\E m \in Masks(size, start, len) : m[1] = b /\ o \in m[2])
                <=> b * ByteBits + o \in FirstBit(size, start)..EndBit(size, start, len) - 1
<1> DEFINE sb == FirstBit(size, start)
           eb == EndBit(size, start, len)
           startByte == StartByte(sb)
           endByte   == eb \div ByteBits
           startBound == startByte * ByteBits - sb
           endBound   == eb - endByte * ByteBits
           head == Bits \ Mask(ByteBits - startBound)
           M == Masks(size, start, len)
<1>1. ByteBits \in Nat \ {0} /\ Bits = 0..ByteBits - 1
  BY ByteBitsAssumption DEF Bits
<1>2. sb \in Nat /\ eb \in Nat
  BY SizeMaxAssumption DEF FirstBit, EndBit, Smaller
<1>3. M = IF endByte < startByte
          THEN {<<startByte - 1, head \cap Mask(endBound)>>}
          ELSE (IF startBound > 0 THEN {<<startByte - 1, head>>} ELSE {})
               \cup {<<b, Bits>> : b \in startByte..endByte - 1}
               \cup (IF endBound > 0 THEN {<<endByte, Mask(endBound)>>} ELSE {})
  BY DEF Masks, FirstBit, EndBit
<1>4. startByte \in Nat /\ startByte * ByteBits \in Nat /\ startBound \in 0..ByteBits - 1
  <2> DEFINE u == sb + ByteBits - 1
  <2>1. u \in Nat /\ startByte = u \div ByteBits
    BY <1>1, <1>2 DEF StartByte
  <2> HIDE DEF u, sb
  <2>2. u \div ByteBits \in Nat /\ u % ByteBits \in 0..ByteBits - 1
        /\ u = (u \div ByteBits) * ByteBits + (u % ByteBits)
    BY <1>1, <2>1
  <2>3. (u \div ByteBits) * ByteBits \in Nat
    <3>1. u \div ByteBits \in Nat /\ ByteBits \in Nat
      BY <1>1, <2>2
    <3> QED BY <3>1, NatProduct
  <2>4. sb = u - ByteBits + 1
    BY <1>1, <1>2 DEF u
  <2> HIDE DEF startByte
  <2> QED BY <1>1, <1>2, <2>1, <2>2, <2>3, <2>4
<1>5. endByte \in Nat /\ endByte * ByteBits \in Nat /\ endBound \in 0..ByteBits - 1
  <2> HIDE DEF eb
  <2>1. eb \div ByteBits \in Nat /\ eb % ByteBits \in 0..ByteBits - 1
        /\ eb = (eb \div ByteBits) * ByteBits + (eb % ByteBits)
    BY <1>1, <1>2
  <2>2. (eb \div ByteBits) * ByteBits \in Nat
    <3>1. eb \div ByteBits \in Nat /\ ByteBits \in Nat
      BY <1>1, <2>1
    <3> QED BY <3>1, NatProduct
  <2> QED BY <1>1, <1>2, <2>1, <2>2
<1> HIDE DEF M, startByte, endByte
<1>6. startByte * ByteBits = sb + startBound /\ endByte * ByteBits = eb - endBound
  BY <1>2, <1>4, <1>5
<1> HIDE DEF startBound, endBound, sb, eb
<1>7. head = {o \in Bits : o >= ByteBits - startBound} /\ Mask(endBound) = {o \in Bits : o < endBound}
  BY <1>1, <1>4, <1>5 DEF Mask
<1> HIDE DEF head
\* Each mask, with what it says of its byte.
<1>8. \A m \in M : /\ m = <<m[1], m[2]>> /\ m[1] \in Int /\ m[2] \subseteq Bits
                   /\ m[1] \in startByte - 1..endByte \/ m[1] = startByte - 1
                   /\ \A o \in m[2] : m[1] = startByte - 1 => o >= ByteBits - startBound
  BY <1>1, <1>3, <1>4, <1>5, <1>7
<1>9. \A m \in M : \A o \in m[2] : sb <= m[1] * ByteBits + o
  <2> SUFFICES ASSUME NEW m \in M, NEW o \in m[2] PROVE sb <= m[1] * ByteBits + o
    OBVIOUS
  <2>1. m[1] \in Int /\ o \in Bits /\ m[1] * ByteBits \in Int
    BY <1>8, NextByte
  <2>2. CASE m[1] = startByte - 1
    <3>1. m[1] * ByteBits = startByte * ByteBits - ByteBits
      BY <2>2, <1>1, <1>4
    <3>2. o >= ByteBits - startBound
      BY <2>2, <1>8
    <3> QED BY <3>1, <3>2, <2>1, <2>2, <1>1, <1>2, <1>4, <1>6
  <2>3. CASE m[1] >= startByte
    <3>1. startByte * ByteBits <= m[1] * ByteBits
      BY <2>1, <2>3, <1>4, <1>1, NextByte
    <3> QED BY <3>1, <2>1, <1>1, <1>2, <1>4, <1>6
  <2> QED BY <2>1, <2>2, <2>3, <1>8, <1>4, <1>5
<1>10. \A m, n \in M : m[1] = n[1] => m = n
  <2>1. CASE endByte < startByte
    BY <2>1, <1>3
  <2>2. CASE ~(endByte < startByte)
    <3>1. \A m \in M :
            /\ m[1] = startByte - 1 => m = <<startByte - 1, head>>
            /\ m[1] \in startByte..endByte - 1 => m = <<m[1], Bits>>
            /\ m[1] = endByte => m = <<endByte, Mask(endBound)>>
            /\ m[1] \in {startByte - 1, endByte} \cup (startByte..endByte - 1)
      BY <2>2, <1>3, <1>4, <1>5
    <3>2. SUFFICES ASSUME NEW m \in M, NEW n \in M, m[1] = n[1] PROVE m = n
      OBVIOUS
    <3>3. CASE m[1] = startByte - 1
      BY <3>1, <3>2, <3>3
    <3>4. CASE m[1] = endByte
      BY <3>1, <3>2, <3>4
    <3>5. CASE m[1] \in startByte..endByte - 1
      BY <3>1, <3>2, <3>5
    <3> QED BY <3>1, <3>3, <3>4, <3>5
  <2> QED BY <2>1, <2>2
<1>11. ASSUME sb <= eb, NEW b \in Int, NEW o \in Bits
       PROVE  (\E m \in M : m[1] = b /\ o \in m[2]) <=> b * ByteBits + o \in sb..eb - 1
  <2>0. b * ByteBits \in Int /\ o \in 0..ByteBits - 1
    BY <1>1, NextByte
  <2>1. /\ b * ByteBits + o >= sb => b >= startByte - 1
        /\ b * ByteBits + o >= sb /\ b = startByte - 1 => o >= ByteBits - startBound
    <3>1. b < startByte - 1 => b * ByteBits + ByteBits <= startByte * ByteBits - ByteBits
      <4>1. (startByte - 1) * ByteBits = startByte * ByteBits - ByteBits /\ startByte - 1 \in Int
        BY <1>1, <1>4
      <4> QED BY <4>1, NextByte
    <3>2. b = startByte - 1 => b * ByteBits = startByte * ByteBits - ByteBits
      BY <1>1, <1>4
    <3> QED BY <3>1, <3>2, <2>0, <1>1, <1>2, <1>4, <1>6
  <2>2. /\ b * ByteBits + o < eb <=> b < endByte \/ (b = endByte /\ o < endBound)
    <3>1. b < endByte => b * ByteBits + ByteBits <= endByte * ByteBits
      BY <1>5, NextByte
    <3>2. endByte < b => endByte * ByteBits + ByteBits <= b * ByteBits
      BY <1>5, NextByte
    <3>3. b = endByte => b * ByteBits = endByte * ByteBits
      OBVIOUS
    <3> QED BY <3>1, <3>2, <3>3, <2>0, <1>1, <1>2, <1>5, <1>6
  <2>3. endByte >= startByte - 1
    <3>1. endByte < startByte - 1 => endByte * ByteBits + ByteBits <= startByte * ByteBits - ByteBits
      <4>1. (startByte - 1) * ByteBits = startByte * ByteBits - ByteBits /\ startByte - 1 \in Int
        BY <1>1, <1>4
      <4> QED BY <4>1, <1>5, NextByte
    <3> QED BY <3>1, <1>11, <1>1, <1>2, <1>4, <1>5, <1>6
  <2>4. (\E m \in M : m[1] = b /\ o \in m[2]) =>
          b < endByte \/ (b = endByte /\ o < endBound)
    BY <2>3, <1>3, <1>4, <1>5, <1>7
  <2>5. ASSUME b * ByteBits + o \in sb..eb - 1 PROVE \E m \in M : m[1] = b /\ o \in m[2]
    <3>1. /\ b >= startByte - 1 /\ (b = startByte - 1 => o >= ByteBits - startBound)
          /\ b < endByte \/ (b = endByte /\ o < endBound)
      BY <2>0, <2>1, <2>2, <2>5, <1>2
    <3>2. CASE endByte < startByte
      <4>1. b = startByte - 1 /\ b = endByte /\ M = {<<startByte - 1, head \cap Mask(endBound)>>}
        BY <3>1, <3>2, <1>3, <1>4, <1>5
      <4>2. o \in head \cap Mask(endBound)
        BY <4>1, <3>1, <1>7, <1>4, <1>5
      <4> QED BY <4>1, <4>2
    <3>3. CASE ~(endByte < startByte)
      <4>1. CASE b = startByte - 1
        <5>1. startBound > 0 /\ o \in head
          BY <4>1, <3>1, <1>1, <1>4, <1>7
        <5>2. <<startByte - 1, head>> \in M
          BY <5>1, <3>3, <1>3
        <5> QED BY <5>1, <5>2, <4>1
      <4>2. CASE b \in startByte..endByte - 1
        <5>1. <<b, Bits>> \in M
          BY <4>2, <3>3, <1>3
        <5> QED BY <5>1
      <4>3. CASE b = endByte
        <5>1. endBound > 0 /\ o \in Mask(endBound)
          BY <4>3, <3>1, <2>0, <1>5, <1>7
        <5>2. <<endByte, Mask(endBound)>> \in M
          BY <5>1, <3>3, <1>3
        <5> QED BY <5>1, <5>2, <4>3
      <4> QED BY <4>1, <4>2, <4>3, <3>1, <1>4, <1>5
    <3> QED BY <3>2, <3>3
  <2>6. (\E m \in M : m[1] = b /\ o \in m[2]) => sb <= b * ByteBits + o
    BY <1>9
  <2> QED BY <2>0, <2>2, <2>4, <2>5, <2>6, <1>2
<1> QED BY <1>8, <1>9, <1>10, <1>11 DEF M, sb, eb


\* The bits of a byte come before those of a later byte.
LEMMA BitsInOrder ==
  ASSUME NEW b \in Int, NEW c \in Int, b < c, NEW o \in Bits, NEW p \in Bits
  PROVE  b * ByteBits + o < c * ByteBits + p
<1>1. b * ByteBits + ByteBits <= c * ByteBits /\ b * ByteBits \in Int /\ c * ByteBits \in Int
  BY NextByte
<1> QED BY <1>1, ByteBitsAssumption DEF Bits

\* A range of bits of a map as callers ask for it: it starts in the map, or at -1.
IsRange(size, start, len) ==
  /\ size \in Nat /\ start \in Nat /\ len \in Nat
  /\ FirstBit(size, start) <= EndBit(size, start, len) \/ FirstBit(size, start) = size
Maps == [0..MapBytes - 1 -> SUBSET Bits]

LEMMA NamedIs ==
  ASSUME NEW size, NEW start, NEW len
  PROVE  Named(size, start, len) = FirstBit(size, start)..EndBit(size, start, len) - 1
  BY DEF Named, FirstBit, EndBit

\* The bits of the map a mask covers are the bits the range names.
LEMMA MaskedIsNamed ==
  ASSUME NEW size, NEW start, NEW len, IsRange(size, start, len), NEW i \in 0..size - 1
  PROVE  (\E m \in Masks(size, start, len) : m[1] = i \div ByteBits /\ i % ByteBits \in m[2])
         <=> i \in Named(size, start, len)
<1> DEFINE sb == FirstBit(size, start)
           eb == EndBit(size, start, len)
           M == Masks(size, start, len)
<1>1. size \in Nat /\ start \in Nat /\ len \in Nat /\ (sb <= eb \/ sb = size)
  BY DEF IsRange
<1>2. /\ i \div ByteBits \in Int /\ i % ByteBits \in Bits
      /\ i = (i \div ByteBits) * ByteBits + (i % ByteBits)
  BY ByteAndBit
<1>3. Named(size, start, len) = sb..eb - 1
  BY NamedIs
<1>4. CASE sb <= eb
  <2>1. \A b \in Int : \A o \in Bits :
          (\E m \in M : m[1] = b /\ o \in m[2]) <=> b * ByteBits + o \in sb..eb - 1
    BY <1>1, <1>4, MasksAreRight
  <2> HIDE DEF M, sb, eb
  <2>2. (\E m \in M : m[1] = i \div ByteBits /\ i % ByteBits \in m[2])
        <=> (i \div ByteBits) * ByteBits + (i % ByteBits) \in sb..eb - 1
    BY <2>1, <1>2
  <2> QED BY <2>2, <1>2, <1>3 DEF M
<1>5. CASE ~(sb <= eb)
  <2>1. \A m \in M : m[1] \in Int /\ \A o \in m[2] : sb <= m[1] * ByteBits + o
    BY <1>1, MasksAreRight
  <2>2. sb = size
    BY <1>1, <1>5
  <2>3. eb \in Nat
    BY <1>1, SizeMaxAssumption DEF EndBit, Smaller
  <2> HIDE DEF M, sb, eb
  <2>4. i \notin sb..eb - 1
    BY <2>2, <1>1
  <2>5. ASSUME NEW m \in M, m[1] = i \div ByteBits, i % ByteBits \in m[2] PROVE FALSE
    <3>1. sb <= i
      BY <2>1, <2>5, <1>2
    <3> QED BY <3>1, <2>2, <1>1
  <2> QED BY <2>4, <2>5, <1>3 DEF M
<1> QED BY <1>4, <1>5

\* The bits of a map.
LEMMA OnesAre ==
  ASSUME NEW map \in Maps
  PROVE  OnesOf(map) = {i \in 0..MapBytes * ByteBits - 1 : i % ByteBits \in map[i \div ByteBits]}
<1>1. DOMAIN map = 0..MapBytes - 1
  BY DEF Maps
<1>2. Cardinality(0..MapBytes - 1) = MapBytes
  <2>1. 0 \in Int /\ MapBytes - 1 \in Int /\ MapBytes \in Nat
    BY BoundsAssumption
  <2>2. Cardinality(0..MapBytes - 1) = IF 0 > MapBytes - 1 THEN 0 ELSE (MapBytes - 1) - 0 + 1
    BY <2>1, FS_Interval
  <2> QED BY <2>1, <2>2
<1> QED BY <1>1, <1>2 DEF OnesOf

\* A bit of the map is in a byte of the map.
LEMMA ByteInMap ==
  ASSUME NEW i \in 0..MapBytes * ByteBits - 1
  PROVE  i \div ByteBits \in 0..MapBytes - 1
<1>1. /\ i \div ByteBits \in Int /\ i % ByteBits \in 0..ByteBits - 1
      /\ i = (i \div ByteBits) * ByteBits + (i % ByteBits)
      /\ MapBytes \in Int /\ ByteBits \in Nat \ {0} /\ MapBytes * ByteBits \in Int
  BY ByteAndBit, BoundsAssumption, ByteBitsAssumption DEF Bits
<1>2. (i \div ByteBits) * ByteBits \in Int
  BY <1>1, NextByte
<1>3. (i \div ByteBits) * ByteBits < MapBytes * ByteBits
  BY <1>1, <1>2
<1>4. i \div ByteBits < MapBytes
  BY <1>1, <1>3, NextByte
<1>5. i \div ByteBits >= 0
  BY <1>1
<1> QED BY <1>1, <1>4, <1>5

\* bitmap_set changes the bits the range names, and of the map no others.
LEMMA SetIsRight ==
  ASSUME NEW map \in Maps, NEW size \in 0..MapBytes * ByteBits, NEW value \in {0, 1},
         NEW start, NEW len, IsRange(size, start, len)
  PROVE  OnesOf(BitmapSet(map, size, value, start, len)) \cap (0..size - 1)
           = (0..size - 1) \cap (IF value = 1 THEN OnesOf(map) \cup Named(size, start, len)
                                 ELSE OnesOf(map) \ Named(size, start, len))
<1> DEFINE M == Masks(size, start, len)
           after == BitmapSet(map, size, value, start, len)
<1>1. size \in Nat /\ start \in Nat /\ len \in Nat
  BY DEF IsRange
<1>2. /\ \A m \in M : m[2] \subseteq Bits
      /\ \A m, n \in M : m[1] = n[1] => m = n
  BY <1>1, MasksAreRight
<1>3. after = [b \in DOMAIN map |->
                 IF \E m \in M : m[1] = b THEN SetByte(map[b], value, (CHOOSE m \in M : m[1] = b)[2])
                 ELSE map[b]]
  BY DEF BitmapSet
<1>4. DOMAIN map = 0..MapBytes - 1 /\ \A b \in 0..MapBytes - 1 : map[b] \subseteq Bits
  BY DEF Maps
<1> HIDE DEF M, after
<1>5. ASSUME NEW b \in 0..MapBytes - 1, NEW m \in M, m[1] = b
      PROVE  after[b] = SetByte(map[b], value, m[2])
  <2>1. m = CHOOSE k \in M : k[1] = b
    BY <1>2, <1>5
  <2> QED BY <2>1, <1>3, <1>4, <1>5
<1>6. ASSUME NEW b \in 0..MapBytes - 1, ~\E m \in M : m[1] = b PROVE after[b] = map[b]
  BY <1>3, <1>4, <1>6
<1>7. ASSUME NEW b \in 0..MapBytes - 1, NEW o \in Bits
      PROVE  o \in after[b] <=> IF \E m \in M : m[1] = b /\ o \in m[2] THEN value = 1 ELSE o \in map[b]
  <2>1. CASE \E m \in M : m[1] = b
    <3>1. PICK m \in M : m[1] = b
      BY <2>1
    <3>2. (\E k \in M : k[1] = b /\ o \in k[2]) <=> o \in m[2]
      BY <3>1, <1>2
    <3>3. after[b] = SetByte(map[b], value, m[2])
      BY <3>1, <1>5
    <3>4. CASE value = 1
      BY <3>2, <3>3, <3>4, <2>1 DEF SetByte
    <3>5. CASE value = 0
      BY <3>2, <3>3, <3>5, <2>1 DEF SetByte
    <3> QED BY <3>4, <3>5
  <2>2. CASE ~\E m \in M : m[1] = b
    BY <2>2, <1>6
  <2> QED BY <2>1, <2>2
<1>8. after \in Maps
  <2>1. DOMAIN after = 0..MapBytes - 1
    BY <1>3, <1>4
  <2>2. ASSUME NEW b \in 0..MapBytes - 1 PROVE after[b] \subseteq Bits
    <3>1. CASE \E m \in M : m[1] = b
      <4>1. PICK m \in M : m[1] = b
        BY <3>1
      <4>2. after[b] = SetByte(map[b], value, m[2]) /\ map[b] \subseteq Bits /\ m[2] \subseteq Bits
        BY <4>1, <1>2, <1>4, <1>5
      <4> QED BY <4>2 DEF SetByte
    <3>2. CASE ~\E m \in M : m[1] = b
      BY <3>2, <1>4, <1>6
    <3> QED BY <3>1, <3>2
  <2>3. after = [b \in 0..MapBytes - 1 |-> after[b]]
    BY <1>3, <1>4
  <2> QED BY <2>1, <2>2, <2>3 DEF Maps
<1>9. ASSUME NEW i \in 0..size - 1
      PROVE  i \in OnesOf(after) <=> IF i \in Named(size, start, len) THEN value = 1 ELSE i \in OnesOf(map)
  <2>1. i \in 0..MapBytes * ByteBits - 1
    BY BoundsAssumption, ByteBitsAssumption
  <2>2. i \div ByteBits \in 0..MapBytes - 1 /\ i % ByteBits \in Bits
    BY <2>1, ByteInMap, ByteAndBit
  <2>3. (i \in OnesOf(after) <=> i % ByteBits \in after[i \div ByteBits])
        /\ (i \in OnesOf(map) <=> i % ByteBits \in map[i \div ByteBits])
    BY <2>1, <1>8, OnesAre
  <2>4. (\E m \in M : m[1] = i \div ByteBits /\ i % ByteBits \in m[2]) <=> i \in Named(size, start, len)
    BY MaskedIsNamed DEF M
  <2> QED BY <2>2, <2>3, <2>4, <1>7
<1>10. ASSUME NEW i \in 0..size - 1
       PROVE  i \in OnesOf(after)
              <=> i \in (IF value = 1 THEN OnesOf(map) \cup Named(size, start, len)
                         ELSE OnesOf(map) \ Named(size, start, len))
  BY <1>9
<1> QED BY <1>10 DEF after

\* The least of some bits.
LEMMA LeastIsLeast ==
  ASSUME NEW S \in SUBSET Nat, S # {}
  PROVE  Least(S) \in S /\ \A y \in S : Least(S) <= y
BY LeastExists DEF Least

\* The bits of a byte that have the value are within the mask.
LEMMA MatchesAre ==
  ASSUME NEW byte, byte \subseteq Bits, NEW value \in {0, 1}, NEW mask, mask \subseteq Bits
  PROVE  \A o : o \in Matches(byte, value, mask) <=> o \in mask /\ (o \in byte <=> value = 1)
BY DEF Matches

LEMMA MatchesWithin ==
  ASSUME NEW byte, NEW value, NEW mask, mask \subseteq Bits
  PROVE  Matches(byte, value, mask) \subseteq mask
BY DEF Matches

\* bitmap_find answers with the first bit of the range that has the value, and with no bit
\* of the map where the range starts behind it.
FindsRight(map, size, value, start, len) ==
  LET answer == BitmapFind(map, size, value, start, len)
      right  == {i \in Named(size, start, len) : (i \in OnesOf(map)) = (value = 1)}
  IN /\ FirstBit(size, start) = size => answer \notin 0..size - 1
     /\ FirstBit(size, start) <= EndBit(size, start, len) =>
          IF right = {} THEN answer = -1 ELSE answer = Least(right)
LEMMA FindIsRight ==
  ASSUME NEW map \in Maps, NEW size \in 0..MapBytes * ByteBits, NEW value \in {0, 1},
         NEW start, NEW len, IsRange(size, start, len)
  PROVE  FindsRight(map, size, value, start, len)
<1> DEFINE M == Masks(size, start, len)
           hits(m) == Matches(map[m[1]], value, m[2])
           found == {m \in M : hits(m) # {}}
           first == CHOOSE m \in found : \A n \in found : m[1] <= n[1]
           answer == BitmapFind(map, size, value, start, len)
           right  == {i \in Named(size, start, len) : (i \in OnesOf(map)) = (value = 1)}
           sb == FirstBit(size, start)
           eb == EndBit(size, start, len)
<1>1. size \in Nat /\ start \in Nat /\ len \in Nat /\ ByteBits \in Nat \ {0} /\ Bits = 0..ByteBits - 1
  BY ByteBitsAssumption DEF IsRange, Bits
<1>2. sb \in Nat /\ eb \in Nat /\ eb <= size
  BY <1>1, SizeMaxAssumption DEF FirstBit, EndBit, Smaller
<1>3. /\ \A m \in M : /\ m[1] \in Int /\ m[2] \subseteq Bits
                      /\ \A o \in m[2] : sb <= m[1] * ByteBits + o
      /\ \A m, n \in M : m[1] = n[1] => m = n
  BY <1>1, MasksAreRight
<1>4. answer = IF found = {} THEN -1 ELSE first[1] * ByteBits + Least(hits(first))
  BY DEF BitmapFind
<1>5. \A m \in M : hits(m) \subseteq m[2]
  BY <1>3, MatchesWithin
<1>6. ASSUME NEW m \in found PROVE m[1] \in Nat
  <2>1. PICK o \in hits(m) : TRUE
    OBVIOUS
  <2>2. o \in m[2] /\ m[1] \in Int /\ o \in Bits /\ sb <= m[1] * ByteBits + o
    BY <2>1, <1>3, <1>5
  <2> DEFINE a == m[1]
             p == a * ByteBits
  <2>3. p \in Int /\ (a < 0 => p + ByteBits <= 0 * ByteBits)
    BY <2>2, NextByte
  <2>4. a \in Int /\ o \in Int /\ o < ByteBits /\ sb <= p + o
    BY <2>2, <1>1
  <2>5. sb \in Nat /\ ByteBits \in Int /\ 0 * ByteBits = 0
    BY <1>1, <1>2
  <2> HIDE DEF a, p, sb
  <2>6. a >= 0
    BY <2>3, <2>4, <2>5
  <2>7. a \in Nat
    BY <2>4, <2>6
  <2> QED BY <2>7 DEF a
<1> HIDE DEF M
<1>7. ASSUME found # {} PROVE first \in found /\ \A n \in found : first[1] <= n[1]
  <2> DEFINE S == {m[1] : m \in found}
  <2>1. S \in SUBSET Nat /\ S # {}
    BY <1>6, <1>7
  <2>2. PICK x \in S : \A y \in S : x <= y
    BY <2>1, LeastExists
  <2>3. \E m \in found : \A n \in found : m[1] <= n[1]
    BY <2>2
  <2> QED BY <2>3
<1>8. ASSUME found # {}
      PROVE  /\ Least(hits(first)) \in hits(first) /\ \A o \in hits(first) : Least(hits(first)) <= o
             /\ first \in M /\ hits(first) \subseteq first[2] /\ first[2] \subseteq Bits
             /\ first[1] \in Nat /\ Least(hits(first)) \in Bits
  <2>1. first \in found /\ first \in M /\ hits(first) # {}
    BY <1>7, <1>8
  <2>2. hits(first) \subseteq first[2] /\ first[2] \subseteq Bits
    BY <2>1, <1>3, <1>5
  <2>3. hits(first) \in SUBSET Nat
    <3> HIDE DEF hits, first
    <3> QED BY <2>2, <1>1
  <2> HIDE DEF hits, found, first
  <2>4. Least(hits(first)) \in hits(first) /\ \A o \in hits(first) : Least(hits(first)) <= o
    BY <2>1, <2>3, LeastIsLeast
  <2> QED BY <2>1, <2>2, <2>4, <1>6
<1> DEFINE at == Least(hits(first))
<1>9. ASSUME sb = size PROVE answer \notin 0..size - 1
  <2>1. CASE found = {}
    BY <2>1, <1>1, <1>4
  <2>2. CASE found # {}
    <3>1. sb <= first[1] * ByteBits + at /\ answer = first[1] * ByteBits + at
      <4> HIDE DEF hits, found, first, sb
      <4> QED BY <2>2, <1>3, <1>4, <1>8
    <3>2. answer \in Int
      <4>1. first[1] * ByteBits \in Int /\ at \in Int
        <5> HIDE DEF hits, found, first, sb
        <5> QED BY <2>2, <1>8, <1>1, NextByte
      <4> HIDE DEF first, at
      <4> QED BY <3>1, <4>1
    <3> HIDE DEF answer, first, at, sb
    <3> QED BY <3>1, <3>2, <1>9, <1>1
  <2> QED BY <2>1, <2>2
<1>10. ASSUME sb <= eb PROVE IF right = {} THEN answer = -1 ELSE answer = Least(right)
  <2>1. \A b \in Int : \A o \in Bits :
          (\E m \in M : m[1] = b /\ o \in m[2]) <=> b * ByteBits + o \in sb..eb - 1
    BY <1>1, <1>10, MasksAreRight DEF M
  <2>2. Named(size, start, len) = sb..eb - 1
    BY NamedIs
  <2> HIDE DEF sb, eb
  <2>3. ASSUME NEW i \in sb..eb - 1
        PROVE  /\ i \in 0..MapBytes * ByteBits - 1 /\ i \div ByteBits \in 0..MapBytes - 1
               /\ i % ByteBits \in Bits /\ i = (i \div ByteBits) * ByteBits + (i % ByteBits)
               /\ i \in OnesOf(map) <=> i % ByteBits \in map[i \div ByteBits]
    <3>1. i \in 0..MapBytes * ByteBits - 1
      BY <1>1, <1>2, BoundsAssumption
    <3> QED BY <3>1, ByteInMap, ByteAndBit, OnesAre
  <2>4. \A b \in 0..MapBytes - 1 : map[b] \subseteq Bits
    BY DEF Maps
  <2>5. ASSUME NEW m \in M, NEW o \in hits(m)
        PROVE  m[1] * ByteBits + o \in right /\ m[1] \in Int /\ o \in Bits
    <3>1. m[1] \in Int /\ o \in m[2] /\ o \in Bits /\ m[2] \subseteq Bits
      BY <1>3, <1>5
    <3>2. m[1] * ByteBits + o \in sb..eb - 1
      BY <2>1, <3>1
    <3>3. (m[1] * ByteBits + o) \div ByteBits = m[1] /\ (m[1] * ByteBits + o) % ByteBits = o
      BY <3>1, BitOfByte
    <3>4. m[1] \in 0..MapBytes - 1 /\ (m[1] * ByteBits + o \in OnesOf(map) <=> o \in map[m[1]])
      BY <2>3, <3>2, <3>3
    <3>5. (o \in map[m[1]]) = (value = 1)
      <4>1. map[m[1]] \subseteq Bits
        BY <2>4, <3>4
      <4> QED BY <4>1, <3>1, MatchesAre
    <3> QED BY <3>1, <3>2, <3>4, <3>5, <2>2
  <2>6. ASSUME NEW i \in right
        PROVE  \E m \in found : m[1] = i \div ByteBits /\ i % ByteBits \in hits(m)
    <3>1. i \in sb..eb - 1 /\ (i \in OnesOf(map)) = (value = 1)
      BY <2>2
    <3>2. i \div ByteBits \in Int /\ i % ByteBits \in Bits /\ i = (i \div ByteBits) * ByteBits + (i % ByteBits)
          /\ (i \in OnesOf(map) <=> i % ByteBits \in map[i \div ByteBits])
          /\ i \div ByteBits \in 0..MapBytes - 1
      BY <2>3, <3>1
    <3>3. PICK m \in M : m[1] = i \div ByteBits /\ i % ByteBits \in m[2]
      BY <2>1, <3>1, <3>2
    <3>4. map[m[1]] \subseteq Bits /\ m[2] \subseteq Bits
      BY <2>4, <3>2, <3>3, <1>3
    <3>5. i % ByteBits \in m[2] /\ (i % ByteBits \in map[m[1]] <=> value = 1)
      BY <3>1, <3>2, <3>3
    <3>6. i % ByteBits \in hits(m)
      <4>1. \A o : o \in hits(m) <=> o \in m[2] /\ (o \in map[m[1]] <=> value = 1)
        BY <3>4 DEF Matches
      <4> HIDE DEF hits
      <4> QED BY <3>5, <4>1
    <3> HIDE DEF hits
    <3> QED BY <3>3, <3>6
  <2>7. right \in SUBSET Nat
    BY <2>2, <1>2
  <2>8. CASE right = {}
    <3>1. found = {}
      BY <2>5, <2>8
    <3> QED BY <3>1, <2>8, <1>4
  <2>9. CASE right # {}
    <3>1. found # {}
      BY <2>6, <2>9
    <3>2. answer = first[1] * ByteBits + at
      BY <3>1, <1>4
    <3>3. first[1] * ByteBits + at \in right
      BY <3>1, <1>8, <2>5
    <3>4. ASSUME NEW i \in right PROVE first[1] * ByteBits + at <= i
      <4>1. PICK m \in found : m[1] = i \div ByteBits /\ i % ByteBits \in hits(m)
        BY <2>6
      <4>2. i \in sb..eb - 1
        BY <2>2
      <4>3. /\ i = m[1] * ByteBits + (i % ByteBits) /\ i % ByteBits \in Bits
            /\ m[1] \in Int /\ first[1] \in Int /\ first[1] <= m[1] /\ at \in Bits
        <5> HIDE DEF first, hits
        <5> QED BY <3>1, <4>1, <4>2, <2>3, <1>7, <1>8 DEF first
      <4>4. CASE first[1] = m[1]
        <5>1. first = m
          BY <1>3, <1>8, <3>1, <4>1, <4>4
        <5>2. at <= i % ByteBits
          BY <5>1, <4>1, <1>8, <3>1
        <5>3. first[1] * ByteBits \in Int /\ first[1] * ByteBits = m[1] * ByteBits
          BY <4>3, <4>4, NextByte
        <5> HIDE DEF first, at
        <5> QED BY <5>2, <5>3, <4>3, <1>1
      <4>5. CASE first[1] < m[1]
        <5> HIDE DEF first, at
        <5>1. first[1] * ByteBits + at < m[1] * ByteBits + (i % ByteBits)
          BY <4>3, <4>5, BitsInOrder
        <5>2. first[1] * ByteBits + at \in Int /\ i \in Int
          BY <4>2, <4>3, <1>1, <1>2, NextByte
        <5> QED BY <5>1, <5>2, <4>3
      <4> HIDE DEF first
      <4> QED BY <4>3, <4>4, <4>5
    <3>5. Least(right) \in right /\ \A i \in right : Least(right) <= i
      <4> HIDE DEF right
      <4> QED BY <2>7, <2>9, LeastIsLeast
    <3>6. first[1] * ByteBits + at = Least(right)
      <4> HIDE DEF right, first, at
      <4>1. Least(right) \in Nat /\ first[1] * ByteBits + at \in Nat
        BY <3>3, <3>5, <2>7
      <4>2. Least(right) <= first[1] * ByteBits + at
        BY <3>3, <3>5
      <4>3. first[1] * ByteBits + at <= Least(right)
        BY <3>4, <3>5
      <4> QED BY <4>1, <4>2, <4>3
    <3> HIDE DEF right, first, at, answer
    <3> QED BY <3>2, <3>6, <2>9
  <2> HIDE DEF right, answer
  <2> QED BY <2>8, <2>9
<1> QED BY <1>9, <1>10 DEF FindsRight


-----------------------------------------------------------------------------
(* Copies.                                                                 *)

\* A multiple of the word size.
Aligned(a) == \E q \in Int : a = q * WordSize

\* Words follow each other without a gap.
LEMMA NextWord ==
  ASSUME NEW b \in Int, NEW c \in Int
  PROVE  /\ b * WordSize \in Int /\ (b - c) * WordSize = b * WordSize - c * WordSize
         /\ b < c => b * WordSize + WordSize <= c * WordSize
         /\ b * WordSize < c * WordSize => b < c
         /\ (b - 1) * WordSize = b * WordSize - WordSize
<1>1. WordSize \in Nat \ {0}
  BY WordSizeAssumption
<1>2. ASSUME NEW p \in Int, NEW q \in Int, p < q PROVE p * WordSize + WordSize <= q * WordSize
  <2> DEFINE d == q - p - 1
  <2>1. d \in Nat /\ q = p + 1 + d
    BY <1>2
  <2> HIDE DEF d
  <2>2. q * WordSize = p * WordSize + WordSize + d * WordSize /\ d * WordSize >= 0
    BY <1>1, <2>1
  <2>3. p * WordSize \in Int /\ d * WordSize \in Int /\ q * WordSize \in Int
    BY <1>1, <2>1
  <2> QED BY <1>1, <2>2, <2>3
<1>3. b < c => b * WordSize + WordSize <= c * WordSize
  BY <1>2
<1>4. c < b => c * WordSize + WordSize <= b * WordSize
  BY <1>2
<1>5. b * WordSize \in Int /\ c * WordSize \in Int
  BY <1>1
<1>6. b = c => b * WordSize = c * WordSize
  OBVIOUS
<1>7. (b - 1) * WordSize = b * WordSize - WordSize /\ (b - c) * WordSize = b * WordSize - c * WordSize
  BY <1>1
<1> QED BY <1>1, <1>3, <1>4, <1>5, <1>6, <1>7

\* Two multiples lie a whole number of words apart.
LEMMA AlignedApart ==
  ASSUME NEW a, NEW b, Aligned(a), Aligned(b)
  PROVE  a \in Int /\ b \in Int /\ Aligned(a - b) /\ (a < b => a + WordSize <= b)
<1>1. PICK p \in Int : a = p * WordSize
  BY DEF Aligned
<1>2. PICK q \in Int : b = q * WordSize
  BY DEF Aligned
<1>3. a - b = (p - q) * WordSize /\ p - q \in Int
  BY <1>1, <1>2, NextWord
<1>4. a \in Int /\ b \in Int
  BY <1>1, <1>2, NextWord
<1>5. a < b => a + WordSize <= b
  BY <1>1, <1>2, NextWord
<1> QED BY <1>3, <1>4, <1>5 DEF Aligned

\* WordAlign goes up to the next multiple.
LEMMA WordAlignIsNext ==
  ASSUME NEW a \in Nat
  PROVE  /\ WordAlign(a) \in Nat /\ a <= WordAlign(a) /\ WordAlign(a) <= a + WordSize - 1
         /\ Aligned(WordAlign(a))
         /\ \A b : Aligned(b) /\ a <= b => WordAlign(a) <= b
<1> DEFINE u == a + WordSize - 1
           q == u \div WordSize
<1>1. u \in Nat /\ WordSize \in Nat \ {0}
  BY WordSizeAssumption
<1>2. WordAlign(a) = q * WordSize
  BY DEF WordAlign
<1>3. a = u - WordSize + 1
  BY <1>1
<1> HIDE DEF u
<1>4. q \in Nat /\ u = q * WordSize + (u % WordSize) /\ u % WordSize \in 0..WordSize - 1
  BY <1>1
<1> HIDE DEF q
<1>5. q * WordSize \in Nat
  BY <1>1, <1>4, NatProduct
<1>6. a <= WordAlign(a) /\ WordAlign(a) <= a + WordSize - 1
  BY <1>1, <1>2, <1>3, <1>4, <1>5
<1>7. ASSUME NEW b, Aligned(b), a <= b PROVE WordAlign(a) <= b
  <2>1. Aligned(WordAlign(a))
    BY <1>2, <1>4 DEF Aligned
  <2>2. b \in Int /\ (b < WordAlign(a) => b + WordSize <= WordAlign(a))
    BY <2>1, <1>7, AlignedApart
  <2> QED BY <2>2, <1>1, <1>2, <1>5, <1>6, <1>7
<1> QED BY <1>2, <1>4, <1>5, <1>6, <1>7 DEF Aligned

\* Memory: numbered places, from 0 on.
Places(top) == 0..top

\* What a copy of n places from s to d leaves.
CopiedTo(new, old, d, s, n) ==
  \A a \in DOMAIN old : new[a] = IF a \in d..d + n - 1 THEN old[s + a - d] ELSE old[a]

\* The loop of single bytes, turn by turn.
AreForward(after, mem, d, s, n) ==
  /\ after[0] = mem /\ ForwardBytes(mem, d, s, n) = after[n]
  /\ \A i \in 1..n : after[i] = [after[i - 1] EXCEPT ![d + i - 1] = after[i - 1][s + i - 1]]
LEMMA ForwardBytesTurns ==
  ASSUME NEW A, NEW V, NEW mem \in [A -> V], NEW d \in Nat, NEW s \in Nat, NEW n \in Nat,
         \A i \in 0..n - 1 : s + i \in A
  PROVE  \E after \in [0..n -> [A -> V]] : AreForward(after, mem, d, s, n)
<1> DEFINE g == [x \in (1..n) \X [A -> V] |-> [x[2] EXCEPT ![d + x[1] - 1] = x[2][s + x[1] - 1]]]
           Def(h) == h = [i \in 0..n |-> IF i = 0 THEN mem
                                         ELSE [h[i - 1] EXCEPT ![d + i - 1] = h[i - 1][s + i - 1]]]
<1>1. g \in [(1..n) \X [A -> V] -> [A -> V]]
  <2> SUFFICES ASSUME NEW x \in (1..n) \X [A -> V]
               PROVE  [x[2] EXCEPT ![d + x[1] - 1] = x[2][s + x[1] - 1]] \in [A -> V]
    OBVIOUS
  <2>1. x[1] \in 1..n /\ x[2] \in [A -> V] /\ s + x[1] - 1 = s + (x[1] - 1) /\ x[1] - 1 \in 0..n - 1
    OBVIOUS
  <2>2. x[2][s + x[1] - 1] \in V
    BY <2>1
  <2> QED BY <2>1, <2>2
<1>2. PICK k \in [0..n -> [A -> V]] : \A i \in 0..n : k[i] = IF i = 0 THEN mem ELSE g[<<i, k[i - 1]>>]
  <2>1. n \in Nat /\ mem \in [A -> V]
    OBVIOUS
  <2> HIDE DEF g
  <2>2. \E h \in [0..n -> [A -> V]] : AreTurns(h, n, mem, g)
    BY <2>1, <1>1, TurnsExist
  <2> QED BY <2>2 DEF AreTurns
<1>3. ASSUME NEW i \in 1..n PROVE k[i] = [k[i - 1] EXCEPT ![d + i - 1] = k[i - 1][s + i - 1]]
  <2>1. i - 1 \in 0..n /\ i # 0 /\ i \in 0..n
    OBVIOUS
  <2>2. k[i - 1] \in [A -> V] /\ <<i, k[i - 1]>> \in (1..n) \X [A -> V]
    BY <2>1
  <2>3. k[i] = g[<<i, k[i - 1]>>]
    <3> HIDE DEF g
    <3> QED BY <2>1, <1>2
  <2> QED BY <2>2, <2>3
<1>4. Def(k)
  <2>1. \A i \in 0..n : k[i] = IF i = 0 THEN mem
                               ELSE [k[i - 1] EXCEPT ![d + i - 1] = k[i - 1][s + i - 1]]
    <3> SUFFICES ASSUME NEW i \in 0..n
                 PROVE  k[i] = IF i = 0 THEN mem ELSE [k[i - 1] EXCEPT ![d + i - 1] = k[i - 1][s + i - 1]]
      OBVIOUS
    <3>1. CASE i = 0
      <4> HIDE DEF g
      <4> QED BY <3>1, <1>2
    <3>2. CASE i # 0
      <4>1. i \in 1..n
        BY <3>2
      <4> QED BY <4>1, <3>2, <1>3
    <3> QED BY <3>1, <3>2
  <2>2. k = [i \in 0..n |-> k[i]]
    OBVIOUS
  <2> HIDE DEF g
  <2> QED BY <2>1, <2>2
<1> DEFINE after == CHOOSE h : Def(h)
<1>5. ForwardBytes(mem, d, s, n) = after[n]
  BY DEF ForwardBytes
<1>6. Def(after)
  <2> HIDE DEF Def
  <2> QED BY <1>4
<1> HIDE DEF after
<1>7. after[0] = mem /\ \A i \in 1..n : after[i] = [after[i - 1] EXCEPT ![d + i - 1] = after[i - 1][s + i - 1]]
  <2>1. after[0] = mem
    BY <1>6
  <2>2. ASSUME NEW i \in 1..n PROVE after[i] = [after[i - 1] EXCEPT ![d + i - 1] = after[i - 1][s + i - 1]]
    <3>1. i \in 0..n /\ i # 0
      OBVIOUS
    <3> QED BY <3>1, <1>6
  <2> QED BY <2>1, <2>2
<1>8. \A i \in 0..n : after[i] \in [A -> V]
  <2> DEFINE S == {i \in 0..n : after[i] \in [A -> V]}
  <2>1. 0 \in S
    BY <1>7
  <2>2. ASSUME NEW i \in 0..n - 1, i \in S PROVE i + 1 \in S
    <3>1. after[i + 1] = [after[i] EXCEPT ![d + i] = after[i][s + i]]
      <4>1. i + 1 \in 1..n /\ (i + 1) - 1 = i /\ d + (i + 1) - 1 = d + i /\ s + (i + 1) - 1 = s + i
        OBVIOUS
      <4> QED BY <4>1, <1>7
    <3>2. after[i] \in [A -> V] /\ after[i][s + i] \in V
      BY <2>2
    <3>3. i + 1 \in 0..n
      OBVIOUS
    <3> QED BY <3>1, <3>2, <3>3
  <2> HIDE DEF S
  <2>3. \A i \in 0..n : i \in S
    BY <2>1, <2>2, Upwards
  <2> QED BY <2>3 DEF S
<1>9. after \in [0..n -> [A -> V]]
  BY <1>6, <1>8
<1> QED BY <1>5, <1>7, <1>9 DEF AreForward

\* Bytes copied forward: nothing else changes, and they arrive unless the copy starts
\* behind the start of the source and inside it.
LEMMA ForwardBytesCopy ==
  ASSUME NEW A, NEW V, NEW mem \in [A -> V], NEW d \in Nat, NEW s \in Nat, NEW n \in Nat,
         \A i \in 0..n - 1 : s + i \in A, A \subseteq Int
  PROVE  /\ ForwardBytes(mem, d, s, n) \in [A -> V]
         /\ \A a \in A : a \notin d..d + n - 1 => ForwardBytes(mem, d, s, n)[a] = mem[a]
         /\ d <= s \/ s + n <= d => CopiedTo(ForwardBytes(mem, d, s, n), mem, d, s, n)
<1>0. PICK after \in [0..n -> [A -> V]] : AreForward(after, mem, d, s, n)
  BY ForwardBytesTurns
<1>1. /\ after[0] = mem /\ ForwardBytes(mem, d, s, n) = after[n]
      /\ \A i \in 1..n : after[i] = [after[i - 1] EXCEPT ![d + i - 1] = after[i - 1][s + i - 1]]
  BY <1>0 DEF AreForward
<1>2. ASSUME NEW i \in 0..n - 1
      PROVE  /\ after[i] \in [A -> V] /\ after[i + 1] \in [A -> V] /\ i + 1 \in 0..n
             /\ \A a \in A : after[i + 1][a] = IF a = d + i THEN after[i][s + i] ELSE after[i][a]
  <2>1. i + 1 \in 1..n /\ (i + 1) - 1 = i /\ d + (i + 1) - 1 = d + i /\ s + (i + 1) - 1 = s + i
        /\ i \in 0..n /\ i + 1 \in 0..n
    OBVIOUS
  <2>2. after[i + 1] = [after[i] EXCEPT ![d + i] = after[i][s + i]]
    BY <2>1, <1>1
  <2> QED BY <2>1, <2>2
<1>3. \A i \in 0..n : \A a \in A : a \notin d..d + i - 1 => after[i][a] = mem[a]
  <2> DEFINE S == {i \in 0..n : \A a \in A : a \notin d..d + i - 1 => after[i][a] = mem[a]}
  <2>1. 0 \in S
    BY <1>1
  <2>2. ASSUME NEW i \in 0..n - 1, i \in S PROVE i + 1 \in S
    <3>1. ASSUME NEW a \in A, a \notin d..d + (i + 1) - 1 PROVE after[i + 1][a] = mem[a]
      BY <1>2, <2>2, <3>1
    <3> QED BY <3>1, <1>2
  <2> HIDE DEF S
  <2>3. \A i \in 0..n : i \in S
    BY <2>1, <2>2, Upwards
  <2> QED BY <2>3 DEF S
<1>4. ASSUME d <= s \/ s + n <= d
      PROVE  \A i \in 0..n : \A a \in A : a \in d..d + i - 1 => after[i][a] = mem[s + a - d]
  <2> DEFINE S == {i \in 0..n : \A a \in A : a \in d..d + i - 1 => after[i][a] = mem[s + a - d]}
  <2>1. 0 \in S
    OBVIOUS
  <2>2. ASSUME NEW i \in 0..n - 1, i \in S PROVE i + 1 \in S
    <3>1. ASSUME NEW a \in A, a \in d..d + (i + 1) - 1 PROVE after[i + 1][a] = mem[s + a - d]
      <4>1. CASE a = d + i
        <5>1. s + i \notin d..d + i - 1 /\ s + a - d = s + i /\ s + i \in A
          BY <1>4, <4>1
        <5>2. after[i][s + i] = mem[s + i]
          BY <1>3, <5>1
        <5> QED BY <1>2, <4>1, <5>1, <5>2
      <4>2. CASE a # d + i
        <5>1. a \in d..d + i - 1
          BY <3>1, <4>2
        <5> QED BY <5>1, <1>2, <2>2, <4>2
      <4> QED BY <4>1, <4>2
    <3> QED BY <3>1, <1>2
  <2> HIDE DEF S
  <2>3. \A i \in 0..n : i \in S
    BY <2>1, <2>2, Upwards
  <2> QED BY <2>3 DEF S
<1>5. n \in 0..n /\ after[n] \in [A -> V] /\ DOMAIN mem = A
  OBVIOUS
<1> QED BY <1>1, <1>3, <1>4, <1>5 DEF CopiedTo

\* The loop from the end, turn by turn.
AreBackward(after, mem, d, s, n) ==
  /\ after[0] = mem /\ BackwardBytes(mem, d, s, n) = after[n]
  /\ \A i \in 1..n : after[i] = [after[i - 1] EXCEPT ![d + n - i] = after[i - 1][s + n - i]]
LEMMA BackwardBytesTurns ==
  ASSUME NEW A, NEW V, NEW mem \in [A -> V], NEW d \in Nat, NEW s \in Nat, NEW n \in Nat,
         \A i \in 0..n - 1 : s + i \in A
  PROVE  \E after \in [0..n -> [A -> V]] : AreBackward(after, mem, d, s, n)
<1> DEFINE g == [x \in (1..n) \X [A -> V] |-> [x[2] EXCEPT ![d + n - x[1]] = x[2][s + n - x[1]]]]
           Def(h) == h = [i \in 0..n |-> IF i = 0 THEN mem
                                         ELSE [h[i - 1] EXCEPT ![d + n - i] = h[i - 1][s + n - i]]]
<1>1. g \in [(1..n) \X [A -> V] -> [A -> V]]
  <2> SUFFICES ASSUME NEW x \in (1..n) \X [A -> V]
               PROVE  [x[2] EXCEPT ![d + n - x[1]] = x[2][s + n - x[1]]] \in [A -> V]
    OBVIOUS
  <2>1. x[1] \in 1..n /\ x[2] \in [A -> V] /\ s + n - x[1] = s + (n - x[1]) /\ n - x[1] \in 0..n - 1
    OBVIOUS
  <2>2. x[2][s + n - x[1]] \in V
    BY <2>1
  <2> QED BY <2>1, <2>2
<1>2. PICK k \in [0..n -> [A -> V]] : \A i \in 0..n : k[i] = IF i = 0 THEN mem ELSE g[<<i, k[i - 1]>>]
  <2>1. n \in Nat /\ mem \in [A -> V]
    OBVIOUS
  <2> HIDE DEF g
  <2>2. \E h \in [0..n -> [A -> V]] : AreTurns(h, n, mem, g)
    BY <2>1, <1>1, TurnsExist
  <2> QED BY <2>2 DEF AreTurns
<1>3. ASSUME NEW i \in 1..n PROVE k[i] = [k[i - 1] EXCEPT ![d + n - i] = k[i - 1][s + n - i]]
  <2>1. i - 1 \in 0..n /\ i # 0 /\ i \in 0..n
    OBVIOUS
  <2>2. k[i - 1] \in [A -> V] /\ <<i, k[i - 1]>> \in (1..n) \X [A -> V]
    BY <2>1
  <2>3. k[i] = g[<<i, k[i - 1]>>]
    <3> HIDE DEF g
    <3> QED BY <2>1, <1>2
  <2> QED BY <2>2, <2>3
<1>4. Def(k)
  <2>1. \A i \in 0..n : k[i] = IF i = 0 THEN mem
                               ELSE [k[i - 1] EXCEPT ![d + n - i] = k[i - 1][s + n - i]]
    <3> SUFFICES ASSUME NEW i \in 0..n
                 PROVE  k[i] = IF i = 0 THEN mem ELSE [k[i - 1] EXCEPT ![d + n - i] = k[i - 1][s + n - i]]
      OBVIOUS
    <3>1. CASE i = 0
      <4> HIDE DEF g
      <4> QED BY <3>1, <1>2
    <3>2. CASE i # 0
      <4>1. i \in 1..n
        BY <3>2
      <4> QED BY <4>1, <3>2, <1>3
    <3> QED BY <3>1, <3>2
  <2>2. k = [i \in 0..n |-> k[i]]
    OBVIOUS
  <2> HIDE DEF g
  <2> QED BY <2>1, <2>2
<1> DEFINE after == CHOOSE h : Def(h)
<1>5. BackwardBytes(mem, d, s, n) = after[n]
  BY DEF BackwardBytes
<1>6. Def(after)
  <2> HIDE DEF Def
  <2> QED BY <1>4
<1> HIDE DEF after
<1>7. after[0] = mem /\ \A i \in 1..n : after[i] = [after[i - 1] EXCEPT ![d + n - i] = after[i - 1][s + n - i]]
  <2>1. after[0] = mem
    BY <1>6
  <2>2. ASSUME NEW i \in 1..n PROVE after[i] = [after[i - 1] EXCEPT ![d + n - i] = after[i - 1][s + n - i]]
    <3>1. i \in 0..n /\ i # 0
      OBVIOUS
    <3> QED BY <3>1, <1>6
  <2> QED BY <2>1, <2>2
<1>8. \A i \in 0..n : after[i] \in [A -> V]
  <2> DEFINE S == {i \in 0..n : after[i] \in [A -> V]}
  <2>1. 0 \in S
    BY <1>7
  <2>2. ASSUME NEW i \in 0..n - 1, i \in S PROVE i + 1 \in S
    <3> DEFINE j == n - (i + 1)
    <3>0. j \in 0..n - 1 /\ d + n - (i + 1) = d + j /\ s + n - (i + 1) = s + j
      OBVIOUS
    <3> HIDE DEF j
    <3>1. after[i + 1] = [after[i] EXCEPT ![d + j] = after[i][s + j]]
      <4>1. i + 1 \in 1..n /\ (i + 1) - 1 = i
        OBVIOUS
      <4> QED BY <4>1, <3>0, <1>7
    <3>2. after[i] \in [A -> V] /\ after[i][s + j] \in V
      BY <2>2, <3>0
    <3>3. i + 1 \in 0..n
      OBVIOUS
    <3> QED BY <3>1, <3>2, <3>3
  <2> HIDE DEF S
  <2>3. \A i \in 0..n : i \in S
    BY <2>1, <2>2, Upwards
  <2> QED BY <2>3 DEF S
<1>9. after \in [0..n -> [A -> V]]
  BY <1>6, <1>8
<1> QED BY <1>5, <1>7, <1>9 DEF AreBackward

\* Bytes copied from the end arrive when the copy starts behind the start of the source.
LEMMA BackwardBytesCopy ==
  ASSUME NEW A, NEW V, NEW mem \in [A -> V], NEW d \in Nat, NEW s \in Nat, NEW n \in Nat,
         \A i \in 0..n - 1 : s + i \in A, A \subseteq Int, s <= d
  PROVE  CopiedTo(BackwardBytes(mem, d, s, n), mem, d, s, n)
<1>0. PICK after \in [0..n -> [A -> V]] : AreBackward(after, mem, d, s, n)
  BY BackwardBytesTurns
<1>1. /\ after[0] = mem /\ BackwardBytes(mem, d, s, n) = after[n]
      /\ \A i \in 1..n : after[i] = [after[i - 1] EXCEPT ![d + n - i] = after[i - 1][s + n - i]]
  BY <1>0 DEF AreBackward
<1> DEFINE Part(i, a) == after[i][a] = IF a \in d + n - i..d + n - 1 THEN mem[s + a - d] ELSE mem[a]
           S == {i \in 0..n : \A a \in A : Part(i, a)}
<1>2. 0 \in S
  BY <1>1
<1>3. ASSUME NEW i \in 0..n - 1, i \in S PROVE i + 1 \in S
  <2> DEFINE j == n - (i + 1)
  <2>1. j \in 0..n - 1 /\ d + n - (i + 1) = d + j /\ s + n - (i + 1) = s + j /\ s + j \in A
        /\ d + n - i = d + j + 1
    <3>1. j \in 0..n - 1 /\ d + n - (i + 1) = d + j /\ s + n - (i + 1) = s + j /\ d + n - i = d + j + 1
      OBVIOUS
    <3> HIDE DEF j
    <3>2. s + j \in A
      BY <3>1
    <3> QED BY <3>1, <3>2
  <2> HIDE DEF j
  <2>2. after[i + 1] = [after[i] EXCEPT ![d + j] = after[i][s + j]]
    <3>1. i + 1 \in 1..n /\ (i + 1) - 1 = i
      OBVIOUS
    <3> QED BY <3>1, <2>1, <1>1
  <2>3. after[i] \in [A -> V] /\ i + 1 \in 0..n
    OBVIOUS
  <2>4. after[i][s + j] = mem[s + j]
    <3>1. Part(i, s + j)
      BY <1>3, <2>1
    <3>2. s + j \notin d + n - i..d + n - 1
      BY <2>1
    <3> QED BY <3>1, <3>2
  <2>5. ASSUME NEW a \in A PROVE Part(i + 1, a)
    <3>1. CASE a = d + j
      <4>1. after[i + 1][a] = mem[s + j] /\ s + a - d = s + j
        BY <3>1, <2>1, <2>2, <2>3, <2>4
      <4>2. a \in d + n - (i + 1)..d + n - 1
        BY <3>1, <2>1
      <4> QED BY <4>1, <4>2
    <3>2. CASE a # d + j
      <4>1. after[i + 1][a] = after[i][a]
        BY <3>2, <2>2, <2>3
      <4>2. a \in d + n - (i + 1)..d + n - 1 <=> a \in d + n - i..d + n - 1
        BY <3>2, <2>1
      <4>3. Part(i, a)
        BY <1>3
      <4> QED BY <4>1, <4>2, <4>3
    <3> QED BY <3>1, <3>2
  <2> HIDE DEF Part
  <2> QED BY <2>3, <2>5
<1> HIDE DEF S
<1>4. n \in S
  <2>1. \A i \in 0..n : i \in S
    BY <1>2, <1>3, Upwards
  <2> QED BY <2>1
<1>5. \A a \in A : Part(n, a)
  <2> HIDE DEF Part
  <2> QED BY <1>4 DEF S
<1>6. d + n - n = d /\ DOMAIN mem = A
  OBVIOUS
<1> QED BY <1>1, <1>5, <1>6 DEF CopiedTo

\* The loop of words, turn by turn.
AreWords(after, mem, d, s, n) ==
  /\ after[0] = mem /\ ForwardWords(mem, d, s, n) = after[n]
  /\ \A i \in 1..n :
       after[i] = [a \in DOMAIN mem |->
                     IF a \in d + (i - 1) * WordSize..d + (i - 1) * WordSize + WordSize - 1
                     THEN after[i - 1][s + (i - 1) * WordSize + a - (d + (i - 1) * WordSize)]
                     ELSE after[i - 1][a]]
LEMMA ForwardWordsTurns ==
  ASSUME NEW A, NEW V, NEW mem \in [A -> V], NEW d \in Nat, NEW s \in Nat, NEW n \in Nat,
         \A i \in 0..n * WordSize - 1 : s + i \in A, A \subseteq Int
  PROVE  \E after \in [0..n -> [A -> V]] : AreWords(after, mem, d, s, n)
<1> DEFINE to(i)   == d + (i - 1) * WordSize
           from(i) == s + (i - 1) * WordSize
           Turn(m, i) == [a \in A |-> IF a \in to(i)..to(i) + WordSize - 1 THEN m[from(i) + a - to(i)] ELSE m[a]]
           g == [x \in (1..n) \X [A -> V] |-> Turn(x[2], x[1])]
           Def(h) == h = [i \in 0..n |-> IF i = 0 THEN mem ELSE Turn(h[i - 1], i)]
<1>0. WordSize \in Nat \ {0} /\ DOMAIN mem = A
  BY WordSizeAssumption
<1>1. ASSUME NEW m \in [A -> V], NEW i \in 1..n PROVE Turn(m, i) \in [A -> V]
  <2> SUFFICES ASSUME NEW a \in A, a \in to(i)..to(i) + WordSize - 1 PROVE m[from(i) + a - to(i)] \in V
    OBVIOUS
  <2>1. (i - 1) * WordSize \in Int /\ n * WordSize \in Int /\ (i - 1) * WordSize + WordSize <= n * WordSize
        /\ 0 * WordSize <= (i - 1) * WordSize
    <3>1. i - 1 \in Int /\ n \in Int /\ i - 1 < n /\ 0 <= i - 1 /\ 0 \in Int
      OBVIOUS
    <3> QED BY <3>1, <1>0, NextWord
  <2> DEFINE k == (i - 1) * WordSize + (a - to(i))
  <2>2. a - to(i) \in 0..WordSize - 1 /\ a \in Int
    BY <2>1, <1>0
  <2>3. k \in 0..n * WordSize - 1
    BY <2>1, <2>2, <1>0
  <2>4. from(i) + a - to(i) = s + k
    BY <2>1, <2>2
  <2> HIDE DEF k, from, to
  <2> QED BY <2>3, <2>4
<1>2. g \in [(1..n) \X [A -> V] -> [A -> V]]
  <2> HIDE DEF Turn
  <2> QED BY <1>1
<1>3. PICK k \in [0..n -> [A -> V]] : \A i \in 0..n : k[i] = IF i = 0 THEN mem ELSE g[<<i, k[i - 1]>>]
  <2>1. n \in Nat /\ mem \in [A -> V]
    OBVIOUS
  <2> HIDE DEF g
  <2>2. \E h \in [0..n -> [A -> V]] : AreTurns(h, n, mem, g)
    BY <2>1, <1>2, TurnsExist
  <2> QED BY <2>2 DEF AreTurns
<1> HIDE DEF Turn
<1>4. ASSUME NEW i \in 1..n PROVE k[i] = Turn(k[i - 1], i)
  <2>1. i - 1 \in 0..n /\ i # 0 /\ i \in 0..n
    OBVIOUS
  <2>2. k[i - 1] \in [A -> V] /\ <<i, k[i - 1]>> \in (1..n) \X [A -> V]
    BY <2>1
  <2>3. k[i] = g[<<i, k[i - 1]>>]
    <3> HIDE DEF g
    <3> QED BY <2>1, <1>3
  <2> QED BY <2>2, <2>3
<1>5. Def(k)
  <2>1. \A i \in 0..n : k[i] = IF i = 0 THEN mem ELSE Turn(k[i - 1], i)
    <3> SUFFICES ASSUME NEW i \in 0..n PROVE k[i] = IF i = 0 THEN mem ELSE Turn(k[i - 1], i)
      OBVIOUS
    <3>1. CASE i = 0
      <4> HIDE DEF g
      <4> QED BY <3>1, <1>3
    <3>2. CASE i # 0
      <4>1. i \in 1..n
        BY <3>2
      <4> QED BY <4>1, <3>2, <1>4
    <3> QED BY <3>1, <3>2
  <2>2. k = [i \in 0..n |-> k[i]]
    OBVIOUS
  <2> HIDE DEF g
  <2> QED BY <2>1, <2>2
<1> DEFINE after == CHOOSE h : Def(h)
<1>6. ForwardWords(mem, d, s, n) = after[n]
  BY <1>0 DEF ForwardWords, Turn
<1>7. Def(after)
  <2> HIDE DEF Def
  <2> QED BY <1>5
<1> HIDE DEF after
<1>8. after[0] = mem /\ \A i \in 1..n : after[i] = Turn(after[i - 1], i)
  <2>1. after[0] = mem
    BY <1>7
  <2>2. ASSUME NEW i \in 1..n PROVE after[i] = Turn(after[i - 1], i)
    <3>1. i \in 0..n /\ i # 0
      OBVIOUS
    <3> QED BY <3>1, <1>7
  <2> QED BY <2>1, <2>2
<1>9. \A i \in 0..n : after[i] \in [A -> V]
  <2> DEFINE S == {i \in 0..n : after[i] \in [A -> V]}
  <2>1. 0 \in S
    BY <1>8
  <2>2. ASSUME NEW i \in 0..n - 1, i \in S PROVE i + 1 \in S
    <3>1. i + 1 \in 1..n /\ (i + 1) - 1 = i /\ i + 1 \in 0..n
      OBVIOUS
    <3>2. after[i + 1] = Turn(after[i], i + 1)
      BY <3>1, <1>8
    <3>3. after[i] \in [A -> V]
      BY <2>2
    <3>4. Turn(after[i], i + 1) \in [A -> V]
      BY <3>1, <3>3, <1>1
    <3> QED BY <3>1, <3>2, <3>4
  <2> HIDE DEF S
  <2>3. \A i \in 0..n : i \in S
    BY <2>1, <2>2, Upwards
  <2> QED BY <2>3 DEF S
<1>10. after \in [0..n -> [A -> V]]
  BY <1>7, <1>9
<1> QED BY <1>0, <1>6, <1>8, <1>10 DEF AreWords, Turn

\* Words copied forward: nothing else changes, and they arrive unless the copy starts
\* inside the source or nearer to it than a word.
LEMMA ForwardWordsCopy ==
  ASSUME NEW A, NEW V, NEW mem \in [A -> V], NEW d \in Nat, NEW s \in Nat, NEW n \in Nat,
         \A i \in 0..n * WordSize - 1 : s + i \in A, A \subseteq Int
  PROVE  /\ ForwardWords(mem, d, s, n) \in [A -> V]
         /\ \A a \in A : a \notin d..d + n * WordSize - 1 => ForwardWords(mem, d, s, n)[a] = mem[a]
         /\ d + WordSize <= s \/ s + n * WordSize <= d =>
              CopiedTo(ForwardWords(mem, d, s, n), mem, d, s, n * WordSize)
<1>0. PICK after \in [0..n -> [A -> V]] : AreWords(after, mem, d, s, n)
  BY ForwardWordsTurns
<1>1. /\ after[0] = mem /\ ForwardWords(mem, d, s, n) = after[n]
      /\ \A i \in 1..n :
           after[i] = [a \in DOMAIN mem |->
                         IF a \in d + (i - 1) * WordSize..d + (i - 1) * WordSize + WordSize - 1
                         THEN after[i - 1][s + (i - 1) * WordSize + a - (d + (i - 1) * WordSize)]
                         ELSE after[i - 1][a]]
  BY <1>0 DEF AreWords
<1>2. WordSize \in Nat \ {0} /\ DOMAIN mem = A /\ 0 * WordSize = 0
  BY WordSizeAssumption
<1>3. ASSUME NEW i \in 0..n - 1
      PROVE  /\ after[i] \in [A -> V] /\ i + 1 \in 0..n /\ i \in 0..n
             /\ i * WordSize \in Nat /\ n * WordSize \in Nat
             /\ (i + 1) * WordSize = i * WordSize + WordSize /\ i * WordSize + WordSize <= n * WordSize
             /\ \A a \in A :
                  after[i + 1][a] = IF a \in d + i * WordSize..d + i * WordSize + WordSize - 1
                                    THEN after[i][s + i * WordSize + a - (d + i * WordSize)] ELSE after[i][a]
  <2>1. i + 1 \in 1..n /\ (i + 1) - 1 = i /\ i \in 0..n /\ i + 1 \in 0..n /\ i \in Nat
    OBVIOUS
  <2>2. after[i + 1] = [a \in A |-> IF a \in d + i * WordSize..d + i * WordSize + WordSize - 1
                                    THEN after[i][s + i * WordSize + a - (d + i * WordSize)] ELSE after[i][a]]
    BY <2>1, <1>1, <1>2
  <2>3. i * WordSize \in Nat /\ n * WordSize \in Nat
    BY <2>1, <1>2, NatProduct
  <2>4. (i + 1) * WordSize = i * WordSize + WordSize /\ i * WordSize + WordSize <= n * WordSize
    <3>1. i < n /\ i \in Int /\ n \in Int /\ i + 1 \in Int
      OBVIOUS
    <3>2. (i + 1) * WordSize = i * WordSize + WordSize
      BY <3>1, <1>2
    <3>3. i * WordSize + WordSize <= n * WordSize
      BY <3>1, NextWord
    <3> QED BY <3>2, <3>3
  <2> QED BY <2>1, <2>2, <2>3, <2>4
<1>4. \A i \in 0..n : \A a \in A : a \notin d..d + i * WordSize - 1 => after[i][a] = mem[a]
  <2> DEFINE S == {i \in 0..n : \A a \in A : a \notin d..d + i * WordSize - 1 => after[i][a] = mem[a]}
  <2>1. 0 \in S
    BY <1>1
  <2>2. ASSUME NEW i \in 0..n - 1, i \in S PROVE i + 1 \in S
    <3>1. ASSUME NEW a \in A, a \notin d..d + (i + 1) * WordSize - 1 PROVE after[i + 1][a] = mem[a]
      <4> DEFINE w == i * WordSize
      <4>1. a \in Int /\ w \in Nat /\ (i + 1) * WordSize = w + WordSize
        BY <1>3
      <4>2. after[i + 1][a] = IF a \in d + w..d + w + WordSize - 1
                              THEN after[i][s + w + a - (d + w)] ELSE after[i][a]
        BY <1>3
      <4>3. a \notin d..d + w - 1 => after[i][a] = mem[a]
        BY <2>2
      <4> HIDE DEF w
      <4>4. a \notin d..d + w - 1 /\ a \notin d + w..d + w + WordSize - 1
        BY <4>1, <3>1, <1>2
      <4> QED BY <4>2, <4>3, <4>4
    <3> QED BY <3>1, <1>3
  <2> HIDE DEF S
  <2>3. \A i \in 0..n : i \in S
    BY <2>1, <2>2, Upwards
  <2> QED BY <2>3 DEF S
<1>5. ASSUME d + WordSize <= s \/ s + n * WordSize <= d
      PROVE  \A i \in 0..n : \A a \in A : a \in d..d + i * WordSize - 1 => after[i][a] = mem[s + a - d]
  <2> DEFINE S == {i \in 0..n : \A a \in A : a \in d..d + i * WordSize - 1 => after[i][a] = mem[s + a - d]}
  <2>1. 0 \in S
    BY <1>2
  <2>2. ASSUME NEW i \in 0..n - 1, i \in S PROVE i + 1 \in S
    <3>1. ASSUME NEW a \in A, a \in d..d + (i + 1) * WordSize - 1 PROVE after[i + 1][a] = mem[s + a - d]
      <4> DEFINE w == i * WordSize
      <4>1. a \in Int /\ w \in Nat /\ (i + 1) * WordSize = w + WordSize /\ n * WordSize \in Nat
            /\ w + WordSize <= n * WordSize /\ i \in 0..n
        BY <1>3
      <4>2. after[i + 1][a] = IF a \in d + w..d + w + WordSize - 1
                              THEN after[i][s + w + a - (d + w)] ELSE after[i][a]
        BY <1>3
      <4>3. a \in d..d + w - 1 => after[i][a] = mem[s + a - d]
        BY <2>2
      <4>4. \A b \in A : b \notin d..d + w - 1 => after[i][b] = mem[b]
        BY <4>1, <1>4
      <4> DEFINE bytes == n * WordSize
      <4>5. d + WordSize <= s \/ s + bytes <= d
        BY <1>5
      <4>6. \A k \in 0..bytes - 1 : s + k \in A
        OBVIOUS
      <4> HIDE DEF w, bytes
      <4>7. CASE a \in d + w..d + w + WordSize - 1
        <5>1. s + w + a - (d + w) = s + a - d /\ a - d \in 0..bytes - 1 /\ s + a - d = s + (a - d)
          BY <4>1, <4>7, <1>2 DEF bytes
        <5>2. s + a - d \in A
          BY <5>1, <4>6
        <5>3. s + a - d \notin d..d + w - 1
          <6>1. bytes \in Nat
            BY <4>1 DEF bytes
          <6>2. a - d >= w /\ a \in Int
            BY <4>1, <4>7, <1>2
          <6> QED BY <6>1, <6>2, <5>1, <4>1, <4>5, <1>2
        <5> QED BY <5>1, <5>2, <5>3, <4>2, <4>4, <4>7
      <4>8. CASE a \notin d + w..d + w + WordSize - 1
        <5>1. a \in d..d + w - 1
          BY <4>1, <4>8, <3>1, <1>2
        <5> QED BY <5>1, <4>2, <4>3, <4>8
      <4> QED BY <4>7, <4>8
    <3> QED BY <3>1, <1>3
  <2> HIDE DEF S
  <2>3. \A i \in 0..n : i \in S
    BY <2>1, <2>2, Upwards
  <2> QED BY <2>3 DEF S
<1>6. n \in 0..n /\ after[n] \in [A -> V]
  OBVIOUS
<1> QED BY <1>1, <1>2, <1>4, <1>5, <1>6 DEF CopiedTo


\* How far the second loop gets: to the word boundary behind its last byte, or nowhere.
LEMMA WordsCopied ==
  ASSUME NEW d, NEW end, NEW rest \in Nat
  PROVE  /\ Words(d, end, rest) \in Nat
         /\ Words(d, end, rest) * WordSize
              = IF rest > 0 /\ d < end THEN WordAlign(rest) ELSE 0
<1>1. WordSize \in Nat \ {0} /\ rest + WordSize - 1 \in Nat
  BY WordSizeAssumption
<1>2. (rest + WordSize - 1) \div WordSize \in Nat
  BY <1>1
<1>3. 0 * WordSize = 0
  BY <1>1
<1> QED BY <1>2, <1>3 DEF Words, WordAlign

\* A copy of n bytes from s to d, in a memory with the places A that hold values of V.
IsCopy(new, old, A, V, d, s, n) ==
  /\ new \in [A -> V]
  /\ \A a \in A : a \notin d..d + n - 1 => new[a] = old[a]
  /\ d <= s \/ s + n <= d => CopiedTo(new, old, d, s, n)
Reads(A, s, n) == \A i \in 0..n - 1 : s + i \in A
LEMMA ForwardBytesIsCopy ==
  ASSUME NEW A, A \subseteq Int, NEW V, NEW mem \in [A -> V], NEW d \in Nat, NEW s \in Nat, NEW n \in Nat,
         Reads(A, s, n)
  PROVE  IsCopy(ForwardBytes(mem, d, s, n), mem, A, V, d, s, n)
<1>1. \A i \in 0..n - 1 : s + i \in A
  BY DEF Reads
<1> QED BY <1>1, ForwardBytesCopy DEF IsCopy

\* The same of a copy of words, which needs a word more of room.
AreWordsCopied(new, old, A, V, d, s, n) ==
  /\ new \in [A -> V]
  /\ \A a \in A : a \notin d..d + n * WordSize - 1 => new[a] = old[a]
  /\ d + WordSize <= s \/ s + n * WordSize <= d => CopiedTo(new, old, d, s, n * WordSize)
LEMMA ForwardWordsIsCopy ==
  ASSUME NEW A, A \subseteq Int, NEW V, NEW mem \in [A -> V], NEW d \in Nat, NEW s \in Nat, NEW n \in Nat,
         Reads(A, s, n * WordSize)
  PROVE  AreWordsCopied(ForwardWords(mem, d, s, n), mem, A, V, d, s, n)
<1>1. \A i \in 0..n * WordSize - 1 : s + i \in A
  BY DEF Reads
<1> QED BY <1>1, ForwardWordsCopy DEF AreWordsCopied

\* memcpy changes nothing before its first byte and behind the word of its last, and the
\* bytes arrive if the copy does not start inside the source.
LEMMA MemcpyIsRight ==
  ASSUME NEW top \in Nat, NEW mem \in [Places(top) -> Places(top)], NEW d0 \in Nat, NEW s0 \in Nat, NEW n \in Nat,
         s0 + n + WordSize <= top
  PROVE  /\ \A a \in Places(top) : a \notin d0..WordAlign(d0 + n) - 1 => Memcpy(mem, d0, s0, n)[a] = mem[a]
         /\ NotInside(d0, s0, n) =>
              \A i \in 0..n - 1 : d0 + i \in Places(top) => Memcpy(mem, d0, s0, n)[d0 + i] = mem[s0 + i]
<1> DEFINE A == Places(top)
           head  == IF n < WordAlign(d0) - d0 THEN n ELSE WordAlign(d0) - d0
           first == ForwardBytes(mem, d0, s0, head)
           d     == d0 + head
           s     == s0 + head
           end   == WordAlignDown(d0 + n)
           left  == n - head
           words == Words(d, end, left)
           k     == words * WordSize
           body  == ForwardWords(first, WordAlign(d0), s, words)
           lim   == WordAlign(d0 + n)
           result == Memcpy(mem, d0, s0, n)
           Frame(m) == \A a \in A : a \notin d0..lim - 1 => m[a] = mem[a]
           Moved(m) == \A i \in 0..n - 1 : d0 + i \in A => m[d0 + i] = mem[s0 + i]
<1>1. WordSize \in Nat \ {0} /\ A = 0..top /\ A \subseteq Int
  BY WordSizeAssumption DEF Places
<1>2. /\ WordAlign(d0) \in Nat /\ d0 <= WordAlign(d0) /\ WordAlign(d0) <= d0 + WordSize - 1
      /\ Aligned(WordAlign(d0))
  BY WordAlignIsNext
<1>3. /\ lim \in Nat /\ d0 + n <= lim /\ Aligned(lim) /\ lim <= d0 + n + WordSize - 1
  <2>1. d0 + n \in Nat
    OBVIOUS
  <2> QED BY <2>1, WordAlignIsNext
<1>4. /\ head \in 0..n /\ left \in Nat /\ d \in Nat /\ s \in Nat /\ d + left = d0 + n /\ s + left = s0 + n
      /\ left > 0 => d = WordAlign(d0)
      /\ d <= WordAlign(d0)
  BY <1>2
<1>5. /\ words \in Nat /\ k = IF left > 0 /\ d < end THEN WordAlign(left) ELSE 0
  <2> HIDE DEF left, d, end
  <2> QED BY <1>4, WordsCopied
<1>6. /\ WordAlign(left) \in Nat /\ left <= WordAlign(left) /\ WordAlign(left) <= left + WordSize - 1
      /\ Aligned(WordAlign(left)) /\ \A b : Aligned(b) /\ left <= b => WordAlign(left) <= b
  <2> HIDE DEF left
  <2> QED BY <1>4, WordAlignIsNext
<1>7. result = IF s % WordSize # 0 THEN ForwardBytes(first, d, s, left)
               ELSE IF left - k > 0 THEN ForwardBytes(body, WordAlign(d0) + k, s + k, left - k) ELSE body
  BY DEF Memcpy
<1> HIDE DEF left, words, k, lim, result
<1>8. /\ first \in [A -> A]
      /\ \A a \in A : a \notin d0..d - 1 => first[a] = mem[a]
      /\ d0 <= s0 \/ s0 + head <= d0 => CopiedTo(first, mem, d0, s0, head)
  <2>0. mem \in [A -> A] /\ A \subseteq Int /\ A = 0..top /\ WordSize \in Nat
    BY <1>1
  <2>1. head \in 0..n /\ head \in Nat /\ d = d0 + head
    BY <1>4
  <2> HIDE DEF head, A, d
  <2>2. Reads(A, s0, head)
    BY <2>0, <2>1 DEF Reads
  <2>3. IsCopy(ForwardBytes(mem, d0, s0, head), mem, A, A, d0, s0, head)
    BY <2>0, <2>1, <2>2, ForwardBytesIsCopy
  <2>4. IsCopy(first, mem, A, A, d0, s0, head)
    BY <2>3
  <2> HIDE DEF first
  <2> QED BY <2>1, <2>4 DEF IsCopy
<1> HIDE DEF head, first, A
\* Where the first loop has been, and what the next one reads.
<1>9. DOMAIN first = A /\ DOMAIN mem = A /\ mem \in [A -> A]
  BY <1>8 DEF A
<1>10. ASSUME NotInside(d0, s0, n), n > 0
       PROVE  /\ \A i \in 0..head - 1 : d0 + i \in A => first[d0 + i] = mem[s0 + i]
              /\ \A i \in head..n - 1 : first[s0 + i] = mem[s0 + i]
              /\ d0 < s0 \/ s0 + n <= d0
  <2>1. d0 < s0 \/ s0 + n <= d0
    BY <1>10 DEF NotInside
  <2>2. CopiedTo(first, mem, d0, s0, head)
    BY <2>1, <1>4, <1>8
  <2>3. ASSUME NEW i \in 0..head - 1, d0 + i \in A PROVE first[d0 + i] = mem[s0 + i]
    <3>1. d0 + i \in d0..d0 + head - 1 /\ s0 + (d0 + i) - d0 = s0 + i
      BY <1>4
    <3> QED BY <3>1, <2>2, <2>3, <1>9 DEF CopiedTo
  <2>4. ASSUME NEW i \in head..n - 1 PROVE first[s0 + i] = mem[s0 + i]
    <3>1. s0 + i \in A /\ s0 + i \notin d0..d - 1
      BY <1>1, <1>4, <2>1
    <3> QED BY <3>1, <1>8
  <2> QED BY <2>1, <2>3, <2>4
\* The rest byte by byte, from the first or from where the words end.
<1>11. CASE s % WordSize # 0
  <2>1. result = ForwardBytes(first, d, s, left)
    BY <1>7, <1>11
  <2>2. \A i \in 0..left - 1 : s + i \in A
    BY <1>1, <1>4
  <2>3. /\ \A a \in A : a \notin d..d + left - 1 => result[a] = first[a]
        /\ d <= s \/ s + left <= d => CopiedTo(result, first, d, s, left)
    <3>1. Reads(A, s, left) /\ left \in Nat /\ d \in Nat /\ s \in Nat /\ first \in [A -> A] /\ A \subseteq Int
      BY <2>2, <1>1, <1>4, <1>8 DEF Reads
    <3> HIDE DEF d, s
    <3>2. IsCopy(ForwardBytes(first, d, s, left), first, A, A, d, s, left)
      BY <3>1, ForwardBytesIsCopy
    <3> QED BY <2>1, <3>2 DEF IsCopy
  <2>4. Frame(result)
    <3> SUFFICES ASSUME NEW a \in A, a \notin d0..lim - 1 PROVE result[a] = mem[a]
      OBVIOUS
    <3>1. a \notin d0..d - 1 /\ a \notin d..d + left - 1
      BY <1>1, <1>3, <1>4
    <3> QED BY <3>1, <2>3, <1>8
  <2>5. ASSUME NotInside(d0, s0, n), n > 0 PROVE Moved(result)
    <3> SUFFICES ASSUME NEW i \in 0..n - 1, d0 + i \in A PROVE result[d0 + i] = mem[s0 + i]
      OBVIOUS
    <3>1. CASE i < head
      <4>1. i \in 0..head - 1 /\ d0 + i \notin d..d + left - 1
        BY <3>1, <1>4
      <4> QED BY <4>1, <2>3, <2>5, <1>10
    <3>2. CASE i >= head
      <4>1. /\ d0 + i \in d..d + left - 1 /\ s + (d0 + i) - d = s0 + i /\ i \in head..n - 1
            /\ d <= s \/ s + left <= d
        BY <3>2, <1>4, <2>5, <1>10
      <4>2. result[d0 + i] = first[s0 + i]
        <5> HIDE DEF d, s
        <5> QED BY <4>1, <2>3, <1>9 DEF CopiedTo
      <4> QED BY <4>1, <4>2, <2>5, <1>10
    <3> QED BY <3>1, <3>2, <1>4
  <2> QED BY <2>4, <2>5 DEF A, lim, result
<1>12. CASE s % WordSize = 0
  <2>1. Aligned(s)
    <3>1. s = (s \div WordSize) * WordSize + (s % WordSize) /\ s \div WordSize \in Int
      <4> HIDE DEF s
      <4> QED BY <1>1, <1>4
    <3>2. (s \div WordSize) * WordSize \in Int
      <4> HIDE DEF s
      <4> QED BY <3>1, <1>1
    <3> HIDE DEF s
    <3>3. s = (s \div WordSize) * WordSize
      BY <3>1, <3>2, <1>12
    <3> QED BY <3>1, <3>3 DEF Aligned
  <2>2. k \in Nat /\ k <= left + WordSize - 1 /\ (k = 0 \/ (k >= left /\ left > 0 /\ k = WordAlign(left)))
    BY <1>4, <1>5, <1>6, <1>1
  <2>3. /\ body \in [A -> A]
        /\ \A a \in A : a \notin WordAlign(d0)..WordAlign(d0) + k - 1 => body[a] = first[a]
        /\ WordAlign(d0) + WordSize <= s \/ s + k <= WordAlign(d0) =>
             CopiedTo(body, first, WordAlign(d0), s, k)
    <3>1. \A i \in 0..words * WordSize - 1 : s + i \in A
      <4>1. \A i \in 0..k - 1 : s + i \in A
        BY <1>1, <1>4, <2>2
      <4> QED BY <4>1 DEF k
    <3> DEFINE b == WordAlign(d0)
    <3>2. /\ Reads(A, s, words * WordSize) /\ words \in Nat /\ s \in Nat /\ b \in Nat
          /\ first \in [A -> A] /\ A \subseteq Int
      BY <3>1, <1>1, <1>2, <1>4, <1>5, <1>8 DEF Reads
    <3> HIDE DEF s, b
    <3>3. AreWordsCopied(ForwardWords(first, b, s, words), first, A, A, b, s, words)
      BY <3>2, ForwardWordsIsCopy
    <3> QED BY <3>3 DEF AreWordsCopied, k, b
  <2> HIDE DEF body
  <2>4. ASSUME k > 0 PROVE d + k <= lim /\ d = WordAlign(d0)
    <3>1. d = WordAlign(d0) /\ k = WordAlign(left)
      BY <2>2, <2>4, <1>4
    <3>2. Aligned(lim - d) /\ left <= lim - d
      BY <3>1, <1>2, <1>3, <1>4, AlignedApart
    <3>3. WordAlign(left) <= lim - d
      BY <3>2, <1>6
    <3> QED BY <3>1, <3>3, <1>3, <1>4, <1>6
  <2>5. CASE k > 0
    <3>1. result = body /\ d = WordAlign(d0) /\ d + k <= lim /\ left > 0 /\ k >= left /\ k = WordAlign(left)
      <4>1. ~(left - k > 0) /\ k >= left /\ left > 0 /\ k = WordAlign(left)
        BY <2>2, <2>5, <1>4
      <4> QED BY <4>1, <2>4, <2>5, <1>7, <1>12
    <3>2. Frame(result)
      <4> SUFFICES ASSUME NEW a \in A, a \notin d0..lim - 1 PROVE result[a] = mem[a]
        OBVIOUS
      <4>1. a \notin d0..d - 1 /\ a \notin WordAlign(d0)..WordAlign(d0) + k - 1
        BY <3>1, <1>1, <1>2, <1>3, <1>4, <2>2
      <4> QED BY <4>1, <3>1, <2>3, <1>8
    <3>3. ASSUME NotInside(d0, s0, n), n > 0 PROVE Moved(result)
      <4>1. d + WordSize <= s \/ s + k <= d
        <5>1. d0 < s0 \/ s0 + n <= d0
          BY <3>3, <1>10
        <5>2. CASE d0 < s0
          <6>1. d < s
            BY <5>2, <1>4
          <6> QED BY <6>1, <3>1, <2>1, <1>2, AlignedApart
        <5>3. CASE s0 + n <= d0
          <6>1. Aligned(d - s)
            BY <3>1, <2>1, <1>2, AlignedApart
          <6>2. left <= d - s
            BY <5>3, <1>4
          <6>3. WordAlign(left) <= d - s
            BY <6>1, <6>2, <1>6
          <6> QED BY <6>3, <3>1, <1>4, <1>6
        <5> QED BY <5>1, <5>2, <5>3
      <4>2. CopiedTo(body, first, d, s, k)
        BY <4>1, <3>1, <2>3
      <4> SUFFICES ASSUME NEW i \in 0..n - 1, d0 + i \in A PROVE result[d0 + i] = mem[s0 + i]
        OBVIOUS
      <4>3. CASE i < head
        <5>1. i \in 0..head - 1 /\ d0 + i \notin d..d + k - 1
          BY <4>3, <1>4, <2>2
        <5> QED BY <5>1, <3>1, <2>3, <3>3, <1>10
      <4>4. CASE i >= head
        <5>1. d0 + i \in d..d + k - 1 /\ s + (d0 + i) - d = s0 + i /\ i \in head..n - 1
          BY <4>4, <1>4, <2>2, <3>1
        <5>2. body[d0 + i] = first[s0 + i]
          <6> HIDE DEF d, s
          <6> QED BY <5>1, <4>2, <1>9 DEF CopiedTo
        <5> QED BY <5>1, <5>2, <3>1, <3>3, <1>10
      <4> QED BY <4>3, <4>4, <1>4
    <3> QED BY <3>2, <3>3 DEF A, lim, result
  <2>6. CASE k = 0
    <3>1. result = IF left > 0 THEN ForwardBytes(body, d, s, left) ELSE body
      <4>1. left > 0 => WordAlign(d0) + k = d /\ s + k = s /\ left - k = left
        BY <2>6, <1>4
      <4>2. left - k > 0 <=> left > 0
        BY <2>6, <1>4
      <4> HIDE DEF d, s
      <4> QED BY <4>1, <4>2, <1>7, <1>12
    <3>2. \A a \in A : body[a] = first[a]
      BY <2>3, <2>6, <1>2
    <3>3. \A i \in 0..left - 1 : s + i \in A
      BY <1>1, <1>4
    <3>4. /\ \A a \in A : a \notin d..d + left - 1 => result[a] = first[a]
          /\ d <= s \/ s + left <= d =>
               \A a \in A : a \in d..d + left - 1 => result[a] = first[s + a - d]
      <4>1. CASE left > 0
        <5> DEFINE fb == ForwardBytes(body, d, s, left)
        <5>1. /\ \A a \in A : a \notin d..d + left - 1 => fb[a] = body[a]
              /\ d <= s \/ s + left <= d => CopiedTo(fb, body, d, s, left)
          <6>1. Reads(A, s, left) /\ left \in Nat /\ d \in Nat /\ s \in Nat /\ body \in [A -> A] /\ A \subseteq Int
            BY <3>3, <2>3, <1>1, <1>4 DEF Reads
          <6> HIDE DEF d, s
          <6>2. IsCopy(ForwardBytes(body, d, s, left), body, A, A, d, s, left)
            BY <6>1, ForwardBytesIsCopy
          <6> QED BY <6>2 DEF IsCopy
        <5>2. result = fb
          BY <3>1, <4>1
        <5>3. ASSUME NEW a \in A, a \in d..d + left - 1 PROVE s + a - d \in A
          <6>1. s + a - d = s + (a - d) /\ a - d \in 0..left - 1
            BY <5>3, <1>1, <1>4
          <6> QED BY <6>1, <3>3
        <5> HIDE DEF fb, d, s
        <5> QED BY <5>1, <5>2, <5>3, <3>2, <2>3 DEF CopiedTo
      <4>2. CASE left = 0
        <5>1. d..d + left - 1 = {} /\ result = body
          BY <4>2, <3>1, <1>4
        <5> QED BY <5>1, <3>2
      <4> QED BY <4>1, <4>2, <1>4
    <3>5. Frame(result)
      <4> SUFFICES ASSUME NEW a \in A, a \notin d0..lim - 1 PROVE result[a] = mem[a]
        OBVIOUS
      <4>1. a \notin d0..d - 1 /\ a \notin d..d + left - 1
        BY <1>1, <1>3, <1>4
      <4> QED BY <4>1, <3>4, <1>8
    <3>6. ASSUME NotInside(d0, s0, n), n > 0 PROVE Moved(result)
      <4> SUFFICES ASSUME NEW i \in 0..n - 1, d0 + i \in A PROVE result[d0 + i] = mem[s0 + i]
        OBVIOUS
      <4>1. CASE i < head
        <5>1. i \in 0..head - 1 /\ d0 + i \notin d..d + left - 1
          BY <4>1, <1>4
        <5> QED BY <5>1, <3>4, <3>6, <1>10
      <4>2. CASE i >= head
        <5>1. /\ d0 + i \in d..d + left - 1 /\ s + (d0 + i) - d = s0 + i /\ i \in head..n - 1
              /\ d <= s \/ s + left <= d
          BY <4>2, <1>4, <3>6, <1>10
        <5>2. result[d0 + i] = first[s0 + i]
          <6> HIDE DEF d, s
          <6> QED BY <5>1, <3>4
        <5> QED BY <5>1, <5>2, <3>6, <1>10
      <4> QED BY <4>1, <4>2, <1>4
    <3> QED BY <3>5, <3>6 DEF A, lim, result
  <2> QED BY <2>2, <2>5, <2>6
<1>13. s % WordSize \in Int
  BY <1>1, <1>4
<1> QED BY <1>11, <1>12, <1>13


\* memmove brings every byte to its place.
LEMMA MemmoveIsRight ==
  ASSUME NEW top \in Nat, NEW mem \in [Places(top) -> Places(top)], NEW d \in Nat, NEW s \in Nat, NEW n \in Nat,
         s + n + WordSize <= top, d + n <= top
  PROVE  \A i \in 0..n - 1 : Memmove(mem, d, s, n)[d + i] = mem[s + i]
<1>1. WordSize \in Nat \ {0} /\ Places(top) = 0..top /\ Places(top) \subseteq Int /\ DOMAIN mem = Places(top)
  BY WordSizeAssumption DEF Places
<1> SUFFICES ASSUME NEW i \in 0..n - 1 PROVE Memmove(mem, d, s, n)[d + i] = mem[s + i]
  OBVIOUS
<1>2. d + i \in Places(top)
  BY <1>1
<1>3. CASE NotInside(d, s, n)
  <2>1. Memcpy(mem, d, s, n)[d + i] = mem[s + i]
    BY <1>2, <1>3, MemcpyIsRight
  <2> QED BY <2>1, <1>3 DEF Memmove
<1>4. CASE ~NotInside(d, s, n)
  <2>1. s <= d
    BY <1>4 DEF NotInside
  <2>2. \A j \in 0..n - 1 : s + j \in Places(top)
    BY <1>1
  <2>3. CopiedTo(BackwardBytes(mem, d, s, n), mem, d, s, n)
    BY <2>1, <2>2, <1>1, BackwardBytesCopy
  <2>4. d + i \in d..d + n - 1 /\ s + (d + i) - d = s + i
    OBVIOUS
  <2>5. BackwardBytes(mem, d, s, n)[d + i] = mem[s + i]
    BY <2>3, <2>4, <1>1, <1>2 DEF CopiedTo
  <2> QED BY <2>5, <1>4 DEF Memmove
<1> QED BY <1>3, <1>4

-----------------------------------------------------------------------------
(* The jobs.                                                               *)

DayJobs  == [kind : {"day"}, day : Nat]
OtherKinds == {"number", "string", "stamp", "clock", "divide"}

\* What is asked of the library, whatever the day is.
JobOK ==
  \/ \E map \in Maps, size \in Sizes : job \in BitJobs(map, size)
  \/ job \in CopyJobs
  \/ job \in SizeJobs
  \/ job \in DayJobs
  \/ job.kind \in OtherKinds

LEMMA InitJobOK == Init => JobOK
<1> SUFFICES ASSUME Init PROVE JobOK
  OBVIOUS
<1>1. ASSUME NEW map \in [0..MapBytes - 1 -> SUBSET Bits], NEW size \in Sizes,
             job \in BitJobs(map, size)
      PROVE  JobOK
  <2>1. map \in Maps
    BY DEF Maps
  <2> QED BY <2>1, <1>1 DEF JobOK
<1>2. CASE job \in CopyJobs \/ job \in SizeJobs
  BY <1>2 DEF JobOK
<1>3. CASE job = FirstDay
  BY <1>3 DEF JobOK, DayJobs, FirstDay
<1>4. CASE \/ job \in NumberJobs
           \/ job \in StringJobs
           \/ job \in StampJobs
           \/ job \in ClockJobs
           \/ job \in DivideJobs
  <2>1. job \in NumberJobs => job.kind = "number"
    BY DEF NumberJobs
  <2>2. job \in StringJobs => job.kind = "string"
    BY DEF StringJobs
  <2>3. job \in StampJobs => job.kind = "stamp"
    BY DEF StampJobs
  <2>4. job \in ClockJobs => job.kind = "clock"
    BY DEF ClockJobs
  <2>5. job \in DivideJobs => job.kind = "divide"
    BY DEF DivideJobs
  <2> QED BY <1>4, <2>1, <2>2, <2>3, <2>4, <2>5 DEF JobOK, OtherKinds
<1> QED BY <1>1, <1>2, <1>3, <1>4 DEF Init

LEMMA TomorrowJobOK == JobOK /\ [Tomorrow]_job => JobOK'
<1> SUFFICES ASSUME JobOK, [Tomorrow]_job PROVE JobOK'
  OBVIOUS
<1>1. CASE UNCHANGED job
  BY <1>1 DEF JobOK
<1>2. CASE Tomorrow
  <2>1. job.kind = "day" /\ job' = [job EXCEPT !.day = job.day + 1]
    BY <1>2 DEF Tomorrow
  <2>2. job \in DayJobs
    BY <2>1 DEF JobOK, BitJobs, CopyJobs, SizeJobs, OtherKinds
  <2>3. job' \in DayJobs
    BY <2>1, <2>2 DEF DayJobs
  <2> QED BY <2>3 DEF JobOK
<1> QED BY <1>1, <1>2

\* The searches and settings asked for name bits of the map, or come from one that failed.
LEMMA BitJobsAreRanges ==
  ASSUME NEW map \in Maps, NEW size0 \in Sizes, job \in BitJobs(map, size0)
  PROVE  /\ job.map = map /\ job.size \in 0..MapBytes * ByteBits /\ job.value \in {0, 1}
         /\ IsRange(job.size, job.start, job.len)
         /\ IF job.start + job.len >= SizeMax THEN FirstBit(job.size, job.start) = job.size
            ELSE FirstBit(job.size, job.start) <= EndBit(job.size, job.start, job.len)
<1>1. /\ job.map = map /\ job.size \in Sizes /\ job.value \in {0, 1}
      /\ job.start \in (0..MapBytes * ByteBits) \cup {SizeMax - 1} /\ job.len \in 0..MaxLen
  BY DEF BitJobs
<1>2. MapBytes * ByteBits \in Nat
  BY BoundsAssumption, ByteBitsAssumption, NatProduct
<1>3. /\ job.size \in 0..MapBytes * ByteBits /\ MapBytes * ByteBits + MaxLen < SizeMax
      /\ SizeMax \in Nat /\ MaxLen \in Nat
  BY <1>1, SizesAssumption, SizeMaxAssumption, BoundsAssumption
<1> DEFINE size == job.size
           start == job.start
           len == job.len
           all == MapBytes * ByteBits
<1>4. /\ size \in 0..all /\ all \in Nat /\ start \in (0..all) \cup {SizeMax - 1} /\ len \in 0..MaxLen
      /\ all + MaxLen < SizeMax
  BY <1>1, <1>2, <1>3
<1> HIDE DEF size, start, len, all
<1>5. /\ size \in Nat /\ start \in Nat /\ len \in Nat
      /\ IF start + len >= SizeMax THEN FirstBit(size, start) = size
         ELSE FirstBit(size, start) <= EndBit(size, start, len)
  <2>1. CASE start \in 0..all
    <3>1. start + len < SizeMax /\ (start + len) % SizeMax = start + len
      BY <2>1, <1>3, <1>4
    <3> QED BY <3>1, <2>1, <1>3, <1>4 DEF FirstBit, EndBit, Smaller
  <2>2. CASE start = SizeMax - 1
    <3>1. FirstBit(size, start) = size
      BY <2>2, <1>3, <1>4 DEF FirstBit, Smaller
    <3>2. CASE len = 0
      <4>1. start + len < SizeMax /\ (start + len) % SizeMax = start + len
        BY <2>2, <3>2, <1>3, <1>4
      <4> QED BY <4>1, <3>1, <2>2, <1>3, <1>4 DEF FirstBit, EndBit, Smaller
    <3>3. CASE len # 0
      <4>1. start + len >= SizeMax
        BY <2>2, <3>3, <1>3, <1>4
      <4> QED BY <4>1, <3>1, <2>2, <1>3, <1>4
    <3> QED BY <3>2, <3>3
  <2> QED BY <2>1, <2>2, <1>4
<1>6. IsRange(size, start, len)
  BY <1>5 DEF IsRange
<1> QED BY <1>1, <1>3, <1>5, <1>6 DEF size, start, len

LEMMA JobsAreRight == JobOK => MemoryRight
<1> SUFFICES ASSUME JobOK PROVE MemoryRight
  OBVIOUS
<1>1. ASSUME job.kind = "bits" PROVE BitmapsRight
  <2>1. PICK map \in Maps, size0 \in Sizes : job \in BitJobs(map, size0)
    BY <1>1 DEF JobOK, CopyJobs, SizeJobs, DayJobs, OtherKinds
  <2>2. /\ job.map = map /\ job.size \in 0..MapBytes * ByteBits /\ job.value \in {0, 1}
        /\ IsRange(job.size, job.start, job.len)
        /\ IF job.start + job.len >= SizeMax THEN FirstBit(job.size, job.start) = job.size
           ELSE FirstBit(job.size, job.start) <= EndBit(job.size, job.start, job.len)
    BY <2>1, BitJobsAreRanges
  <2>3. SetsTheRange
    BY <2>2, SetIsRight DEF SetsTheRange
  <2>4. FindsTheFirst
    <3> DEFINE size == job.size
               value == job.value
               start == job.start
               len == job.len
               answer == BitmapFind(map, size, value, start, len)
               right  == {i \in Named(size, start, len) : (i \in OnesOf(map)) = (value = 1)}
    <3>1. /\ size \in 0..MapBytes * ByteBits /\ value \in {0, 1} /\ IsRange(size, start, len)
          /\ IF start + len >= SizeMax THEN FirstBit(size, start) = size
             ELSE FirstBit(size, start) <= EndBit(size, start, len)
      BY <2>2
    <3> HIDE DEF size, value, start, len
    <3>2. FindsRight(map, size, value, start, len)
      BY <3>1, FindIsRight
    <3>3. IF start + len >= SizeMax THEN answer \notin 0..size - 1
          ELSE IF right = {} THEN answer = -1 ELSE answer = Least(right)
      BY <3>1, <3>2 DEF FindsRight
    <3> HIDE DEF answer, right
    <3> QED BY <3>3, <2>2 DEF FindsTheFirst, answer, right, size, value, start, len
  <2> QED BY <2>3, <2>4 DEF BitmapsRight
<1>2. ASSUME job.kind = "copy" PROVE MovesTheBytes /\ StaysInTheWord
  <2> DEFINE top == MemSize + MaxCopy + 2 * WordSize
  <2>1. job \in CopyJobs
    BY <1>2 DEF JobOK, BitJobs, SizeJobs, DayJobs, OtherKinds
  <2>2. job.d \in 0..MemSize /\ job.s \in 0..MemSize /\ job.n \in 0..MaxCopy
    BY <2>1 DEF CopyJobs
  <2>3. /\ top \in Nat /\ job.d \in Nat /\ job.s \in Nat /\ job.n \in Nat
        /\ job.s + job.n + WordSize <= top /\ job.d + job.n <= top
    BY <2>2, BoundsAssumption, WordSizeAssumption
  <2>4. Memory \in [Places(top) -> Places(top)] /\ \A a \in Places(top) : Memory[a] = a
    BY DEF Memory, Places
  <2>5. DOMAIN Memory = Places(top) /\ Places(top) = 0..top
    BY DEF Memory, Places
  <2> HIDE DEF top
  <2>6. MovesTheBytes
    <3> SUFFICES ASSUME NEW i \in 0..job.n - 1
                 PROVE  Memmove(Memory, job.d, job.s, job.n)[job.d + i] = job.s + i
      BY DEF MovesTheBytes
    <3> DEFINE d == job.d
               s == job.s
               n == job.n
    <3>0. d \in Nat /\ s \in Nat /\ n \in Nat /\ s + n + WordSize <= top /\ d + n <= top /\ i \in 0..n - 1
      BY <2>3
    <3> HIDE DEF d, s, n
    <3>3. \A j \in 0..n - 1 : Memmove(Memory, d, s, n)[d + j] = Memory[s + j]
      BY <3>0, <2>3, <2>4, MemmoveIsRight
    <3>1. Memmove(Memory, job.d, job.s, job.n)[job.d + i] = Memory[job.s + i]
      BY <3>0, <3>3 DEF d, s, n
    <3>2. job.s + i \in Places(top)
      BY <2>3, <2>5, WordSizeAssumption
    <3> QED BY <3>1, <3>2, <2>4
  <2>7. StaysInTheWord
    <3> SUFFICES ASSUME NEW a \in Places(top), Memcpy(Memory, job.d, job.s, job.n)[a] # a
                 PROVE  a \in job.d..WordAlign(job.d + job.n) - 1
      BY <2>5 DEF StaysInTheWord
    <3>1. a \notin job.d..WordAlign(job.d + job.n) - 1 => Memcpy(Memory, job.d, job.s, job.n)[a] = Memory[a]
      BY <2>3, <2>4, MemcpyIsRight
    <3> QED BY <3>1, <2>4
  <2> QED BY <2>6, <2>7
<1>3. ASSUME job.kind = "size" PROVE CacheFits
  <2>1. job \in SizeJobs
    BY <1>3 DEF JobOK, BitJobs, CopyJobs, DayJobs, OtherKinds
  <2>2. job.size \in 1..MaxKmallocCacheSize
    BY <2>1 DEF SizeJobs
  <2> QED BY <2>2, CacheIsBigEnough DEF CacheFits
<1> QED BY <1>1, <1>2, <1>3 DEF MemoryRight, BitmapsRight, SetsTheRange, FindsTheFirst, MovesTheBytes,
                              StaysInTheWord, CacheFits

\* Bits and bytes get where they should, for every size of a byte, of a word and of a
\* bitmap, every length of a range and every distance and length of a copy.
THEOREM MemoryTheorem == Spec => []MemoryRight
<1>1. Init => JobOK
  BY InitJobOK
<1>2. JobOK /\ [Tomorrow]_job => JobOK'
  BY TomorrowJobOK
<1>3. JobOK => MemoryRight
  BY JobsAreRight
<1> QED BY <1>1, <1>2, <1>3, PTL DEF Spec


-----------------------------------------------------------------------------
(* Powers of 2.                                                            *)

\* The powers of 2 are what their definition says.
LEMMA PowersExist == /\ Pow2 \in [Nat -> Nat \ {0}] /\ Pow2[0] = 1
                     /\ \A k \in Nat : Pow2[k + 1] = 2 * Pow2[k]
<1> DEFINE P == Nat \ {0}
           Upto(n) == {h \in [0..n -> P] : \A i \in 0..n : h[i] = IF i = 0 THEN 1 ELSE 2 * h[i - 1]}
           h(n) == CHOOSE x \in Upto(n) : TRUE
           p == [n \in Nat |-> h(n)[n]]
           Def(f) == f = [k \in Nat |-> IF k = 0 THEN 1 ELSE 2 * f[k - 1]]
<1>1. ASSUME NEW n \in Nat PROVE Upto(n) # {}
  <2> DEFINE g == [x \in (1..n) \X P |-> 2 * x[2]]
  <2>1. g \in [(1..n) \X P -> P] /\ 1 \in P
    OBVIOUS
  <2>2. \A i \in 1..n : \A v \in P : g[<<i, v>>] = 2 * v
    OBVIOUS
  <2> HIDE DEF g, P
  <2>3. PICK f \in [0..n -> P] : AreTurns(f, n, 1, g)
    BY <2>1, TurnsExist
  <2>4. ASSUME NEW i \in 0..n PROVE f[i] = IF i = 0 THEN 1 ELSE 2 * f[i - 1]
    <3>1. f[i] = IF i = 0 THEN 1 ELSE g[<<i, f[i - 1]>>]
      BY <2>3 DEF AreTurns
    <3>2. i # 0 => i \in 1..n /\ i - 1 \in 0..n
      OBVIOUS
    <3> QED BY <3>1, <3>2, <2>2
  <2> QED BY <2>4
<1>2. ASSUME NEW n \in Nat
      PROVE  h(n) \in [0..n -> P] /\ \A i \in 0..n : h(n)[i] = IF i = 0 THEN 1 ELSE 2 * h(n)[i - 1]
  <2>1. h(n) \in Upto(n)
    <3> HIDE DEF Upto
    <3> QED BY <1>1
  <2> HIDE DEF h
  <2> QED BY <2>1
<1> HIDE DEF h, Upto
<1>3. ASSUME NEW n \in Nat PROVE h(n + 1)[n] = h(n)[n]
  <2> DEFINE S == {i \in 0..n : h(n + 1)[i] = h(n)[i]}
  <2>1. 0 \in S
    <3>1. 0 \in 0..n /\ 0 \in 0..n + 1 /\ n + 1 \in Nat
      OBVIOUS
    <3> QED BY <3>1, <1>2
  <2>2. ASSUME NEW i \in 0..n - 1, i \in S PROVE i + 1 \in S
    <3>1. i + 1 \in 0..n /\ i + 1 \in 0..n + 1 /\ i + 1 # 0 /\ (i + 1) - 1 = i /\ n + 1 \in Nat
      OBVIOUS
    <3>2. h(n)[i + 1] = 2 * h(n)[i] /\ h(n + 1)[i + 1] = 2 * h(n + 1)[i]
      BY <3>1, <1>2
    <3> QED BY <3>1, <3>2, <2>2
  <2> HIDE DEF S
  <2>3. \A i \in 0..n : i \in S
    BY <2>1, <2>2, Upwards
  <2> QED BY <2>3 DEF S
<1>4. ASSUME NEW n \in Nat PROVE p[n] \in P /\ p[n] = IF n = 0 THEN 1 ELSE 2 * p[n - 1]
  <2>1. p[n] = h(n)[n] /\ n \in 0..n
    OBVIOUS
  <2>2. CASE n = 0
    BY <2>1, <2>2, <1>2
  <2>3. CASE n # 0
    <3>1. n - 1 \in Nat /\ (n - 1) + 1 = n /\ n - 1 \in 0..n
      BY <2>3
    <3>2. h(n)[n - 1] = h(n - 1)[n - 1]
      BY <3>1, <1>3
    <3>3. h(n)[n] = 2 * h(n)[n - 1]
      BY <2>1, <2>3, <1>2
    <3>4. p[n - 1] = h(n - 1)[n - 1]
      BY <3>1
    <3> QED BY <2>1, <2>3, <3>2, <3>3, <3>4, <1>2
  <2> QED BY <2>2, <2>3
<1>5. p = [n \in Nat |-> p[n]]
  OBVIOUS
<1>6. Def(p)
  <2> HIDE DEF p
  <2> QED BY <1>4, <1>5
<1>7. Pow2 = CHOOSE f : Def(f)
  BY DEF Pow2
<1>8. Def(Pow2)
  <2> HIDE DEF Def
  <2> QED BY <1>6, <1>7
<1>9. ASSUME NEW k \in Nat PROVE Pow2[k + 1] = 2 * Pow2[k]
  <2>1. k + 1 \in Nat /\ k + 1 # 0 /\ (k + 1) - 1 = k
    OBVIOUS
  <2> QED BY <2>1, <1>8
<1>10. Pow2[0] = 1
  BY <1>8
<1>11. ASSUME NEW k \in Nat PROVE Pow2[k] \in P
  <2> DEFINE S == {i \in 0..k : Pow2[i] \in P}
  <2>1. 0 \in S
    BY <1>10
  <2>2. ASSUME NEW i \in 0..k - 1, i \in S PROVE i + 1 \in S
    <3>1. Pow2[i + 1] = 2 * Pow2[i] /\ i + 1 \in 0..k
      BY <1>9
    <3> QED BY <3>1, <2>2
  <2> HIDE DEF S
  <2>3. \A i \in 0..k : i \in S
    BY <2>1, <2>2, Upwards
  <2> QED BY <2>3 DEF S
<1> QED BY <1>8, <1>9, <1>10, <1>11

LEMMA Pow2Is == /\ \A k \in Nat : Pow2[k] \in Nat /\ Pow2[k] > 0 /\ Pow2[k + 1] = 2 * Pow2[k]
                /\ Pow2[0] = 1
BY PowersExist

\* A product of powers.
LEMMA PowSum ==
  ASSUME NEW j \in Nat, NEW k \in Nat
  PROVE  Pow2[j + k] = Pow2[j] * Pow2[k]
<1> DEFINE S == {i \in 0..k : Pow2[j + i] = Pow2[j] * Pow2[i]}
<1>1. 0 \in S
  BY Pow2Is
<1>2. ASSUME NEW i \in 0..k - 1, i \in S PROVE i + 1 \in S
  <2>1. j + (i + 1) = (j + i) + 1 /\ j + i \in Nat /\ i \in Nat /\ i + 1 \in 0..k
    OBVIOUS
  <2>2. Pow2[(j + i) + 1] = 2 * Pow2[j + i] /\ Pow2[i + 1] = 2 * Pow2[i]
    BY <2>1, Pow2Is
  <2>3. Pow2[j + i] = Pow2[j] * Pow2[i]
    BY <1>2
  <2>4. 2 * (Pow2[j] * Pow2[i]) = Pow2[j] * (2 * Pow2[i])
    <3> DEFINE x == Pow2[j]
               y == Pow2[i]
    <3>1. x \in Nat /\ y \in Nat
      BY <2>1, Pow2Is
    <3> HIDE DEF x, y
    <3>2. 2 * (x * y) = x * (2 * y)
      BY <3>1
    <3> QED BY <3>2 DEF x, y
  <2> QED BY <2>1, <2>2, <2>3, <2>4
<1> HIDE DEF S
<1>3. \A i \in 0..k : i \in S
  BY <1>1, <1>2, Upwards
<1> QED BY <1>3 DEF S

\* Powers grow.
LEMMA PowGrows ==
  ASSUME NEW j \in Nat, NEW k \in Nat
  PROVE  /\ j <= k => Pow2[j] <= Pow2[k] /\ Pow2[k] = Pow2[j] * Pow2[k - j]
         /\ j < k => Pow2[j] < Pow2[k]
         /\ k < Pow2[k]
<1>1. ASSUME NEW m \in Nat, j <= m PROVE Pow2[j] <= Pow2[m] /\ Pow2[m] = Pow2[j] * Pow2[m - j]
  <2>1. m - j \in Nat /\ j + (m - j) = m
    BY <1>1
  <2>2. Pow2[m] = Pow2[j] * Pow2[m - j]
    BY <2>1, PowSum
  <2> DEFINE x == Pow2[j]
             y == Pow2[m - j]
  <2>3. x \in Nat /\ y \in Nat /\ y > 0
    BY <2>1, Pow2Is
  <2> HIDE DEF x, y
  <2>4. x <= x * y
    <3>1. y - 1 \in Nat /\ x * y = x + x * (y - 1)
      BY <2>3
    <3>2. x * (y - 1) \in Nat
      BY <2>3, <3>1, NatProduct
    <3> HIDE DEF x, y
    <3> QED BY <2>3, <3>1, <3>2
  <2> QED BY <2>2, <2>4 DEF x, y
<1>2. j < k => Pow2[j] < Pow2[k]
  <2>1. CASE j < k
    <3>1. k - 1 \in Nat /\ j <= k - 1 /\ (k - 1) + 1 = k
      BY <2>1
    <3>2. Pow2[j] <= Pow2[k - 1] /\ Pow2[k] = 2 * Pow2[k - 1] /\ Pow2[k - 1] \in Nat /\ Pow2[k - 1] > 0
          /\ Pow2[j] \in Nat
      BY <3>1, <1>1, Pow2Is
    <3> QED BY <3>2
  <2> QED BY <2>1
<1>3. k < Pow2[k]
  <2> DEFINE S == {i \in 0..k : i < Pow2[i]}
  <2>1. 0 \in S
    BY Pow2Is
  <2>2. ASSUME NEW i \in 0..k - 1, i \in S PROVE i + 1 \in S
    <3>1. Pow2[i + 1] = 2 * Pow2[i] /\ Pow2[i] \in Nat /\ i + 1 \in 0..k
      BY Pow2Is
    <3> QED BY <3>1, <2>2
  <2> HIDE DEF S
  <2>3. \A i \in 0..k : i \in S
    BY <2>1, <2>2, Upwards
  <2> QED BY <2>3 DEF S
<1> QED BY <1>1, <1>2, <1>3


-----------------------------------------------------------------------------
(* Division with remainder.                                                *)

LEMMA Products == /\ \A x, y \in Int : x * y \in Int /\ x * y = y * x
                  /\ \A x, y, z \in Int : /\ x * (y * z) = (x * y) * z
                                          /\ x * (y + z) = x * y + x * z /\ (y + z) * x = y * x + z * x
                                          /\ x * (y - z) = x * y - x * z /\ (y - z) * x = y * x - z * x
                  /\ \A x, y \in Nat : x * y \in Nat /\ (y > 0 => x <= x * y)
<1>1. ASSUME NEW x \in Nat, NEW y \in Nat, y > 0 PROVE x <= x * y
  <2>1. y - 1 \in Nat /\ x * y = x + x * (y - 1)
    BY <1>1
  <2>2. x * (y - 1) \in Nat
    BY <2>1, NatProduct
  <2> QED BY <2>1, <2>2
<1>2. \A x, y \in Int : x * y \in Int /\ x * y = y * x
  OBVIOUS
<1>3. \A x, y, z \in Int : /\ x * (y * z) = (x * y) * z
                           /\ x * (y + z) = x * y + x * z /\ (y + z) * x = y * x + z * x
                           /\ x * (y - z) = x * y - x * z /\ (y - z) * x = y * x - z * x
  OBVIOUS
<1> QED BY <1>1, <1>2, <1>3, NatProduct

\* Products keep the order.
LEMMA ProductsGrow ==
  ASSUME NEW x \in Int, NEW y \in Int, NEW c \in Nat, c > 0
  PROVE  /\ x < y => x * c + c <= y * c
         /\ x <= y => x * c <= y * c
         /\ x * c < y * c => x < y
         /\ x * c <= y * c => x <= y
<1>1. ASSUME NEW p \in Int, NEW q \in Int, p < q PROVE p * c + c <= q * c
  <2>1. q - p - 1 \in Nat /\ q = p + 1 + (q - p - 1)
    BY <1>1
  <2> DEFINE d == q - p - 1
  <2>2. d \in Nat /\ q = p + 1 + d
    BY <2>1
  <2> HIDE DEF d
  <2>3. q * c = p * c + c + d * c
    BY <2>2
  <2>4. d * c \in Nat /\ p * c \in Int
    BY <2>2, Products
  <2> QED BY <2>3, <2>4
<1>2. x * c \in Int /\ y * c \in Int /\ (x = y => x * c = y * c)
  BY Products
<1>3. x < y => x * c + c <= y * c
  BY <1>1
<1>4. y < x => y * c + c <= x * c
  BY <1>1
<1> QED BY <1>2, <1>3, <1>4

LEMMA DivMod ==
  ASSUME NEW a \in Int, NEW b \in Nat, b > 0
  PROVE  /\ a \div b \in Int /\ a % b \in 0..b - 1
         /\ a = (a \div b) * b + (a % b)
         /\ (a \div b) * b \in Int
         /\ a >= 0 => a \div b \in Nat /\ a \div b <= a /\ a % b <= a
<1>1. a \div b \in Int /\ a % b \in 0..b - 1 /\ a = (a \div b) * b + (a % b)
  OBVIOUS
<1>2. (a \div b) * b \in Int
  BY <1>1, Products
<1> DEFINE q == a \div b
           r == a % b
<1>3. q \in Int /\ r \in 0..b - 1 /\ a = q * b + r /\ q * b \in Int
  BY <1>1, <1>2
<1> HIDE DEF q, r
<1>4. ASSUME a >= 0 PROVE q \in Nat /\ q <= a /\ r <= a
  <2>1. q < 0 => q * b + b <= 0 * b
    BY <1>3, ProductsGrow
  <2>2. q \in Nat
    BY <2>1, <1>3, <1>4
  <2>3. q <= q * b
    BY <2>2, Products
  <2> QED BY <2>2, <2>3, <1>3, <1>4
<1> QED BY <1>1, <1>2, <1>4 DEF q, r

\* Quotient and remainder are known by what they do.
LEMMA DivUnique ==
  ASSUME NEW b \in Nat, b > 0, NEW q \in Int, NEW r \in 0..b - 1
  PROVE  (q * b + r) \div b = q /\ (q * b + r) % b = r
<1> DEFINE a == q * b + r
           p == a \div b
           s == a % b
<1>1. a \in Int /\ q * b \in Int
  BY Products
<1>2. p \in Int /\ s \in 0..b - 1 /\ q * b + r = p * b + s /\ p * b \in Int
  <2>1. a = q * b + r
    OBVIOUS
  <2> HIDE DEF a
  <2> QED BY <1>1, <2>1, DivMod
<1> HIDE DEF p, s
<1>3. p < q => p * b + b <= q * b
  BY <1>2, ProductsGrow
<1>4. q < p => q * b + b <= p * b
  BY <1>2, ProductsGrow
<1>5. p = q
  BY <1>1, <1>2, <1>3, <1>4
<1>6. s = r
  BY <1>1, <1>2, <1>5
<1> QED BY <1>5, <1>6 DEF p, s

LEMMA DivSmall ==
  ASSUME NEW b \in Nat, b > 0, NEW r \in 0..b - 1
  PROVE  r \div b = 0 /\ r % b = r
<1>1. 0 * b + r = r
  OBVIOUS
<1> QED BY <1>1, DivUnique

\* A multiple of the divisor more.
LEMMA DivPlus ==
  ASSUME NEW a \in Int, NEW b \in Nat, b > 0, NEW q \in Int
  PROVE  (q * b + a) \div b = q + a \div b /\ (q * b + a) % b = a % b
<1> DEFINE p == a \div b
           r == a % b
<1>1. p \in Int /\ r \in 0..b - 1 /\ a = p * b + r /\ p * b \in Int
  BY DivMod
<1> HIDE DEF p, r
<1>2. (q + p) * b = q * b + p * b /\ q * b \in Int /\ q + p \in Int
  BY <1>1, Products
<1>3. q * b + a = (q + p) * b + r
  BY <1>1, <1>2
<1>4. ((q + p) * b + r) \div b = q + p /\ ((q + p) * b + r) % b = r
  BY <1>1, <1>2, DivUnique
<1> QED BY <1>3, <1>4 DEF p, r

\* Dividing twice, and in parts.
LEMMA DivTwice ==
  ASSUME NEW a \in Int, NEW b \in Nat, b > 0, NEW c \in Nat, c > 0
  PROVE  /\ (a \div b) \div c = a \div (b * c)
         /\ a % (b * c) = ((a \div b) % c) * b + (a % b)
         /\ b * c \in Nat /\ b * c > 0
<1> DEFINE p == a \div b
           r == a % b
           q == p \div c
           s == p % c
<1>1. p \in Int /\ r \in 0..b - 1 /\ a = p * b + r /\ p * b \in Int
  BY DivMod
<1>2. q \in Int /\ s \in 0..c - 1 /\ p = q * c + s /\ q * c \in Int
  <2> HIDE DEF p
  <2> QED BY <1>1, DivMod
<1> HIDE DEF p, r, q, s
<1>3. b * c \in Nat /\ b * c > 0 /\ c * b = b * c
  <2>1. b * c \in Nat /\ b <= b * c /\ c * b = b * c
    BY Products
  <2> QED BY <2>1
<1>4. a = q * (b * c) + (s * b + r)
  <2>1. p * b = (q * c) * b + s * b
    BY <1>2, Products
  <2>2. (q * c) * b = q * (b * c)
    BY <1>2, <1>3, Products
  <2>3. s * b \in Int /\ q * (b * c) \in Int /\ r \in Int
    BY <1>1, <1>2, <1>3, Products
  <2>4. p * b = q * (b * c) + s * b
    BY <2>1, <2>2
  <2> DEFINE x == p * b
             y == q * (b * c)
             z == s * b
  <2>5. a = x + r /\ x = y + z /\ y \in Int /\ z \in Int
    BY <1>1, <2>3, <2>4
  <2> HIDE DEF x, y, z
  <2>6. a = y + (z + r)
    BY <2>3, <2>5
  <2> QED BY <2>6 DEF y, z
<1>5. s * b + r \in 0..b * c - 1
  <2>1. s * b + b <= c * b /\ s * b \in Nat
    BY <1>2, ProductsGrow, Products
  <2> QED BY <2>1, <1>1, <1>3
<1>6. a \div (b * c) = q /\ a % (b * c) = s * b + r
  <2> DEFINE m == b * c
             t == s * b + r
  <2>1. m \in Nat /\ m > 0 /\ t \in 0..m - 1 /\ a = q * m + t
    BY <1>3, <1>4, <1>5
  <2> HIDE DEF m, t
  <2>2. a \div m = q /\ a % m = t
    BY <2>1, <1>2, DivUnique
  <2> QED BY <2>2 DEF m, t
<1> QED BY <1>3, <1>6 DEF p, q, r, s

\* Numerator and divisor grow together.
LEMMA DivScaled ==
  ASSUME NEW a \in Int, NEW b \in Nat, b > 0, NEW c \in Nat, c > 0
  PROVE  (a * c) \div (b * c) = a \div b /\ (a * c) % (b * c) = (a % b) * c
<1> DEFINE q == a \div b
           r == a % b
<1>1. q \in Int /\ r \in 0..b - 1 /\ a = q * b + r /\ q * b \in Int
  BY DivMod
<1> HIDE DEF q, r
<1>2. b * c \in Nat /\ b <= b * c /\ c * b = b * c
  BY Products
<1>3. a * c = q * (b * c) + r * c
  <2>1. a * c = (q * b) * c + r * c
    BY <1>1, Products
  <2>2. (q * b) * c = q * (b * c)
    BY <1>1, Products
  <2> QED BY <2>1, <2>2
<1>4. r * c \in 0..b * c - 1
  <2>1. r * c + c <= b * c /\ r * c \in Nat
    BY <1>1, ProductsGrow, Products
  <2> QED BY <2>1, <1>2
<1> DEFINE m == b * c
           t == r * c
<1>5. m \in Nat /\ m > 0 /\ t \in 0..m - 1 /\ a * c = q * m + t
  BY <1>2, <1>3, <1>4
<1> HIDE DEF m, t
<1>6. (a * c) \div m = q /\ (a * c) % m = t
  BY <1>1, <1>5, DivUnique
<1> QED BY <1>6 DEF m, t, q, r

\* Where a quotient lies.
LEMMA DivBounds ==
  ASSUME NEW a \in Int, NEW b \in Nat, b > 0, NEW c \in Int
  PROVE  a \div b < c <=> a < c * b
<1> DEFINE q == a \div b
           r == a % b
<1>1. q \in Int /\ r \in 0..b - 1 /\ a = q * b + r /\ q * b \in Int
  BY DivMod
<1> HIDE DEF q, r
<1>2. q < c => q * b + b <= c * b
  BY <1>1, ProductsGrow
<1>3. c <= q => c * b <= q * b
  BY <1>1, ProductsGrow
<1>4. c * b \in Int
  BY Products
<1> QED BY <1>1, <1>2, <1>3, <1>4 DEF q

LEMMA Halves ==
  ASSUME NEW a \in Int
  PROVE  /\ a = 2 * (a \div 2) + (a % 2) /\ a \div 2 \in Int /\ a % 2 \in 0..1
         /\ (2 * a) \div 2 = a /\ (2 * a + 1) \div 2 = a /\ (2 * a) % 2 = 0 /\ (2 * a + 1) % 2 = 1
OBVIOUS

-----------------------------------------------------------------------------
(* Words.                                                                  *)

\* Twice as many bits as a word of 32, or of any power of 2, has.
LEMMA WidthsAre ==
  /\ NumBits \in Nat /\ NumBits = 2 * Half /\ Half \in Nat /\ Half > 0
  /\ LogBits \in Nat /\ LogBits > 0 /\ Half = Pow2[LogBits - 1]
  /\ Top \in Nat /\ Top > 0 /\ Pow2[NumBits] = 2 * Top
  /\ Word \in Nat /\ Word > 1 /\ Word = Pow2[Half] /\ Pow2[NumBits] = Word * Word
<1>1. LogBits \in Nat /\ LogBits > 0 /\ LogBits - 1 \in Nat /\ (LogBits - 1) + 1 = LogBits
  BY LogBitsAssumption
<1>2. Pow2[LogBits - 1] \in Nat /\ Pow2[LogBits - 1] > 0 /\ NumBits = 2 * Pow2[LogBits - 1]
  BY <1>1, Pow2Is DEF NumBits
<1>3. Half = Pow2[LogBits - 1] /\ NumBits \in Nat
  BY <1>2 DEF Half
<1>4. NumBits - 1 \in Nat /\ (NumBits - 1) + 1 = NumBits
  BY <1>2, <1>3
<1>5. Top \in Nat /\ Top > 0 /\ Pow2[NumBits] = 2 * Top
  BY <1>4, Pow2Is DEF Top
<1>6. Word = Pow2[Half]
  BY DEF Word, Half
<1>7. Word \in Nat /\ Word > Half
  BY <1>2, <1>3, <1>6, Pow2Is, PowGrows
<1>8. Half + Half = NumBits
  BY <1>2, <1>3
<1>9. Pow2[NumBits] = Word * Word
  BY <1>2, <1>3, <1>6, <1>8, PowSum
<1> QED BY <1>1, <1>2, <1>3, <1>5, <1>6, <1>7, <1>9


-----------------------------------------------------------------------------
(* Counting zeros.                                                         *)

\* The shifts by less than the width.
LEMMA ShiftsAre ==
  ASSUME NEW a \in Nat, NEW b \in 0..NumBits - 1
  PROVE  /\ b % NumBits = b /\ Pow2[b] \in Nat /\ Pow2[b] > 0
         /\ Shl(a, b) = (a * Pow2[b]) % Pow2[NumBits] /\ Shl(a, b) \in Nat
         /\ a * Pow2[b] < Pow2[NumBits] => Shl(a, b) = a * Pow2[b]
         /\ Shr(a, b) = a \div Pow2[b] /\ Shr(a, b) \in Nat
<1>1. NumBits \in Nat /\ NumBits > 0 /\ Pow2[NumBits] \in Nat /\ Pow2[NumBits] > 0
  BY WidthsAre, Pow2Is
<1>2. b % NumBits = b
  BY <1>1, DivSmall
<1>3. Pow2[b] \in Nat /\ Pow2[b] > 0
  BY Pow2Is
<1>4. Shl(a, b) = (a * Pow2[b]) % Pow2[NumBits] /\ Shr(a, b) = a \div Pow2[b]
  BY <1>2 DEF Shl, Shr, U64
<1> DEFINE x == a * Pow2[b]
<1>5. x \in Nat
  BY <1>3, Products
<1> HIDE DEF x
<1>6. x % Pow2[NumBits] \in Nat /\ (x < Pow2[NumBits] => x % Pow2[NumBits] = x)
  <2>1. x % Pow2[NumBits] \in Nat
    BY <1>1, <1>5, DivMod
  <2>2. ASSUME x < Pow2[NumBits] PROVE x % Pow2[NumBits] = x
    <3>1. x \in 0..Pow2[NumBits] - 1
      BY <1>1, <1>5, <2>2
    <3> QED BY <3>1, <1>1, DivSmall
  <2> QED BY <2>1, <2>2
<1>7. a \div Pow2[b] \in Nat
  BY <1>3, DivMod
<1> QED BY <1>2, <1>3, <1>4, <1>6, <1>7 DEF x

\* The numbers of bits looked at are less than the width.
LEMMA LooksAre ==
  ASSUME NEW k \in 0..LogBits - 1
  PROVE  /\ Pow2[k] \in 1..NumBits - 1 /\ Pow2[k + 1] = Pow2[k] + Pow2[k] /\ Pow2[k + 1] <= NumBits
         /\ NumBits - Pow2[k] \in Nat /\ NumBits \in Nat
<1>1. k \in Nat /\ k + 1 \in Nat /\ k + 1 <= LogBits /\ LogBits \in Nat
  BY LogBitsAssumption
<1>2. Pow2[k] \in Nat /\ Pow2[k] > 0 /\ Pow2[k + 1] = 2 * Pow2[k]
  BY <1>1, Pow2Is
<1>3. Pow2[k + 1] <= NumBits
  BY <1>1, PowGrows DEF NumBits
<1> QED BY <1>2, <1>3, WidthsAre

\* Turns of the searches for the first and the last bit.
ClzTurn(was, k) ==
  LET b == IF was.a \div Pow2[NumBits - Pow2[k]] = 0 THEN Pow2[k] ELSE 0
  IN [n |-> was.n + b, a |-> IF k = 0 THEN was.a ELSE Shl(was.a, b)]
AreClz(after, a0) ==
  /\ after[0] = [n |-> 0, a |-> a0] /\ Clzdi2(a0) = after[LogBits].n
  /\ \A i \in 1..LogBits : after[i] = ClzTurn(after[i - 1], LogBits - i)
LEMMA ClzTurns ==
  ASSUME NEW a0 \in Nat
  PROVE  \E after : AreClz(after, a0)
<1> DEFINE L == LogBits
           S == [n : Nat, a : Nat]
           begin == [n |-> 0, a |-> a0]
           g == [x \in (1..L) \X S |-> ClzTurn(x[2], L - x[1])]
           Def(f) == f = [k \in 0..L - 1 |-> ClzTurn(IF k = L - 1 THEN begin ELSE f[k + 1], k)]
<1>1. L \in Nat /\ L > 0 /\ begin \in S
  BY LogBitsAssumption
<1>2. ASSUME NEW s \in S, NEW k \in 0..L - 1 PROVE ClzTurn(s, k) \in S
  <2> DEFINE b == IF s.a \div Pow2[NumBits - Pow2[k]] = 0 THEN Pow2[k] ELSE 0
  <2>0. Pow2[k] \in 1..NumBits - 1
    BY LooksAre
  <2>1. b \in 0..NumBits - 1
    BY <2>0, WidthsAre
  <2>2. s.n \in Nat /\ s.a \in Nat
    OBVIOUS
  <2>3. Shl(s.a, b) \in Nat /\ s.n + b \in Nat
    <3> HIDE DEF b
    <3> QED BY <2>1, <2>2, ShiftsAre
  <2>4. ClzTurn(s, k) = [n |-> s.n + b, a |-> IF k = 0 THEN s.a ELSE Shl(s.a, b)]
    BY DEF ClzTurn
  <2> HIDE DEF b
  <2> QED BY <2>2, <2>3, <2>4
<1>3. g \in [(1..L) \X S -> S]
  <2> SUFFICES ASSUME NEW x \in (1..L) \X S PROVE ClzTurn(x[2], L - x[1]) \in S
    OBVIOUS
  <2>1. x[1] \in 1..L /\ x[2] \in S
    OBVIOUS
  <2>2. L - x[1] \in 0..L - 1
    BY <2>1, <1>1
  <2> HIDE DEF L, S
  <2> QED BY <2>1, <2>2, <1>2
<1> HIDE DEF L, S, begin
<1>4. \A i \in 1..L : \A s \in S : g[<<i, s>>] = ClzTurn(s, L - i)
  OBVIOUS
<1> HIDE DEF g
<1>5. PICK h \in [0..L -> S] : AreTurns(h, L, begin, g)
  BY <1>1, <1>3, TurnsExist
<1>6. h[0] = begin /\ \A i \in 1..L : h[i] = ClzTurn(h[i - 1], L - i)
  <2>0. 0 \in 0..L
    BY <1>1
  <2>1. h[0] = begin
    BY <2>0, <1>5 DEF AreTurns
  <2>2. ASSUME NEW i \in 1..L PROVE h[i] = ClzTurn(h[i - 1], L - i)
    <3>1. i \in 0..L /\ i # 0 /\ i - 1 \in 0..L
      BY <1>1
    <3>2. h[i - 1] \in S
      BY <3>1
    <3>3. h[i] = g[<<i, h[i - 1]>>]
      BY <3>1, <1>5 DEF AreTurns
    <3> QED BY <3>2, <3>3, <1>4
  <2> QED BY <2>1, <2>2
<1> DEFINE f == [k \in 0..L - 1 |-> h[L - k]]
<1>7. Def(f)
  <2>1. ASSUME NEW k \in 0..L - 1 PROVE f[k] = ClzTurn(IF k = L - 1 THEN begin ELSE f[k + 1], k)
    <3>1. L - k \in 1..L /\ L - (L - k) = k /\ f[k] = h[L - k]
      BY <1>1
    <3>2. h[L - k] = ClzTurn(h[(L - k) - 1], k)
      BY <3>1, <1>6
    <3>3. CASE k = L - 1
      <4>1. (L - k) - 1 = 0
        BY <3>3, <1>1
      <4> HIDE DEF f
      <4> QED BY <3>1, <3>2, <3>3, <4>1, <1>6
    <3>4. CASE k # L - 1
      <4>1. k + 1 \in 0..L - 1 /\ L - (k + 1) = (L - k) - 1
        BY <3>4, <1>1
      <4>2. f[k + 1] = h[(L - k) - 1]
        BY <4>1
      <4> HIDE DEF f
      <4> QED BY <3>1, <3>2, <3>4, <4>2
    <3> QED BY <3>3, <3>4
  <2>2. f = [k \in 0..L - 1 |-> f[k]]
    OBVIOUS
  <2> HIDE DEF f
  <2> QED BY <2>1, <2>2
<1> DEFINE from == CHOOSE x : Def(x)
<1>8. Clzdi2(a0) = from[0].n
  BY DEF Clzdi2, ClzTurn, L, begin
<1>9. Def(from)
  <2> HIDE DEF Def
  <2> QED BY <1>7
<1> HIDE DEF from, f
<1> DEFINE after == [i \in 0..L |-> IF i = 0 THEN begin ELSE from[L - i]]
<1>10. after[0] = begin /\ after[L] = from[0]
  <2>1. 0 \in 0..L /\ L \in 0..L /\ L # 0 /\ L - L = 0
    BY <1>1
  <2> QED BY <2>1
<1>11. ASSUME NEW i \in 1..L PROVE after[i] = ClzTurn(after[i - 1], L - i)
  <2>1. /\ i \in 0..L /\ i # 0 /\ L - i \in 0..L - 1 /\ i - 1 \in 0..L
        /\ L - i = L - 1 <=> i - 1 = 0
        /\ (L - i) + 1 = L - (i - 1)
    BY <1>1
  <2>2. after[i] = from[L - i]
    BY <2>1
  <2>3. after[i - 1] = IF L - i = L - 1 THEN begin ELSE from[(L - i) + 1]
    BY <2>1
  <2>4. from[L - i] = ClzTurn(IF L - i = L - 1 THEN begin ELSE from[(L - i) + 1], L - i)
    BY <2>1, <1>9
  <2> HIDE DEF after
  <2> QED BY <2>2, <2>3, <2>4
<1> HIDE DEF after
<1>12. AreClz(after, a0)
  BY <1>8, <1>10, <1>11 DEF AreClz, L, begin
<1> QED BY <1>12

CtzTurn(was, k) ==
  LET b == IF was.a % Pow2[Pow2[k]] = 0 THEN Pow2[k] ELSE 0
  IN [n |-> was.n + b, a |-> IF k = 0 THEN was.a ELSE Shr(was.a, b)]
AreCtz(after, a0) ==
  /\ after[0] = [n |-> 0, a |-> a0] /\ Ctzdi2(a0) = after[LogBits].n
  /\ \A i \in 1..LogBits : after[i] = CtzTurn(after[i - 1], LogBits - i)
LEMMA CtzTurns ==
  ASSUME NEW a0 \in Nat
  PROVE  \E after : AreCtz(after, a0)
<1> DEFINE L == LogBits
           S == [n : Nat, a : Nat]
           begin == [n |-> 0, a |-> a0]
           g == [x \in (1..L) \X S |-> CtzTurn(x[2], L - x[1])]
           Def(f) == f = [k \in 0..L - 1 |-> CtzTurn(IF k = L - 1 THEN begin ELSE f[k + 1], k)]
<1>1. L \in Nat /\ L > 0 /\ begin \in S
  BY LogBitsAssumption
<1>2. ASSUME NEW s \in S, NEW k \in 0..L - 1 PROVE CtzTurn(s, k) \in S
  <2> DEFINE b == IF s.a % Pow2[Pow2[k]] = 0 THEN Pow2[k] ELSE 0
  <2>0. Pow2[k] \in 1..NumBits - 1
    BY LooksAre
  <2>1. b \in 0..NumBits - 1
    BY <2>0, WidthsAre
  <2>2. s.n \in Nat /\ s.a \in Nat
    OBVIOUS
  <2>3. Shr(s.a, b) \in Nat /\ s.n + b \in Nat
    <3> HIDE DEF b
    <3> QED BY <2>1, <2>2, ShiftsAre
  <2>4. CtzTurn(s, k) = [n |-> s.n + b, a |-> IF k = 0 THEN s.a ELSE Shr(s.a, b)]
    BY DEF CtzTurn
  <2> HIDE DEF b
  <2> QED BY <2>2, <2>3, <2>4
<1>3. g \in [(1..L) \X S -> S]
  <2> SUFFICES ASSUME NEW x \in (1..L) \X S PROVE CtzTurn(x[2], L - x[1]) \in S
    OBVIOUS
  <2>1. x[1] \in 1..L /\ x[2] \in S
    OBVIOUS
  <2>2. L - x[1] \in 0..L - 1
    BY <2>1, <1>1
  <2> HIDE DEF L, S
  <2> QED BY <2>1, <2>2, <1>2
<1> HIDE DEF L, S, begin
<1>4. \A i \in 1..L : \A s \in S : g[<<i, s>>] = CtzTurn(s, L - i)
  OBVIOUS
<1> HIDE DEF g
<1>5. PICK h \in [0..L -> S] : AreTurns(h, L, begin, g)
  BY <1>1, <1>3, TurnsExist
<1>6. h[0] = begin /\ \A i \in 1..L : h[i] = CtzTurn(h[i - 1], L - i)
  <2>0. 0 \in 0..L
    BY <1>1
  <2>1. h[0] = begin
    BY <2>0, <1>5 DEF AreTurns
  <2>2. ASSUME NEW i \in 1..L PROVE h[i] = CtzTurn(h[i - 1], L - i)
    <3>1. i \in 0..L /\ i # 0 /\ i - 1 \in 0..L
      BY <1>1
    <3>2. h[i - 1] \in S
      BY <3>1
    <3>3. h[i] = g[<<i, h[i - 1]>>]
      BY <3>1, <1>5 DEF AreTurns
    <3> QED BY <3>2, <3>3, <1>4
  <2> QED BY <2>1, <2>2
<1> DEFINE f == [k \in 0..L - 1 |-> h[L - k]]
<1>7. Def(f)
  <2>1. ASSUME NEW k \in 0..L - 1 PROVE f[k] = CtzTurn(IF k = L - 1 THEN begin ELSE f[k + 1], k)
    <3>1. L - k \in 1..L /\ L - (L - k) = k /\ f[k] = h[L - k]
      BY <1>1
    <3>2. h[L - k] = CtzTurn(h[(L - k) - 1], k)
      BY <3>1, <1>6
    <3>3. CASE k = L - 1
      <4>1. (L - k) - 1 = 0
        BY <3>3, <1>1
      <4> HIDE DEF f
      <4> QED BY <3>1, <3>2, <3>3, <4>1, <1>6
    <3>4. CASE k # L - 1
      <4>1. k + 1 \in 0..L - 1 /\ L - (k + 1) = (L - k) - 1
        BY <3>4, <1>1
      <4>2. f[k + 1] = h[(L - k) - 1]
        BY <4>1
      <4> HIDE DEF f
      <4> QED BY <3>1, <3>2, <3>4, <4>2
    <3> QED BY <3>3, <3>4
  <2>2. f = [k \in 0..L - 1 |-> f[k]]
    OBVIOUS
  <2> HIDE DEF f
  <2> QED BY <2>1, <2>2
<1> DEFINE from == CHOOSE x : Def(x)
<1>8. Ctzdi2(a0) = from[0].n
  BY DEF Ctzdi2, CtzTurn, L, begin
<1>9. Def(from)
  <2> HIDE DEF Def
  <2> QED BY <1>7
<1> HIDE DEF from, f
<1> DEFINE after == [i \in 0..L |-> IF i = 0 THEN begin ELSE from[L - i]]
<1>10. after[0] = begin /\ after[L] = from[0]
  <2>1. 0 \in 0..L /\ L \in 0..L /\ L # 0 /\ L - L = 0
    BY <1>1
  <2> QED BY <2>1
<1>11. ASSUME NEW i \in 1..L PROVE after[i] = CtzTurn(after[i - 1], L - i)
  <2>1. /\ i \in 0..L /\ i # 0 /\ L - i \in 0..L - 1 /\ i - 1 \in 0..L
        /\ L - i = L - 1 <=> i - 1 = 0
        /\ (L - i) + 1 = L - (i - 1)
    BY <1>1
  <2>2. after[i] = from[L - i]
    BY <2>1
  <2>3. after[i - 1] = IF L - i = L - 1 THEN begin ELSE from[(L - i) + 1]
    BY <2>1
  <2>4. from[L - i] = CtzTurn(IF L - i = L - 1 THEN begin ELSE from[(L - i) + 1], L - i)
    BY <2>1, <1>9
  <2> HIDE DEF after
  <2> QED BY <2>2, <2>3, <2>4
<1> HIDE DEF after
<1>12. AreCtz(after, a0)
  BY <1>8, <1>10, <1>11 DEF AreCtz, L, begin
<1> QED BY <1>12


\* What a look at p bits at the upper end does to a number whose upper 2 * p bits are not 0.
LEMMA ClzLook ==
  ASSUME NEW p \in Nat, p > 0, 2 * p <= NumBits, NEW x \in Nat, x < Pow2[NumBits], Pow2[NumBits - 2 * p] <= x
  PROVE  /\ x \div Pow2[NumBits - p] = 0 =>
              x * Pow2[p] < Pow2[NumBits] /\ Pow2[NumBits - p] <= x * Pow2[p]
         /\ x \div Pow2[NumBits - p] # 0 => Pow2[NumBits - p] <= x
<1>1. NumBits - p \in Nat /\ NumBits - 2 * p \in Nat /\ NumBits \in Nat
  BY WidthsAre
<1> DEFINE w == Pow2[NumBits - p]
<1>2. w \in Nat /\ w > 0 /\ Pow2[p] \in Nat /\ Pow2[p] > 0
  BY <1>1, Pow2Is
<1>3. w * Pow2[p] = Pow2[NumBits]
  <2>1. (NumBits - p) + p = NumBits
    BY <1>1
  <2> QED BY <2>1, <1>1, PowSum
<1>4. Pow2[NumBits - 2 * p] * Pow2[p] = w
  <2>1. (NumBits - 2 * p) + p = NumBits - p
    BY <1>1
  <2> QED BY <2>1, <1>1, PowSum
<1>5. Pow2[NumBits - 2 * p] \in Nat
  BY <1>1, Pow2Is
<1> HIDE DEF w
<1>6. x \div w < 1 <=> x < 1 * w
  BY <1>2, DivBounds
<1>7. x \div w \in Nat
  BY <1>2, DivMod
<1>8. ASSUME x \div w = 0 PROVE x * Pow2[p] < Pow2[NumBits] /\ w <= x * Pow2[p]
  <2>1. x < w
    BY <1>2, <1>6, <1>8
  <2>2. x * Pow2[p] + Pow2[p] <= w * Pow2[p]
    BY <2>1, <1>2, ProductsGrow
  <2>3. Pow2[NumBits - 2 * p] * Pow2[p] <= x * Pow2[p]
    BY <1>2, <1>5, ProductsGrow
  <2>4. x * Pow2[p] \in Nat
    BY <1>2, Products
  <2> QED BY <2>2, <2>3, <2>4, <1>2, <1>3, <1>4
<1>9. x \div w # 0 => w <= x
  BY <1>2, <1>6, <1>7
<1> QED BY <1>8, <1>9 DEF w

\* __clzdi2 is the number of zeros in front of the first one.
LEMMA ClzIsRight ==
  ASSUME NEW a0 \in Nat, a0 > 0, a0 < Pow2[NumBits]
  PROVE  /\ Clzdi2(a0) \in 0..NumBits - 1
         /\ Pow2[NumBits - 1 - Clzdi2(a0)] <= a0 /\ a0 < Pow2[NumBits - Clzdi2(a0)]
<1>0. PICK after : AreClz(after, a0)
  BY ClzTurns
<1>1. /\ after[0] = [n |-> 0, a |-> a0] /\ Clzdi2(a0) = after[LogBits].n
      /\ \A i \in 1..LogBits : after[i] = ClzTurn(after[i - 1], LogBits - i)
  BY <1>0 DEF AreClz
<1> DEFINE L == LogBits
           N == NumBits
           Inv(n, i) == /\ n \in 0..N - Pow2[L - i]
                        /\ a0 * Pow2[n] < Pow2[N] /\ Pow2[N - Pow2[L - i]] <= a0 * Pow2[n]
           S == {i \in 0..L : Inv(after[i].n, i) /\ (i < L => after[i].a = a0 * Pow2[after[i].n])}
<1>2. L \in Nat /\ L > 0 /\ N \in Nat /\ N = Pow2[L]
  BY LogBitsAssumption, WidthsAre DEF NumBits
<1>3. 0 \in S
  <2>1. N - Pow2[L - 0] = 0 /\ Pow2[0] = 1 /\ a0 * Pow2[0] = a0 /\ a0 < Pow2[N]
    BY <1>2, Pow2Is
  <2>2. after[0].n = 0 /\ after[0].a = a0
    BY <1>1
  <2> HIDE DEF L, N
  <2>3. Inv(0, 0) /\ 0 \in 0..L
    BY <2>1, <1>2
  <2> HIDE DEF Inv
  <2> QED BY <2>1, <2>2, <2>3
<1>4. ASSUME NEW i \in 0..L - 1, i \in S PROVE i + 1 \in S
  <2> DEFINE k == L - (i + 1)
             p == Pow2[k]
             n == after[i].n
             x == after[i].a
             zero == x \div Pow2[N - p] = 0
             b == IF zero THEN p ELSE 0
  <2>1. k \in 0..L - 1 /\ k + 1 = L - i /\ i + 1 \in 1..L /\ (i + 1) - 1 = i /\ i < L /\ (i + 1 < L <=> k # 0)
    BY <1>2
  <2>2. /\ p \in 1..N - 1 /\ Pow2[L - i] = 2 * p /\ 2 * p <= N /\ N \in Nat
    <3>1. p \in 1..N - 1 /\ Pow2[k + 1] = p + p /\ Pow2[k + 1] <= N
      BY <2>1, LooksAre
    <3> HIDE DEF k, p
    <3> QED BY <3>1, <2>1, <1>2
  <2>3. after[i + 1] = [n |-> n + b, a |-> IF k = 0 THEN x ELSE Shl(x, b)]
    BY <2>1, <1>1 DEF ClzTurn
  <2> HIDE DEF L, N
  <2>4. n \in 0..N - 2 * p /\ x = a0 * Pow2[n] /\ x < Pow2[N] /\ Pow2[N - 2 * p] <= x
    BY <1>4, <2>1, <2>2
  <2> HIDE DEF k, p, n, S
  <2>5. Pow2[n] \in Nat /\ Pow2[n] > 0 /\ Pow2[p] \in Nat /\ Pow2[p] > 0 /\ n \in Nat /\ p \in Nat
    BY <2>2, <2>4, Pow2Is
  <2>6. x \in Nat
    BY <2>4, <2>5, Products
  <2>7. /\ zero => x * Pow2[p] < Pow2[N] /\ Pow2[N - p] <= x * Pow2[p]
        /\ ~zero => Pow2[N - p] <= x
    <3> HIDE DEF x
    <3> QED BY <2>2, <2>4, <2>6, ClzLook DEF N
  <2> HIDE DEF x, zero
  <2>8. n + b \in 0..N - p /\ b \in 0..N - 1
    BY <2>2, <2>4
  <2>9. a0 * Pow2[n + b] = x * Pow2[b]
    <3>1. Pow2[n + b] = Pow2[n] * Pow2[b] /\ Pow2[b] \in Nat
      <4>1. b \in Nat
        BY <2>5
      <4> HIDE DEF b
      <4> QED BY <4>1, <2>5, PowSum, Pow2Is
    <3> HIDE DEF b
    <3>2. a0 * (Pow2[n] * Pow2[b]) = (a0 * Pow2[n]) * Pow2[b]
      BY <3>1, <2>5, Products
    <3> QED BY <3>1, <3>2, <2>4
  <2>10. x * Pow2[b] < Pow2[N] /\ Pow2[N - p] <= x * Pow2[b]
    <3>1. CASE zero
      BY <3>1, <2>7
    <3>2. CASE ~zero
      <4>1. b = 0 /\ x * Pow2[0] = x
        BY <3>2, <2>6, Pow2Is
      <4> QED BY <4>1, <3>2, <2>4, <2>7
    <3> QED BY <3>1, <3>2
  <2>11. Shl(x, b) = x * Pow2[b]
    <3> HIDE DEF b
    <3> QED BY <2>6, <2>8, <2>10, ShiftsAre DEF N
  <2> HIDE DEF b
  <2>12. after[i + 1].n = n + b /\ (k # 0 => after[i + 1].a = x * Pow2[b])
    BY <2>3, <2>11
  <2>13. Inv(after[i + 1].n, i + 1)
    BY <2>8, <2>9, <2>10, <2>12 DEF k, p
  <2> HIDE DEF Inv
  <2> QED BY <2>1, <2>9, <2>12, <2>13, <1>2 DEF S
<1> HIDE DEF S
<1>5. L \in S
  <2>1. \A i \in 0..L : i \in S
    <3> HIDE DEF L
    <3> QED BY <1>2, <1>3, <1>4, Upwards
  <2>2. L \in 0..L
    BY <1>2
  <2> QED BY <2>1, <2>2
<1> DEFINE c == Clzdi2(a0)
<1>6. c \in 0..N - 1 /\ a0 * Pow2[c] < Pow2[N] /\ Pow2[N - 1] <= a0 * Pow2[c]
  <2>1. Inv(c, L)
    <3> HIDE DEF Inv
    <3> QED BY <1>1, <1>5 DEF S
  <2>2. L - L = 0 /\ Pow2[0] = 1
    BY <1>2, Pow2Is
  <2> HIDE DEF c, L, N
  <2> QED BY <2>1, <2>2
<1> HIDE DEF c, N
<1>7. c \in Nat /\ Pow2[c] \in Nat /\ Pow2[c] > 0 /\ N - c \in Nat /\ N - 1 - c \in Nat
  BY <1>2, <1>6, Pow2Is
<1>8. Pow2[N] = Pow2[N - c] * Pow2[c] /\ Pow2[N - c] \in Nat
  <2>1. (N - c) + c = N
    BY <1>2, <1>6
  <2>2. Pow2[(N - c) + c] = Pow2[N - c] * Pow2[c]
    BY <1>7, PowSum
  <2>3. Pow2[N - c] \in Nat
    BY <1>7, Pow2Is
  <2> QED BY <2>1, <2>2, <2>3
<1>9. Pow2[N - 1] = Pow2[N - 1 - c] * Pow2[c] /\ Pow2[N - 1 - c] \in Nat
  <2>1. (N - 1 - c) + c = N - 1
    BY <1>2, <1>6
  <2>2. Pow2[(N - 1 - c) + c] = Pow2[N - 1 - c] * Pow2[c]
    BY <1>7, PowSum
  <2>3. Pow2[N - 1 - c] \in Nat
    BY <1>7, Pow2Is
  <2> QED BY <2>1, <2>2, <2>3
<1>10. a0 < Pow2[N - c]
  BY <1>6, <1>7, <1>8, ProductsGrow
<1>11. Pow2[N - 1 - c] <= a0
  BY <1>6, <1>7, <1>9, ProductsGrow
<1> QED BY <1>6, <1>10, <1>11 DEF c, N


\* What a look at the last p bits does to a number whose last 2 * p bits are not 0.
LEMMA CtzLook ==
  ASSUME NEW p \in Nat, NEW x \in Nat, x % Pow2[2 * p] # 0, x % Pow2[p] = 0
  PROVE  x = (x \div Pow2[p]) * Pow2[p] /\ (x \div Pow2[p]) % Pow2[p] # 0 /\ x \div Pow2[p] \in Nat
<1> DEFINE w == Pow2[p]
<1>1. w \in Nat /\ w > 0
  BY Pow2Is
<1>2. Pow2[2 * p] = w * w
  <2>1. p + p = 2 * p
    OBVIOUS
  <2> QED BY <2>1, PowSum
<1> HIDE DEF w
<1>3. x = (x \div w) * w + (x % w) /\ x \div w \in Nat /\ (x \div w) * w \in Int
  BY <1>1, DivMod
<1>4. x % (w * w) = ((x \div w) % w) * w + (x % w)
  BY <1>1, DivTwice
<1>5. x % w = 0 /\ x % (w * w) # 0
  BY <1>2 DEF w
<1>6. 0 * w + 0 = 0
  BY <1>1
<1>7. (x \div w) % w # 0
  BY <1>4, <1>5, <1>6
<1> QED BY <1>3, <1>5, <1>7 DEF w

\* __ctzdi2 is the number of zeros behind the last one.
LEMMA CtzIsRight ==
  ASSUME NEW a0 \in Nat, a0 > 0, a0 < Pow2[NumBits]
  PROVE  /\ Ctzdi2(a0) \in 0..NumBits - 1
         /\ a0 % Pow2[Ctzdi2(a0)] = 0 /\ a0 % Pow2[Ctzdi2(a0) + 1] # 0
<1>0. PICK after : AreCtz(after, a0)
  BY CtzTurns
<1>1. /\ after[0] = [n |-> 0, a |-> a0] /\ Ctzdi2(a0) = after[LogBits].n
      /\ \A i \in 1..LogBits : after[i] = CtzTurn(after[i - 1], LogBits - i)
  BY <1>0 DEF AreCtz
<1> DEFINE L == LogBits
           N == NumBits
           Inv(n, z, i) == /\ n \in 0..N - Pow2[L - i] /\ z \in Nat
                           /\ a0 = z * Pow2[n] /\ z % Pow2[Pow2[L - i]] # 0
           S == {i \in 0..L : \E z \in Nat : Inv(after[i].n, z, i) /\ (i < L => after[i].a = z)}
<1>2. L \in Nat /\ L > 0 /\ N \in Nat /\ N = Pow2[L]
  BY LogBitsAssumption, WidthsAre DEF NumBits
<1>3. 0 \in S
  <2>1. N - Pow2[L - 0] = 0 /\ Pow2[0] = 1 /\ a0 = a0 * Pow2[0] /\ Pow2[L - 0] = N
    BY <1>2, Pow2Is
  <2>2. a0 % Pow2[N] # 0
    <3>1. a0 \in 0..Pow2[N] - 1 /\ Pow2[N] \in Nat /\ Pow2[N] > 0
      BY <1>2, Pow2Is
    <3> HIDE DEF N
    <3>2. a0 % Pow2[N] = a0
      BY <3>1, DivSmall
    <3> QED BY <3>2
  <2>3. after[0].n = 0 /\ after[0].a = a0
    BY <1>1
  <2> HIDE DEF L, N
  <2>4. Inv(0, a0, 0) /\ 0 \in 0..L
    BY <2>1, <2>2, <1>2
  <2> HIDE DEF Inv
  <2> QED BY <2>3, <2>4
<1>4. ASSUME NEW i \in 0..L - 1, i \in S PROVE i + 1 \in S
  <2> DEFINE k == L - (i + 1)
             p == Pow2[k]
             n == after[i].n
             x == after[i].a
             zero == x % Pow2[p] = 0
             b == IF zero THEN p ELSE 0
             y == x \div Pow2[b]
  <2>1. k \in 0..L - 1 /\ k + 1 = L - i /\ i + 1 \in 1..L /\ (i + 1) - 1 = i /\ i < L /\ (i + 1 < L <=> k # 0)
    BY <1>2
  <2>2. /\ p \in 1..N - 1 /\ Pow2[L - i] = 2 * p /\ 2 * p <= N /\ N \in Nat
    <3>1. p \in 1..N - 1 /\ Pow2[k + 1] = p + p /\ Pow2[k + 1] <= N
      BY <2>1, LooksAre
    <3> HIDE DEF k, p
    <3> QED BY <3>1, <2>1, <1>2
  <2>3. after[i + 1] = [n |-> n + b, a |-> IF k = 0 THEN x ELSE Shr(x, b)]
    BY <2>1, <1>1 DEF CtzTurn
  <2> HIDE DEF L, N
  <2>4. n \in 0..N - 2 * p /\ x \in Nat /\ a0 = x * Pow2[n] /\ x % Pow2[2 * p] # 0
    BY <1>4, <2>1, <2>2
  <2> HIDE DEF k, p, n, S, x
  <2>5. Pow2[n] \in Nat /\ Pow2[n] > 0 /\ Pow2[p] \in Nat /\ Pow2[p] > 0 /\ n \in Nat /\ p \in Nat
    BY <2>2, <2>4, Pow2Is
  <2>6. zero => x = (x \div Pow2[p]) * Pow2[p] /\ (x \div Pow2[p]) % Pow2[p] # 0 /\ x \div Pow2[p] \in Nat
    BY <2>4, <2>5, CtzLook
  <2>7. x = y * Pow2[b] /\ y % Pow2[p] # 0 /\ y \in Nat /\ b \in 0..N - 1 /\ n + b \in 0..N - p
    <3>1. CASE zero
      <4>1. b = p
        BY <3>1
      <4> HIDE DEF zero, b
      <4> QED BY <4>1, <3>1, <2>2, <2>4, <2>6
    <3>2. CASE ~zero
      <4>1. b = 0 /\ Pow2[b] = 1
        BY <3>2, Pow2Is
      <4>2. x % Pow2[p] # 0
        BY <3>2
      <4> HIDE DEF zero, b
      <4>3. y = x /\ y * Pow2[b] = x
        BY <4>1, <2>4
      <4> HIDE DEF y
      <4> QED BY <4>1, <4>2, <4>3, <2>2, <2>4
    <3> QED BY <3>1, <3>2
  <2> HIDE DEF zero, b
  <2>8. Shr(x, b) = y
    BY <2>4, <2>7, ShiftsAre DEF N
  <2> HIDE DEF y
  <2>9. a0 = y * Pow2[n + b]
    <3>1. b \in Nat
      BY <2>7, <2>2
    <3>2. Pow2[n + b] = Pow2[n] * Pow2[b]
      BY <3>1, <2>5, PowSum
    <3>3. Pow2[b] \in Nat
      BY <3>1, Pow2Is
    <3>4. Pow2[n] * Pow2[b] = Pow2[b] * Pow2[n] /\ y * (Pow2[b] * Pow2[n]) = (y * Pow2[b]) * Pow2[n]
      BY <3>3, <2>5, <2>7, Products
    <3> QED BY <3>2, <3>4, <2>4, <2>7
  <2>10. after[i + 1].n = n + b /\ (k # 0 => after[i + 1].a = y)
    BY <2>3, <2>8
  <2>11. Inv(after[i + 1].n, y, i + 1)
    BY <2>7, <2>9, <2>10 DEF k, p
  <2> HIDE DEF Inv
  <2> QED BY <2>1, <2>7, <2>10, <2>11, <1>2 DEF S
<1> HIDE DEF S
<1>5. L \in S
  <2>1. \A i \in 0..L : i \in S
    <3> HIDE DEF L
    <3> QED BY <1>2, <1>3, <1>4, Upwards
  <2>2. L \in 0..L
    BY <1>2
  <2> QED BY <2>1, <2>2
<1> DEFINE c == Ctzdi2(a0)
<1>6. PICK z \in Nat : c \in 0..N - 1 /\ a0 = z * Pow2[c] /\ z % 2 # 0
  <2>1. PICK z \in Nat : Inv(c, z, L)
    <3> HIDE DEF Inv
    <3> QED BY <1>1, <1>5 DEF S
  <2>2. L - L = 0 /\ Pow2[0] = 1 /\ Pow2[1] = 2
    <3>1. Pow2[0 + 1] = 2 * Pow2[0] /\ 0 + 1 = 1 /\ Pow2[0] = 1
      BY Pow2Is
    <3> QED BY <3>1, <1>2
  <2> HIDE DEF c, L, N
  <2> QED BY <2>1, <2>2
<1> DEFINE w == Pow2[c]
<1>7. w \in Nat /\ w > 0 /\ Pow2[c + 1] = 2 * w
  BY <1>2, <1>6, Pow2Is
<1> HIDE DEF c, N, w
<1>8. a0 % w = 0
  <2>1. a0 = z * w + 0 /\ 0 \in 0..w - 1
    BY <1>6, <1>7 DEF w
  <2> QED BY <2>1, <1>7, DivUnique
<1>9. a0 % (2 * w) # 0
  <2>1. (z * w) % (2 * w) = (z % 2) * w
    BY <1>7, DivScaled
  <2>2. z % 2 = 1
    BY <1>6
  <2>3. a0 % (2 * w) = w
    BY <2>1, <2>2, <1>6, <1>7 DEF w
  <2> QED BY <2>3, <1>7
<1> QED BY <1>6, <1>7, <1>8, <1>9 DEF c, N, w

-----------------------------------------------------------------------------
(* Shifts by words.                                                        *)

\* The words of a number.
LEMMA WordsOf ==
  ASSUME NEW a \in Nat, a < Pow2[NumBits]
  PROVE  /\ Hi(a) \in 0..Word - 1 /\ Lo(a) \in 0..Word - 1 /\ a = Hi(a) * Word + Lo(a)
         /\ Word \in Nat /\ Word > 1 /\ Hi(a) * Word \in Nat
<1>1. Word \in Nat /\ Word > 1 /\ Pow2[NumBits] = Word * Word
  BY WidthsAre
<1>2. /\ a \div Word \in Nat /\ a % Word \in 0..Word - 1 /\ a = (a \div Word) * Word + (a % Word)
  BY <1>1, DivMod
<1>3. a \div Word < Word
  BY <1>1, DivBounds
<1> QED BY <1>1, <1>2, <1>3, Products DEF Hi, Lo


\* The power that a shift by b bits multiplies by, and the one that remains of a word.
LEMMA PartsOfWord ==
  ASSUME NEW b \in Nat
  PROVE  /\ Pow2[b] \in Nat /\ Pow2[b] > 0
         /\ b >= Half => b - Half \in Nat /\ Pow2[b - Half] \in Nat /\ Pow2[b - Half] > 0
                         /\ Pow2[b] = Word * Pow2[b - Half] /\ Pow2[b] = Pow2[b - Half] * Word
         /\ b < Half => Half - b \in Nat /\ Pow2[Half - b] \in Nat /\ Pow2[Half - b] > 0
                        /\ Word = Pow2[b] * Pow2[Half - b] /\ Word = Pow2[Half - b] * Pow2[b]
<1>1. Half \in Nat /\ Word = Pow2[Half]
  BY WidthsAre
<1>2. Pow2[b] \in Nat /\ Pow2[b] > 0
  BY Pow2Is
<1>3. ASSUME b >= Half
      PROVE  /\ b - Half \in Nat /\ Pow2[b - Half] \in Nat /\ Pow2[b - Half] > 0
             /\ Pow2[b] = Word * Pow2[b - Half] /\ Pow2[b] = Pow2[b - Half] * Word
  <2>1. b - Half \in Nat /\ Half + (b - Half) = b /\ (b - Half) + Half = b
    BY <1>1, <1>3
  <2>2. Pow2[b - Half] \in Nat /\ Pow2[b - Half] > 0
    BY <2>1, Pow2Is
  <2>3. Pow2[Half + (b - Half)] = Pow2[Half] * Pow2[b - Half]
        /\ Pow2[(b - Half) + Half] = Pow2[b - Half] * Pow2[Half]
    BY <2>1, <1>1, PowSum
  <2> QED BY <2>1, <2>2, <2>3, <1>1
<1>4. ASSUME b < Half
      PROVE  /\ Half - b \in Nat /\ Pow2[Half - b] \in Nat /\ Pow2[Half - b] > 0
             /\ Word = Pow2[b] * Pow2[Half - b] /\ Word = Pow2[Half - b] * Pow2[b]
  <2>1. Half - b \in Nat /\ b + (Half - b) = Half /\ (Half - b) + b = Half
    BY <1>1, <1>4
  <2>2. Pow2[Half - b] \in Nat /\ Pow2[Half - b] > 0
    BY <2>1, Pow2Is
  <2>3. Pow2[b + (Half - b)] = Pow2[b] * Pow2[Half - b] /\ Pow2[(Half - b) + b] = Pow2[Half - b] * Pow2[b]
    BY <2>1, PowSum
  <2> QED BY <2>1, <2>2, <2>3, <1>1
<1> QED BY <1>2, <1>3, <1>4

\* A number of two words to the right, by less than a word: what the upper word keeps,
\* what it hands down and what the lower word keeps.
LEMMA RightByPart ==
  ASSUME NEW hi \in Int, NEW W \in Nat, NEW lo \in 0..W - 1,
         NEW p \in Nat, p > 0, NEW c \in Nat, c > 0, W = p * c, W = c * p
  PROVE  /\ (hi * W + lo) \div p = (hi \div p) * W + (((hi * c) % W) + (lo \div p))
         /\ ((hi * c) % W) + (lo \div p) \in 0..W - 1
         /\ hi \div p \in Int /\ (hi * c) % W \in Int /\ lo \div p \in Int
<1> DEFINE q == hi \div p
           r == hi % p
           l == lo \div p
<1>1. q \in Int /\ r \in 0..p - 1 /\ hi = q * p + r
  BY DivMod
<1>2. l \in Nat /\ l < c
  <2>1. lo < c * p /\ lo \in Nat /\ c \in Int
    OBVIOUS
  <2>2. lo \div p \in Nat /\ (lo \div p < c <=> lo < c * p)
    BY <2>1, DivMod, DivBounds
  <2> QED BY <2>1, <2>2
<1>3. (hi * c) % W = r * c
  <2>1. (hi * c) % (p * c) = (hi % p) * c
    BY DivScaled
  <2> QED BY <2>1
<1> HIDE DEF q, r, l
<1>4. hi * W + lo = (q * W + r * c) * p + lo
  <2>1. hi * W = (q * p) * W + r * W
    BY <1>1, Products
  <2>2. (q * p) * W = (q * W) * p
    <3>1. (q * p) * W = q * (p * W) /\ q * (W * p) = (q * W) * p /\ p * W = W * p
      BY <1>1, Products
    <3> QED BY <3>1
  <2>3. r * W = (r * c) * p
    BY <1>1, Products
  <2>4. q * W \in Int /\ r * c \in Int
    BY <1>1, Products
  <2>5. (q * W + r * c) * p = (q * W) * p + (r * c) * p
    BY <2>4, Products
  <2> QED BY <2>1, <2>2, <2>3, <2>5
<1>5. q * W \in Int /\ r * c \in Nat /\ q * W + r * c \in Int
  BY <1>1, Products
<1>6. ((q * W + r * c) * p + lo) \div p = (q * W + r * c) + l
  <2> DEFINE z == q * W + r * c
  <2>1. z \in Int /\ lo \in Int
    BY <1>5
  <2> HIDE DEF z
  <2>2. (z * p + lo) \div p = z + lo \div p
    BY <2>1, DivPlus
  <2> QED BY <2>2 DEF z, l
<1>7. r * c + c <= W
  BY <1>1, ProductsGrow
<1> DEFINE x == q * W
           y == r * c
<1>8. x \in Int /\ y \in Nat /\ y + c <= W /\ (hi * W + lo) \div p = (x + y) + l /\ (hi * c) % W = y
  BY <1>3, <1>4, <1>5, <1>6, <1>7
<1> HIDE DEF x, y
<1>9. (x + y) + l = x + (y + l) /\ y + l \in 0..W - 1
  BY <1>2, <1>8
<1> QED BY <1>1, <1>2, <1>8, <1>9 DEF q, l, x

ShiftedLeft(hi, lo, W, p, c) ==
  ((hi * W + lo) * p) % (W * W) = ((lo \div c) + ((hi * p) % W)) * W + ((lo * p) % W)

\* A number of two words to the left by less than a word: what the lower word hands up.
LEMMA LeftByPart ==
  ASSUME NEW hi \in Int, NEW W \in Nat, NEW lo \in 0..W - 1,
         NEW p \in Nat, p > 0, NEW c \in Nat, c > 0, W = p * c, W = c * p
  PROVE  ShiftedLeft(hi, lo, W, p, c)
<1>0. W > 0
  <2>1. p <= p * c
    BY Products
  <2> QED BY <2>1
<1> DEFINE x == (hi * W + lo) * p
           u == hi * p
           v == lo * p
           l == lo \div c
<1>1. u \in Int /\ v \in Int /\ x \in Int
  BY Products
<1>2. x = u * W + v
  <2>1. hi * W \in Int
    BY Products
  <2>2. x = (hi * W) * p + lo * p
    BY <2>1, Products
  <2>3. (hi * W) * p = hi * (W * p) /\ W * p = p * W /\ hi * (p * W) = (hi * p) * W
    BY Products
  <2> QED BY <2>2, <2>3
<1>3. l \in Nat /\ l < p
  <2>1. lo \in Nat /\ lo < p * c /\ p \in Int
    OBVIOUS
  <2>2. lo \div c \in Nat /\ (lo \div c < p <=> lo < p * c)
    BY <2>1, DivMod, DivBounds
  <2> QED BY <2>1, <2>2
<1>4. v \div W = l
  <2>1. (lo * p) \div (c * p) = lo \div c
    BY DivScaled
  <2> QED BY <2>1
<1>5. u % W = (hi % c) * p /\ hi % c \in 0..c - 1
  <2>1. (hi * p) % (c * p) = (hi % c) * p
    BY DivScaled
  <2>2. hi % c \in 0..c - 1
    BY DivMod
  <2> QED BY <2>1, <2>2
<1>6. u % W \in Nat /\ (u % W) + p <= W
  <2> DEFINE m == hi % c
  <2>1. m \in 0..c - 1
    BY <1>5
  <2> HIDE DEF m
  <2>2. m * p + p <= c * p /\ m * p \in Nat
    BY <2>1, ProductsGrow, Products
  <2> QED BY <2>2, <1>5 DEF m
<1> HIDE DEF x, u, v, l
<1>7. x \div W = u + l /\ x % W = v % W
  BY <1>0, <1>1, <1>2, <1>4, DivPlus
<1>8. (u + l) % W = l + (u % W)
  <2> DEFINE q == u \div W
             m == u % W
  <2>1. q \in Int /\ m \in Int /\ u = q * W + m /\ q * W \in Int
    BY <1>0, <1>1, DivMod
  <2>2. m \in Nat /\ m + p <= W
    BY <1>6
  <2> HIDE DEF q, m
  <2>3. u + l = q * W + (m + l) /\ m + l \in 0..W - 1 /\ m + l = l + m
    BY <1>3, <2>1, <2>2
  <2>4. (q * W + (m + l)) % W = m + l
    BY <1>0, <2>1, <2>3, DivUnique
  <2> QED BY <2>3, <2>4 DEF m
<1>9. x % (W * W) = ((x \div W) % W) * W + (x % W)
  BY <1>0, <1>1, DivTwice
<1> QED BY <1>7, <1>8, <1>9 DEF x, u, v, l, ShiftedLeft

\* Shifts counted modulo the width.
LEMMA ShiftBy ==
  ASSUME NEW k \in Nat
  PROVE  k % NumBits \in 0..NumBits - 1 /\ k % NumBits \in Nat
<1>1. NumBits \in Nat /\ NumBits > 0
  BY WidthsAre
<1> QED BY <1>1, DivMod

LEMMA AshlIsRight ==
  ASSUME NEW a \in Nat, a < Pow2[NumBits], NEW k \in Nat
  PROVE  Ashldi3(a, k) = U64(a * Pow2[k % NumBits])
<1> DEFINE b == k % NumBits
           W == Word
           h == Hi(a)
           l == Lo(a)
<1>1. b \in Nat /\ Half \in Nat /\ Half > 0
  BY ShiftBy, WidthsAre
<1>2. Ashldi3(a, k) = IF b >= Half THEN ((l * Pow2[b - Half]) % W) * W
                      ELSE IF b > 0 THEN ((l \div Pow2[Half - b]) + ((h * Pow2[b]) % W)) * W + ((l * Pow2[b]) % W)
                      ELSE a
  BY DEF Ashldi3
<1>3. U64(a * Pow2[k % NumBits]) = (a * Pow2[b]) % (W * W)
  BY WidthsAre DEF U64
<1>4. /\ W \in Nat /\ W > 0 /\ h \in Nat /\ l \in 0..W - 1 /\ a = h * W + l /\ h * W \in Nat
      /\ a < W * W /\ W * W \in Nat
  BY WordsOf, WidthsAre, Products
<1> HIDE DEF b, W, h, l
<1>5. CASE b >= Half
  <2> DEFINE e == Pow2[b - Half]
  <2>1. e \in Nat /\ e > 0 /\ Pow2[b] = e * W
    BY <1>1, <1>5, PartsOfWord DEF W
  <2> HIDE DEF e
  <2>2. a * e \in Nat /\ a * Pow2[b] = (a * e) * W /\ h * e \in Int /\ l * e \in Int
    BY <1>4, <2>1, Products
  <2>3. ((a * e) * W) % (W * W) = ((a * e) % W) * W
    BY <1>4, <2>2, DivScaled
  <2>4. a * e = (h * e) * W + l * e
    <3>1. a * e = (h * W) * e + l * e
      BY <1>4, <2>1, Products
    <3>2. (h * W) * e = h * (W * e) /\ W * e = e * W /\ h * (e * W) = (h * e) * W
      BY <1>4, <2>1, Products
    <3> QED BY <3>1, <3>2
  <2>5. (a * e) % W = (l * e) % W
    <3> DEFINE x == h * e
               y == l * e
    <3>1. x \in Int /\ y \in Int /\ a * e = x * W + y
      BY <2>2, <2>4
    <3> HIDE DEF x, y
    <3>2. (x * W + y) % W = y % W
      BY <1>4, <3>1, DivPlus
    <3> QED BY <3>1, <3>2 DEF y
  <2> QED BY <1>2, <1>3, <1>5, <2>2, <2>3, <2>5 DEF e
<1>6. CASE b < Half /\ b > 0
  <2> DEFINE p == Pow2[b]
             c == Pow2[Half - b]
  <2>1. p \in Nat /\ p > 0 /\ c \in Nat /\ c > 0 /\ W = p * c /\ W = c * p
    BY <1>1, <1>6, PartsOfWord DEF W
  <2>2. ~(b >= Half) /\ b > 0
    BY <1>1, <1>6
  <2> HIDE DEF p, c
  <2>3. ((h * W + l) * p) % (W * W) = ((l \div c) + ((h * p) % W)) * W + ((l * p) % W)
    <3>1. h \in Int /\ W \in Nat /\ l \in 0..W - 1
      BY <1>4
    <3>2. ShiftedLeft(h, l, W, p, c)
      BY <2>1, <3>1, LeftByPart
    <3> QED BY <3>2 DEF ShiftedLeft
  <2> QED BY <1>2, <1>3, <1>4, <2>2, <2>3 DEF p, c
<1>7. CASE b = 0
  <2>1. Pow2[b] = 1 /\ a * 1 = a
    BY <1>7, Pow2Is
  <2>2. Ashldi3(a, k) = a
    BY <1>1, <1>2, <1>7
  <2> DEFINE m == W * W
  <2>3. m \in Nat /\ m > 0 /\ a \in 0..m - 1
    BY <1>4
  <2> HIDE DEF m
  <2>4. a % m = a
    BY <2>3, DivSmall
  <2> QED BY <1>3, <2>1, <2>2, <2>4 DEF m
<1> QED BY <1>1, <1>5, <1>6, <1>7

\* Any number of two words, the upper one signed or not, to the right by less than their width.
LEMMA RightIs ==
  ASSUME NEW hi \in Int, NEW lo \in 0..Word - 1, NEW b \in Nat
  PROVE  /\ b >= Half => (hi * Word + lo) \div Pow2[b] = hi \div Pow2[b - Half]
         /\ b < Half => /\ (hi * Word + lo) \div Pow2[b]
                             = (hi \div Pow2[b]) * Word + (((hi * Pow2[Half - b]) % Word) + (lo \div Pow2[b]))
                        /\ ((hi * Pow2[Half - b]) % Word) + (lo \div Pow2[b]) \in 0..Word - 1
                        /\ hi \div Pow2[b] \in Int
                        /\ (hi * Pow2[Half - b]) % Word \in Int /\ lo \div Pow2[b] \in Int
<1> DEFINE W == Word
<1>1. W \in Nat /\ W > 0
  BY WidthsAre
<1>2. ASSUME b >= Half PROVE (hi * W + lo) \div Pow2[b] = hi \div Pow2[b - Half]
  <2> DEFINE e == Pow2[b - Half]
             x == hi * W + lo
  <2>1. e \in Nat /\ e > 0 /\ Pow2[b] = W * e
    BY <1>2, PartsOfWord
  <2>2. hi * W \in Int /\ x \in Int
    BY <1>1, Products
  <2>3. x \div W = hi
    BY <1>1, DivUnique
  <2> HIDE DEF e, x, W
  <2>4. (x \div W) \div e = x \div (W * e)
    BY <1>1, <2>1, <2>2, DivTwice
  <2> QED BY <2>1, <2>3, <2>4 DEF e, x
<1>3. ASSUME b < Half
      PROVE /\ (hi * W + lo) \div Pow2[b]
                 = (hi \div Pow2[b]) * W + (((hi * Pow2[Half - b]) % W) + (lo \div Pow2[b]))
            /\ ((hi * Pow2[Half - b]) % W) + (lo \div Pow2[b]) \in 0..W - 1
            /\ hi \div Pow2[b] \in Int
            /\ (hi * Pow2[Half - b]) % W \in Int /\ lo \div Pow2[b] \in Int
  <2> DEFINE p == Pow2[b]
             c == Pow2[Half - b]
  <2>1. p \in Nat /\ p > 0 /\ c \in Nat /\ c > 0 /\ W = p * c /\ W = c * p
    BY <1>3, PartsOfWord
  <2> HIDE DEF p, c, W
  <2>2. lo \in 0..W - 1
    BY DEF W
  <2>3. /\ (hi * W + lo) \div p = (hi \div p) * W + (((hi * c) % W) + (lo \div p))
        /\ ((hi * c) % W) + (lo \div p) \in 0..W - 1
        /\ hi \div p \in Int /\ (hi * c) % W \in Int /\ lo \div p \in Int
    BY <1>1, <2>1, <2>2, RightByPart
  <2> QED BY <2>3 DEF p, c
<1> QED BY <1>2, <1>3

LEMMA LshrIsRight ==
  ASSUME NEW a \in Nat, a < Pow2[NumBits], NEW k \in Nat
  PROVE  Lshrdi3(a, k) = a \div Pow2[k % NumBits]
<1> DEFINE b == k % NumBits
           h == Hi(a)
           l == Lo(a)
<1>1. b \in Nat /\ Half \in Nat /\ Half > 0
  BY ShiftBy, WidthsAre
<1>2. Lshrdi3(a, k) = IF b >= Half THEN h \div Pow2[b - Half]
                      ELSE IF b > 0 THEN (h \div Pow2[b]) * Word + ((h * Pow2[Half - b]) % Word) + (l \div Pow2[b])
                      ELSE a
  BY DEF Lshrdi3
<1>3. Word \in Nat /\ Word > 0 /\ h \in Int /\ l \in 0..Word - 1 /\ a = h * Word + l
  BY WordsOf
<1> HIDE DEF h, l
<1>4. CASE b >= Half
  <2>1. (h * Word + l) \div Pow2[b] = h \div Pow2[b - Half]
    <3> HIDE DEF b
    <3> QED BY <1>1, <1>3, <1>4, RightIs
  <2> QED BY <2>1, <1>2, <1>3, <1>4
<1>5. CASE b < Half /\ b > 0
  <2> DEFINE x == h \div Pow2[b]
             y == (h * Pow2[Half - b]) % Word
             z == l \div Pow2[b]
  <2>0. ~(b >= Half) /\ b > 0
    <3> HIDE DEF b
    <3> QED BY <1>1, <1>5
  <2> HIDE DEF b
  <2>1. (h * Word + l) \div Pow2[b] = x * Word + (y + z) /\ x \in Int /\ y \in Int /\ z \in Int
    BY <1>1, <1>3, <1>5, RightIs
  <2>2. Lshrdi3(a, k) = x * Word + y + z
    BY <2>0, <1>2
  <2>3. x * Word \in Int
    BY <2>1, <1>3, Products
  <2> HIDE DEF x, y, z
  <2> DEFINE m == x * Word
  <2> HIDE DEF m
  <2>4. m + (y + z) = m + y + z
    BY <2>1, <2>3 DEF m
  <2> QED BY <2>1, <2>2, <2>4, <1>3 DEF m, b
<1>6. CASE b = 0
  <2>1. Pow2[b] = 1 /\ a \div 1 = a /\ ~(b >= Half) /\ ~(b > 0)
    <3> HIDE DEF b
    <3> QED BY <1>1, <1>6, Pow2Is
  <2> QED BY <2>1, <1>2
<1>7. b >= Half \/ (b < Half /\ b > 0) \/ b = 0
  <2> HIDE DEF b
  <2> QED BY <1>1
<1> QED BY <1>4, <1>5, <1>6, <1>7


-----------------------------------------------------------------------------
(* Signed numbers.                                                         *)

\* The numbers of two words.
Doubles == 0..Pow2[NumBits] - 1

LEMMA DoublesAre ==
  /\ Top \in Nat /\ Top > 0 /\ Pow2[NumBits] \in Nat /\ Pow2[NumBits] > 0 /\ Pow2[NumBits] = Top + Top
  /\ \A a \in Doubles : a \in Nat /\ a < Pow2[NumBits] /\ U64(a) = a
  /\ \A x \in Int : U64(x) \in Doubles /\ U64(x + Pow2[NumBits]) = U64(x)
<1> DEFINE M == Pow2[NumBits]
<1>1. Top \in Nat /\ Top > 0 /\ M = 2 * Top
  BY WidthsAre
<1>2. M \in Nat /\ M > 0 /\ M = Top + Top
  BY <1>1
<1> HIDE DEF M
<1>3. ASSUME NEW a \in 0..M - 1 PROVE a \in Nat /\ a < M /\ a % M = a
  BY <1>2, DivSmall
<1>4. ASSUME NEW x \in Int PROVE x % M \in 0..M - 1 /\ (x + M) % M = x % M
  <2>1. (1 * M + x) % M = x % M /\ 1 * M + x = x + M
    <3>1. 1 \in Int /\ 1 * M + x = x + M
      BY <1>2
    <3> QED BY <1>2, <3>1, DivPlus
  <2> QED BY <2>1, <1>2, DivMod
<1> QED BY <1>1, <1>2, <1>3, <1>4 DEF M, Doubles, U64

\* The bits of a signed number, and the number they say.
LEMMA SignedOfBits ==
  ASSUME NEW v \in -Top..Top - 1
  PROVE  U64(v) = (IF v < 0 THEN v + Pow2[NumBits] ELSE v) /\ U64(v) \in Doubles /\ Signed(U64(v)) = v
<1> DEFINE M == Pow2[NumBits]
<1>1. Top \in Nat /\ Top > 0 /\ M \in Nat /\ M > 0 /\ M = Top + Top /\ v \in Int
  BY DoublesAre
<1>2. CASE v < 0
  <2>1. v + M \in 0..M - 1 /\ v + M >= Top
    BY <1>1, <1>2
  <2>2. U64(v) = U64(v + M) /\ U64(v + M) = v + M
    <3>1. v + M \in Doubles
      BY <2>1 DEF Doubles
    <3> HIDE DEF M
    <3> QED BY <1>1, <3>1, DoublesAre DEF M
  <2> HIDE DEF M
  <2>3. (v + M) - M = v
    BY <1>1
  <2> QED BY <1>2, <2>1, <2>2, <2>3 DEF Signed, IsNeg, Doubles, M
<1>3. CASE v >= 0
  <2>1. v \in 0..M - 1 /\ ~(v >= Top) /\ ~(v < 0)
    BY <1>1, <1>3
  <2>2. v \in Doubles
    BY <2>1 DEF Doubles
  <2> HIDE DEF M
  <2>3. U64(v) = v
    BY <2>2, DoublesAre
  <2> QED BY <2>1, <2>2, <2>3 DEF Signed, IsNeg
<1> QED BY <1>1, <1>2, <1>3

LEMMA BitsOfSigned ==
  ASSUME NEW a \in Doubles
  PROVE  /\ Signed(a) \in -Top..Top - 1 /\ U64(Signed(a)) = a
         /\ IsNeg(a) <=> Signed(a) < 0
         /\ Abs(a) = (IF Signed(a) < 0 THEN -Signed(a) ELSE Signed(a)) /\ Abs(a) \in 0..Top
<1> DEFINE M == Pow2[NumBits]
<1>1. Top \in Nat /\ Top > 0 /\ M \in Nat /\ M > 0 /\ M = Top + Top /\ a \in 0..M - 1 /\ U64(a) = a
  BY DoublesAre DEF Doubles
<1>2. CASE IsNeg(a)
  <2>1. a >= Top /\ Signed(a) = a - M /\ Abs(a) = U64(-a)
    BY <1>2 DEF IsNeg, Signed, Abs, Neg
  <2>2. a - M \in Int /\ -a \in Int /\ (a - M) + M = a /\ -a + M \in 0..M - 1 /\ -(a - M) = -a + M
    BY <1>1, <2>1
  <2>3. U64(a - M) = U64(a) /\ U64(-a) = U64(-a + M)
    <3>1. \A x \in Int : U64(x + M) = U64(x)
      BY DoublesAre
    <3> HIDE DEF M
    <3> QED BY <2>2, <3>1
  <2>4. U64(-a + M) = -a + M
    <3>1. -a + M \in Doubles
      BY <2>2 DEF Doubles
    <3> HIDE DEF M
    <3> QED BY <3>1, DoublesAre
  <2> HIDE DEF M
  <2>5. a - M \in -Top..Top - 1 /\ a - M < 0 /\ -(a - M) \in 0..Top
    BY <1>1, <2>1
  <2> QED BY <1>1, <1>2, <2>1, <2>2, <2>3, <2>4, <2>5
<1>3. CASE ~IsNeg(a)
  <2>1. ~(a >= Top) /\ Signed(a) = a /\ Abs(a) = a
    BY <1>3 DEF IsNeg, Signed, Abs, Neg
  <2> HIDE DEF M
  <2>2. a \in 0..Top - 1 /\ ~(a < 0)
    BY <1>1, <2>1
  <2> QED BY <1>1, <1>3, <2>1, <2>2
<1> QED BY <1>2, <1>3

\* A signed number, by its words.
LEMMA SignedWords ==
  ASSUME NEW a \in Doubles
  PROVE  /\ Signed(a) = (IF IsNeg(a) THEN Hi(a) - Word ELSE Hi(a)) * Word + Lo(a)
         /\ Lo(a) \in 0..Word - 1 /\ Hi(a) \in Nat /\ Word \in Nat /\ Word > 0
<1>1. /\ Hi(a) \in Nat /\ Lo(a) \in 0..Word - 1 /\ a = Hi(a) * Word + Lo(a)
      /\ Word \in Nat /\ Word > 0 /\ Hi(a) * Word \in Nat
  BY DoublesAre, WordsOf
<1>2. (Hi(a) - Word) * Word = Hi(a) * Word - Word * Word /\ Word * Word \in Nat
  BY <1>1, Products
<1>3. Pow2[NumBits] = Word * Word
  BY WidthsAre
<1> DEFINE x == Hi(a) * Word
           y == Word * Word
<1>4. x \in Nat /\ y \in Nat /\ Pow2[NumBits] = y /\ a = x + Lo(a) /\ (Hi(a) - Word) * Word = x - y
  BY <1>1, <1>2, <1>3
<1> HIDE DEF x, y
<1>5. a - y = (x - y) + Lo(a)
  BY <1>1, <1>4
<1> QED BY <1>1, <1>4, <1>5 DEF Signed, x

\* A quotient is no further from 0.
LEMMA DivShrinks ==
  ASSUME NEW t \in Nat, NEW v \in -t..t - 1, NEW d \in Nat, d > 0
  PROVE  v \div d \in -t..t - 1
<1>1. v \in Int /\ v \div d \in Int
  BY DivMod
<1>2. CASE v >= 0
  BY <1>1, <1>2, DivMod
<1>3. CASE v < 0
  <2>1. v \div d < 0
    <3>1. v < 0 * d
      BY <1>3
    <3> QED BY <1>1, <3>1, DivBounds
  <2>2. ~(v \div d < -t)
    <3>1. t <= t * d /\ t * d \in Nat /\ (-t) * d = -(t * d)
      BY Products
    <3> DEFINE x == t * d
    <3>2. t <= x /\ x \in Nat /\ (-t) * d = -x
      BY <3>1
    <3> HIDE DEF x
    <3>3. ~(v < (-t) * d)
      BY <3>2
    <3>4. -t \in Int
      OBVIOUS
    <3> QED BY <1>1, <3>3, <3>4, DivBounds
  <2> QED BY <1>1, <1>3, <2>1, <2>2
<1> QED BY <1>1, <1>2, <1>3

\* The bits of a number that fits a word, and of one whose lower word is known.
LEMMA BitsByWords ==
  ASSUME NEW y \in Int, NEW t \in 0..Word - 1
  PROVE  /\ U64(y * Word + t) = (y % Word) * Word + t
         /\ -Word <= y /\ y < Word => U64(y) = (y % Word) + (IF y < 0 THEN (Word - 1) * Word ELSE 0)
<1> DEFINE W == Word
<1>1. W \in Nat /\ W > 0 /\ \A x \in Int : U64(x) = x % (W * W)
  BY WidthsAre DEF U64
<1> HIDE DEF W
<1>2. \A x \in Int : U64(x) = ((x \div W) % W) * W + (x % W)
  BY <1>1, DivTwice
<1>3. y * W \in Int /\ y * W + t \in Int
  BY <1>1, Products DEF W
<1>4. (y * W + t) \div W = y /\ (y * W + t) % W = t
  BY <1>1, DivUnique DEF W
<1>5. U64(y * W + t) = (y % W) * W + t
  BY <1>2, <1>3, <1>4
<1>6. ASSUME -W <= y, y < W PROVE U64(y) = (y % W) + (IF y < 0 THEN (W - 1) * W ELSE 0)
  <2>0. y % W \in Int
    BY <1>1, DivMod
  <2>1. CASE y < 0
    <3>1. (-1) * W + (y + W) = y /\ y + W \in 0..W - 1 /\ -1 \in Int
      BY <1>1, <1>6, <2>1
    <3>2. y \div W = -1
      BY <1>1, <3>1, DivUnique
    <3>3. (-1) * W + (W - 1) = -1 /\ W - 1 \in 0..W - 1
      BY <1>1
    <3>4. (-1) % W = W - 1
      BY <1>1, <3>1, <3>3, DivUnique
    <3>5. U64(y) = (W - 1) * W + (y % W)
      BY <1>2, <3>2, <3>4
    <3>6. (W - 1) * W \in Int
      BY <1>1, Products
    <3> DEFINE z == (W - 1) * W
    <3>7. z \in Int /\ U64(y) = z + (y % W)
      BY <3>5, <3>6
    <3> HIDE DEF z
    <3>8. z + (y % W) = (y % W) + z
      BY <2>0, <3>7
    <3> QED BY <2>1, <3>7, <3>8 DEF z
  <2>2. CASE y >= 0
    <3>1. y \in 0..W - 1 /\ ~(y < 0) /\ 0 \in 0..W - 1
      BY <1>1, <1>6, <2>2
    <3>2. y \div W = 0 /\ 0 % W = 0
      BY <1>1, <3>1, DivSmall
    <3>3. U64(y) = 0 * W + (y % W)
      BY <1>2, <3>2
    <3>4. 0 * W + (y % W) = (y % W) + 0
      BY <1>1, <2>0
    <3> QED BY <3>1, <3>3, <3>4
  <2> QED BY <2>1, <2>2
<1> QED BY <1>5, <1>6 DEF W

LEMMA AshrIsRight ==
  ASSUME NEW a \in Doubles, NEW k \in Nat
  PROVE  Signed(Ashrdi3(a, k)) = Signed(a) \div Pow2[k % NumBits]
<1> DEFINE b == k % NumBits
           g == Hi(a)
           l == Lo(a)
           hi == IF IsNeg(a) THEN g - Word ELSE g
           v == Signed(a) \div Pow2[b]
<1>1. b \in Nat /\ Half \in Nat /\ Half > 0
  BY ShiftBy, WidthsAre
<1>2. Ashrdi3(a, k) =
        IF b >= Half THEN ((hi \div Pow2[b - Half]) % Word) + (IF IsNeg(a) THEN (Word - 1) * Word ELSE 0)
        ELSE IF b > 0 THEN ((hi \div Pow2[b]) % Word) * Word + ((g * Pow2[Half - b]) % Word) + (l \div Pow2[b])
        ELSE a
  BY DEF Ashrdi3
<1>3. /\ Word \in Nat /\ Word > 0 /\ hi \in Int /\ g \in Nat /\ l \in 0..Word - 1 /\ Signed(a) = hi * Word + l
      /\ hi = g - Word \/ hi = g
  BY SignedWords
<1>4. Signed(a) \in -Top..Top - 1 /\ Top \in Nat /\ (IsNeg(a) <=> Signed(a) < 0)
  BY BitsOfSigned, DoublesAre
<1>5. Pow2[b] \in Nat /\ Pow2[b] > 0
  <2> HIDE DEF b
  <2> QED BY <1>1, Pow2Is
<1>6. v \in -Top..Top - 1
  <2> DEFINE d == Pow2[b]
  <2> HIDE DEF d
  <2> QED BY <1>4, <1>5, DivShrinks DEF d
<1> HIDE DEF hi, g, l, b
<1>7. hi < 0 <=> Signed(a) < 0
  <2>1. hi < 0 => hi * Word + Word <= 0 * Word
    BY <1>3, ProductsGrow
  <2>2. hi >= 0 => hi * Word \in Nat
    BY <1>3, Products
  <2>3. hi * Word \in Int
    BY <1>3, Products
  <2> DEFINE x == hi * Word
  <2>4. x \in Int /\ (hi < 0 => x + Word <= 0) /\ (hi >= 0 => x >= 0) /\ Signed(a) = x + l
    BY <1>3, <2>1, <2>2, <2>3
  <2> HIDE DEF x
  <2> QED BY <1>3, <2>4
<1>8. -Word <= hi /\ hi < Word
  <2>1. g < Word
    BY DoublesAre, WordsOf DEF g
  <2> QED BY <2>1, <1>3
<1>9. CASE b >= Half
  <2> DEFINE e == Pow2[b - Half]
             y == hi \div e
  <2>1. e \in Nat /\ e > 0
    BY <1>1, <1>9, PartsOfWord
  <2>2. Signed(a) \div Pow2[b] = y
    <3>1. (hi * Word + l) \div Pow2[b] = hi \div Pow2[b - Half]
      BY <1>1, <1>3, <1>9, RightIs
    <3> QED BY <3>1, <1>3
  <2> HIDE DEF e
  <2>3. y \in Int /\ -Word <= y /\ y < Word
    <3>1. Word + Word \in Nat
      BY <1>3
    <3>2. hi \in -Word..Word - 1
      BY <1>3, <1>8
    <3>3. y \in -Word..Word - 1
      BY <1>3, <2>1, <3>2, DivShrinks
    <3> QED BY <3>3, <1>3
  <2>4. y < 0 <=> hi < 0
    <3>1. y < 0 <=> hi < 0 * e
      BY <1>3, <2>1, DivBounds
    <3> QED BY <3>1, <2>1
  <2> HIDE DEF y
  <2>5. 0 \in 0..Word - 1
    BY <1>3
  <2>6. U64(y) = (y % Word) + (IF y < 0 THEN (Word - 1) * Word ELSE 0)
    BY <2>3, <2>5, BitsByWords
  <2>7. Ashrdi3(a, k) = U64(y)
    BY <1>2, <1>4, <1>7, <1>9, <2>4, <2>6 DEF e, y
  <2>8. y \in -Top..Top - 1
    BY <1>6, <2>2 DEF y
  <2>9. Signed(U64(y)) = y
    BY <2>8, SignedOfBits
  <2> QED BY <2>2, <2>7, <2>9 DEF b
<1>10. CASE b < Half /\ b > 0
  <2> DEFINE y == hi \div Pow2[b]
             s == (hi * Pow2[Half - b]) % Word
             z == l \div Pow2[b]
  <2>0. ~(b >= Half) /\ b > 0
    BY <1>1, <1>10
  <2>1. (hi * Word + l) \div Pow2[b] = y * Word + (s + z) /\ s + z \in 0..Word - 1
        /\ y \in Int /\ s \in Int /\ z \in Int
    BY <1>1, <1>3, <1>10, RightIs
  <2>2. (g * Pow2[Half - b]) % Word = s
    <3> DEFINE c == Pow2[Half - b]
    <3>1. c \in Nat
      BY <1>1, <1>10, PartsOfWord
    <3> HIDE DEF c
    <3>2. CASE hi = g
      BY <3>2 DEF c
    <3>3. CASE hi = g - Word
      <4>1. hi * c \in Int /\ c \in Int
        BY <1>3, <3>1, Products
      <4>2. g = Word + hi
        BY <1>3, <3>3
      <4>3. g * c = c * Word + hi * c
        BY <1>3, <3>1, <4>2
      <4> DEFINE x == hi * c
      <4>4. x \in Int /\ g * c = c * Word + x
        BY <4>1, <4>3
      <4> HIDE DEF x
      <4>5. (c * Word + x) % Word = x % Word
        BY <1>3, <4>1, <4>4, DivPlus
      <4> QED BY <4>4, <4>5 DEF x, c
    <3> QED BY <1>3, <3>2, <3>3
  <2> HIDE DEF y, s, z
  <2>3. U64(y * Word + (s + z)) = (y % Word) * Word + (s + z)
    <3> DEFINE t == s + z
    <3>1. t \in 0..Word - 1
      BY <2>1
    <3> HIDE DEF t
    <3>2. U64(y * Word + t) = (y % Word) * Word + t
      BY <2>1, <3>1, BitsByWords
    <3> QED BY <3>2 DEF t
  <2>4. Ashrdi3(a, k) = (y % Word) * Word + s + z
    BY <2>0, <2>2, <1>2 DEF y, z
  <2>5. (y % Word) * Word + s + z = (y % Word) * Word + (s + z)
    <3>1. y % Word \in Int
      BY <1>3, <2>1, DivMod
    <3>2. (y % Word) * Word \in Int
      BY <1>3, <3>1, Products
    <3> DEFINE x == (y % Word) * Word
    <3> HIDE DEF x
    <3>3. x + s + z = x + (s + z)
      BY <2>1, <3>2 DEF x
    <3> QED BY <3>3 DEF x
  <2>6. v = y * Word + (s + z)
    BY <2>1, <1>3
  <2>7. Signed(U64(v)) = v
    <3> HIDE DEF v
    <3> QED BY <1>6, SignedOfBits
  <2> HIDE DEF v
  <2>8. Ashrdi3(a, k) = U64(v)
    BY <2>3, <2>4, <2>5, <2>6
  <2> QED BY <2>7, <2>8 DEF v, b
<1>11. CASE b = 0
  <2>1. Pow2[b] = 1 /\ ~(b >= Half) /\ ~(b > 0)
    BY <1>1, <1>11, Pow2Is
  <2>2. Signed(a) \div 1 = Signed(a)
    BY <1>4
  <2>3. Ashrdi3(a, k) = a
    BY <1>2, <2>1
  <2> QED BY <2>1, <2>2, <2>3 DEF b
<1> QED BY <1>1, <1>9, <1>10, <1>11


-----------------------------------------------------------------------------
(* The long division.                                                      *)

\* The next bit of a number, from the upper end.
LEMMA NextBit ==
  ASSUME NEW a \in Nat, NEW e \in Nat, e > 0
  PROVE  /\ (a \div Pow2[e - 1]) \div 2 = a \div Pow2[e]
         /\ a % Pow2[e] = ((a \div Pow2[e - 1]) % 2) * Pow2[e - 1] + (a % Pow2[e - 1])
         /\ a \div Pow2[e - 1] \in Nat /\ a \div Pow2[e - 1] <= a
         /\ a % Pow2[e - 1] \in Nat /\ a % Pow2[e - 1] < Pow2[e - 1]
         /\ e - 1 \in Nat /\ Pow2[e - 1] \in Nat /\ Pow2[e - 1] > 0
<1> DEFINE p == Pow2[e - 1]
<1>1. e - 1 \in Nat /\ (e - 1) + 1 = e
  OBVIOUS
<1>2. p \in Nat /\ p > 0 /\ Pow2[e] = 2 * p
  BY <1>1, Pow2Is
<1>3. Pow2[e] = p * 2
  <2> HIDE DEF p
  <2> QED BY <1>2
<1> HIDE DEF p
<1>4. /\ (a \div p) \div 2 = a \div (p * 2)
      /\ a % (p * 2) = ((a \div p) % 2) * p + (a % p)
  BY <1>2, DivTwice
<1>5. a \div p \in Nat /\ a \div p <= a /\ a % p \in 0..p - 1
  BY <1>2, DivMod
<1> QED BY <1>1, <1>2, <1>3, <1>4, <1>5 DEF p

\* What a turn does to the numerator: its first bit is taken and a bit of the quotient put
\* behind it.
LEMMA NumeratorTurns ==
  ASSUME NEW e \in 1..NumBits - 1, NEW t \in 0..1, NEW m \in Nat, m < Pow2[e - 1],
         NEW q \in Nat, q < Pow2[NumBits - e],
         NEW s \in Nat, s = (t * Pow2[e - 1] + m) * Pow2[NumBits - e] + (q \div 2)
  PROVE  /\ s \div Top = t
         /\ U64(2 * s) + (q % 2) = m * Pow2[NumBits - (e - 1)] + q
         /\ Pow2[NumBits - (e - 1)] = 2 * Pow2[NumBits - e]
<1> DEFINE w == Pow2[e - 1]
           v == Pow2[NumBits - e]
           h == q \div 2
<1>1. /\ NumBits - e \in Nat /\ e - 1 \in Nat /\ NumBits - 1 \in Nat
      /\ (e - 1) + (NumBits - e) = NumBits - 1 /\ (NumBits - e) + 1 = NumBits - (e - 1)
  BY WidthsAre
<1>2. w \in Nat /\ w > 0 /\ v \in Nat /\ v > 0
  BY <1>1, Pow2Is
<1>3. w * v = Top
  <2>1. Pow2[(e - 1) + (NumBits - e)] = Pow2[e - 1] * Pow2[NumBits - e]
    BY <1>1, PowSum
  <2> QED BY <2>1, <1>1 DEF Top
<1>4. Pow2[NumBits - (e - 1)] = 2 * v
  <2>1. Pow2[(NumBits - e) + 1] = 2 * Pow2[NumBits - e]
    BY <1>1, Pow2Is
  <2> QED BY <2>1, <1>1
<1>5. h \in Nat /\ h < v /\ q % 2 \in 0..1 /\ 2 * h + (q % 2) = q /\ 2 * h < 2 * v
  <2>1. v \in Nat /\ q < v
    BY <1>2
  <2> HIDE DEF v
  <2> QED BY <2>1
<1> HIDE DEF w, v, h
<1> DEFINE y == m * v
<1>6. y \in Nat /\ y + v <= Top
  <2>1. m * v + v <= w * v /\ m * v \in Nat
    <3>1. m \in Int /\ w \in Int /\ v \in Nat /\ v > 0 /\ m < w
      BY <1>2 DEF w
    <3>2. m * v + v <= w * v
      BY <3>1, ProductsGrow
    <3>3. m * v \in Nat
      BY <3>1, Products
    <3> QED BY <3>2, <3>3
  <2> QED BY <2>1, <1>3
<1>7. s = t * Top + (y + h)
  <2>1. t * w \in Int
    BY <1>2, Products
  <2>2. (t * w + m) * v = (t * w) * v + m * v
    BY <1>2, <2>1, Products
  <2>3. (t * w) * v = t * (w * v)
    BY <1>2, Products
  <2>4. s = (t * Top + y) + h
    BY <2>2, <2>3, <1>3 DEF w, v, h
  <2>5. t * Top \in Int
    BY DoublesAre, Products
  <2> DEFINE z == t * Top
  <2> HIDE DEF z, y
  <2>6. (z + y) + h = z + (y + h)
    BY <1>5, <1>6, <2>5 DEF z
  <2> QED BY <2>4, <2>6 DEF z
<1>8. m * (2 * v) = 2 * y
  BY <1>2
<1> HIDE DEF y
<1>9. y + h \in 0..Top - 1 /\ Top \in Nat /\ Top > 0
  <2>1. Top \in Nat /\ Top > 0
    BY DoublesAre
  <2> QED BY <2>1, <1>2, <1>5, <1>6
<1>10. s \div Top = t
  <2> DEFINE z == y + h
  <2> HIDE DEF z
  <2>1. (t * Top + z) \div Top = t
    BY <1>9, DivUnique DEF z
  <2> QED BY <2>1, <1>7 DEF z
<1>11. U64(2 * s) = 2 * (y + h)
  <2> DEFINE M == Pow2[NumBits]
             z == 2 * (y + h)
  <2>1. M = 2 * Top /\ M \in Nat /\ M > 0
    BY WidthsAre
  <2>2. z \in 0..M - 1
    BY <2>1, <1>9
  <2>3. 2 * s = t * M + z
    <3>1. t = 0 \/ t = 1
      OBVIOUS
    <3> QED BY <1>5, <1>6, <1>7, <1>9, <2>1, <3>1
  <2> HIDE DEF z, M
  <2>4. (t * M + z) % M = z
    <3>1. t \in Int /\ M \in Nat /\ M > 0 /\ z \in 0..M - 1
      BY <2>1, <2>2
    <3> QED BY <3>1, DivUnique
  <2> QED BY <2>3, <2>4 DEF U64, M, z
<1>12. 2 * (y + h) + (q % 2) = 2 * y + q
  BY <1>5, <1>6
<1> QED BY <1>4, <1>8, <1>10, <1>11, <1>12 DEF v

\* What a turn does to the remainder: the divisor is taken off once, if it fits.
LEMMA RemainderTurns ==
  ASSUME NEW a \in Doubles, NEW b \in Doubles, b > 0, b <= a,
         NEW x \in Nat, x <= a, b > Top => x = a,
         NEW r, r = (x \div 2) % b
  PROVE  LET y == 2 * r + (x % 2)
         IN /\ U64(y) = y
            /\ (IF Fits(b, y) THEN U64(y - b) ELSE y) = x % b
            /\ (IF Fits(b, y) THEN 1 ELSE 0) = (x \div b) % 2
            /\ (x \div b) \div 2 = (x \div 2) \div b
            /\ x \div b \in Nat /\ x \div b <= 2 * ((x \div 2) \div b) + 1
<1> DEFINE M == Pow2[NumBits]
           z == x \div 2
           q == z \div b
           t == x % 2
           y == 2 * r + t
<1>1. /\ Top \in Nat /\ Top > 0 /\ M \in Nat /\ M > 0 /\ M = Top + Top
      /\ a \in Nat /\ b \in Nat /\ a < M /\ b < M
  BY DoublesAre
<1>2. z \in Nat /\ t \in 0..1 /\ x = 2 * z + t
  BY Halves
<1>3. q \in Nat /\ r \in 0..b - 1 /\ z = q * b + r /\ q * b \in Int
  <2> HIDE DEF z
  <2> QED BY <1>1, <1>2, DivMod
<1> HIDE DEF M, z, q, t
<1>4. q * b \in Nat
  BY <1>1, <1>3, Products
<1>5. y \in 0..2 * b - 1 /\ x = 2 * (q * b) + y /\ y <= x
  <2> DEFINE u == q * b
  <2>1. u \in Nat /\ z = u + r
    BY <1>3, <1>4
  <2> HIDE DEF u
  <2>2. x = 2 * u + y /\ y \in 0..2 * b - 1
    BY <1>1, <1>2, <1>3, <2>1
  <2> QED BY <2>1, <2>2 DEF u
<1> HIDE DEF y
<1>6. y \in Doubles /\ U64(y) = y
  <2>1. y \in Doubles
    BY <1>1, <1>5 DEF Doubles, M
  <2> QED BY <2>1, DoublesAre
<1>7. b > Top => b <= y
  <2>1. ASSUME b > Top PROVE b <= y
    <3>1. x = a /\ z < b
      BY <1>1, <1>2, <2>1
    <3>2. q = 0
      <4>1. z \div b < 1 <=> z < 1 * b
        BY <1>1, <1>2, DivBounds
      <4> QED BY <3>1, <4>1, <1>1, <1>3 DEF q
    <3>3. q * b = 0
      BY <3>2, <1>1
    <3> QED BY <3>1, <3>3, <1>5
  <2> QED BY <2>1
<1>8. Fits(b, y) <=> b <= y
  <2> DEFINE v == b - y - 1
  <2>1. v \in -Top..Top - 1 /\ (v < 0 <=> b <= y)
    BY <1>1, <1>5, <1>7
  <2> HIDE DEF v
  <2>2. U64(v) \in Doubles /\ Signed(U64(v)) = v
    BY <2>1, SignedOfBits
  <2>3. IsNeg(U64(v)) <=> v < 0
    BY <2>2, BitsOfSigned
  <2> QED BY <2>1, <2>3 DEF Fits, v
<1>9. CASE b <= y
  <2>1. y - b \in 0..b - 1 /\ 1 \in Int
    BY <1>1, <1>5, <1>9
  <2>2. U64(y - b) = y - b
    <3>1. y - b \in Doubles
      BY <1>1, <2>1 DEF Doubles, M
    <3> QED BY <3>1, DoublesAre
  <2>3. x = (2 * q + 1) * b + (y - b)
    <3>1. (2 * q + 1) * b = (2 * q) * b + 1 * b /\ (2 * q) * b = 2 * (q * b)
      BY <1>1, <1>3
    <3> DEFINE u == q * b
    <3>2. u \in Nat /\ (2 * q + 1) * b = 2 * u + b /\ x = 2 * u + y
      BY <3>1, <1>1, <1>4, <1>5
    <3> HIDE DEF u
    <3>3. x = (2 * u + b) + (y - b)
      BY <3>2, <1>1, <1>5
    <3> QED BY <3>2, <3>3
  <2>4. x \div b = 2 * q + 1 /\ x % b = y - b
    <3> DEFINE k == 2 * q + 1
               l == y - b
    <3>1. k \in Int /\ l \in 0..b - 1 /\ x = k * b + l
      BY <1>3, <2>1, <2>3
    <3> HIDE DEF k, l
    <3>2. x \div b = k /\ x % b = l
      BY <1>1, <3>1, DivUnique
    <3> QED BY <3>2 DEF k, l
  <2>5. (2 * q + 1) \div 2 = q /\ (2 * q + 1) % 2 = 1
    BY <1>3
  <2>6. 2 * q + 1 \in Nat
    BY <1>3
  <2> HIDE DEF z
  <2> QED BY <1>6, <1>8, <1>9, <2>2, <2>4, <2>5, <2>6 DEF y, t, q, z
<1>10. CASE ~(b <= y)
  <2>1. y \in 0..b - 1
    BY <1>1, <1>5, <1>10
  <2>2. x = (2 * q) * b + y
    <3>1. (2 * q) * b = 2 * (q * b)
      BY <1>1, <1>3
    <3> QED BY <3>1, <1>5
  <2>3. x \div b = 2 * q /\ x % b = y
    <3> DEFINE k == 2 * q
    <3>1. k \in Int /\ x = k * b + y
      BY <1>3, <2>2
    <3> HIDE DEF k
    <3>2. x \div b = k /\ x % b = y
      BY <1>1, <2>1, <3>1, DivUnique
    <3> QED BY <3>2 DEF k
  <2>4. (2 * q) \div 2 = q /\ (2 * q) % 2 = 0
    BY <1>3
  <2>5. 2 * q \in Nat /\ 2 * q <= 2 * q + 1
    BY <1>3
  <2> QED BY <1>6, <1>8, <1>10, <2>3, <2>4, <2>5 DEF y, t, q, z
<1> QED BY <1>9, <1>10

\* The state of the division with the last e bits of the numerator still to come: the
\* rest of it is divided, and all of the quotient but its last bit is behind what is left.
DivInv(s, a, b, e) ==
  LET x == a \div Pow2[e]
      q == x \div b
  IN /\ s.rem = x % b /\ s.wrap = q % 2
     /\ s.a = (a % Pow2[e]) * Pow2[NumBits - e] + (q \div 2)
     /\ q < Pow2[NumBits - e]

LEMMA DivTurnIsRight ==
  ASSUME NEW a \in Doubles, NEW b \in Doubles, b > 0, b <= a, NEW e \in 1..NumBits - 1,
         b > Top => e = 1, NEW s, s.a \in Nat, DivInv(s, a, b, e)
  PROVE  DivInv(DivTurn(b, s), a, b, e - 1)
<1> DEFINE x == a \div Pow2[e - 1]
           z == a \div Pow2[e]
           q == z \div b
           t == x % 2
           m == a % Pow2[e - 1]
           y == 2 * s.rem + t
<1>1. a \in Nat /\ b \in Nat /\ e \in Nat /\ e > 0
  BY DoublesAre
<1>2. /\ x \div 2 = z /\ a % Pow2[e] = t * Pow2[e - 1] + m
      /\ x \in Nat /\ x <= a /\ m \in Nat /\ m < Pow2[e - 1]
  BY <1>1, NextBit
<1>3. t \in 0..1
  <2> HIDE DEF x
  <2> QED BY <1>2
<1>4. b > Top => x = a
  <2>1. ASSUME b > Top PROVE x = a
    <3>1. e - 1 = 0 /\ Pow2[0] = 1 /\ a \div 1 = a
      BY <2>1, <1>1, Pow2Is
    <3> QED BY <3>1
  <2> QED BY <2>1
<1>5. s.rem = z % b /\ s.wrap = q % 2 /\ s.a = (a % Pow2[e]) * Pow2[NumBits - e] + (q \div 2)
      /\ q < Pow2[NumBits - e]
  BY DEF DivInv
<1> HIDE DEF x, z, m
<1>6. s.rem = (x \div 2) % b
  BY <1>2, <1>5
<1>7. /\ U64(y) = y
      /\ (IF Fits(b, y) THEN U64(y - b) ELSE y) = x % b
      /\ (IF Fits(b, y) THEN 1 ELSE 0) = (x \div b) % 2
      /\ (x \div b) \div 2 = q
      /\ x \div b \in Nat /\ x \div b <= 2 * q + 1
  BY <1>2, <1>4, <1>6, RemainderTurns
<1>8. q \in Nat
  <2>1. z \in Nat
    BY <1>2
  <2> QED BY <2>1, <1>1, DivMod
<1> HIDE DEF t, q
<1>9. /\ s.a \div Top = t
      /\ U64(2 * s.a) + (q % 2) = m * Pow2[NumBits - (e - 1)] + q
      /\ Pow2[NumBits - (e - 1)] = 2 * Pow2[NumBits - e]
  <2>1. s.a = (t * Pow2[e - 1] + m) * Pow2[NumBits - e] + (q \div 2)
    BY <1>2, <1>5 DEF t
  <2> QED BY <1>2, <1>3, <1>5, <1>8, <2>1, NumeratorTurns
<1>10. x \div b < Pow2[NumBits - (e - 1)]
  <2> DEFINE v == Pow2[NumBits - e]
  <2>1. NumBits - e \in Nat
    BY WidthsAre
  <2>2. v \in Nat
    BY <2>1, Pow2Is
  <2> HIDE DEF v
  <2>3. x \div b < 2 * v
    BY <1>5, <1>7, <1>8, <2>2 DEF v
  <2> QED BY <2>3, <1>9 DEF v
<1>11. DivTurn(b, s) = [rem  |-> IF Fits(b, y) THEN U64(y - b) ELSE y,
                        a    |-> U64(2 * s.a) + s.wrap,
                        wrap |-> IF Fits(b, y) THEN 1 ELSE 0]
  <2>1. U64(2 * s.rem + (s.a \div Top)) = y
    BY <1>7, <1>9
  <2> HIDE DEF y
  <2> QED BY <2>1 DEF DivTurn
<1>12. /\ DivTurn(b, s).rem = x % b
       /\ DivTurn(b, s).a = m * Pow2[NumBits - (e - 1)] + ((x \div b) \div 2)
       /\ DivTurn(b, s).wrap = (x \div b) % 2
  <2> HIDE DEF y
  <2> QED BY <1>5, <1>7, <1>9, <1>11
<1> QED BY <1>10, <1>12 DEF DivInv, x, m


\* The turns of the division.
DivBits(a, b) == Clzdi2(b) - Clzdi2(a) + 1
AreDivTurns(turn, a, b) ==
  /\ turn[0] = [rem |-> Shr(a, DivBits(a, b)), a |-> Shl(a, NumBits - DivBits(a, b)), wrap |-> 0]
  /\ \A i \in 1..NumBits : turn[i] = DivTurn(b, turn[i - 1])
  /\ \A i \in 0..NumBits : turn[i].a \in Nat
DividedBy(turn, a, b) ==
  Divmod(a, b) =
    IF b > a THEN [q |-> 0, r |-> a]
    ELSE IF Hi(b) = 0 /\ b = 1 THEN [q |-> a, r |-> 0]
    ELSE IF Hi(b) = 0 /\ Hi(a) = 0 THEN [q |-> Lo(a) \div Lo(b), r |-> Lo(a) % Lo(b)]
    ELSE [q |-> U64(2 * turn[DivBits(a, b)].a) + turn[DivBits(a, b)].wrap, r |-> turn[DivBits(a, b)].rem]
LEMMA DivTurnsExist ==
  ASSUME NEW a \in Doubles, NEW b \in Doubles, DivBits(a, b) \in 1..NumBits - 1
  PROVE  \E turn : AreDivTurns(turn, a, b) /\ DividedBy(turn, a, b)
<1> DEFINE N == NumBits
           B == DivBits(a, b)
           S == [rem : Nat, a : Nat, wrap : Nat]
           begin == [rem |-> Shr(a, B), a |-> Shl(a, N - B), wrap |-> 0]
           g == [x \in (1..N) \X S |-> DivTurn(b, x[2])]
           Def(h) == h = [i \in 0..N |-> IF i = 0 THEN begin ELSE DivTurn(b, h[i - 1])]
<1>0. N \in Nat
  BY WidthsAre
<1>1. begin \in S
  <2>1. B \in 0..N - 1 /\ N - B \in 0..N - 1 /\ a \in Nat
    BY DoublesAre, WidthsAre
  <2> HIDE DEF B
  <2>2. Shr(a, B) \in Nat /\ Shl(a, N - B) \in Nat
    BY <2>1, ShiftsAre
  <2> QED BY <2>2
<1>2. ASSUME NEW s \in S PROVE DivTurn(b, s) \in S
  <2>1. b \in Nat /\ \A x \in Int : U64(x) \in Nat
    BY DoublesAre
  <2>2. s.rem \in Nat /\ s.a \in Nat /\ s.wrap \in Nat
    OBVIOUS
  <2>3. s.a \div Top \in Nat
    BY <2>2, DoublesAre, DivMod
  <2> DEFINE rem == U64(2 * s.rem + (s.a \div Top))
  <2>4. rem \in Nat
    <3>1. 2 * s.rem + (s.a \div Top) \in Int
      BY <2>2, <2>3
    <3> QED BY <2>1, <3>1
  <2>5. DivTurn(b, s) = [rem |-> IF Fits(b, rem) THEN U64(rem - b) ELSE rem,
                         a |-> U64(2 * s.a) + s.wrap, wrap |-> IF Fits(b, rem) THEN 1 ELSE 0]
    BY DEF DivTurn
  <2> HIDE DEF rem
  <2>6. U64(rem - b) \in Nat
    BY <2>1, <2>4
  <2>7. U64(2 * s.a) + s.wrap \in Nat
    <3>1. 2 * s.a \in Int
      BY <2>2
    <3>2. U64(2 * s.a) \in Nat
      BY <2>1, <3>1
    <3> QED BY <2>2, <3>2
  <2> QED BY <2>4, <2>5, <2>6, <2>7
<1>3. g \in [(1..N) \X S -> S]
  <2> SUFFICES ASSUME NEW x \in (1..N) \X S PROVE DivTurn(b, x[2]) \in S
    OBVIOUS
  <2>1. x[2] \in S
    OBVIOUS
  <2> HIDE DEF S
  <2> QED BY <2>1, <1>2
<1> HIDE DEF S, begin, N
<1>4. \A i \in 1..N : \A s \in S : g[<<i, s>>] = DivTurn(b, s)
  OBVIOUS
<1> HIDE DEF g
<1>5. PICK k \in [0..N -> S] : AreTurns(k, N, begin, g)
  BY <1>0, <1>1, <1>3, TurnsExist
<1>6. k[0] = begin /\ \A i \in 1..N : k[i] = DivTurn(b, k[i - 1])
  <2>0. 0 \in 0..N
    BY <1>0
  <2>1. k[0] = begin
    BY <2>0, <1>5 DEF AreTurns
  <2>2. ASSUME NEW i \in 1..N PROVE k[i] = DivTurn(b, k[i - 1])
    <3>1. i \in 0..N /\ i # 0 /\ i - 1 \in 0..N
      BY <1>0
    <3>2. k[i - 1] \in S
      BY <3>1
    <3>3. k[i] = g[<<i, k[i - 1]>>]
      BY <3>1, <1>5 DEF AreTurns
    <3> QED BY <3>2, <3>3, <1>4
  <2> QED BY <2>1, <2>2
<1>7. Def(k)
  <2>1. ASSUME NEW i \in 0..N PROVE k[i] = IF i = 0 THEN begin ELSE DivTurn(b, k[i - 1])
    <3>1. i # 0 => i \in 1..N
      BY <1>0
    <3> QED BY <3>1, <1>6
  <2>2. k = [i \in 0..N |-> k[i]]
    OBVIOUS
  <2> QED BY <2>1, <2>2
<1> DEFINE turn == CHOOSE h : Def(h)
<1>8. DividedBy(turn, a, b)
  BY DEF Divmod, DividedBy, DivBits, begin, N
<1>9. Def(turn)
  <2> HIDE DEF Def
  <2> QED BY <1>7
<1> HIDE DEF turn
<1>10. turn[0] = begin /\ \A i \in 1..N : turn[i] = DivTurn(b, turn[i - 1])
  <2>1. 0 \in 0..N
    BY <1>0
  <2>2. turn[0] = begin
    BY <1>9, <2>1
  <2>3. ASSUME NEW i \in 1..N PROVE turn[i] = DivTurn(b, turn[i - 1])
    <3>1. i \in 0..N /\ i # 0
      BY <1>0
    <3> QED BY <3>1, <1>9
  <2> QED BY <2>2, <2>3
<1>11. \A i \in 0..N : turn[i] \in S
  <2> DEFINE T == {i \in 0..N : turn[i] \in S}
  <2>1. 0 \in T
    BY <1>0, <1>1, <1>10
  <2>2. ASSUME NEW i \in 0..N - 1, i \in T PROVE i + 1 \in T
    <3>1. i + 1 \in 1..N /\ (i + 1) - 1 = i /\ i + 1 \in 0..N
      BY <1>0
    <3>2. turn[i + 1] = DivTurn(b, turn[i])
      BY <3>1, <1>10
    <3> QED BY <3>1, <3>2, <2>2, <1>2
  <2> HIDE DEF T
  <2>3. \A i \in 0..N : i \in T
    BY <1>0, <2>1, <2>2, Upwards
  <2> QED BY <2>3 DEF T
<1>12. \A i \in 0..N : turn[i].a \in Nat
  BY <1>11 DEF S
<1> QED BY <1>8, <1>10, <1>12 DEF AreDivTurns, N, begin

\* How many turns the division takes.
LEMMA DivBitsAre ==
  ASSUME NEW a \in Doubles, NEW b \in Doubles, b > 1, b <= a
  PROVE  /\ DivBits(a, b) \in 1..NumBits - 1
         /\ a \div Pow2[DivBits(a, b)] < b
         /\ b > Top => DivBits(a, b) = 1
<1> DEFINE N == NumBits
           B == DivBits(a, b)
           ca == Clzdi2(a)
           cb == Clzdi2(b)
<1>1. a \in Nat /\ b \in Nat /\ a > 0 /\ b > 0 /\ a < Pow2[N] /\ b < Pow2[N] /\ N \in Nat /\ N > 0
  BY DoublesAre, WidthsAre
<1>2. ca \in 0..N - 1 /\ Pow2[N - 1 - ca] <= a /\ a < Pow2[N - ca]
  BY <1>1, ClzIsRight
<1>3. cb \in 0..N - 1 /\ Pow2[N - 1 - cb] <= b /\ b < Pow2[N - cb]
  BY <1>1, ClzIsRight
<1>4. B = cb - ca + 1
  BY DEF DivBits
<1> HIDE DEF N, B, ca, cb
<1>5. N - 1 - cb \in Nat /\ N - ca \in Nat /\ N - cb \in Nat /\ N - 1 \in Nat
  BY <1>1, <1>2, <1>3
<1>6. /\ Pow2[N - 1 - cb] \in Nat /\ Pow2[N - ca] \in Nat /\ Pow2[N - cb] \in Nat /\ Pow2[N - 1] \in Nat
  BY <1>5, Pow2Is
<1>7. ca <= cb
  <2>1. Pow2[N - 1 - cb] < Pow2[N - ca]
    BY <1>1, <1>2, <1>3, <1>6
  <2>2. N - ca <= N - 1 - cb => Pow2[N - ca] <= Pow2[N - 1 - cb]
    BY <1>5, PowGrows
  <2> QED BY <2>1, <2>2, <1>1, <1>2, <1>3, <1>5, <1>6
<1>8. cb # N - 1
  <2>1. ASSUME cb = N - 1 PROVE FALSE
    <3>1. N - cb = 0 + 1 /\ Pow2[0 + 1] = 2 * Pow2[0] /\ Pow2[0] = 1
      BY <1>1, <2>1, Pow2Is
    <3> QED BY <3>1, <1>1, <1>3
  <2> QED BY <2>1
<1>9. B \in 1..N - 1
  BY <1>1, <1>2, <1>3, <1>4, <1>7, <1>8
<1>10. b > Top => B = 1
  <2>1. ASSUME b > Top PROVE cb = 0
    <3>1. Pow2[N - 1] < Pow2[N - cb]
      <4>1. Top = Pow2[N - 1]
        BY DEF Top, N
      <4> QED BY <4>1, <2>1, <1>1, <1>3, <1>6
    <3>2. N - cb <= N - 1 => Pow2[N - cb] <= Pow2[N - 1]
      BY <1>5, PowGrows
    <3> QED BY <3>1, <3>2, <1>1, <1>3, <1>5, <1>6
  <2> QED BY <2>1, <1>2, <1>4, <1>7
<1>11. a \div Pow2[B] < b
  <2> DEFINE p == Pow2[B]
  <2>1. p \in Nat /\ p > 0
    BY <1>9, Pow2Is
  <2>2. Pow2[N - ca] = Pow2[N - 1 - cb] * p
    <3>1. (N - 1 - cb) + B = N - ca /\ B \in Nat
      BY <1>1, <1>2, <1>3, <1>4, <1>9
    <3>2. Pow2[(N - 1 - cb) + B] = Pow2[N - 1 - cb] * Pow2[B]
      BY <3>1, <1>5, PowSum
    <3> QED BY <3>1, <3>2
  <2> HIDE DEF p
  <2>3. a \div p < Pow2[N - 1 - cb]
    <3> DEFINE w == Pow2[N - 1 - cb]
    <3>1. w \in Int /\ a < w * p
      BY <1>2, <1>6, <2>2
    <3> HIDE DEF w
    <3>2. a \div p < w
      BY <1>1, <2>1, <3>1, DivBounds
    <3> QED BY <3>2 DEF w
  <2>4. a \div p \in Nat
    BY <1>1, <2>1, DivMod
  <2> QED BY <1>1, <1>3, <1>6, <2>3, <2>4 DEF p
<1> QED BY <1>9, <1>10, <1>11 DEF N, B

\* Before the first turn.
LEMMA DivStarts ==
  ASSUME NEW a \in Doubles, NEW b \in Doubles, b > 0, NEW B \in 1..NumBits - 1, a \div Pow2[B] < b
  PROVE  DivInv([rem |-> Shr(a, B), a |-> Shl(a, NumBits - B), wrap |-> 0], a, b, B)
<1> DEFINE N == NumBits
           p == Pow2[B]
           c == Pow2[N - B]
           x == a \div p
<1>1. a \in Nat /\ b \in Nat /\ N \in Nat /\ B \in 0..N - 1 /\ N - B \in 0..N - 1
  BY DoublesAre, WidthsAre
<1>2. p \in Nat /\ p > 0 /\ c \in Nat /\ c > 0
  BY <1>1, Pow2Is
<1>3. Pow2[N] = p * c
  <2>1. B + (N - B) = N /\ B \in Nat /\ N - B \in Nat
    BY <1>1
  <2>2. Pow2[B + (N - B)] = Pow2[B] * Pow2[N - B]
    BY <2>1, PowSum
  <2> QED BY <2>1, <2>2
<1>4. Shr(a, B) = x
  BY <1>1, ShiftsAre
<1>5. Shl(a, N - B) = (a * c) % Pow2[N]
  <2> DEFINE k == N - B
  <2>1. k \in 0..N - 1
    BY <1>1
  <2> HIDE DEF k
  <2>2. Shl(a, k) = (a * Pow2[k]) % Pow2[N]
    BY <1>1, <2>1, ShiftsAre
  <2> QED BY <2>2 DEF k
<1> HIDE DEF p, c, x
<1>6. (a * c) % (p * c) = (a % p) * c
  BY <1>1, <1>2, DivScaled
<1>7. x \in 0..b - 1
  <2>1. x \in Nat
    BY <1>1, <1>2, DivMod DEF x
  <2> QED BY <1>1, <2>1 DEF x, p
<1>8. x \div b = 0 /\ x % b = x
  BY <1>1, <1>7, DivSmall
<1>9. 0 % 2 = 0 /\ 0 \div 2 = 0 /\ 0 < c
  BY <1>2
<1>10. (a % p) * c + 0 = (a % p) * c
  <2>1. a % p \in Int
    BY <1>1, <1>2, DivMod
  <2>2. (a % p) * c \in Int
    BY <2>1, <1>2, Products
  <2> DEFINE y == (a % p) * c
  <2> HIDE DEF y
  <2>3. y + 0 = y
    BY <2>2 DEF y
  <2> QED BY <2>3 DEF y
<1> QED BY <1>3, <1>4, <1>5, <1>6, <1>8, <1>9, <1>10 DEF DivInv, p, c, x, N

\* After the last.
LEMMA DivEnds ==
  ASSUME NEW a \in Doubles, NEW b \in Doubles, b > 0, NEW s, DivInv(s, a, b, 0)
  PROVE  U64(2 * s.a) + s.wrap = a \div b /\ s.rem = a % b
<1>1. a \in Nat /\ b \in Nat /\ Pow2[0] = 1 /\ NumBits - 0 = NumBits /\ Pow2[NumBits] \in Nat
  BY DoublesAre, WidthsAre, Pow2Is
<1>2. a \div 1 = a /\ a % 1 = 0
  BY <1>1
<1> DEFINE q == a \div b
<1>3. q \in Nat /\ q <= a
  BY <1>1, DivMod
<1>4. s.rem = a % b /\ s.wrap = q % 2 /\ s.a = 0 * Pow2[NumBits] + (q \div 2)
  BY <1>1, <1>2 DEF DivInv
<1> HIDE DEF q
<1>5. s.a = q \div 2 /\ 2 * s.a \in Nat /\ 2 * s.a <= q /\ 2 * (q \div 2) + (q % 2) = q
  BY <1>1, <1>3, <1>4
<1>6. 2 * s.a \in Doubles
  BY <1>1, <1>3, <1>5 DEF Doubles
<1>7. U64(2 * s.a) = 2 * s.a
  BY <1>6, DoublesAre
<1> QED BY <1>4, <1>5, <1>7 DEF q

LEMMA LongDivision ==
  ASSUME NEW a \in Doubles, NEW b \in Doubles, b > 1, b <= a, NEW turn, AreDivTurns(turn, a, b)
  PROVE  /\ U64(2 * turn[DivBits(a, b)].a) + turn[DivBits(a, b)].wrap = a \div b
         /\ turn[DivBits(a, b)].rem = a % b
<1> DEFINE B == DivBits(a, b)
<1>1. B \in 1..NumBits - 1 /\ a \div Pow2[B] < b /\ (b > Top => B = 1)
  BY DivBitsAre
<1>2. /\ turn[0] = [rem |-> Shr(a, B), a |-> Shl(a, NumBits - B), wrap |-> 0]
      /\ \A i \in 1..NumBits : turn[i] = DivTurn(b, turn[i - 1])
      /\ \A i \in 0..NumBits : turn[i].a \in Nat
  BY DEF AreDivTurns
<1>3. NumBits \in Nat /\ b \in Nat /\ b > 0 /\ a \in Nat
  BY WidthsAre, DoublesAre
<1> HIDE DEF B
<1> DEFINE S == {i \in 0..B : DivInv(turn[i], a, b, B - i)}
<1>4. 0 \in S
  <2>1. DivInv(turn[0], a, b, B)
    BY <1>1, <1>2, <1>3, DivStarts
  <2>2. B - 0 = B /\ 0 \in 0..B
    BY <1>1
  <2> QED BY <2>1, <2>2
<1>5. ASSUME NEW i \in 0..B - 1, i \in S PROVE i + 1 \in S
  <2> DEFINE e == B - i
  <2>1. /\ e \in 1..NumBits - 1 /\ (b > Top => e = 1) /\ i \in 0..NumBits
        /\ i + 1 \in 1..NumBits /\ (i + 1) - 1 = i /\ B - (i + 1) = e - 1 /\ i + 1 \in 0..B
    BY <1>1, <1>3
  <2>2. DivInv(turn[i], a, b, e) /\ turn[i].a \in Nat
    BY <1>5, <1>2, <2>1
  <2>3. turn[i + 1] = DivTurn(b, turn[i])
    BY <1>2, <2>1
  <2> HIDE DEF e
  <2>4. DivInv(DivTurn(b, turn[i]), a, b, e - 1)
    BY <1>3, <2>1, <2>2, DivTurnIsRight
  <2> QED BY <2>1, <2>3, <2>4
<1> HIDE DEF S
<1>6. B \in S
  <2>1. B \in Nat /\ B \in 0..B
    BY <1>1, <1>3
  <2>2. \A i \in 0..B : i \in S
    BY <1>4, <1>5, <2>1, Upwards
  <2> QED BY <2>1, <2>2
<1>7. DivInv(turn[B], a, b, 0)
  <2>1. B - B = 0
    BY <1>1
  <2> QED BY <1>6, <2>1 DEF S
<1> QED BY <1>3, <1>7, DivEnds DEF B

\* __divmoddi4 divides.
LEMMA DivmodIsRight ==
  ASSUME NEW a \in Doubles, NEW b \in Doubles, b > 0
  PROVE  Divmod(a, b) = [q |-> a \div b, r |-> a % b]
<1>1. a \in Nat /\ b \in Nat
  BY DoublesAre
<1>2. CASE b > a
  <2>1. a \in 0..b - 1
    BY <1>1, <1>2
  <2>2. a \div b = 0 /\ a % b = a
    BY <1>1, <2>1, DivSmall
  <2> QED BY <1>2, <2>2 DEF Divmod
<1>3. CASE ~(b > a) /\ b = 1
  <2>1. a \div 1 = a /\ a % 1 = 0
    BY <1>1
  <2>2. Hi(b) = 0
    <3>1. 1 \in 0..Word - 1 /\ Word \in Nat /\ Word > 0
      BY WidthsAre
    <3>2. 1 \div Word = 0
      BY <3>1, DivSmall
    <3> QED BY <1>3, <3>2 DEF Hi
  <2>3. Divmod(a, b) = [q |-> a, r |-> 0]
    BY <1>3, <2>2 DEF Divmod
  <2> QED BY <1>3, <2>1, <2>3
<1>4. CASE b > 1 /\ b <= a
  <2>1. ~(b > a) /\ ~(b = 1)
    BY <1>1, <1>4
  <2>2. PICK turn : AreDivTurns(turn, a, b) /\ DividedBy(turn, a, b)
    BY <1>4, DivBitsAre, DivTurnsExist
  <2>3. CASE Hi(b) = 0 /\ Hi(a) = 0
    <3>1. a = Hi(a) * Word + Lo(a) /\ b = Hi(b) * Word + Lo(b) /\ Word \in Nat
          /\ Lo(a) \in Nat /\ Lo(b) \in Nat
      BY DoublesAre, WordsOf
    <3>2. 0 * Word = 0
      BY <3>1
    <3>3. Lo(a) = a /\ Lo(b) = b
      BY <2>3, <3>1, <3>2
    <3> QED BY <2>1, <2>2, <2>3, <3>3 DEF DividedBy
  <2>4. CASE ~(Hi(b) = 0 /\ Hi(a) = 0)
    <3>1. /\ U64(2 * turn[DivBits(a, b)].a) + turn[DivBits(a, b)].wrap = a \div b
          /\ turn[DivBits(a, b)].rem = a % b
      BY <1>4, <2>2, LongDivision
    <3> QED BY <2>1, <2>2, <2>4, <3>1 DEF DividedBy
  <2> QED BY <2>3, <2>4
<1> QED BY <1>1, <1>2, <1>3, <1>4

\* __divdi3 and __moddi3 divide towards 0.
LEMMA SignedDivision ==
  ASSUME NEW a \in Doubles, NEW b \in Doubles, b > 0
  PROVE  /\ Divdi3(a, b) = U64(Towards0(Signed(a), Signed(b)))
         /\ Moddi3(a, b) = U64(Signed(a) - Signed(b) * Towards0(Signed(a), Signed(b)))
<1> DEFINE v == Signed(a)
           w == Signed(b)
           x == Abs(a)
           y == Abs(b)
           q == x \div y
           r == x % y
<1>1. /\ Top \in Nat /\ Top > 0 /\ Pow2[NumBits] \in Nat /\ Pow2[NumBits] = Top + Top
      /\ \A u \in Doubles : u \in Nat /\ u < Pow2[NumBits] /\ U64(u) = u
      /\ \A u \in Int : U64(u) \in Doubles /\ U64(u + Pow2[NumBits]) = U64(u)
  BY DoublesAre
<1>2. /\ v \in -Top..Top - 1 /\ (IsNeg(a) <=> v < 0)
      /\ x = (IF v < 0 THEN -v ELSE v) /\ x \in 0..Top
  BY BitsOfSigned
<1>3. /\ w \in -Top..Top - 1 /\ (IsNeg(b) <=> w < 0) /\ U64(w) = b
      /\ y = (IF w < 0 THEN -w ELSE w) /\ y \in 0..Top
  BY BitsOfSigned
<1>4. x \in Doubles /\ y \in Doubles
  BY <1>1, <1>2, <1>3 DEF Doubles
<1>5. y > 0
  <2>1. w # 0
    <3>1. ASSUME w = 0 PROVE FALSE
      <4>1. 0 \in Doubles
        BY <1>1 DEF Doubles
      <4>2. U64(0) = 0
        BY <1>1, <4>1
      <4>3. b = 0
        BY <1>3, <3>1, <4>2
      <4> QED BY <4>3
    <3> QED BY <3>1
  <2> HIDE DEF w, y
  <2> QED BY <2>1, <1>3, <1>1
<1>6. Divmod(x, y) = [q |-> q, r |-> r]
  <2> HIDE DEF x, y
  <2> QED BY <1>4, <1>5, DivmodIsRight
<1>7. Divdi3(a, b) = Neg(q, Xor(a, b)) /\ Moddi3(a, b) = Neg(r, a)
  <2>1. Divmod(Abs(a), Abs(b)) = [q |-> q, r |-> r]
    BY <1>6
  <2> QED BY <2>1 DEF Divdi3, Moddi3
<1> HIDE DEF v, w, x, y
<1>8. x \in Nat /\ y \in Nat /\ q \in Nat /\ q <= x /\ r \in 0..y - 1 /\ r <= x /\ x = q * y + r /\ q * y \in Int
  <2>1. x \in Nat /\ y \in Nat
    BY <1>1, <1>2, <1>3
  <2> QED BY <2>1, <1>5, DivMod
<1>9. Towards0(v, w) = IF (v < 0) = (w < 0) THEN q ELSE -q
  BY <1>2, <1>3 DEF Towards0
<1> HIDE DEF q, r
<1>10. q \in Doubles /\ r \in Doubles /\ U64(q) = q /\ U64(r) = r
  <2>1. q \in Doubles /\ r \in Doubles
    BY <1>1, <1>2, <1>8 DEF Doubles
  <2> QED BY <1>1, <2>1
<1>11. IsNeg(Xor(a, b)) <=> (v < 0) # (w < 0)
  <2>1. ~(0 >= Top) /\ Top >= Top
    BY <1>1
  <2>2. Xor(a, b) = IF (v < 0) = (w < 0) THEN 0 ELSE Top
    <3>1. (IsNeg(a) = IsNeg(b)) <=> ((v < 0) = (w < 0))
      BY <1>2, <1>3 DEF IsNeg
    <3> QED BY <3>1 DEF Xor
  <2> QED BY <2>1, <2>2 DEF IsNeg
<1>12. Divdi3(a, b) = U64(Towards0(v, w))
  BY <1>7, <1>9, <1>10, <1>11 DEF Neg
<1>13. v - w * Towards0(v, w) = IF v < 0 THEN -r ELSE r
  <2> DEFINE z == q * y
  <2>1. z \in Int /\ x = z + r /\ r \in Int /\ v \in Int /\ w \in Int
    BY <1>1, <1>2, <1>3, <1>8
  <2>2. w * Towards0(v, w) = IF v < 0 THEN -z ELSE z
    <3>1. w = (IF w < 0 THEN -y ELSE y) /\ y \in Int /\ q \in Int
      BY <1>3, <1>8, <2>1
    <3>2. (-y) * q = -(q * y) /\ (-y) * (-q) = q * y /\ y * q = q * y /\ y * (-q) = -(q * y)
      BY <3>1
    <3> QED BY <1>9, <3>1, <3>2
  <2> DEFINE t == w * Towards0(v, w)
  <2>3. t = IF v < 0 THEN -z ELSE z
    BY <2>2
  <2> HIDE DEF z, t
  <2>4. x = (IF v < 0 THEN -v ELSE v)
    BY <1>2
  <2>5. v - t = IF v < 0 THEN -r ELSE r
    BY <2>1, <2>3, <2>4
  <2> QED BY <2>5 DEF t
<1>14. Moddi3(a, b) = U64(v - w * Towards0(v, w))
  BY <1>2, <1>7, <1>10, <1>13 DEF Neg
<1> QED BY <1>12, <1>14 DEF v, w


\* A number to divide has two words.
DivideJobOK == job.kind = "divide" => job.a \in Doubles

LEMMA InitDivideJobOK == Init => DivideJobOK
<1> SUFFICES ASSUME Init, job.kind = "divide" PROVE job.a \in Doubles
  BY DEF DivideJobOK
<1>1. ASSUME NEW map \in [0..MapBytes - 1 -> SUBSET Bits], NEW size \in Sizes PROVE job \notin BitJobs(map, size)
  BY DEF BitJobs
<1>2. job \notin CopyJobs /\ job \notin SizeJobs /\ job # FirstDay
  BY DEF CopyJobs, SizeJobs, FirstDay
<1>3. job \notin NumberJobs /\ job \notin StringJobs
  BY DEF NumberJobs, StringJobs
<1>4. job \notin StampJobs /\ job \notin ClockJobs
  BY DEF StampJobs, ClockJobs
<1>5. job \in DivideJobs
  BY <1>1, <1>2, <1>3, <1>4 DEF Init
<1> QED BY <1>5 DEF DivideJobs, Doubles

LEMMA TomorrowDivideJobOK == DivideJobOK /\ [Tomorrow]_job => DivideJobOK'
<1> SUFFICES ASSUME DivideJobOK, [Tomorrow]_job PROVE DivideJobOK'
  OBVIOUS
<1>1. CASE UNCHANGED job
  BY <1>1 DEF DivideJobOK
<1>2. CASE Tomorrow
  <2>1. job.kind = "day" /\ job' = [job EXCEPT !.day = job.day + 1]
    BY <1>2 DEF Tomorrow
  <2>2. job'.kind # "divide"
    BY <2>1
  <2> QED BY <2>2 DEF DivideJobOK
<1> QED BY <1>1, <1>2

LEMMA DivideJobsAreRight == DivideJobOK => DivisionRight
<1> SUFFICES ASSUME DivideJobOK, job.kind = "divide" PROVE DivisionRight
  BY DEF DivisionRight
<1> DEFINE a == job.a
<1>1. a \in Doubles /\ a \in Nat /\ a < Pow2[NumBits]
  BY DoublesAre DEF DivideJobOK
<1> HIDE DEF a
<1>2. ASSUME NEW b \in 1..Pow2[NumBits] - 1
      PROVE  /\ Divmod(a, b) = [q |-> a \div b, r |-> a % b]
             /\ Divdi3(a, b) = U64(Towards0(Signed(a), Signed(b)))
             /\ Moddi3(a, b) = U64(Signed(a) - Signed(b) * Towards0(Signed(a), Signed(b)))
  <2>1. b \in Doubles /\ b > 0
    BY DEF Doubles
  <2> QED BY <1>1, <2>1, DivmodIsRight, SignedDivision
<1>3. ASSUME NEW k \in 0..2 * NumBits - 1
      PROVE  /\ Ashldi3(a, k) = U64(a * Pow2[k % NumBits])
             /\ Lshrdi3(a, k) = a \div Pow2[k % NumBits]
             /\ Signed(Ashrdi3(a, k)) = Signed(a) \div Pow2[k % NumBits]
  <2>1. k \in Nat
    OBVIOUS
  <2> QED BY <1>1, <2>1, AshlIsRight, LshrIsRight, AshrIsRight
<1>4. a # 0 => /\ Pow2[NumBits - 1 - Clzdi2(a)] <= a /\ a < Pow2[NumBits - Clzdi2(a)]
               /\ a % Pow2[Ctzdi2(a)] = 0 /\ a % Pow2[Ctzdi2(a) + 1] # 0
  BY <1>1, ClzIsRight, CtzIsRight
<1>5. Ffsdi2(a) = IF a = 0 THEN 0 ELSE Ctzdi2(a) + 1
  BY DEF Ffsdi2
<1> QED BY <1>2, <1>3, <1>4, <1>5 DEF DivisionRight, a

\* Division by shifting and subtracting is division, signed and unsigned, and the shifts
\* and counts of bits are what they are called, for numbers of every width.
THEOREM DivisionTheorem == Spec => []DivisionRight
<1>1. Init => DivideJobOK
  BY InitDivideJobOK
<1>2. DivideJobOK /\ [Tomorrow]_job => DivideJobOK'
  BY TomorrowDivideJobOK
<1>3. DivideJobOK => DivisionRight
  BY DivideJobsAreRight
<1> QED BY <1>1, <1>2, <1>3, PTL DEF Spec


-----------------------------------------------------------------------------
(* The calendar.                                                           *)

\* The days from the start of 1900 to the start of a year.
Start(y) == 365 * y + ((y + 3) \div 4) - ((y + 99) \div 100) + ((y + 299) \div 400)

\* The days of a year before a month.
DaysBefore == <<0, 31, 59, 90, 120, 151, 181, 212, 243, 273, 304, 334, 365>>
Before1st(year, mon) == DaysBefore[mon + 1] + (IF Leap(year) /\ mon >= 2 THEN 1 ELSE 0)

LEMMA StartNext ==
  ASSUME NEW y \in Nat
  PROVE  Start(y) \in Int /\ YearDays(y) \in {365, 366} /\ Start(y + 1) = Start(y) + YearDays(y)
<1>1. (y + 4) \div 4 = ((y + 3) \div 4) + (IF y % 4 = 0 THEN 1 ELSE 0)
  OBVIOUS
<1>2. (y + 100) \div 100 = ((y + 99) \div 100) + (IF y % 100 = 0 THEN 1 ELSE 0)
  OBVIOUS
<1>3. (y + 300) \div 400 = ((y + 299) \div 400) + (IF (y + 300) % 400 = 0 THEN 1 ELSE 0)
  OBVIOUS
<1>4. (y % 100 = 0 => y % 4 = 0) /\ ((y + 300) % 400 = 0 => y % 100 = 0)
  OBVIOUS
<1>5. YearDays(y) = 365 + (IF y % 4 = 0 THEN 1 ELSE 0) - (IF y % 100 = 0 THEN 1 ELSE 0)
                    + (IF (y + 300) % 400 = 0 THEN 1 ELSE 0)
  BY <1>4 DEF YearDays, Leap
<1>6. (y + 3) \div 4 \in Int /\ (y + 99) \div 100 \in Int /\ (y + 299) \div 400 \in Int
  OBVIOUS
<1>7. y + 1 + 3 = y + 4 /\ y + 1 + 99 = y + 100 /\ y + 1 + 299 = y + 300
  OBVIOUS
<1>8. YearDays(y) \in {365, 366}
  BY DEF YearDays
<1> QED BY <1>1, <1>2, <1>3, <1>5, <1>6, <1>7, <1>8 DEF Start

\* A year ends before a later one starts.
LEMMA StartGrows ==
  ASSUME NEW y \in Nat, NEW z \in Nat, y < z
  PROVE  Start(y) + YearDays(y) <= Start(z)
<1>1. (y + 4) \div 4 <= (z + 3) \div 4 /\ (y + 300) \div 400 <= (z + 299) \div 400
  OBVIOUS
<1>2. (z + 99) \div 100 - (y + 100) \div 100 <= z - (y + 1)
  OBVIOUS
<1>3. Start(y + 1) = 365 * (y + 1) + ((y + 4) \div 4) - ((y + 100) \div 100) + ((y + 300) \div 400)
  <2>1. y + 1 + 3 = y + 4 /\ y + 1 + 99 = y + 100 /\ y + 1 + 299 = y + 300
    OBVIOUS
  <2> QED BY <2>1 DEF Start
<1>4. /\ (y + 4) \div 4 \in Int /\ (y + 100) \div 100 \in Int /\ (y + 300) \div 400 \in Int
      /\ (z + 3) \div 4 \in Int /\ (z + 99) \div 100 \in Int /\ (z + 299) \div 400 \in Int
  OBVIOUS
<1>5. Start(y + 1) <= Start(z)
  BY <1>1, <1>2, <1>3, <1>4 DEF Start
<1> QED BY <1>5, StartNext

LEMMA YearEnds ==
  ASSUME NEW y \in Nat
  PROVE  Before1st(y, 0) = 0 /\ Before1st(y, 12) = YearDays(y)
BY DEF Before1st, DaysBefore, YearDays

LEMMA MonthNext ==
  ASSUME NEW y \in Nat, NEW m \in 0..11
  PROVE  /\ Before1st(y, m) \in Nat /\ MonthDays(y, m) \in 28..31
         /\ Before1st(y, m + 1) = Before1st(y, m) + MonthDays(y, m)
<1>1. m = 0 \/ m = 1 \/ m = 2 \/ m = 3 \/ m = 4 \/ m = 5 \/ m = 6 \/ m = 7 \/ m = 8 \/ m = 9 \/ m = 10 \/ m = 11
  OBVIOUS
<1> QED BY <1>1 DEF Before1st, DaysBefore, MonthDays, Days

LEMMA MonthsGrow ==
  ASSUME NEW y \in Nat, NEW m \in 0..11, NEW n \in 0..11, m < n
  PROVE  Before1st(y, m) + MonthDays(y, m) <= Before1st(y, n)
<1>1. m = 0 \/ m = 1 \/ m = 2 \/ m = 3 \/ m = 4 \/ m = 5 \/ m = 6 \/ m = 7 \/ m = 8 \/ m = 9 \/ m = 10
  OBVIOUS
<1>2. n = 11 \/ n = 1 \/ n = 2 \/ n = 3 \/ n = 4 \/ n = 5 \/ n = 6 \/ n = 7 \/ n = 8 \/ n = 9 \/ n = 10
  OBVIOUS
<1>3. Before1st(y, m) + MonthDays(y, m) = Before1st(y, m + 1)
  BY MonthNext
<1>4. Before1st(y, m + 1) <= Before1st(y, n)
  BY <1>1, <1>2 DEF Before1st, DaysBefore
<1> QED BY <1>3, <1>4


\* The loop over the years: what is left of the days at the start of each.
YearLoop(from, days, first) ==
  from = [y \in first..first + 5 |->
            IF y = first THEN (days % 1461) + LeapFix(first) ELSE from[y - 1] - YearDays(y - 1)]
FirstYear(days) == (days \div 1461) * 4
DayNumbers == {n \in Nat : n >= 25567 /\ n <= 75277}

LEMMA FirstYearIs ==
  ASSUME NEW days \in DayNumbers
  PROVE  /\ FirstYear(days) \in 68..204
         /\ (days % 1461) + LeapFix(FirstYear(days)) = days - Start(FirstYear(days))
         /\ Start(FirstYear(days)) <= days
         /\ days < Start(FirstYear(days)) + 1825
<1> DEFINE k == days \div 1461
           first == FirstYear(days)
<1>1. k \in 17..51 /\ days = 1461 * k + (days % 1461) /\ days % 1461 \in Nat /\ days % 1461 <= 1460
  <2>1. days \in Int /\ days >= 25567 /\ days <= 75277
    BY DEF DayNumbers
  <2>2. k \in Int /\ days % 1461 \in Nat /\ days % 1461 <= 1460 /\ days = 1461 * k + (days % 1461)
    BY <2>1
  <2> DEFINE r == days % 1461
  <2>3. r \in Nat /\ r <= 1460 /\ days = 1461 * k + r
    BY <2>2
  <2> HIDE DEF k, first, r
  <2>4. k >= 17 /\ k <= 51
    BY <2>1, <2>2, <2>3
  <2> QED BY <2>2, <2>4
<1>2. first = 4 * k
  BY <1>1 DEF FirstYear
<1> HIDE DEF k, first
<1>3. (first + 3) \div 4 = k
  BY <1>1, <1>2
<1>4. /\ (first + 99) \div 100 \in 1..3 /\ (first + 299) \div 400 \in 0..1
      /\ (first + 99) \div 100 - (first + 299) \div 400 \in 0..3
  BY <1>1, <1>2
<1>5. LeapFix(first) = (first + 99) \div 100 - (first + 299) \div 400
  BY DEF LeapFix
<1>6. Start(first) = 1461 * k - LeapFix(first)
  BY <1>1, <1>2, <1>3, <1>4, <1>5 DEF Start
<1>7. /\ first \in 68..204 /\ (days % 1461) + LeapFix(first) = days - Start(first)
      /\ Start(first) <= days /\ days < Start(first) + 1825
  <2> DEFINE r == days % 1461
             l == LeapFix(first)
  <2>1. r \in Nat /\ r <= 1460 /\ l \in 0..3 /\ days = 1461 * k + r /\ Start(first) = 1461 * k - l
    BY <1>1, <1>4, <1>5, <1>6
  <2> HIDE DEF r, l
  <2>2. r + l = days - Start(first) /\ Start(first) <= days /\ days < Start(first) + 1825
    BY <1>1, <2>1
  <2>3. first \in 68..204
    BY <1>1, <1>2
  <2> QED BY <2>2, <2>3 DEF r, l
<1> QED BY <1>7 DEF first

LEMMA YearLoopIs ==
  ASSUME NEW days \in DayNumbers, NEW first, first = FirstYear(days)
  PROVE  /\ YearLoop([y \in first..first + 5 |-> days - Start(y)], days, first)
         /\ \A from : YearLoop(from, days, first) => \A y \in first..first + 5 : from[y] = days - Start(y)
<1>1. first \in Nat /\ (days % 1461) + LeapFix(first) = days - Start(first) /\ days \in Nat
  <2>1. first \in Nat /\ (days % 1461) + LeapFix(first) = days - Start(first)
    BY FirstYearIs
  <2>2. days \in Nat
    BY DEF DayNumbers
  <2> QED BY <2>1, <2>2
<1>2. ASSUME NEW y \in first..first + 5, y # first
      PROVE  y - 1 \in first..first + 5 /\ (days - Start(y - 1)) - YearDays(y - 1) = days - Start(y)
  <2>1. y - 1 \in Nat /\ (y - 1) + 1 = y /\ y - 1 \in first..first + 5
    BY <1>1, <1>2
  <2>2. Start(y - 1) \in Int /\ YearDays(y - 1) \in Int /\ Start(y) = Start(y - 1) + YearDays(y - 1)
    <3> DEFINE x == y - 1
    <3>1. x \in Nat /\ x + 1 = y
      BY <2>1
    <3> HIDE DEF x
    <3>2. Start(x) \in Int /\ YearDays(x) \in {365, 366} /\ Start(x + 1) = Start(x) + YearDays(x)
      BY <3>1, StartNext
    <3> QED BY <3>1, <3>2 DEF x
  <2> QED BY <1>1, <2>1, <2>2
<1>3. YearLoop([y \in first..first + 5 |-> days - Start(y)], days, first)
  <2> DEFINE f == [y \in first..first + 5 |-> days - Start(y)]
  <2>1. ASSUME NEW y \in first..first + 5
        PROVE  f[y] = IF y = first THEN (days % 1461) + LeapFix(first) ELSE f[y - 1] - YearDays(y - 1)
    BY <1>1, <1>2
  <2>2. f = [y \in first..first + 5 |-> f[y]]
    OBVIOUS
  <2> HIDE DEF f
  <2>3. f = [y \in first..first + 5 |->
               IF y = first THEN (days % 1461) + LeapFix(first) ELSE f[y - 1] - YearDays(y - 1)]
    <3> DEFINE g(y) == IF y = first THEN (days % 1461) + LeapFix(first) ELSE f[y - 1] - YearDays(y - 1)
    <3>1. \A y \in first..first + 5 : f[y] = g(y)
      BY <2>1
    <3> HIDE DEF g
    <3>2. [y \in first..first + 5 |-> f[y]] = [y \in first..first + 5 |-> g(y)]
      BY <3>1
    <3> QED BY <3>2, <2>2 DEF g
  <2>4. YearLoop(f, days, first)
    BY <2>3 DEF YearLoop
  <2> QED BY <2>4 DEF f
<1>4. ASSUME NEW from, YearLoop(from, days, first), NEW y \in first..first + 5 PROVE from[y] = days - Start(y)
  <2>1. /\ from[first] = (days % 1461) + LeapFix(first)
        /\ \A z \in first..first + 5 : z # first => from[z] = from[z - 1] - YearDays(z - 1)
    <3>1. first \in first..first + 5
      BY <1>1
    <3>2. \A z \in first..first + 5 :
            from[z] = IF z = first THEN (days % 1461) + LeapFix(first) ELSE from[z - 1] - YearDays(z - 1)
      BY <1>4 DEF YearLoop
    <3> QED BY <3>1, <3>2
  <2> DEFINE S == {i \in 0..5 : from[first + i] = days - Start(first + i)}
  <2>2. 0 \in S
    <3>1. first + 0 = first
      BY <1>1
    <3> QED BY <3>1, <2>1, <1>1
  <2>3. ASSUME NEW i \in 0..5 - 1, i \in S PROVE i + 1 \in S
    <3> DEFINE z == first + (i + 1)
    <3>1. z \in first..first + 5 /\ z # first /\ z - 1 = first + i /\ i + 1 \in 0..5
      BY <1>1
    <3> HIDE DEF z
    <3>2. from[z] = from[z - 1] - YearDays(z - 1)
      BY <2>1, <3>1
    <3>3. from[z - 1] = days - Start(z - 1)
      BY <2>3, <3>1
    <3>4. from[z] = days - Start(z)
      BY <1>2, <3>1, <3>2, <3>3
    <3> QED BY <3>1, <3>4 DEF z
  <2> HIDE DEF S
  <2>4. \A i \in 0..5 : i \in S
    BY <2>2, <2>3, Upwards
  <2>5. y - first \in 0..5 /\ first + (y - first) = y
    BY <1>1
  <2> QED BY <2>4, <2>5 DEF S
<1> QED BY <1>3, <1>4

StopYear(year, from, first) ==
  year = CHOOSE y \in first..first + 4 :
           from[y] < YearDays(y) /\ \A x \in first..y - 1 : from[x] >= YearDays(x)

\* The year the loop stops at has the day.
LEMMA YearIs ==
  ASSUME NEW days \in DayNumbers, NEW first, first = FirstYear(days), NEW from, YearLoop(from, days, first),
         NEW year, StopYear(year, from, first)
  PROVE  year \in Nat /\ from[year] = days - Start(year) /\ from[year] \in 0..YearDays(year) - 1
<1>1. /\ first \in Nat /\ days \in Nat /\ Start(first) <= days /\ days < Start(first) + 1825
      /\ \A y \in first..first + 5 : from[y] = days - Start(y)
  <2>1. first \in Nat /\ days \in Nat /\ Start(first) <= days /\ days < Start(first) + 1825
    <3>1. first \in Nat /\ Start(first) <= days /\ days < Start(first) + 1825
      BY FirstYearIs
    <3>2. days \in Nat
      BY DEF DayNumbers
    <3> QED BY <3>1, <3>2
  <2>2. \A y \in first..first + 5 : from[y] = days - Start(y)
    BY YearLoopIs
  <2> QED BY <2>1, <2>2
<1>2. \A y \in Nat : Start(y) \in Int /\ YearDays(y) \in 365..366 /\ Start(y + 1) = Start(y) + YearDays(y)
  BY StartNext
<1> DEFINE Good(y) == from[y] < YearDays(y)
           T == {y \in first..first + 4 : Good(y)}
<1>3. T # {}
  <2> SUFFICES ASSUME T = {} PROVE FALSE
    OBVIOUS
  <2>1. ASSUME NEW y \in first..first + 4 PROVE Start(y + 1) <= days /\ y \in Nat /\ y + 1 \in Nat /\ Start(y) + 365 <= Start(y + 1)
    <3>1. y \in Nat /\ ~(days - Start(y) < YearDays(y)) /\ y \in first..first + 5
      BY <1>1, <2>1
    <3> QED BY <3>1, <1>1, <1>2
  <2>2. /\ first \in first..first + 4 /\ first + 1 \in first..first + 4 /\ first + 2 \in first..first + 4
        /\ first + 3 \in first..first + 4 /\ first + 4 \in first..first + 4
        /\ first + 1 + 1 = first + 2 /\ first + 2 + 1 = first + 3 /\ first + 3 + 1 = first + 4
        /\ first + 4 + 1 = first + 5
    BY <1>1
  <2>3. /\ Start(first) + 365 <= Start(first + 1) /\ Start(first + 1) + 365 <= Start(first + 2)
        /\ Start(first + 2) + 365 <= Start(first + 3) /\ Start(first + 3) + 365 <= Start(first + 4)
        /\ Start(first + 4) + 365 <= Start(first + 5) /\ Start(first + 5) <= days
    BY <2>1, <2>2
  <2>4. /\ Start(first) \in Int /\ Start(first + 1) \in Int /\ Start(first + 2) \in Int /\ Start(first + 3) \in Int
        /\ Start(first + 4) \in Int /\ Start(first + 5) \in Int
    BY <1>1, <1>2
  <2> QED BY <1>1, <2>3, <2>4
<1>4. PICK y \in T : \A x \in T : y <= x
  <2>1. T \in SUBSET Nat
    BY <1>1
  <2> HIDE DEF T
  <2> QED BY <1>3, <2>1, LeastExists
<1>5. y \in first..first + 4 /\ Good(y) /\ \A x \in first..y - 1 : from[x] >= YearDays(x)
  <2>1. ASSUME NEW x \in first..y - 1 PROVE from[x] >= YearDays(x)
    <3>1. x \in first..first + 4 /\ x < y /\ x \notin T /\ x \in Nat /\ x \in first..first + 5
      BY <1>1, <1>4
    <3>2. from[x] \in Int /\ YearDays(x) \in Int
      BY <3>1, <1>1, <1>2
    <3> QED BY <3>1, <3>2
  <2> QED BY <1>4, <2>1
<1>6. year \in first..first + 4 /\ from[year] < YearDays(year)
      /\ \A x \in first..year - 1 : from[x] >= YearDays(x)
  BY <1>5 DEF StopYear
<1>7. year \in Nat /\ year \in first..first + 5 /\ from[year] = days - Start(year)
  BY <1>1, <1>6
<1>8. Start(year) <= days
  <2>1. CASE year = first
    BY <2>1, <1>1
  <2>2. CASE year # first
    <3> DEFINE x == year - 1
    <3>1. x \in first..year - 1 /\ x \in Nat /\ x + 1 = year /\ x \in first..first + 5
      BY <1>1, <1>6, <2>2
    <3> HIDE DEF x
    <3>2. days - Start(x) >= YearDays(x)
      BY <3>1, <1>1, <1>6
    <3> QED BY <3>1, <3>2, <1>1, <1>2
  <2> QED BY <2>1, <2>2
<1>9. Start(year) \in Int /\ YearDays(year) \in Int
  BY <1>2, <1>7
<1> QED BY <1>1, <1>6, <1>7, <1>8, <1>9

\* The loop over the months.
MonthLoop(inYear, year, yday) ==
  inYear = [m \in 0..12 |-> IF m = 0 THEN yday ELSE inYear[m - 1] - MonthDays(year, m - 1)]

LEMMA MonthLoopIs ==
  ASSUME NEW year \in Nat, NEW yday \in Int
  PROVE  /\ MonthLoop([m \in 0..12 |-> yday - Before1st(year, m)], year, yday)
         /\ \A inYear : MonthLoop(inYear, year, yday) =>
              \A m \in 0..12 : inYear[m] = yday - Before1st(year, m)
<1>1. ASSUME NEW m \in 0..12, m # 0
      PROVE  (yday - Before1st(year, m - 1)) - MonthDays(year, m - 1) = yday - Before1st(year, m)
  <2> DEFINE k == m - 1
  <2>1. k \in 0..11 /\ k + 1 = m
    BY <1>1
  <2> HIDE DEF k
  <2>2. Before1st(year, k) \in Nat /\ MonthDays(year, k) \in 28..31
        /\ Before1st(year, k + 1) = Before1st(year, k) + MonthDays(year, k)
    BY <2>1, MonthNext
  <2> QED BY <2>1, <2>2 DEF k
<1>2. Before1st(year, 0) = 0
  BY YearEnds
<1>3. MonthLoop([m \in 0..12 |-> yday - Before1st(year, m)], year, yday)
  <2> DEFINE f == [m \in 0..12 |-> yday - Before1st(year, m)]
  <2>1. ASSUME NEW m \in 0..12 PROVE f[m] = IF m = 0 THEN yday ELSE f[m - 1] - MonthDays(year, m - 1)
    <3>1. m # 0 => m - 1 \in 0..12
      OBVIOUS
    <3> QED BY <1>1, <1>2, <3>1
  <2>2. f = [m \in 0..12 |-> f[m]]
    OBVIOUS
  <2> HIDE DEF f
  <2>3. MonthLoop(f, year, yday)
    BY <2>1, <2>2 DEF MonthLoop
  <2> QED BY <2>3 DEF f
<1>4. ASSUME NEW inYear, MonthLoop(inYear, year, yday), NEW m \in 0..12
      PROVE  inYear[m] = yday - Before1st(year, m)
  <2>1. \A k \in 0..12 : inYear[k] = IF k = 0 THEN yday ELSE inYear[k - 1] - MonthDays(year, k - 1)
    BY <1>4 DEF MonthLoop
  <2> DEFINE S == {i \in 0..12 : inYear[i] = yday - Before1st(year, i)}
  <2>2. 0 \in S
    BY <2>1, <1>2
  <2>3. ASSUME NEW i \in 0..12 - 1, i \in S PROVE i + 1 \in S
    <3>1. i + 1 \in 0..12 /\ i + 1 # 0 /\ (i + 1) - 1 = i
      OBVIOUS
    <3>2. inYear[i + 1] = inYear[i] - MonthDays(year, i)
      BY <2>1, <3>1
    <3>3. (yday - Before1st(year, i)) - MonthDays(year, i) = yday - Before1st(year, i + 1)
      BY <1>1, <3>1
    <3> QED BY <2>3, <3>1, <3>2, <3>3
  <2> HIDE DEF S
  <2>4. \A i \in 0..12 : i \in S
    BY <2>2, <2>3, Upwards
  <2> QED BY <2>4 DEF S
<1> QED BY <1>3, <1>4

StopMonth(mon, inYear, year) ==
  mon = CHOOSE m \in 0..11 :
          inYear[m] < MonthDays(year, m) /\ \A k \in 0..m - 1 : inYear[k] >= MonthDays(year, k)

LEMMA MonthIs ==
  ASSUME NEW year \in Nat, NEW yday \in 0..YearDays(year) - 1, NEW inYear, MonthLoop(inYear, year, yday),
         NEW mon, StopMonth(mon, inYear, year)
  PROVE  mon \in 0..11 /\ inYear[mon] = yday - Before1st(year, mon) /\ inYear[mon] \in 0..MonthDays(year, mon) - 1
<1>1. \A m \in 0..12 : inYear[m] = yday - Before1st(year, m)
  <2>1. yday \in Int
    OBVIOUS
  <2> QED BY <2>1, MonthLoopIs
<1>2. \A m \in 0..11 : /\ Before1st(year, m) \in Nat /\ MonthDays(year, m) \in 28..31
                       /\ Before1st(year, m + 1) = Before1st(year, m) + MonthDays(year, m)
  BY MonthNext
<1>3. Before1st(year, 0) = 0 /\ Before1st(year, 12) = YearDays(year) /\ yday \in Int /\ yday >= 0
      /\ YearDays(year) \in Int /\ yday < YearDays(year)
  <2>1. YearDays(year) \in {365, 366}
    BY StartNext
  <2> QED BY <2>1, YearEnds
<1> DEFINE T == {m \in 0..11 : inYear[m] < MonthDays(year, m)}
<1>4. 11 \in T
  <2>1. 11 \in 0..11 /\ 11 \in 0..12 /\ 11 + 1 = 12
    OBVIOUS
  <2>2. /\ Before1st(year, 11) \in Nat /\ MonthDays(year, 11) \in 28..31
        /\ Before1st(year, 12) = Before1st(year, 11) + MonthDays(year, 11)
    BY <1>2, <2>1
  <2> QED BY <1>1, <1>3, <2>1, <2>2
<1>5. PICK m \in T : \A x \in T : m <= x
  <2>1. T \in SUBSET Nat
    OBVIOUS
  <2> HIDE DEF T
  <2> QED BY <1>4, <2>1, LeastExists
<1>6. m \in 0..11 /\ inYear[m] < MonthDays(year, m) /\ \A k \in 0..m - 1 : inYear[k] >= MonthDays(year, k)
  <2>1. ASSUME NEW k \in 0..m - 1 PROVE inYear[k] >= MonthDays(year, k)
    <3>1. k \in 0..11 /\ k \in 0..12 /\ k < m /\ k \notin T
      BY <1>5
    <3>2. inYear[k] \in Int /\ MonthDays(year, k) \in Int
      BY <3>1, <1>1, <1>2, <1>3
    <3> QED BY <3>1, <3>2
  <2> QED BY <1>5, <2>1
<1>7. mon \in 0..11 /\ inYear[mon] < MonthDays(year, mon) /\ \A k \in 0..mon - 1 : inYear[k] >= MonthDays(year, k)
  BY <1>6 DEF StopMonth
<1>8. mon \in 0..12 /\ inYear[mon] = yday - Before1st(year, mon)
  BY <1>1, <1>7
<1>9. Before1st(year, mon) <= yday
  <2>1. CASE mon = 0
    BY <2>1, <1>3
  <2>2. CASE mon # 0
    <3> DEFINE x == mon - 1
    <3>1. x \in 0..mon - 1 /\ x \in 0..11 /\ x + 1 = mon /\ x \in 0..12
      BY <1>7, <2>2
    <3> HIDE DEF x
    <3>2. yday - Before1st(year, x) >= MonthDays(year, x)
      BY <3>1, <1>1, <1>7
    <3>3. /\ Before1st(year, x) \in Nat /\ MonthDays(year, x) \in 28..31
          /\ Before1st(year, mon) = Before1st(year, x) + MonthDays(year, x)
      BY <3>1, <1>2
    <3> QED BY <3>2, <3>3, <1>3
  <2> QED BY <1>7, <2>1, <2>2
<1>10. Before1st(year, mon) \in Nat /\ MonthDays(year, mon) \in 28..31
  BY <1>2, <1>7
<1> QED BY <1>3, <1>7, <1>8, <1>9, <1>10


\* The timestamps: all that 32 bits of seconds can say.
Stamps == {t \in [day : Nat, sec : 0..DaySecs - 1] : Before(t, Wrap)}

LEMMA StampIs ==
  ASSUME NEW t \in Stamps
  PROVE  /\ t = [day |-> t.day, sec |-> t.sec] /\ t.day \in Nat /\ t.day <= 49710 /\ t.sec \in Nat /\ t.sec <= 86399
         /\ t.day = 49710 => t.sec < 23296
<1>1. t \in [day : Nat, sec : Nat] /\ t.sec <= 86399 /\ Before(t, Wrap)
  <2>1. t \in [day : Nat, sec : 0..DaySecs - 1] /\ Before(t, Wrap)
    BY DEF Stamps
  <2>2. DaySecs = 86400
    BY DEF DaySecs
  <2>3. DaySecs \in Int /\ DaySecs <= 86400
    BY <2>2
  <2>4. t.sec <= DaySecs - 1 /\ t.sec \in Nat /\ t \in [day : Nat, sec : Nat]
    BY <2>1, <2>3
  <2> QED BY <2>1, <2>3, <2>4
<1>2. t.day < 49710 \/ (t.day = 49710 /\ t.sec < 23296)
  BY <1>1 DEF Before, Wrap
<1> QED BY <1>1, <1>2

LEMMA IsStamp ==
  ASSUME NEW d \in Nat, NEW s \in Nat, d <= 49710, s <= 86399, d = 49710 => s < 23296
  PROVE  [day |-> d, sec |-> s] \in Stamps
<1> DEFINE t == [day |-> d, sec |-> s]
<1>1. t \in [day : Nat, sec : 0..DaySecs - 1] /\ t.day = d /\ t.sec = s
  <2>1. DaySecs = 86400
    BY DEF DaySecs
  <2>2. DaySecs \in Int /\ s <= DaySecs - 1
    BY <2>1
  <2>3. s \in 0..DaySecs - 1
    BY <2>2
  <2> QED BY <2>3
<1>2. Before(t, Wrap)
  BY <1>1 DEF Before, Wrap
<1> QED BY <1>1, <1>2 DEF Stamps

\* What adding at most a day, or taking it off, does to a timestamp.
LEMMA PlusIs ==
  ASSUME NEW d \in Nat, NEW s \in Nat, d <= 49710, s <= 86399, d = 49710 => s < 23296,
         NEW secs \in Int, -86400 <= secs, secs <= 86400
  PROVE  LET e == d + (s + secs) \div 86400
             r == (s + secs) % 86400
         IN Plus([day |-> d, sec |-> s], secs) =
              IF e >= 0 /\ (e < 49710 \/ (e = 49710 /\ r < 23296)) THEN [day |-> e, sec |-> r]
              ELSE IF e < 0 THEN [day |-> e + 49710 + (r + 23296) \div 86400, sec |-> (r + 23296) % 86400]
              ELSE [day |-> e - 49710 + (r - 23296) \div 86400, sec |-> (r - 23296) % 86400]
<1> DEFINE t == [day |-> d, sec |-> s]
           e == d + (s + secs) \div 86400
           r == (s + secs) % 86400
           sum == [day |-> e, sec |-> r]
<1>1. t.day = d /\ t.sec = s /\ sum.day = e /\ sum.sec = r /\ Wrap.day = 49710 /\ Wrap.sec = 23296
  BY DEF Wrap
<1>2. Plus(t, secs) = IF Before(sum, Wrap) /\ e >= 0 THEN sum
                      ELSE LET x == sum.sec + (IF e < 0 THEN Wrap.sec ELSE -Wrap.sec)
                           IN [day |-> e + (IF e < 0 THEN Wrap.day ELSE -Wrap.day) + x \div 86400,
                               sec |-> x % 86400]
  BY <1>1 DEF Plus, DaySecs
<1>3. Before(sum, Wrap) <=> e < 49710 \/ (e = 49710 /\ r < 23296)
  BY <1>1 DEF Before
<1>4. e \in Int /\ r \in Int
  OBVIOUS
<1> HIDE DEF e, r
<1>5. e + (-49710) = e - 49710 /\ r + (-23296) = r - 23296
  BY <1>4
<1> QED BY <1>1, <1>2, <1>3, <1>5 DEF e, r

\* Moving a timestamp to local time and back.
LEMMA PlusAndBack ==
  ASSUME NEW t \in Stamps
  PROVE  /\ Plus(t, 0) = t
         /\ Plus(t, LocalOffset) \in Stamps
         /\ Plus(Plus(t, LocalOffset), -LocalOffset) = t
<1> DEFINE d == t.day
           s == t.sec
<1>1. t = [day |-> d, sec |-> s] /\ d \in Nat /\ d <= 49710 /\ s \in Nat /\ s <= 86399 /\ (d = 49710 => s < 23296)
  BY StampIs
<1> HIDE DEF d, s
<1>2. Plus(t, 0) = t
  <2> DEFINE e == d + (s + 0) \div 86400
             r == (s + 0) % 86400
  <2>1. e = d /\ r = s
    BY <1>1
  <2>2. Plus([day |-> d, sec |-> s], 0) =
          IF e >= 0 /\ (e < 49710 \/ (e = 49710 /\ r < 23296)) THEN [day |-> e, sec |-> r]
          ELSE IF e < 0 THEN [day |-> e + 49710 + (r + 23296) \div 86400, sec |-> (r + 23296) % 86400]
          ELSE [day |-> e - 49710 + (r - 23296) \div 86400, sec |-> (r - 23296) % 86400]
    <3>1. 0 \in Int /\ -86400 <= 0 /\ 0 <= 86400
      OBVIOUS
    <3>2. ASSUME NEW z \in Int, -86400 <= z, z <= 86400
          PROVE  LET f == d + (s + z) \div 86400
                     q == (s + z) % 86400
                 IN Plus([day |-> d, sec |-> s], z) =
                      IF f >= 0 /\ (f < 49710 \/ (f = 49710 /\ q < 23296)) THEN [day |-> f, sec |-> q]
                      ELSE IF f < 0 THEN [day |-> f + 49710 + (q + 23296) \div 86400, sec |-> (q + 23296) % 86400]
                      ELSE [day |-> f - 49710 + (q - 23296) \div 86400, sec |-> (q - 23296) % 86400]
      BY <1>1, <3>2, PlusIs
    <3> QED BY <3>1, <3>2
  <2> HIDE DEF e, r
  <2>3. e >= 0 /\ (e < 49710 \/ (e = 49710 /\ r < 23296))
    BY <1>1, <2>1
  <2> QED BY <1>1, <2>1, <2>2, <2>3
<1>3. LocalOffset = 28800 /\ -LocalOffset = -28800 /\ 28800 \in Int /\ -86400 <= 28800 /\ 28800 <= 86400 /\ -28800 \in Int /\ -86400 <= -28800 /\ -28800 <= 86400
  BY DEF LocalOffset
<1> DEFINE e == d + (s + 28800) \div 86400
           r == (s + 28800) % 86400
<1>4. /\ s < 57600 => e = d /\ r = s + 28800
      /\ s >= 57600 => e = d + 1 /\ r = s - 57600
  BY <1>1
<1>5. Plus(t, 28800) =
        IF e >= 0 /\ (e < 49710 \/ (e = 49710 /\ r < 23296)) THEN [day |-> e, sec |-> r]
        ELSE IF e < 0 THEN [day |-> e + 49710 + (r + 23296) \div 86400, sec |-> (r + 23296) % 86400]
        ELSE [day |-> e - 49710 + (r - 23296) \div 86400, sec |-> (r - 23296) % 86400]
  BY <1>1, <1>3, PlusIs
<1> HIDE DEF e, r
<1>6. CASE e < 49710 \/ (e = 49710 /\ r < 23296)
  <2>1. e \in Nat /\ e <= 49710 /\ r \in Nat /\ r <= 86399 /\ (e = 49710 => r < 23296)
    BY <1>1, <1>4, <1>6
  <2>2. Plus(t, 28800) = [day |-> e, sec |-> r]
    BY <1>5, <1>6, <2>1
  <2>3. [day |-> e, sec |-> r] \in Stamps
    BY <2>1, IsStamp
  <2> DEFINE f == e + (r + (-28800)) \div 86400
             q == (r + (-28800)) % 86400
  <2>4. f = d /\ q = s
    <3>1. CASE s < 57600
      <4>1. e = d /\ r + (-28800) = s
        BY <1>1, <1>4, <3>1
      <4>2. s \div 86400 = 0 /\ s % 86400 = s
        BY <1>1
      <4> QED BY <1>1, <4>1, <4>2
    <3>2. CASE s >= 57600
      <4>1. e = d + 1 /\ r + (-28800) = s - 86400
        BY <1>1, <1>4, <3>2
      <4>2. (s - 86400) \div 86400 = -1 /\ (s - 86400) % 86400 = s
        BY <1>1
      <4> QED BY <1>1, <4>1, <4>2
    <3> QED BY <1>1, <3>1, <3>2
  <2>5. Plus([day |-> e, sec |-> r], -28800) =
          IF f >= 0 /\ (f < 49710 \/ (f = 49710 /\ q < 23296)) THEN [day |-> f, sec |-> q]
          ELSE IF f < 0 THEN [day |-> f + 49710 + (q + 23296) \div 86400, sec |-> (q + 23296) % 86400]
          ELSE [day |-> f - 49710 + (q - 23296) \div 86400, sec |-> (q - 23296) % 86400]
    BY <1>3, <2>1, PlusIs
  <2> HIDE DEF f, q
  <2>6. f >= 0 /\ (f < 49710 \/ (f = 49710 /\ q < 23296))
    BY <1>1, <2>4
  <2> QED BY <1>1, <1>2, <1>3, <2>2, <2>3, <2>4, <2>5, <2>6
<1>7. CASE ~(e < 49710 \/ (e = 49710 /\ r < 23296))
  <2>0. e \in Int /\ r \in Nat /\ r <= 86399 /\ e >= 49710
    BY <1>1, <1>4, <1>7
  <2> DEFINE g == e - 49710 + (r - 23296) \div 86400
             h == (r - 23296) % 86400
  \* No more than eight hours are left behind the end.
  <2>1. g = 0 /\ h \in Nat /\ h <= 28799
        /\ (s < 57600 => d = 49710 /\ h = s + 5504)
        /\ (s >= 57600 => d = 49709 /\ h = s - 80896)
    <3>1. CASE s < 57600
      <4>1. d = 49710 /\ e = 49710 /\ r = s + 28800 /\ r - 23296 = s + 5504 /\ s < 23296
        BY <1>1, <1>4, <1>7, <3>1
      <4>2. (s + 5504) \div 86400 = 0 /\ (s + 5504) % 86400 = s + 5504
        BY <1>1, <4>1
      <4> QED BY <3>1, <4>1, <4>2, <1>1
    <3>2. CASE s >= 57600
      <4>1. d = 49709 /\ e = 49710 /\ r = s - 57600 /\ r >= 23296
        BY <1>1, <1>4, <1>7, <3>2
      <4>2. r - 23296 \in Nat /\ r - 23296 <= 86399 /\ (r - 23296) \div 86400 = 0 /\ (r - 23296) % 86400 = r - 23296
        BY <1>1, <4>1
      <4>3. g = 0 /\ h = s - 80896
        BY <1>1, <4>1, <4>2
      <4>4. h \in Nat /\ h <= 28799 /\ ~(s < 57600)
        BY <1>1, <4>1, <4>2, <4>3, <3>2
      <4> HIDE DEF g, h
      <4> QED BY <4>1, <4>3, <4>4
    <3> QED BY <1>1, <3>1, <3>2
  <2>2. Plus(t, 28800) = [day |-> 0, sec |-> h]
    <3>1. ~(e < 0)
      BY <2>0
    <3> HIDE DEF h
    <3>2. Plus(t, 28800) = [day |-> g, sec |-> h]
      BY <1>5, <1>7, <3>1 DEF h
    <3> HIDE DEF g
    <3> QED BY <2>1, <3>2
  <2>3. 0 \in Nat /\ 0 <= 49710 /\ h \in Nat /\ h <= 86399 /\ (0 = 49710 => h < 23296)
    BY <2>1
  <2>4. [day |-> 0, sec |-> h] \in Stamps
    <3> HIDE DEF h
    <3> QED BY <2>3, IsStamp
  <2> DEFINE f == 0 + (h + (-28800)) \div 86400
             q == (h + (-28800)) % 86400
  <2> HIDE DEF g, h
  <2>5. f = -1 /\ q = h + 57600
    BY <2>1
  <2>6. Plus([day |-> 0, sec |-> h], -28800) =
          IF f >= 0 /\ (f < 49710 \/ (f = 49710 /\ q < 23296)) THEN [day |-> f, sec |-> q]
          ELSE IF f < 0 THEN [day |-> f + 49710 + (q + 23296) \div 86400, sec |-> (q + 23296) % 86400]
          ELSE [day |-> f - 49710 + (q - 23296) \div 86400, sec |-> (q - 23296) % 86400]
    BY <1>3, <2>3, PlusIs
  <2> HIDE DEF f, q
  <2>7. Plus([day |-> 0, sec |-> h], -28800) = [day |-> f + 49710 + (q + 23296) \div 86400, sec |-> (q + 23296) % 86400]
    BY <2>5, <2>6
  <2>8. f + 49710 + (q + 23296) \div 86400 = d /\ (q + 23296) % 86400 = s
    <3>1. q + 23296 = h + 80896 /\ f + 49710 = 49709
      BY <2>1, <2>5
    <3>2. CASE s < 57600
      <4>1. d = 49710 /\ q + 23296 = s + 86400
        BY <2>1, <3>1, <3>2, <1>1
      <4>2. (s + 86400) \div 86400 = 1 /\ (s + 86400) % 86400 = s
        BY <1>1
      <4> QED BY <3>1, <4>1, <4>2
    <3>3. CASE s >= 57600
      <4>1. d = 49709 /\ h = s - 80896
        BY <2>1, <3>3, <1>1
      <4>2. q + 23296 = s /\ s \div 86400 = 0 /\ s % 86400 = s
        BY <3>1, <4>1, <1>1
      <4> QED BY <3>1, <4>1, <4>2
    <3> QED BY <1>1, <3>2, <3>3
  <2> QED BY <1>1, <1>2, <1>3, <2>2, <2>4, <2>7, <2>8
<1> QED BY <1>2, <1>6, <1>7


\* A day a timestamp can say.
IsDay(d) == d \in Nat /\ d <= 49710

\* A broken-down time says the day d since 1970.
IsDate(d, tm) ==
  /\ tm.year \in Nat /\ tm.mon \in 0..11
  /\ tm.yday \in 0..YearDays(tm.year) - 1
  /\ tm.mday \in 1..MonthDays(tm.year, tm.mon)
  /\ d + 25567 = Start(tm.year) + tm.yday
  /\ tm.yday = Before1st(tm.year, tm.mon) + tm.mday - 1
  /\ tm.wday = (d + 4) % 7
\* And the second s of it.
IsClock(s, tm) == /\ tm.hour = s \div 3600 /\ tm.min = (s \div 60) % 60 /\ tm.sec = s % 60
                  /\ tm.hour * 3600 + tm.min * 60 + tm.sec = s

LEMMA MonthTypes ==
  ASSUME NEW y \in Nat, NEW m \in 0..11
  PROVE  Before1st(y, m) \in Nat /\ MonthDays(y, m) \in Nat
<1>1. MonthDays(y, m) \in 28..31 /\ Before1st(y, m) \in Nat
  BY MonthNext
<1> QED BY <1>1

\* A month ends with its year or before.
LEMMA WithinYear ==
  ASSUME NEW y \in Nat, NEW m \in 0..11
  PROVE  Before1st(y, m) + MonthDays(y, m) <= YearDays(y)
<1>1. m = 0 \/ m = 1 \/ m = 2 \/ m = 3 \/ m = 4 \/ m = 5 \/ m = 6 \/ m = 7 \/ m = 8 \/ m = 9 \/ m = 10 \/ m = 11
  OBVIOUS
<1> QED BY <1>1 DEF Before1st, DaysBefore, MonthDays, Days, YearDays

LEMMA ClockIs ==
  ASSUME NEW s \in Nat
  PROVE  (s \div 3600) * 3600 + ((s \div 60) % 60) * 60 + (s % 60) = s
<1> DEFINE m == s \div 60
           x == s % 60
           h == m \div 60
           y == m % 60
<1>1. m \in Nat /\ x \in 0..59 /\ s = 60 * m + x
  OBVIOUS
<1>2. h \in Nat /\ y \in 0..59 /\ m = 60 * h + y
  <2> HIDE DEF m
  <2> QED BY <1>1
<1>3. s \div 3600 = h
  <2> HIDE DEF m, x, h, y
  <2>1. s = 3600 * h + (60 * y + x) /\ 60 * y + x >= 0 /\ 60 * y + x < 3600
    BY <1>1, <1>2
  <2> DEFINE z == 60 * y + x
  <2>2. z \in Int /\ s = 3600 * h + z /\ z >= 0 /\ z < 3600
    BY <1>1, <1>2, <2>1
  <2> HIDE DEF z
  <2> QED BY <1>2, <2>2
<1> HIDE DEF m, x, h, y
<1>4. h * 3600 + y * 60 + x = s
  BY <1>1, <1>2
<1> QED BY <1>3, <1>4 DEF m, x, y

\* gmtime and localtime say the day and the second they are given.
LEMMA DateIs ==
  ASSUME NEW t0, NEW off, NEW d \in Nat, NEW s \in Nat, IsDay(d),
         Plus(t0, off).day = d, Plus(t0, off).sec = s
  PROVE  IsDate(d, GmtimeOff(t0, off)) /\ IsClock(s, GmtimeOff(t0, off)) /\ GmtimeOff(t0, off).gmtoff = off
<1> DEFINE t     == Plus(t0, off)
           days  == t.day + 25567
           first == (days \div 1461) * 4
           from == CHOOSE h : YearLoop(h, days, first)
           year == CHOOSE y \in first..first + 4 :
                     from[y] < YearDays(y) /\ \A x \in first..y - 1 : from[x] >= YearDays(x)
           Down(h) == h = [m \in 0..12 |-> IF m = 0 THEN from[year] ELSE h[m - 1] - MonthDays(year, m - 1)]
           inYear == CHOOSE h : Down(h)
           mon == CHOOSE m \in 0..11 :
                    inYear[m] < MonthDays(year, m) /\ \A k \in 0..m - 1 : inYear[k] >= MonthDays(year, k)
           tm == GmtimeOff(t0, off)
<1>1. tm = [year |-> year, yday |-> from[year], mon |-> mon, mday |-> inYear[mon] + 1,
            wday |-> (t.day + 4) % 7,
            hour |-> t.sec \div 3600, min |-> (t.sec \div 60) % 60, sec |-> t.sec % 60, gmtoff |-> off]
  BY DEF GmtimeOff, YearLoop
<1>2. t.day = d /\ t.sec = s /\ days = d + 25567
  OBVIOUS
<1>3. days \in DayNumbers
  BY <1>2 DEF DayNumbers, IsDay
<1> HIDE DEF t, days
<1>4. first = FirstYear(days)
  BY DEF FirstYear
<1> HIDE DEF first
<1>5. YearLoop(from, days, first)
  <2> DEFINE f == [y \in first..first + 5 |-> days - Start(y)]
  <2>1. YearLoop(f, days, first)
    BY <1>3, <1>4, YearLoopIs
  <2> HIDE DEF f
  <2>2. YearLoop(CHOOSE h : YearLoop(h, days, first), days, first)
    BY <2>1
  <2> QED BY <2>2
<1> HIDE DEF from
<1>6. StopYear(year, from, first)
  BY DEF StopYear
<1> HIDE DEF year
<1>7. year \in Nat /\ from[year] = days - Start(year) /\ from[year] \in 0..YearDays(year) - 1
  BY <1>3, <1>4, <1>5, <1>6, YearIs
<1> DEFINE yday == from[year]
<1>8. MonthLoop(inYear, year, yday)
  <2> DEFINE f == [m \in 0..12 |-> yday - Before1st(year, m)]
  <2>0. yday \in Int
    BY <1>7
  <2>1. MonthLoop(f, year, yday)
    <3> HIDE DEF yday
    <3> QED BY <1>7, <2>0, MonthLoopIs
  <2> HIDE DEF f
  <2>2. Down(f)
    BY <2>1 DEF MonthLoop
  <2> HIDE DEF Down
  <2>3. Down(inYear)
    BY <2>2
  <2> QED BY <2>3 DEF MonthLoop, Down
<1> HIDE DEF inYear
<1>9. StopMonth(mon, inYear, year)
  BY DEF StopMonth
<1> HIDE DEF mon, yday
<1>10. yday \in 0..YearDays(year) - 1
  BY <1>7 DEF yday
<1>11. mon \in 0..11 /\ inYear[mon] = yday - Before1st(year, mon) /\ inYear[mon] \in 0..MonthDays(year, mon) - 1
  BY <1>7, <1>8, <1>9, <1>10, MonthIs
<1>12. Start(year) \in Int /\ Before1st(year, mon) \in Int /\ MonthDays(year, mon) \in Int
  <2>1. Start(year) \in Int
    BY <1>7, StartNext
  <2>2. Before1st(year, mon) \in Nat /\ MonthDays(year, mon) \in Nat
    <3>1. year \in Nat /\ mon \in 0..11
      BY <1>7, <1>11
    <3> QED BY <3>1, MonthTypes
  <2> QED BY <2>1, <2>2
<1> DEFINE left == inYear[mon]
<1> HIDE DEF left
<1>13. left = yday - Before1st(year, mon) /\ left \in 0..MonthDays(year, mon) - 1 /\ yday = days - Start(year)
  BY <1>7, <1>11 DEF left, yday
<1>14. tm = [year |-> year, yday |-> yday, mon |-> mon, mday |-> left + 1, wday |-> (d + 4) % 7,
             hour |-> s \div 3600, min |-> (s \div 60) % 60, sec |-> s % 60, gmtoff |-> off]
  BY <1>1, <1>2 DEF left, yday
<1> HIDE DEF tm
<1>15. left + 1 \in 1..MonthDays(year, mon) /\ yday = Before1st(year, mon) + (left + 1) - 1
       /\ d + 25567 = Start(year) + yday
  BY <1>2, <1>10, <1>12, <1>13
<1>16. IsDate(d, tm)
  BY <1>7, <1>10, <1>11, <1>14, <1>15 DEF IsDate
<1>17. IsClock(s, tm)
  BY <1>14, ClockIs DEF IsClock
<1> QED BY <1>14, <1>16, <1>17 DEF tm

\* A day has one date.
LEMMA DateUnique ==
  ASSUME NEW d \in Int, NEW a, NEW b, IsDate(d, a), IsDate(d, b)
  PROVE  /\ a.year = b.year /\ a.mon = b.mon /\ a.mday = b.mday /\ a.yday = b.yday /\ a.wday = b.wday
<1> DEFINE y == a.year
           z == b.year
           m == a.mon
           n == b.mon
<1>1. /\ y \in Nat /\ m \in 0..11 /\ a.yday \in 0..YearDays(y) - 1 /\ a.mday \in 1..MonthDays(y, m)
      /\ d + 25567 = Start(y) + a.yday /\ a.yday = Before1st(y, m) + a.mday - 1 /\ a.wday = (d + 4) % 7
  BY DEF IsDate
<1>2. /\ z \in Nat /\ n \in 0..11 /\ b.yday \in 0..YearDays(z) - 1 /\ b.mday \in 1..MonthDays(z, n)
      /\ d + 25567 = Start(z) + b.yday /\ b.yday = Before1st(z, n) + b.mday - 1 /\ b.wday = (d + 4) % 7
  BY DEF IsDate
<1> HIDE DEF y, z, m, n
<1>3. Start(y) \in Int /\ Start(z) \in Int /\ YearDays(y) \in {365, 366} /\ YearDays(z) \in {365, 366}
  BY <1>1, <1>2, StartNext
<1>4. y < z => Start(y) + YearDays(y) <= Start(z)
  BY <1>1, <1>2, StartGrows
<1>5. z < y => Start(z) + YearDays(z) <= Start(y)
  BY <1>1, <1>2, StartGrows
<1>6. y = z
  <2>1. ~(y < z)
    BY <1>1, <1>2, <1>3, <1>4
  <2>2. ~(z < y)
    BY <1>1, <1>2, <1>3, <1>5
  <2> QED BY <1>1, <1>2, <2>1, <2>2
<1>7. a.yday = b.yday
  BY <1>1, <1>2, <1>3, <1>6
<1>8. /\ Before1st(y, m) \in Nat /\ Before1st(y, n) \in Nat
      /\ MonthDays(y, m) \in 28..31 /\ MonthDays(y, n) \in 28..31
  <2>1. y \in Nat /\ m \in 0..11 /\ n \in 0..11
    BY <1>1, <1>2
  <2>2. \A k \in 0..11 : Before1st(y, k) \in Nat /\ MonthDays(y, k) \in 28..31
    BY <2>1, MonthNext
  <2> QED BY <2>1, <2>2
<1>9. m < n => Before1st(y, m) + MonthDays(y, m) <= Before1st(y, n)
  BY <1>1, <1>2, MonthsGrow
<1>10. n < m => Before1st(y, n) + MonthDays(y, n) <= Before1st(y, m)
  BY <1>1, <1>2, MonthsGrow
<1>11. b.mday \in 1..MonthDays(y, n) /\ b.yday = Before1st(y, n) + b.mday - 1
  BY <1>2, <1>6
<1>12. m = n
  <2>1. ~(m < n)
    BY <1>1, <1>7, <1>8, <1>9, <1>11
  <2>2. ~(n < m)
    BY <1>1, <1>7, <1>8, <1>10, <1>11
  <2> QED BY <1>1, <1>2, <2>1, <2>2
<1>13. a.mday = b.mday
  BY <1>1, <1>7, <1>8, <1>11, <1>12
<1> QED BY <1>1, <1>2, <1>6, <1>7, <1>12, <1>13 DEF y, z, m, n


\* The day mktime comes to, and the second before it takes off the offset.
MktimeDay(tm) ==
  LET mon  == FromMarch(tm.mon)
      year == tm.year + 1900 - (IF tm.mon + 1 - 2 <= 0 THEN 1 ELSE 0)
  IN year \div 4 - year \div 100 + year \div 400 + (367 * mon) \div 12 + tm.mday + year * 365 - 719499
MktimeSec(tm) == tm.hour * 3600 + tm.min * 60 + tm.sec
DayOf(y, m, mday) == Start(y) + Before1st(y, m) + mday - 25568

LEMMA MktimeParts ==
  ASSUME NEW tm
  PROVE  Mktime(tm) = Plus([day |-> MktimeDay(tm), sec |-> MktimeSec(tm)], -tm.gmtoff)
BY DEF Mktime, MktimeDay, MktimeSec

\* The leap days up to a year.
Leaps(n) == n \div 4 - n \div 100 + n \div 400
LeapsRight(y) == /\ Leaps(y + 1900) = Start(y + 1) - 365 * y + 95
                 /\ Leaps(y + 1899) = Start(y) - 365 * y + 460
LEMMA LeapDays ==
  ASSUME NEW y \in Nat
  PROVE  LeapsRight(y)
<1>1. /\ (y + 1900) \div 4 = ((y + 4) \div 4) + 474 /\ (y + 1900) \div 100 = ((y + 100) \div 100) + 18
      /\ (y + 1900) \div 400 = ((y + 300) \div 400) + 4
  OBVIOUS
<1>2. /\ (y + 1899) \div 4 = ((y + 3) \div 4) + 474 /\ (y + 1899) \div 100 = ((y + 99) \div 100) + 18
      /\ (y + 1899) \div 400 = ((y + 299) \div 400) + 4
  OBVIOUS
<1>3. /\ (y + 4) \div 4 \in Int /\ (y + 100) \div 100 \in Int /\ (y + 300) \div 400 \in Int
      /\ (y + 3) \div 4 \in Int /\ (y + 99) \div 100 \in Int /\ (y + 299) \div 400 \in Int
  OBVIOUS
<1>4. Start(y + 1) = 365 * (y + 1) + ((y + 4) \div 4) - ((y + 100) \div 100) + ((y + 300) \div 400)
  <2>1. y + 1 + 3 = y + 4 /\ y + 1 + 99 = y + 100 /\ y + 1 + 299 = y + 300
    OBVIOUS
  <2> QED BY <2>1 DEF Start
<1>5. (y + 1900) \div 4 - (y + 1900) \div 100 + (y + 1900) \div 400 = Start(y + 1) - 365 * y + 95
  BY <1>1, <1>3, <1>4
<1>6. (y + 1899) \div 4 - (y + 1899) \div 100 + (y + 1899) \div 400 = Start(y) - 365 * y + 460
  BY <1>2, <1>3 DEF Start
<1> QED BY <1>5, <1>6 DEF Leaps, LeapsRight

\* The days from March to the start of a month.
LEMMA MarchDays ==
  ASSUME NEW y \in Nat, NEW m \in 0..11
  PROVE  IF m >= 2 THEN (367 * FromMarch(m)) \div 12 = 336 - YearDays(y) + Before1st(y, m)
                   ELSE (367 * FromMarch(m)) \div 12 = 336 + Before1st(y, m)
<1>1. m = 0 \/ m = 1 \/ m = 2 \/ m = 3 \/ m = 4 \/ m = 5 \/ m = 6 \/ m = 7 \/ m = 8 \/ m = 9 \/ m = 10 \/ m = 11
  OBVIOUS
<1>2. /\ FromMarch(0) = 11 /\ FromMarch(1) = 12 /\ FromMarch(2) = 1 /\ FromMarch(3) = 2 /\ FromMarch(4) = 3
      /\ FromMarch(5) = 4 /\ FromMarch(6) = 5 /\ FromMarch(7) = 6 /\ FromMarch(8) = 7 /\ FromMarch(9) = 8
      /\ FromMarch(10) = 9 /\ FromMarch(11) = 10
  BY DEF FromMarch
<1>3. /\ (367 * 1) \div 12 = 30 /\ (367 * 2) \div 12 = 61 /\ (367 * 3) \div 12 = 91 /\ (367 * 4) \div 12 = 122
      /\ (367 * 5) \div 12 = 152 /\ (367 * 6) \div 12 = 183 /\ (367 * 7) \div 12 = 214 /\ (367 * 8) \div 12 = 244
      /\ (367 * 9) \div 12 = 275 /\ (367 * 10) \div 12 = 305 /\ (367 * 11) \div 12 = 336 /\ (367 * 12) \div 12 = 367
  OBVIOUS
<1> DEFINE K(n) == (367 * FromMarch(n)) \div 12
<1>4. /\ K(0) = 336 /\ K(1) = 367 /\ K(2) = 30 /\ K(3) = 61 /\ K(4) = 91 /\ K(5) = 122 /\ K(6) = 152
      /\ K(7) = 183 /\ K(8) = 214 /\ K(9) = 244 /\ K(10) = 275 /\ K(11) = 305
  BY <1>2, <1>3
<1> HIDE DEF K
<1>5. IF m >= 2 THEN K(m) = 336 - YearDays(y) + Before1st(y, m) ELSE K(m) = 336 + Before1st(y, m)
  BY <1>1, <1>4 DEF YearDays, Before1st, DaysBefore
<1> QED BY <1>5 DEF K

\* mktime counts the days to any day of any month.
LEMMA MktimeDayIs ==
  ASSUME NEW tm, tm.year \in Nat, tm.mon \in 0..11, tm.mday \in Int
  PROVE  MktimeDay(tm) = DayOf(tm.year, tm.mon, tm.mday)
<1> DEFINE y == tm.year
           m == tm.mon
           x == tm.mday
           k == (367 * FromMarch(m)) \div 12
<1>1. y \in Nat /\ m \in 0..11 /\ x \in Int
  OBVIOUS
<1>2. MktimeDay(tm) = LET n == y + 1900 - (IF m + 1 - 2 <= 0 THEN 1 ELSE 0)
                      IN Leaps(n) + k + x + n * 365 - 719499
  BY DEF MktimeDay, Leaps
<1>3. Leaps(y + 1900) = Start(y + 1) - 365 * y + 95 /\ Leaps(y + 1899) = Start(y) - 365 * y + 460
  <2> HIDE DEF y
  <2>1. y \in Nat
    BY <1>1
  <2>2. LeapsRight(y)
    BY <2>1, LeapDays
  <2> QED BY <2>2 DEF LeapsRight
<1>4. IF m >= 2 THEN k = 336 - YearDays(y) + Before1st(y, m) ELSE k = 336 + Before1st(y, m)
  BY <1>1, MarchDays
<1> HIDE DEF y, m, x, k
<1>5. Start(y) \in Int /\ YearDays(y) \in {365, 366} /\ Start(y + 1) = Start(y) + YearDays(y)
  BY <1>1, StartNext
<1>6. Before1st(y, m) \in Nat
  BY <1>1, MonthTypes
<1>7. CASE m >= 2
  <2>1. y + 1900 - (IF m + 1 - 2 <= 0 THEN 1 ELSE 0) = y + 1900
    BY <1>1, <1>7
  <2>2. MktimeDay(tm) = Leaps(y + 1900) + k + x + (y + 1900) * 365 - 719499
    BY <1>2, <2>1
  <2> QED BY <2>2, <1>1, <1>3, <1>4, <1>5, <1>6, <1>7 DEF DayOf, y, m, x
<1>8. CASE ~(m >= 2)
  <2>1. y + 1900 - (IF m + 1 - 2 <= 0 THEN 1 ELSE 0) = y + 1899
    BY <1>1, <1>8
  <2>2. MktimeDay(tm) = Leaps(y + 1899) + k + x + (y + 1899) * 365 - 719499
    BY <1>2, <2>1
  <2> QED BY <2>2, <1>1, <1>3, <1>4, <1>5, <1>6, <1>8 DEF DayOf, y, m, x
<1> QED BY <1>7, <1>8


\* A broken-down time says the timestamp u, by a clock that is ahead by off.
Says(u, tm, off) == IsDate(u.day, tm) /\ IsClock(u.sec, tm) /\ tm.gmtoff = off

LEMMA BrokenDown ==
  ASSUME NEW t, NEW off, Plus(t, off) \in Stamps
  PROVE  Says(Plus(t, off), GmtimeOff(t, off), off)
<1> DEFINE d == Plus(t, off).day
           s == Plus(t, off).sec
<1>1. d \in Nat /\ d <= 49710 /\ s \in Nat
  BY StampIs
<1>2. IsDay(d)
  BY <1>1 DEF IsDay
<1>3. d \in Nat /\ s \in Nat
  BY <1>1
<1>4. IsDate(d, GmtimeOff(t, off)) /\ IsClock(s, GmtimeOff(t, off)) /\ GmtimeOff(t, off).gmtoff = off
  BY <1>2, <1>3, DateIs
<1> QED BY <1>4 DEF Says

\* mktime puts together what gmtime takes apart.
LEMMA PutTogether ==
  ASSUME NEW u \in Stamps, NEW tm, NEW off, Says(u, tm, off)
  PROVE  Mktime(tm) = Plus(u, -off)
<1> DEFINE d == u.day
           s == u.sec
<1>1. u = [day |-> d, sec |-> s] /\ d \in Nat /\ s \in Nat
  BY StampIs
<1>2. /\ IsDate(d, tm) /\ IsClock(s, tm) /\ tm.gmtoff = off
  BY DEF Says
<1> HIDE DEF d, s
<1>3. /\ tm.year \in Nat /\ tm.mon \in 0..11 /\ tm.mday \in 1..MonthDays(tm.year, tm.mon)
      /\ d + 25567 = Start(tm.year) + tm.yday
      /\ tm.yday = Before1st(tm.year, tm.mon) + tm.mday - 1
  BY <1>2 DEF IsDate
<1>4. MonthDays(tm.year, tm.mon) \in Nat /\ Before1st(tm.year, tm.mon) \in Nat
  <2> DEFINE y == tm.year
             m == tm.mon
  <2>1. y \in Nat /\ m \in 0..11
    BY <1>3
  <2> HIDE DEF y, m
  <2>2. MonthDays(y, m) \in Nat /\ Before1st(y, m) \in Nat
    BY <2>1, MonthTypes
  <2> QED BY <2>2 DEF y, m
<1>5. Start(tm.year) \in Int
  BY <1>3, StartNext
<1>6. tm.mday \in Int
  BY <1>3, <1>4
<1>7. MktimeDay(tm) = DayOf(tm.year, tm.mon, tm.mday)
  BY <1>3, <1>6, MktimeDayIs
<1>8. DayOf(tm.year, tm.mon, tm.mday) = d
  <2> DEFINE y == Start(tm.year)
             b == Before1st(tm.year, tm.mon)
             x == tm.mday
             yd == tm.yday
  <2>1. /\ y \in Int /\ b \in Int /\ x \in Int /\ d \in Int
        /\ d + 25567 = y + yd /\ yd = b + x - 1 /\ DayOf(tm.year, tm.mon, tm.mday) = y + b + x - 25568
    BY <1>1, <1>3, <1>4, <1>5, <1>6 DEF DayOf
  <2> HIDE DEF y, b, x, yd
  <2> QED BY <2>1
<1>9. MktimeSec(tm) = s
  BY <1>2 DEF MktimeSec, IsClock
<1> QED BY <1>1, <1>2, <1>7, <1>8, <1>9, MktimeParts

LEMMA BackAgain ==
  ASSUME NEW t \in Stamps
  PROVE  Mktime(Gmtime(t)) = t /\ Mktime(Localtime(t)) = t
<1>1. Plus(t, 0) = t /\ Plus(t, LocalOffset) \in Stamps /\ Plus(Plus(t, LocalOffset), -LocalOffset) = t
  BY PlusAndBack
<1>2. Mktime(Gmtime(t)) = t
  <2>1. Says(t, Gmtime(t), 0)
    <3>1. Plus(t, 0) \in Stamps
      BY <1>1
    <3>2. Says(Plus(t, 0), GmtimeOff(t, 0), 0)
      BY <3>1, BrokenDown
    <3> QED BY <3>2, <1>1 DEF Gmtime
  <2> DEFINE off == 0
  <2>2. off \in Int /\ Says(t, Gmtime(t), off) /\ off >= 0 /\ off <= 0
    BY <2>1
  <2> HIDE DEF off
  <2>3. Mktime(Gmtime(t)) = Plus(t, -off)
    BY <2>2, PutTogether
  <2>4. off \in Int /\ off >= 0 /\ off <= 0
    BY <2>2
  <2>5. -off = 0
    BY <2>4
  <2> QED BY <1>1, <2>3, <2>5
<1>3. Mktime(Localtime(t)) = t
  <2> DEFINE u == Plus(t, LocalOffset)
  <2>1. Says(u, Localtime(t), LocalOffset)
    BY <1>1, BrokenDown DEF Localtime
  <2>2. u \in Stamps
    BY <1>1
  <2> HIDE DEF u
  <2>3. Mktime(Localtime(t)) = Plus(u, -LocalOffset)
    BY <2>1, <2>2, PutTogether
  <2> QED BY <1>1, <2>3 DEF u
<1> QED BY <1>2, <1>3


LEMMA LeapIs ==
  ASSUME NEW y \in Nat
  PROVE  Leap(y) <=> (((y + 1900) % 4 = 0 /\ (y + 1900) % 100 # 0) \/ (y + 1900) % 400 = 0)
<1>1. (y + 1900) % 4 = y % 4 /\ (y + 1900) % 100 = y % 100 /\ (y + 1900) % 400 = (y + 300) % 400
  OBVIOUS
<1> QED BY <1>1 DEF Leap

\* The date after a date, in the terms of the calendar.
IsNext(a, b) ==
  LET last == a.mday = MonthDays(a.year, a.mon)
      eve  == last /\ a.mon = 11
  IN /\ b.year = IF eve THEN a.year + 1 ELSE a.year
     /\ b.mon = IF eve THEN 0 ELSE IF last THEN a.mon + 1 ELSE a.mon
     /\ b.mday = IF last THEN 1 ELSE a.mday + 1
     /\ b.yday = IF eve THEN 0 ELSE a.yday + 1
     /\ b.wday = (a.wday + 1) % 7

LEMMA DateAfterIs ==
  ASSUME NEW a, a.year \in Nat, a.mon \in 0..11
  PROVE  IsNext(a, DateAfter(a))
<1> DEFINE y == a.year
           m == a.mon
           leap == ((y + 1900) % 4 = 0 /\ (y + 1900) % 100 # 0) \/ (y + 1900) % 400 = 0
           days == IF m + 1 = 2 THEN IF leap THEN 29 ELSE 28
                   ELSE IF m + 1 \in {4, 6, 9, 11} THEN 30 ELSE 31
           last == a.mday = days
           eve  == last /\ m + 1 = 12
           b == DateAfter(a)
<1>1. y \in Nat /\ m \in 0..11
  OBVIOUS
<1>2. b = [year |-> y + (IF eve THEN 1 ELSE 0), mon |-> (m + (IF last THEN 1 ELSE 0)) % 12,
           mday |-> IF last THEN 1 ELSE a.mday + 1, yday |-> IF eve THEN 0 ELSE a.yday + 1,
           wday |-> (a.wday + 1) % 7]
  BY DEF DateAfter
<1> HIDE DEF y, m, b
<1>3. Leap(y) <=> leap
  <2>1. \A n \in Nat : Leap(n) <=> (((n + 1900) % 4 = 0 /\ (n + 1900) % 100 # 0) \/ (n + 1900) % 400 = 0)
    BY LeapIs
  <2> QED BY <1>1, <2>1
<1> HIDE DEF leap
<1>4. days = MonthDays(y, m)
  <2>1. m = 0 \/ m = 1 \/ m = 2 \/ m = 3 \/ m = 4 \/ m = 5 \/ m = 6 \/ m = 7 \/ m = 8 \/ m = 9 \/ m = 10 \/ m = 11
    BY <1>1
  <2> QED BY <2>1, <1>3 DEF MonthDays, Days
<1>5. last <=> a.mday = MonthDays(y, m)
  BY <1>4
<1> HIDE DEF days, last
<1>6. /\ b.year = IF eve THEN y + 1 ELSE y
      /\ b.mon = (m + (IF last THEN 1 ELSE 0)) % 12
      /\ b.mday = IF last THEN 1 ELSE a.mday + 1
      /\ b.yday = IF eve THEN 0 ELSE a.yday + 1
      /\ b.wday = (a.wday + 1) % 7
  BY <1>1, <1>2
<1>7. eve <=> last /\ m = 11
  BY <1>1
<1>8. (m + (IF last THEN 1 ELSE 0)) % 12 = IF eve THEN 0 ELSE IF last THEN m + 1 ELSE m
  BY <1>1, <1>7
<1> QED BY <1>5, <1>6, <1>7, <1>8 DEF IsNext, y, m, b

\* The date after the date of a day is the date of the next day.
LEMMA NextDate ==
  ASSUME NEW d \in Nat, NEW a, NEW b, IsDate(d, a), IsNext(a, b)
  PROVE  IsDate(d + 1, b)
<1> DEFINE y == a.year
           m == a.mon
           x == a.mday
           yd == a.yday
           last == x = MonthDays(y, m)
           eve == last /\ m = 11
<1>1. /\ y \in Nat /\ m \in 0..11 /\ yd \in 0..YearDays(y) - 1 /\ x \in 1..MonthDays(y, m)
      /\ d + 25567 = Start(y) + yd /\ yd = Before1st(y, m) + x - 1 /\ a.wday = (d + 4) % 7
  BY DEF IsDate
<1>2. /\ b.year = IF eve THEN y + 1 ELSE y
      /\ b.mon = IF eve THEN 0 ELSE IF last THEN m + 1 ELSE m
      /\ b.mday = IF last THEN 1 ELSE x + 1
      /\ b.yday = IF eve THEN 0 ELSE yd + 1
      /\ b.wday = (a.wday + 1) % 7
  BY DEF IsNext
<1> HIDE DEF y, m, x, yd
<1>3. /\ Before1st(y, m) \in Nat /\ MonthDays(y, m) \in 28..31
      /\ Before1st(y, m + 1) = Before1st(y, m) + MonthDays(y, m)
  <2>1. y \in Nat /\ m \in 0..11
    BY <1>1
  <2> QED BY <2>1, MonthNext
<1>4. Before1st(y, 0) = 0 /\ Before1st(y, 12) = YearDays(y) /\ Before1st(y + 1, 0) = 0
  <2>1. y + 1 \in Nat
    BY <1>1
  <2> QED BY <1>1, <2>1, YearEnds
<1>5. /\ Start(y) \in Int /\ YearDays(y) \in {365, 366} /\ Start(y + 1) = Start(y) + YearDays(y)
      /\ YearDays(y + 1) \in {365, 366}
  <2>1. y + 1 \in Nat
    BY <1>1
  <2> QED BY <1>1, <2>1, StartNext
<1>6. b.wday = ((d + 1) + 4) % 7
  BY <1>1, <1>2
<1>7. CASE eve
  <2>1. b.year = y + 1 /\ b.mon = 0 /\ b.mday = 1 /\ b.yday = 0
    BY <1>2, <1>7
  <2>2. m = 11 /\ m + 1 = 12 /\ x = MonthDays(y, m)
    BY <1>7
  <2>3. yd = YearDays(y) - 1
    BY <1>1, <1>3, <1>4, <1>5, <2>2
  <2>4. (d + 1) + 25567 = Start(y + 1) + 0
    BY <1>1, <1>5, <2>3
  <2>5. 1 \in 1..MonthDays(y + 1, 0)
    <3>1. y + 1 \in Nat /\ 0 \in 0..11
      BY <1>1
    <3>2. \A k \in 0..11 : MonthDays(y + 1, k) \in 28..31
      BY <3>1, MonthNext
    <3>3. MonthDays(y + 1, 0) \in 28..31
      BY <3>1, <3>2
    <3> QED BY <3>3
  <2>6. 0 \in 0..YearDays(y + 1) - 1
    BY <1>5
  <2> QED BY <1>1, <1>4, <1>6, <2>1, <2>4, <2>5, <2>6 DEF IsDate
<1>8. CASE last /\ ~eve
  <2>1. b.year = y /\ b.mon = m + 1 /\ b.mday = 1 /\ b.yday = yd + 1
    BY <1>2, <1>8
  <2>2. m # 11 /\ x = MonthDays(y, m)
    BY <1>8
  <2>3. m + 1 \in 0..11
    BY <1>1, <2>2
  <2>4. /\ Before1st(y, m + 1) \in Nat /\ MonthDays(y, m + 1) \in 28..31
        /\ Before1st(y, m + 1) + MonthDays(y, m + 1) <= YearDays(y)
    <3> DEFINE n == m + 1
    <3>1. n \in 0..11 /\ y \in Nat
      BY <1>1, <2>3
    <3> HIDE DEF n
    <3>2. /\ Before1st(y, n) \in Nat /\ MonthDays(y, n) \in 28..31
      BY <3>1, MonthNext
    <3>3. Before1st(y, n) + MonthDays(y, n) <= YearDays(y)
      BY <3>1, WithinYear
    <3> QED BY <3>2, <3>3 DEF n
  <2>5. yd + 1 = Before1st(y, m + 1) + 1 - 1
    BY <1>1, <1>3, <2>2
  <2>6. 1 \in 1..MonthDays(y, m + 1)
    BY <2>4
  <2>7. yd + 1 \in 0..YearDays(y) - 1
    BY <1>1, <1>3, <1>5, <2>2, <2>4, <2>5
  <2>8. (d + 1) + 25567 = Start(y) + (yd + 1)
    BY <1>1, <1>5
  <2> QED BY <1>1, <1>6, <2>1, <2>3, <2>5, <2>6, <2>7, <2>8 DEF IsDate
<1>9. CASE ~last
  <2>1. b.year = y /\ b.mon = m /\ b.mday = x + 1 /\ b.yday = yd + 1
    BY <1>2, <1>9
  <2>2. x \in Int /\ x + 1 \in 1..MonthDays(y, m)
    BY <1>1, <1>3, <1>9
  <2>3. Before1st(y, m) + MonthDays(y, m) <= YearDays(y)
    BY <1>1, WithinYear
  <2>4. yd + 1 = Before1st(y, m) + (x + 1) - 1
    BY <1>1, <1>3, <2>2
  <2>5. yd + 1 \in 0..YearDays(y) - 1
    BY <1>1, <1>3, <1>5, <2>2, <2>3, <2>4
  <2>6. (d + 1) + 25567 = Start(y) + (yd + 1)
    BY <1>1, <1>5
  <2> QED BY <1>1, <1>6, <2>1, <2>2, <2>4, <2>5, <2>6 DEF IsDate
<1> QED BY <1>7, <1>8, <1>9


LEMMA DateOfIs ==
  ASSUME NEW tm
  PROVE  DateOf(tm) = [year |-> tm.year, mon |-> tm.mon, mday |-> tm.mday, yday |-> tm.yday, wday |-> tm.wday]
BY DEF DateOf

\* gmtime at midnight of a day.
LEMMA Midnight ==
  ASSUME NEW d \in Nat, IsDay(d)
  PROVE  IsDate(d, Gmtime(At(d, 0)))
<1> DEFINE t == At(d, 0)
<1>1. t = [day |-> d, sec |-> 0] /\ t \in Stamps
  <2>1. d <= 49710 /\ 0 \in Nat /\ 0 <= 86399 /\ (d = 49710 => 0 < 23296)
    BY DEF IsDay
  <2> QED BY <2>1, IsStamp DEF At
<1>2. Plus(t, 0) = t
  BY <1>1, PlusAndBack
<1> HIDE DEF t
<1>3. Says(Plus(t, 0), GmtimeOff(t, 0), 0)
  BY <1>1, <1>2, BrokenDown
<1>4. t.day = d
  BY <1>1
<1> QED BY <1>2, <1>3, <1>4 DEF Says, Gmtime, t

LEMMA FirstDate ==
  DateOf(Gmtime(At(0, 0))) = [year |-> 70, mon |-> 0, mday |-> 1, yday |-> 0, wday |-> 4]
<1> DEFINE r == [year |-> 70, mon |-> 0, mday |-> 1, yday |-> 0, wday |-> 4]
           a == Gmtime(At(0, 0))
<1>1. IsDate(0, r)
  <2>1. Start(70) = 25567
    <3>1. (70 + 3) \div 4 = 18 /\ (70 + 99) \div 100 = 1 /\ (70 + 299) \div 400 = 0
      OBVIOUS
    <3> QED BY <3>1 DEF Start
  <2>2. Before1st(70, 0) = 0 /\ MonthDays(70, 0) = 31 /\ YearDays(70) \in {365, 366}
    BY DEF Before1st, DaysBefore, MonthDays, Days, YearDays
  <2> QED BY <2>1, <2>2 DEF IsDate
<1>2. IsDate(0, a)
  <2>1. IsDay(0)
    BY DEF IsDay
  <2> QED BY <2>1, Midnight
<1> HIDE DEF a, r
<1>3. a.year = r.year /\ a.mon = r.mon /\ a.mday = r.mday /\ a.yday = r.yday /\ a.wday = r.wday
  BY <1>1, <1>2, DateUnique
<1>4. DateOf(a) = [year |-> r.year, mon |-> r.mon, mday |-> r.mday, yday |-> r.yday, wday |-> r.wday]
  BY <1>3, DateOfIs
<1> QED BY <1>4 DEF a, r

LEMMA DayAdvances ==
  ASSUME NEW d \in Nat, IsDay(d + 1)
  PROVE  DateOf(Gmtime(At(d + 1, 0))) = DateAfter(Gmtime(At(d, 0)))
<1> DEFINE a == Gmtime(At(d, 0))
           b == Gmtime(At(d + 1, 0))
           c == DateAfter(a)
<1>1. IsDay(d) /\ d + 1 \in Nat
  BY DEF IsDay
<1>2. IsDate(d, a) /\ IsDate(d + 1, b)
  BY <1>1, Midnight
<1> HIDE DEF a, b
<1>3. a.year \in Nat /\ a.mon \in 0..11
  BY <1>2 DEF IsDate
<1>4. IsNext(a, c)
  BY <1>3, DateAfterIs
<1>5. c = [year |-> c.year, mon |-> c.mon, mday |-> c.mday, yday |-> c.yday, wday |-> c.wday]
  BY DEF DateAfter
<1> HIDE DEF c
<1>6. IsDate(d + 1, c)
  BY <1>2, <1>4, NextDate
<1>7. b.year = c.year /\ b.mon = c.mon /\ b.mday = c.mday /\ b.yday = c.yday /\ b.wday = c.wday
  <2>1. d + 1 \in Int
    OBVIOUS
  <2> QED BY <1>2, <1>6, <2>1, DateUnique
<1>8. DateOf(b) = [year |-> b.year, mon |-> b.mon, mday |-> b.mday, yday |-> b.yday, wday |-> b.wday]
  BY DateOfIs
<1>9. DateOf(b) = c
  BY <1>5, <1>7, <1>8
<1> QED BY <1>9 DEF b, c, a


Decode(x, bcd) == IF bcd THEN bcd2byte(x) ELSE x
Encode(n, bcd) == IF bcd THEN Bcd(n) ELSE n

\* A number of two digits comes back from the clock as it is.
LEMMA BcdBack ==
  ASSUME NEW n \in Nat, n <= 99, NEW bcd \in BOOLEAN
  PROVE  Decode(Encode(n, bcd), bcd) = n
<1> DEFINE q == n \div 10
           r == n % 10
           x == q * 16 + r
<1>1. q \in 0..9 /\ r \in 0..9 /\ n = q * 10 + r
  OBVIOUS
<1> HIDE DEF q, r
<1>2. x \in Nat /\ x \div 16 = q /\ x % 16 = r /\ q % 16 = q
  BY <1>1
<1>3. Bcd(n) = x
  BY DEF Bcd, q, r
<1> HIDE DEF x
<1>4. bcd2byte(x) = q * 10 + r
  BY <1>2 DEF bcd2byte
<1> QED BY <1>1, <1>3, <1>4 DEF Decode, Encode

\* Days a clock with two digits for the year can say.
LEMMA ClockYears ==
  ASSUME NEW d \in Nat, d <= 36524, NEW a, IsDate(d, a)
  PROVE  a.year \in Nat /\ a.year >= 70 /\ a.year <= 169 /\ Start(a.year) >= 25567
<1> DEFINE y == a.year
           x == a.yday
<1>1. y \in Nat /\ x \in 0..YearDays(y) - 1 /\ d + 25567 = Start(y) + x
  BY DEF IsDate
<1> HIDE DEF y, x
<1>2. Start(y) \in Int /\ YearDays(y) \in {365, 366}
  BY <1>1, StartNext
<1>3. Start(70) = 25567
  <2>1. (70 + 3) \div 4 = 18 /\ (70 + 99) \div 100 = 1 /\ (70 + 299) \div 400 = 0
    OBVIOUS
  <2> QED BY <2>1 DEF Start
<1>4. Start(170) = 62092
  <2>1. (170 + 3) \div 4 = 43 /\ (170 + 99) \div 100 = 2 /\ (170 + 299) \div 400 = 1
    OBVIOUS
  <2> QED BY <2>1 DEF Start
<1> DEFINE v == 70
           w == 170
<1>5. v \in Nat /\ w \in Nat /\ Start(v) = 25567 /\ Start(w) = 62092 /\ v = 70 /\ w = 170
  BY <1>3, <1>4
<1> HIDE DEF v, w
<1>6. /\ y < v => Start(y) + YearDays(y) <= Start(v)
      /\ v < y => Start(v) + YearDays(v) <= Start(y)
      /\ w < y => Start(w) + YearDays(w) <= Start(y)
      /\ YearDays(v) \in {365, 366} /\ YearDays(w) \in {365, 366}
  <2>1. y < v => Start(y) + YearDays(y) <= Start(v)
    BY <1>1, <1>5, StartGrows
  <2>2. v < y => Start(v) + YearDays(v) <= Start(y)
    BY <1>1, <1>5, StartGrows
  <2>3. w < y => Start(w) + YearDays(w) <= Start(y)
    BY <1>1, <1>5, StartGrows
  <2>4. YearDays(v) \in {365, 366} /\ YearDays(w) \in {365, 366}
    BY <1>5, StartNext
  <2> QED BY <2>1, <2>2, <2>3, <2>4
<1>7. ~(y < v)
  BY <1>1, <1>2, <1>5, <1>6
<1>8. y # w
  BY <1>1, <1>5
<1>9. ~(w < y)
  BY <1>1, <1>2, <1>5, <1>6
<1>10. y >= 70 /\ y <= 169
  BY <1>1, <1>5, <1>7, <1>8, <1>9
<1>11. Start(y) >= 25567
  BY <1>1, <1>2, <1>5, <1>6, <1>7
<1> QED BY <1>1, <1>10, <1>11 DEF y

LEMMA FullYearIs ==
  ASSUME NEW y \in Nat, y >= 70, y <= 169
  PROVE  y % 100 \in Nat /\ y % 100 <= 99 /\ FullYear(y % 100) = y
<1>1. (y <= 99 /\ y % 100 = y) \/ (y >= 100 /\ y % 100 = y - 100)
  OBVIOUS
<1> QED BY <1>1 DEF FullYear

\* What rtc_get_datetime takes from the registers.
LEMMA RtcIs ==
  ASSUME NEW shown, NEW bcd
  PROVE  LET again == shown[6].sec # shown[7].sec
             g == RtcGetDatetime(shown, bcd)
         IN /\ g.year = FullYear(Decode(IF again THEN shown[7].year ELSE shown[1].year, bcd))
            /\ g.mon = Decode(IF again THEN shown[7].mon ELSE shown[2].mon, bcd) - 1
            /\ g.mday = Decode(IF again THEN shown[7].day ELSE shown[3].day, bcd)
            /\ g.hour = Decode(IF again THEN shown[7].hour ELSE shown[4].hour, bcd)
            /\ g.min = Decode(IF again THEN shown[7].min ELSE shown[5].min, bcd)
            /\ g.sec = Decode(IF again THEN shown[7].sec ELSE shown[6].sec, bcd)
            /\ g.gmtoff = 0
<1> DEFINE read(i) == shown[i][ReadOrder[i]]
           At1(f) == CHOOSE i \in 1..6 : ReadOrder[i] = f
           again == read(At1("sec")) # read(7)
           of(f) == IF again THEN shown[7][f] ELSE read(At1(f))
           num(f) == IF bcd THEN bcd2byte(of(f)) ELSE of(f)
           g == RtcGetDatetime(shown, bcd)
<1>1. g = [year |-> FullYear(num("year")), mon |-> num("mon") - 1, mday |-> num("day"),
           hour |-> num("hour"), min |-> num("min"), sec |-> num("sec"), gmtoff |-> 0]
  BY DEF RtcGetDatetime
<1>2. /\ ReadOrder[1] = "year" /\ ReadOrder[2] = "mon" /\ ReadOrder[3] = "day" /\ ReadOrder[4] = "hour"
      /\ ReadOrder[5] = "min" /\ ReadOrder[6] = "sec" /\ ReadOrder[7] = "sec"
  BY DEF ReadOrder
<1>3. \A i \in 1..6 : i = 1 \/ i = 2 \/ i = 3 \/ i = 4 \/ i = 5 \/ i = 6
  OBVIOUS
<1>4. /\ At1("year") = 1 /\ At1("mon") = 2 /\ At1("day") = 3 /\ At1("hour") = 4 /\ At1("min") = 5 /\ At1("sec") = 6
  <2>1. At1("year") = 1
    BY <1>2, <1>3
  <2>2. At1("mon") = 2
    BY <1>2, <1>3
  <2>3. At1("day") = 3
    BY <1>2, <1>3
  <2>4. At1("hour") = 4
    BY <1>2, <1>3
  <2>5. At1("min") = 5
    BY <1>2, <1>3
  <2>6. At1("sec") = 6
    BY <1>2, <1>3
  <2> QED BY <2>1, <2>2, <2>3, <2>4, <2>5, <2>6
<1> HIDE DEF At1
<1>5. again <=> shown[6].sec # shown[7].sec
  BY <1>2, <1>4
<1>6. /\ of("year") = IF again THEN shown[7].year ELSE shown[1].year
      /\ of("mon") = IF again THEN shown[7].mon ELSE shown[2].mon
      /\ of("day") = IF again THEN shown[7].day ELSE shown[3].day
      /\ of("hour") = IF again THEN shown[7].hour ELSE shown[4].hour
      /\ of("min") = IF again THEN shown[7].min ELSE shown[5].min
      /\ of("sec") = IF again THEN shown[7].sec ELSE shown[6].sec
  <2> HIDE DEF again
  <2> QED BY <1>2, <1>4
<1> HIDE DEF again, of
<1>7. /\ num("year") = Decode(of("year"), bcd) /\ num("mon") = Decode(of("mon"), bcd)
      /\ num("day") = Decode(of("day"), bcd) /\ num("hour") = Decode(of("hour"), bcd)
      /\ num("min") = Decode(of("min"), bcd) /\ num("sec") = Decode(of("sec"), bcd)
  BY DEF Decode
<1> HIDE DEF num
<1>8. /\ g.year = FullYear(num("year")) /\ g.mon = num("mon") - 1 /\ g.mday = num("day")
      /\ g.hour = num("hour") /\ g.min = num("min") /\ g.sec = num("sec") /\ g.gmtoff = 0
  BY <1>1
<1> HIDE DEF g
<1> QED BY <1>5, <1>6, <1>7, <1>8 DEF g


\* A broken-down time of which the first j registers are of A and the others of B.
MixDay(j, A, B) == DayOf(IF j >= 1 THEN A.year ELSE B.year, IF j >= 2 THEN A.mon ELSE B.mon,
                         IF j >= 3 THEN A.mday ELSE B.mday)
MixSec(j, A, B) == (IF j >= 4 THEN A.hour ELSE B.hour) * 3600 + (IF j >= 5 THEN A.min ELSE B.min) * 60
                   + (IF j >= 6 THEN A.sec ELSE B.sec)

\* A clock of hours, minutes and seconds.
LEMMA ClockParts ==
  ASSUME NEW s \in Nat, s <= 86399, NEW A, IsClock(s, A)
  PROVE  /\ A.hour \in Nat /\ A.hour <= 23 /\ A.min \in Nat /\ A.min <= 59 /\ A.sec \in Nat /\ A.sec <= 59
         /\ A.hour * 3600 + A.min * 60 + A.sec = s /\ A.sec = s % 60
<1> DEFINE m == s \div 60
           h == s \div 3600
<1>1. m \in Nat /\ h \in Nat /\ h <= 23 /\ s % 60 \in Nat /\ s % 60 <= 59
  OBVIOUS
<1>2. m % 60 \in Nat /\ m % 60 <= 59
  <2> HIDE DEF m
  <2> QED BY <1>1
<1> QED BY <1>1, <1>2 DEF IsClock

LEMMA ClockGoesOn ==
  ASSUME NEW s \in Nat, s < 86399, NEW A, NEW B, IsClock(s, A), IsClock(s + 1, B)
  PROVE  /\ A.hour <= B.hour
         /\ B.sec # 0 => A.hour = B.hour /\ A.min = B.min /\ B.sec = A.sec + 1
<1>1. /\ A.hour \in Nat /\ A.hour <= 23 /\ A.min \in Nat /\ A.min <= 59 /\ A.sec \in Nat /\ A.sec <= 59
      /\ A.hour * 3600 + A.min * 60 + A.sec = s
  BY ClockParts
<1>2. /\ B.hour \in Nat /\ B.hour <= 23 /\ B.min \in Nat /\ B.min <= 59 /\ B.sec \in Nat /\ B.sec <= 59
      /\ B.hour * 3600 + B.min * 60 + B.sec = s + 1
  <2>1. s + 1 \in Nat /\ s + 1 <= 86399
    OBVIOUS
  <2> DEFINE r == s + 1
  <2>2. r \in Nat /\ r <= 86399 /\ IsClock(r, B)
    BY <2>1
  <2> HIDE DEF r
  <2>3. /\ B.hour \in Nat /\ B.hour <= 23 /\ B.min \in Nat /\ B.min <= 59 /\ B.sec \in Nat /\ B.sec <= 59
        /\ B.hour * 3600 + B.min * 60 + B.sec = r
    BY <2>2, ClockParts
  <2> QED BY <2>3 DEF r
<1> DEFINE a == A.hour
           b == A.min
           c == A.sec
           x == B.hour
           y == B.min
           z == B.sec
<1>3. /\ a \in Nat /\ a <= 23 /\ b \in Nat /\ b <= 59 /\ c \in Nat /\ c <= 59
      /\ x \in Nat /\ x <= 23 /\ y \in Nat /\ y <= 59 /\ z \in Nat /\ z <= 59
      /\ a * 3600 + b * 60 + c = s /\ x * 3600 + y * 60 + z = s + 1
  BY <1>1, <1>2
<1> HIDE DEF a, b, c, x, y, z
<1>4. a <= x
  BY <1>3
<1>5. ASSUME z # 0 PROVE a = x /\ b = y /\ z = c + 1
  <2>1. a = x
    BY <1>3, <1>5
  <2>2. b = y
    BY <1>3, <1>5, <2>1
  <2> QED BY <1>3, <2>1, <2>2
<1> QED BY <1>4, <1>5 DEF a, b, c, x, y, z

\* The seconds of a mixture never are later than the later of the two.
LEMMA SecondsMix ==
  ASSUME NEW s \in Nat, s < 86399, NEW A, NEW B, IsClock(s, A), IsClock(s + 1, B), NEW j \in 0..7, j # 6
  PROVE  /\ MixSec(j, A, B) \in Nat /\ MixSec(j, A, B) <= s + 1
         /\ j = 7 => MixSec(j, A, B) = s
         /\ j <= 3 => MixSec(j, A, B) = s + 1
         /\ j <= 5 /\ (s + 1) % 60 # 0 => MixSec(j, A, B) = s + 1
<1>1. /\ A.hour \in Nat /\ A.hour <= 23 /\ A.min \in Nat /\ A.min <= 59 /\ A.sec \in Nat /\ A.sec <= 59
      /\ A.hour * 3600 + A.min * 60 + A.sec = s
  BY ClockParts
<1> DEFINE r == s + 1
<1>2. r \in Nat /\ r <= 86399 /\ IsClock(r, B)
  OBVIOUS
<1> HIDE DEF r
<1>3. /\ B.hour \in Nat /\ B.hour <= 23 /\ B.min \in Nat /\ B.min <= 59 /\ B.sec \in Nat /\ B.sec <= 59
      /\ B.hour * 3600 + B.min * 60 + B.sec = r /\ B.sec = r % 60
  BY <1>2, ClockParts
<1>4. /\ A.hour <= B.hour
      /\ B.sec # 0 => A.hour = B.hour /\ A.min = B.min /\ B.sec = A.sec + 1
  BY ClockGoesOn
<1> DEFINE a == A.hour
           b == A.min
           c == A.sec
           x == B.hour
           y == B.min
           z == B.sec
           S == (IF j >= 4 THEN a ELSE x) * 3600 + (IF j >= 5 THEN b ELSE y) * 60 + (IF j >= 6 THEN c ELSE z)
<1>5. /\ a \in Nat /\ a <= 23 /\ b \in Nat /\ b <= 59 /\ c \in Nat /\ c <= 59
      /\ x \in Nat /\ x <= 23 /\ y \in Nat /\ y <= 59 /\ z \in Nat /\ z <= 59
      /\ a * 3600 + b * 60 + c = s /\ x * 3600 + y * 60 + z = r /\ r = s + 1
      /\ a <= x /\ (z # 0 => a = x /\ b = y /\ z = c + 1) /\ z = r % 60
  BY <1>1, <1>3, <1>4 DEF r
<1>6. MixSec(j, A, B) = S
  BY DEF MixSec
<1> HIDE DEF a, b, c, x, y, z
<1>7. CASE j <= 3
  <2>1. S = x * 3600 + y * 60 + z
    BY <1>7
  <2> QED BY <1>5, <1>6, <1>7, <2>1 DEF r
<1>8. CASE j = 4
  <2>1. S = a * 3600 + y * 60 + z
    BY <1>8
  <2> HIDE DEF S
  <2>2. S \in Nat /\ S <= r /\ (z # 0 => S = r)
    BY <1>5, <2>1
  <2> QED BY <1>5, <1>6, <1>8, <2>2 DEF r
<1>9. CASE j = 5
  <2>1. S = a * 3600 + b * 60 + z
    BY <1>9
  <2> HIDE DEF S
  <2>2. S \in Nat /\ S <= r /\ (z # 0 => S = r)
    BY <1>5, <2>1
  <2> QED BY <1>5, <1>6, <1>9, <2>2 DEF r
<1>10. CASE j = 7
  <2>1. S = a * 3600 + b * 60 + c
    BY <1>10
  <2> QED BY <1>5, <1>6, <1>10, <2>1 DEF r
<1> QED BY <1>7, <1>8, <1>9, <1>10


LEMMA DateDay ==
  ASSUME NEW d \in Nat, NEW a, IsDate(d, a)
  PROVE  /\ a.year \in Nat /\ a.mon \in 0..11 /\ a.mday \in Nat /\ a.mday >= 1
         /\ DayOf(a.year, a.mon, a.mday) = d
<1> DEFINE y == a.year
           m == a.mon
           x == a.mday
<1>1. /\ y \in Nat /\ m \in 0..11 /\ x \in 1..MonthDays(y, m)
      /\ d + 25567 = Start(y) + a.yday /\ a.yday = Before1st(y, m) + x - 1
  BY DEF IsDate
<1> HIDE DEF y, m, x
<1>2. Start(y) \in Int
  BY <1>1, StartNext
<1>3. MonthDays(y, m) \in Nat /\ Before1st(y, m) \in Nat
  <2>1. y \in Nat /\ m \in 0..11
    BY <1>1
  <2> QED BY <2>1, MonthTypes
<1>4. x \in Nat /\ x >= 1
  BY <1>1, <1>3
<1>5. DayOf(y, m, x) = d
  <2> DEFINE st == Start(y)
             b == Before1st(y, m)
  <2>1. st \in Int /\ b \in Int /\ d + 25567 = st + (b + x - 1) /\ DayOf(y, m, x) = st + b + x - 25568
    BY <1>1, <1>2, <1>3 DEF DayOf
  <2> HIDE DEF st, b
  <2> QED BY <1>4, <2>1
<1> QED BY <1>1, <1>4, <1>5 DEF y, m, x

\* Days whose next day, too, a clock with two digits for the year can say.
ClockDay(d) == d <= 36523

\* Over midnight no mixture is later than the new day.
LEMMA DaysMix ==
  ASSUME NEW d \in Nat, ClockDay(d), NEW A, NEW B, IsDate(d, A), IsDate(d + 1, B), NEW j \in 0..7
  PROVE  /\ MixDay(j, A, B) \in Nat /\ MixDay(j, A, B) <= d + 1
         /\ j >= 3 => MixDay(j, A, B) = d
         /\ j = 0 => MixDay(j, A, B) = d + 1
<1>1. /\ A.year \in Nat /\ A.mon \in 0..11 /\ A.mday \in Nat /\ A.mday >= 1
      /\ DayOf(A.year, A.mon, A.mday) = d
  BY DateDay
<1>2. /\ B.year \in Nat /\ B.mon \in 0..11 /\ B.mday \in Nat /\ B.mday >= 1
      /\ DayOf(B.year, B.mon, B.mday) = d + 1
  <2> DEFINE e == d + 1
  <2>1. e \in Nat /\ IsDate(e, B)
    OBVIOUS
  <2> HIDE DEF e
  <2>2. /\ B.year \in Nat /\ B.mon \in 0..11 /\ B.mday \in Nat /\ B.mday >= 1
        /\ DayOf(B.year, B.mon, B.mday) = e
    BY <2>1, DateDay
  <2> QED BY <2>2 DEF e
<1>3. Start(A.year) \in Int /\ Start(A.year) >= 25567
  <2>1. d <= 36524
    BY DEF ClockDay
  <2>2. Start(A.year) >= 25567
    BY <2>1, ClockYears
  <2> QED BY <1>1, <2>2, StartNext
<1> DEFINE N == DateAfter(A)
<1>4. IsNext(A, N)
  BY <1>1, DateAfterIs
<1> HIDE DEF N
<1>5. B.year = N.year /\ B.mon = N.mon /\ B.mday = N.mday
  <2>1. IsDate(d + 1, N)
    BY <1>4, NextDate
  <2>2. d + 1 \in Int
    OBVIOUS
  <2> QED BY <2>1, <2>2, DateUnique
<1>6. /\ B.year = A.year \/ (B.year = A.year + 1 /\ B.mon = 0 /\ B.mday = 1)
      /\ B.mday = 1 \/ B.mday = A.mday + 1
  BY <1>1, <1>4, <1>5 DEF IsNext
<1>7. Before1st(A.year, A.mon) \in Nat /\ Before1st(A.year, 0) = 0
  <2> DEFINE y == A.year
             m == A.mon
  <2>1. y \in Nat /\ m \in 0..11
    BY <1>1
  <2> HIDE DEF y, m
  <2>2. Before1st(y, m) \in Nat /\ MonthDays(y, m) \in Nat
    BY <2>1, MonthTypes
  <2>3. Before1st(y, 0) = 0
    BY <2>1, YearEnds
  <2> QED BY <2>2, <2>3 DEF y, m
<1>8. CASE j >= 3
  BY <1>1, <1>8 DEF MixDay
<1>9. CASE j = 2
  <2>1. MixDay(j, A, B) = Start(A.year) + Before1st(A.year, A.mon) + B.mday - 25568
    BY <1>9 DEF MixDay, DayOf
  <2>2. d = Start(A.year) + Before1st(A.year, A.mon) + A.mday - 25568
    BY <1>1 DEF DayOf
  <2> DEFINE st == Start(A.year)
             b == Before1st(A.year, A.mon)
             x == A.mday
             y == B.mday
             D == MixDay(j, A, B)
  <2>3. /\ st \in Int /\ st >= 25567 /\ b \in Nat /\ x \in Nat /\ x >= 1 /\ (y = 1 \/ y = x + 1)
        /\ D = st + b + y - 25568 /\ d = st + b + x - 25568
    BY <1>1, <1>3, <1>6, <1>7, <2>1, <2>2
  <2> HIDE DEF st, b, x, y, D
  <2>4. D \in Nat /\ D <= d + 1
    BY <2>3
  <2> QED BY <1>9, <2>4 DEF D
<1>10. CASE j = 1
  <2>1. CASE B.year = A.year
    <3>1. MixDay(j, A, B) = d + 1
      BY <1>2, <1>10, <2>1 DEF MixDay
    <3> QED BY <1>10, <3>1
  <2>2. CASE B.year = A.year + 1 /\ B.mon = 0 /\ B.mday = 1
    <3>1. MixDay(j, A, B) = Start(A.year) + Before1st(A.year, 0) + 1 - 25568
      BY <1>10, <2>2 DEF MixDay, DayOf
    <3>2. d = Start(A.year) + Before1st(A.year, A.mon) + A.mday - 25568
      BY <1>1 DEF DayOf
    <3> DEFINE st == Start(A.year)
               b == Before1st(A.year, A.mon)
               x == A.mday
               D == MixDay(j, A, B)
    <3>3. /\ st \in Int /\ st >= 25567 /\ b \in Nat /\ x \in Nat /\ x >= 1
          /\ D = st + 0 + 1 - 25568 /\ d = st + b + x - 25568
      BY <1>1, <1>3, <1>7, <3>1, <3>2
    <3> HIDE DEF st, b, x, D
    <3>4. D \in Nat /\ D <= d + 1
      BY <3>3
    <3> QED BY <1>10, <3>4 DEF D
  <2> QED BY <1>6, <2>1, <2>2
<1>11. CASE j = 0
  BY <1>2, <1>11 DEF MixDay
<1> QED BY <1>8, <1>9, <1>10, <1>11

\* The last second of a day, and midnight.
LEMMA MidnightMix ==
  ASSUME NEW s \in Nat, s = 86399, NEW A, NEW B, IsClock(s, A), IsClock(0, B), NEW j \in 0..7
  PROVE  /\ MixSec(j, A, B) \in Nat /\ MixSec(j, A, B) <= 86399
         /\ j <= 3 => MixSec(j, A, B) = 0
         /\ j = 7 => MixSec(j, A, B) = s
<1>1. /\ A.hour \in Nat /\ A.hour <= 23 /\ A.min \in Nat /\ A.min <= 59 /\ A.sec \in Nat /\ A.sec <= 59
      /\ A.hour * 3600 + A.min * 60 + A.sec = s
  BY ClockParts
<1>2. B.hour = 0 /\ B.min = 0 /\ B.sec = 0
  <2>1. 0 \div 3600 = 0 /\ 0 \div 60 = 0 /\ 0 % 60 = 0
    OBVIOUS
  <2> QED BY <2>1 DEF IsClock
<1> DEFINE a == A.hour
           b == A.min
           c == A.sec
           S == (IF j >= 4 THEN a ELSE 0) * 3600 + (IF j >= 5 THEN b ELSE 0) * 60 + (IF j >= 6 THEN c ELSE 0)
<1>3. /\ a \in Nat /\ a <= 23 /\ b \in Nat /\ b <= 59 /\ c \in Nat /\ c <= 59 /\ a * 3600 + b * 60 + c = s
  BY <1>1
<1>4. MixSec(j, A, B) = S
  BY <1>2 DEF MixSec
<1> HIDE DEF a, b, c
<1>5. S \in Nat /\ S <= 86399 /\ (j <= 3 => S = 0) /\ (j = 7 => S = s)
  BY <1>3
<1> QED BY <1>4, <1>5


\* A broken-down time that fits the registers of the clock.
FitsClock(a) == /\ a.year \in Nat /\ a.year >= 70 /\ a.year <= 169
           /\ a.mon \in Nat /\ a.mon <= 11 /\ a.mday \in Nat /\ a.mday <= 31
           /\ a.hour \in Nat /\ a.hour <= 23 /\ a.min \in Nat /\ a.min <= 59 /\ a.sec \in Nat /\ a.sec <= 59

LEMMA MonthFits ==
  ASSUME NEW d \in Nat, NEW a, IsDate(d, a)
  PROVE  a.mday \in Nat /\ a.mday <= 31 /\ a.mon \in Nat /\ a.mon <= 11
<1> DEFINE y == a.year
           m == a.mon
           x == a.mday
<1>1. y \in Nat /\ m \in 0..11 /\ x \in 1..MonthDays(y, m)
  BY DEF IsDate
<1> HIDE DEF y, m, x
<1>2. MonthDays(y, m) \in 28..31
  BY <1>1, MonthNext
<1>3. x \in Nat /\ x <= 31 /\ m \in Nat /\ m <= 11
  BY <1>1, <1>2
<1> QED BY <1>3 DEF x, m

LEMMA DateFits ==
  ASSUME NEW u \in Stamps, u.day <= 36524, NEW a, Says(u, a, 0)
  PROVE  FitsClock(a)
<1> DEFINE d == u.day
           s == u.sec
<1>1. d \in Nat /\ d <= 36524 /\ s \in Nat /\ s <= 86399
  BY StampIs
<1>2. IsDate(d, a) /\ IsClock(s, a)
  BY DEF Says
<1> HIDE DEF d, s
<1>3. a.year \in Nat /\ a.year >= 70 /\ a.year <= 169
  BY <1>1, <1>2, ClockYears
<1>4. a.mday \in Nat /\ a.mday <= 31 /\ a.mon \in Nat /\ a.mon <= 11
  BY <1>1, <1>2, MonthFits
<1>5. a.hour \in Nat /\ a.hour <= 23 /\ a.min \in Nat /\ a.min <= 59 /\ a.sec \in Nat /\ a.sec <= 59
  BY <1>1, <1>2, ClockParts
<1> QED BY <1>3, <1>4, <1>5 DEF FitsClock

\* The registers say what they show.
LEMMA RegistersAre ==
  ASSUME NEW t, NEW bcd \in BOOLEAN, NEW a, a = Gmtime(t), FitsClock(a)
  PROVE  LET r == Registers(t, bcd)
         IN /\ FullYear(Decode(r.year, bcd)) = a.year /\ Decode(r.mon, bcd) - 1 = a.mon
            /\ Decode(r.day, bcd) = a.mday /\ Decode(r.hour, bcd) = a.hour
            /\ Decode(r.min, bcd) = a.min /\ Decode(r.sec, bcd) = a.sec
<1> DEFINE r == Registers(t, bcd)
<1>1. r = [year |-> Encode(a.year % 100, bcd), mon |-> Encode(a.mon + 1, bcd), day |-> Encode(a.mday, bcd),
           hour |-> Encode(a.hour, bcd), min |-> Encode(a.min, bcd), sec |-> Encode(a.sec, bcd)]
  BY DEF Registers, Encode
<1> HIDE DEF r
<1>2. /\ r.year = Encode(a.year % 100, bcd) /\ r.mon = Encode(a.mon + 1, bcd) /\ r.day = Encode(a.mday, bcd)
      /\ r.hour = Encode(a.hour, bcd) /\ r.min = Encode(a.min, bcd) /\ r.sec = Encode(a.sec, bcd)
  BY <1>1
<1>3. FullYear(Decode(r.year, bcd)) = a.year
  <2> DEFINE y == a.year
             z == y % 100
  <2>1. y \in Nat /\ y >= 70 /\ y <= 169
    BY DEF FitsClock
  <2> HIDE DEF y
  <2>2. z \in Nat /\ z <= 99 /\ FullYear(z) = y
    BY <2>1, FullYearIs
  <2>3. r.year = Encode(z, bcd)
    BY <1>2 DEF y
  <2> HIDE DEF z
  <2>4. Decode(Encode(z, bcd), bcd) = z
    BY <2>2, BcdBack
  <2> QED BY <2>2, <2>3, <2>4 DEF y
<1>4. \A n \in Nat : n <= 99 => Decode(Encode(n, bcd), bcd) = n
  BY BcdBack
<1>5. Decode(r.mon, bcd) = a.mon + 1
  <2>1. a.mon + 1 \in Nat /\ a.mon + 1 <= 99
    BY DEF FitsClock
  <2> QED BY <1>2, <1>4, <2>1
<1>6. /\ Decode(r.day, bcd) = a.mday /\ Decode(r.hour, bcd) = a.hour
      /\ Decode(r.min, bcd) = a.min /\ Decode(r.sec, bcd) = a.sec
  <2>1. /\ a.mday \in Nat /\ a.mday <= 99 /\ a.hour \in Nat /\ a.hour <= 99 /\ a.min \in Nat /\ a.min <= 99
        /\ a.sec \in Nat /\ a.sec <= 99
    BY DEF FitsClock
  <2> QED BY <1>2, <1>4, <2>1
<1>7. a.mon \in Nat
  BY DEF FitsClock
<1> QED BY <1>3, <1>5, <1>6, <1>7 DEF r

\* The time rtc_get_datetime makes of registers that are A's in the first k reads, and B's
\* in the others.
LEMMA Mixture ==
  ASSUME NEW t, NEW u, NEW bcd \in BOOLEAN, NEW A, NEW B, A = Gmtime(t), B = Gmtime(u), FitsClock(A), FitsClock(B),
         A.sec # B.sec, NEW k \in 0..7, NEW shown,
         \A i \in 1..7 : shown[i] = IF i > k THEN Registers(u, bcd) ELSE Registers(t, bcd)
  PROVE  LET j == IF k = 6 THEN 0 ELSE k
             g == RtcGetDatetime(shown, bcd)
         IN /\ g.year = IF j >= 1 THEN A.year ELSE B.year
            /\ g.mon = IF j >= 2 THEN A.mon ELSE B.mon
            /\ g.mday = IF j >= 3 THEN A.mday ELSE B.mday
            /\ g.hour = IF j >= 4 THEN A.hour ELSE B.hour
            /\ g.min = IF j >= 5 THEN A.min ELSE B.min
            /\ g.sec = IF j >= 6 THEN A.sec ELSE B.sec
            /\ g.gmtoff = 0
<1> DEFINE r == Registers(t, bcd)
           q == Registers(u, bcd)
           j == IF k = 6 THEN 0 ELSE k
           g == RtcGetDatetime(shown, bcd)
           again == shown[6].sec # shown[7].sec
<1>1. /\ FullYear(Decode(r.year, bcd)) = A.year /\ Decode(r.mon, bcd) - 1 = A.mon
      /\ Decode(r.day, bcd) = A.mday /\ Decode(r.hour, bcd) = A.hour
      /\ Decode(r.min, bcd) = A.min /\ Decode(r.sec, bcd) = A.sec
  BY RegistersAre
<1>2. /\ FullYear(Decode(q.year, bcd)) = B.year /\ Decode(q.mon, bcd) - 1 = B.mon
      /\ Decode(q.day, bcd) = B.mday /\ Decode(q.hour, bcd) = B.hour
      /\ Decode(q.min, bcd) = B.min /\ Decode(q.sec, bcd) = B.sec
  BY RegistersAre
<1>3. \A i \in 1..7 : shown[i] = IF i > k THEN q ELSE r
  OBVIOUS
<1> HIDE DEF r, q
<1>4. /\ shown[1] = IF k < 1 THEN q ELSE r
      /\ shown[2] = IF k < 2 THEN q ELSE r
      /\ shown[3] = IF k < 3 THEN q ELSE r
      /\ shown[4] = IF k < 4 THEN q ELSE r
      /\ shown[5] = IF k < 5 THEN q ELSE r
      /\ shown[6] = IF k < 6 THEN q ELSE r
      /\ shown[7] = IF k < 7 THEN q ELSE r
  <2>1. /\ 1 \in 1..7 /\ 2 \in 1..7 /\ 3 \in 1..7 /\ 4 \in 1..7 /\ 5 \in 1..7 /\ 6 \in 1..7 /\ 7 \in 1..7
    OBVIOUS
  <2> QED BY <1>3, <2>1
<1>5. r.sec # q.sec
  BY <1>1, <1>2
<1>6. again <=> k = 6
  BY <1>4, <1>5
<1>7. /\ g.year = FullYear(Decode(IF again THEN shown[7].year ELSE shown[1].year, bcd))
      /\ g.mon = Decode(IF again THEN shown[7].mon ELSE shown[2].mon, bcd) - 1
      /\ g.mday = Decode(IF again THEN shown[7].day ELSE shown[3].day, bcd)
      /\ g.hour = Decode(IF again THEN shown[7].hour ELSE shown[4].hour, bcd)
      /\ g.min = Decode(IF again THEN shown[7].min ELSE shown[5].min, bcd)
      /\ g.sec = Decode(IF again THEN shown[7].sec ELSE shown[6].sec, bcd)
      /\ g.gmtoff = 0
  BY RtcIs
<1> HIDE DEF g, again
<1>8. CASE k = 6
  <2>1. /\ g.year = FullYear(Decode(q.year, bcd)) /\ g.mon = Decode(q.mon, bcd) - 1
        /\ g.mday = Decode(q.day, bcd) /\ g.hour = Decode(q.hour, bcd) /\ g.min = Decode(q.min, bcd)
        /\ g.sec = Decode(q.sec, bcd)
    BY <1>4, <1>6, <1>7, <1>8
  <2> QED BY <1>2, <1>7, <1>8, <2>1 DEF g
<1>9. CASE k # 6
  <2>1. /\ g.year = FullYear(Decode(shown[1].year, bcd)) /\ g.mon = Decode(shown[2].mon, bcd) - 1
        /\ g.mday = Decode(shown[3].day, bcd) /\ g.hour = Decode(shown[4].hour, bcd)
        /\ g.min = Decode(shown[5].min, bcd) /\ g.sec = Decode(shown[6].sec, bcd)
    BY <1>6, <1>7, <1>9
  <2>2. g.year = IF k < 1 THEN B.year ELSE A.year
    BY <1>1, <1>2, <1>4, <2>1
  <2>3. g.mon = IF k < 2 THEN B.mon ELSE A.mon
    BY <1>1, <1>2, <1>4, <2>1
  <2>4. g.mday = IF k < 3 THEN B.mday ELSE A.mday
    BY <1>1, <1>2, <1>4, <2>1
  <2>5. g.hour = IF k < 4 THEN B.hour ELSE A.hour
    BY <1>1, <1>2, <1>4, <2>1
  <2>6. g.min = IF k < 5 THEN B.min ELSE A.min
    BY <1>1, <1>2, <1>4, <2>1
  <2>7. g.sec = IF k < 6 THEN B.sec ELSE A.sec
    BY <1>1, <1>2, <1>4, <2>1
  <2>8. j = k /\ k \in Int
    BY <1>9
  <2> QED BY <1>7, <2>2, <2>3, <2>4, <2>5, <2>6, <2>7, <2>8 DEF g
<1> QED BY <1>8, <1>9


LEMMA MktimeIs ==
  ASSUME NEW g, g.year \in Nat, g.mon \in 0..11, g.mday \in Int, g.gmtoff = 0,
         NEW D, NEW S, D = DayOf(g.year, g.mon, g.mday), S = MktimeSec(g), [day |-> D, sec |-> S] \in Stamps
  PROVE  Mktime(g) = [day |-> D, sec |-> S]
<1>1. MktimeDay(g) = D
  BY MktimeDayIs
<1> DEFINE v == [day |-> D, sec |-> S]
           off == g.gmtoff
<1>2. Mktime(g) = Plus(v, -off)
  BY <1>1, MktimeParts
<1>3. off \in Int /\ off >= 0 /\ off <= 0
  OBVIOUS
<1>4. v \in Stamps
  OBVIOUS
<1> HIDE DEF v, off
<1>5. -off = 0
  BY <1>3
<1>6. Plus(v, 0) = v
  BY <1>4, PlusAndBack
<1> QED BY <1>2, <1>5, <1>6 DEF v

\* The second after a second.
LEMMA SecondAfter ==
  ASSUME NEW d \in Nat, d <= 36523, NEW s \in Nat, s <= 86399
  PROVE  /\ At(d, s) \in Stamps /\ At(d, s).day = d /\ At(d, s).sec = s
         /\ s < 86399 => Plus(At(d, s), 1) = At(d, s + 1)
         /\ s = 86399 => Plus(At(d, s), 1) = At(d + 1, 0)
<1>1. [day |-> d, sec |-> s] \in Stamps
  <2>1. d <= 49710 /\ (d = 49710 => s < 23296)
    OBVIOUS
  <2> QED BY <2>1, IsStamp
<1>2. ASSUME NEW z \in Int, -86400 <= z, z <= 86400
      PROVE  LET f == d + (s + z) \div 86400
                 q == (s + z) % 86400
             IN Plus([day |-> d, sec |-> s], z) =
                  IF f >= 0 /\ (f < 49710 \/ (f = 49710 /\ q < 23296)) THEN [day |-> f, sec |-> q]
                  ELSE IF f < 0 THEN [day |-> f + 49710 + (q + 23296) \div 86400, sec |-> (q + 23296) % 86400]
                  ELSE [day |-> f - 49710 + (q - 23296) \div 86400, sec |-> (q - 23296) % 86400]
  <2>1. d <= 49710 /\ (d = 49710 => s < 23296)
    OBVIOUS
  <2> QED BY <1>2, <2>1, PlusIs
<1> DEFINE f == d + (s + 1) \div 86400
           q == (s + 1) % 86400
<1>3. Plus([day |-> d, sec |-> s], 1) =
        IF f >= 0 /\ (f < 49710 \/ (f = 49710 /\ q < 23296)) THEN [day |-> f, sec |-> q]
        ELSE IF f < 0 THEN [day |-> f + 49710 + (q + 23296) \div 86400, sec |-> (q + 23296) % 86400]
        ELSE [day |-> f - 49710 + (q - 23296) \div 86400, sec |-> (q - 23296) % 86400]
  <2>1. 1 \in Int /\ -86400 <= 1 /\ 1 <= 86400
    OBVIOUS
  <2> QED BY <1>2, <2>1
<1>4. (s < 86399 => f = d /\ q = s + 1) /\ (s = 86399 => f = d + 1 /\ q = 0)
  OBVIOUS
<1> HIDE DEF f, q
<1>5. f >= 0 /\ f < 49710
  BY <1>4
<1>6. Plus([day |-> d, sec |-> s], 1) = [day |-> f, sec |-> q]
  BY <1>3, <1>5
<1> QED BY <1>1, <1>4, <1>6 DEF At

\* The time at boot, when the clock goes on after the first k reads.
ClockShows(d, s, k, bcd) ==
  LET t == At(d, s)
      late == [i \in 1..7 |-> IF i > k THEN 1 ELSE 0]
      now == Plus(t, late[7])
      got == HwTimestamp([i \in 1..7 |-> Registers(Plus(t, late[i]), bcd)], bcd)
  IN /\ ~Before(now, got)
     /\ got \in {t, now} \/ (now.sec % 60 = 0 /\ late[6] = 1)

LEMMA ClockIsRight ==
  ASSUME NEW d \in Nat, ClockDay(d), NEW s \in Nat, s <= 86399, NEW k \in 0..7, NEW bcd \in BOOLEAN
  PROVE  ClockShows(d, s, k, bcd)
<1> DEFINE t == At(d, s)
           u == Plus(t, 1)
           A == Gmtime(t)
           B == Gmtime(u)
           e == IF s < 86399 THEN d ELSE d + 1
           r == IF s < 86399 THEN s + 1 ELSE 0
           late == [i \in 1..7 |-> IF i > k THEN 1 ELSE 0]
           now == Plus(t, late[7])
           shown == [i \in 1..7 |-> Registers(Plus(t, late[i]), bcd)]
           got == HwTimestamp(shown, bcd)
           j == IF k = 6 THEN 0 ELSE k
           D == MixDay(j, A, B)
           S == MixSec(j, A, B)
<1>1. t \in Stamps /\ t.day = d /\ t.sec = s /\ u = At(e, r)
  <2>1. d <= 36523
    BY DEF ClockDay
  <2>2. /\ At(d, s) \in Stamps /\ At(d, s).day = d /\ At(d, s).sec = s
        /\ s < 86399 => Plus(At(d, s), 1) = At(d, s + 1)
        /\ s = 86399 => Plus(At(d, s), 1) = At(d + 1, 0)
    BY <2>1, SecondAfter
  <2>3. s < 86399 \/ s = 86399
    OBVIOUS
  <2> QED BY <2>2, <2>3
<1>2. e \in Nat /\ e <= 36524 /\ r \in Nat /\ r <= 86399
  BY DEF ClockDay
<1>3. u \in Stamps /\ u.day = e /\ u.sec = r
  <2>1. e <= 49710 /\ (e = 49710 => r < 23296)
    BY <1>2
  <2> HIDE DEF e, r
  <2>2. [day |-> e, sec |-> r] \in Stamps
    BY <1>2, <2>1, IsStamp
  <2> HIDE DEF u
  <2> QED BY <1>1, <2>2 DEF At
<1> HIDE DEF t, u
<1>4. Plus(t, 0) = t /\ Plus(u, 0) = u
  BY <1>1, <1>3, PlusAndBack
<1>5. Says(t, A, 0) /\ Says(u, B, 0)
  <2>1. Says(Plus(t, 0), GmtimeOff(t, 0), 0)
    BY <1>1, <1>4, BrokenDown
  <2>2. Says(Plus(u, 0), GmtimeOff(u, 0), 0)
    BY <1>3, <1>4, BrokenDown
  <2> QED BY <1>4, <2>1, <2>2 DEF Gmtime
<1>6. FitsClock(A) /\ FitsClock(B)
  <2>1. t.day <= 36524 /\ u.day <= 36524
    BY <1>1, <1>2, <1>3 DEF ClockDay
  <2> HIDE DEF A, B
  <2> QED BY <1>1, <1>3, <1>5, <2>1, DateFits
<1>7. IsDate(d, A) /\ IsClock(s, A) /\ IsDate(e, B) /\ IsClock(r, B)
  BY <1>1, <1>3, <1>5 DEF Says
<1>8. A.sec # B.sec
  <2>1. A.sec = s % 60 /\ B.sec = r % 60
    BY <1>7 DEF IsClock
  <2>2. s % 60 # r % 60
    <3>1. CASE s < 86399
      <4>1. r = s + 1
        BY <3>1
      <4>2. s % 60 # (s + 1) % 60
        OBVIOUS
      <4> QED BY <4>1, <4>2
    <3>2. CASE ~(s < 86399)
      <4>1. s = 86399 /\ r = 0
        BY <3>2
      <4>2. 86399 % 60 = 59 /\ 0 % 60 = 0
        OBVIOUS
      <4> QED BY <4>1, <4>2
    <3> QED BY <3>1, <3>2
  <2> QED BY <2>1, <2>2
<1>9. \A i \in 1..7 : Plus(t, late[i]) = IF i > k THEN u ELSE t
  BY <1>4 DEF u
<1>10. \A i \in 1..7 : shown[i] = IF i > k THEN Registers(u, bcd) ELSE Registers(t, bcd)
  BY <1>9
<1>11. now = (IF k < 7 THEN u ELSE t) /\ late[6] = (IF k < 6 THEN 1 ELSE 0)
  <2>1. 7 \in 1..7 /\ 6 \in 1..7
    OBVIOUS
  <2> QED BY <1>9, <2>1
<1> DEFINE g == RtcGetDatetime(shown, bcd)
<1>12. got = Mktime(g)
  BY DEF HwTimestamp
<1> DEFINE a == A
           b == B
<1>13. /\ g.year = IF j >= 1 THEN A.year ELSE B.year
       /\ g.mon = IF j >= 2 THEN A.mon ELSE B.mon
       /\ g.mday = IF j >= 3 THEN A.mday ELSE B.mday
       /\ g.hour = IF j >= 4 THEN A.hour ELSE B.hour
       /\ g.min = IF j >= 5 THEN A.min ELSE B.min
       /\ g.sec = IF j >= 6 THEN A.sec ELSE B.sec
       /\ g.gmtoff = 0
  <2> HIDE DEF shown
  <2> QED BY <1>6, <1>8, <1>10, Mixture
<1>14. j \in 0..7 /\ j # 6
  OBVIOUS
<1> HIDE DEF A, B, g, shown, late, now, j
<1>15. /\ D \in Nat /\ S \in Nat /\ S <= 86399 /\ (D < e \/ (D = e /\ S <= r))
       /\ j = 0 => D = e /\ S = r
       /\ j = 7 => D = d /\ S = s
       /\ j <= 5 /\ r % 60 # 0 => D = e /\ S = r
  <2>1. CASE s < 86399
    <3>1. e = d /\ r = s + 1
      BY <2>1
    <3>2. A.year = B.year /\ A.mon = B.mon /\ A.mday = B.mday
      <4>1. d \in Int /\ IsDate(d, B)
        BY <1>7, <3>1
      <4> QED BY <1>7, <4>1, DateUnique
    <3>3. D = d
      <4>1. DayOf(A.year, A.mon, A.mday) = d
        BY <1>7, DateDay
      <4> QED BY <3>2, <4>1 DEF MixDay
    <3>4. /\ S \in Nat /\ S <= s + 1 /\ (j = 7 => S = s) /\ (j <= 3 => S = s + 1)
          /\ (j <= 5 /\ (s + 1) % 60 # 0 => S = s + 1)
      <4>1. IsClock(s + 1, B)
        BY <1>7, <3>1
      <4> QED BY <1>7, <1>14, <2>1, <4>1, SecondsMix
    <3> HIDE DEF D, S, e, r
    <3> QED BY <1>14, <2>1, <3>1, <3>3, <3>4
  <2>2. CASE ~(s < 86399)
    <3>1. s = 86399 /\ e = d + 1 /\ r = 0
      BY <2>2
    <3>2. D \in Nat /\ D <= d + 1 /\ (j >= 3 => D = d) /\ (j = 0 => D = d + 1)
      <4>1. IsDate(d + 1, B)
        BY <1>7, <3>1
      <4> QED BY <1>7, <1>14, <4>1, DaysMix
    <3>3. S \in Nat /\ S <= 86399 /\ (j <= 3 => S = 0) /\ (j = 7 => S = s)
      <4>1. IsClock(0, B)
        BY <1>7, <3>1
      <4> QED BY <1>7, <1>14, <3>1, <4>1, MidnightMix
    <3>4. r % 60 = 0
      <4>1. 0 % 60 = 0
        OBVIOUS
      <4> QED BY <3>1, <4>1
    <3> HIDE DEF D, S, e, r
    <3> QED BY <1>14, <3>1, <3>2, <3>3, <3>4
  <2> QED BY <2>1, <2>2
<1>16. got = [day |-> D, sec |-> S]
  <2>1. g.year \in Nat /\ g.mon \in 0..11 /\ g.mday \in Int
    <3>1. A.year \in Nat /\ B.year \in Nat /\ A.mon \in 0..11 /\ B.mon \in 0..11 /\ A.mday \in Int /\ B.mday \in Int
      BY <1>6 DEF FitsClock
    <3> QED BY <1>13, <3>1
  <2>2. DayOf(g.year, g.mon, g.mday) = D
    BY <1>13 DEF MixDay
  <2>3. MktimeSec(g) = S
    BY <1>13 DEF MktimeSec, MixSec
  <2>4. [day |-> D, sec |-> S] \in Stamps
    <3> HIDE DEF D, S, e, r
    <3>1. D \in Nat /\ D <= 49710 /\ S \in Nat /\ S <= 86399 /\ (D = 49710 => S < 23296)
      BY <1>2, <1>15
    <3> QED BY <3>1, IsStamp
  <2> HIDE DEF D, S, got
  <2> QED BY <1>12, <1>13, <2>1, <2>2, <2>3, <2>4, MktimeIs
<1>17. got.day = D /\ got.sec = S
  BY <1>16
<1>18. t = [day |-> d, sec |-> s] /\ u = [day |-> e, sec |-> r]
  BY <1>1 DEF t, At
<1> HIDE DEF got, D, S, e, r
<1>19. CASE k = 7
  <2>1. j = 7 /\ now = t
    BY <1>11, <1>19 DEF j
  <2>2. D = d /\ S = s
    BY <1>15, <2>1
  <2>3. got = t
    BY <1>16, <1>18, <2>2
  <2>4. ~Before(t, t)
    BY <1>1 DEF Before
  <2> QED BY <2>1, <2>3, <2>4 DEF ClockShows, got, now, shown, late, t
<1>20. CASE k = 6 \/ k = 0
  <2>1. j = 0 /\ now = u
    BY <1>11, <1>20 DEF j
  <2>2. D = e /\ S = r
    BY <1>15, <2>1
  <2>3. got = u
    BY <1>16, <1>18, <2>2
  <2>4. ~Before(u, u)
    BY <1>2, <1>3 DEF Before
  <2> QED BY <2>1, <2>3, <2>4 DEF ClockShows, got, now, shown, late, t
<1>21. CASE k \in 1..5
  <2>1. j = k /\ now = u /\ late[6] = 1 /\ j <= 5
    BY <1>11, <1>21 DEF j
  <2>2. ~Before(u, got)
    BY <1>2, <1>3, <1>15, <1>17 DEF Before
  <2>3. r % 60 # 0 => got = u
    BY <1>15, <1>16, <1>18, <2>1
  <2>4. r % 60 = 0 => u.sec % 60 = 0
    BY <1>3
  <2> QED BY <2>1, <2>2, <2>3, <2>4 DEF ClockShows, got, now, shown, late, t
<1>22. k = 7 \/ k = 6 \/ k = 0 \/ k \in 1..5
  OBVIOUS
<1> QED BY <1>19, <1>20, <1>21, <1>22


\* What is asked of the calendar and of the clock.
TimeJobOK == /\ job.kind = "day" => job \in DayJobs /\ IsDay(job.day)
             /\ job.kind = "clock" => job \in ClockJobs

LEMMA InitTimeJobOK == Init => TimeJobOK
<1> SUFFICES ASSUME Init PROVE TimeJobOK
  OBVIOUS
<1>1. ASSUME NEW map \in [0..MapBytes - 1 -> SUBSET Bits], NEW size \in Sizes, job \in BitJobs(map, size)
      PROVE job.kind = "bits"
  BY <1>1 DEF BitJobs
<1>2. (job \in CopyJobs => job.kind = "copy") /\ (job \in SizeJobs => job.kind = "size")
  BY DEF CopyJobs, SizeJobs
<1>3. (job \in NumberJobs => job.kind = "number") /\ (job \in StringJobs => job.kind = "string")
  BY DEF NumberJobs, StringJobs
<1>4. (job \in StampJobs => job.kind = "stamp") /\ (job \in DivideJobs => job.kind = "divide")
  BY DEF StampJobs, DivideJobs
<1>5. job \in ClockJobs => job.kind = "clock"
  BY DEF ClockJobs
<1>6. ASSUME job = FirstDay PROVE job.kind = "day" /\ job \in DayJobs /\ IsDay(job.day)
  BY <1>6 DEF FirstDay, DayJobs, IsDay
<1>7. \/ job.kind \in {"bits", "copy", "size", "number", "string", "stamp", "divide"}
      \/ job = FirstDay \/ job \in ClockJobs
  BY <1>1, <1>2, <1>3, <1>4 DEF Init
<1> QED BY <1>5, <1>6, <1>7 DEF TimeJobOK

LEMMA TomorrowTimeJobOK == TimeJobOK /\ [Tomorrow]_job => TimeJobOK'
<1> SUFFICES ASSUME TimeJobOK, [Tomorrow]_job PROVE TimeJobOK'
  OBVIOUS
<1>1. CASE UNCHANGED job
  BY <1>1 DEF TimeJobOK
<1>2. CASE Tomorrow
  <2>1. job.kind = "day" /\ job.day < Wrap.day /\ job' = [job EXCEPT !.day = job.day + 1]
    BY <1>2 DEF Tomorrow
  <2>2. job \in [kind : {"day"}, day : Nat]
    BY <2>1 DEF TimeJobOK, DayJobs
  <2>3. job' \in [kind : {"day"}, day : Nat] /\ job'.day = job.day + 1 /\ job.day \in Nat
    BY <2>1, <2>2
  <2>4. Wrap.day = 49710
    BY DEF Wrap
  <2>5. IsDay(job'.day)
    BY <2>1, <2>3, <2>4 DEF IsDay
  <2> QED BY <2>3, <2>5 DEF TimeJobOK, DayJobs
<1> QED BY <1>1, <1>2

LEMMA DaysAreRight == TimeJobOK => CalendarRight
<1> SUFFICES ASSUME TimeJobOK, job.kind = "day" PROVE CalendarAdvances /\ RoundTrip
  BY DEF CalendarRight, CalendarAdvances, RoundTrip
<1> DEFINE d == job.day
<1>1. d \in Nat /\ IsDay(d)
  BY DEF TimeJobOK, DayJobs
<1> HIDE DEF d
<1>2. CalendarAdvances
  <2>1. CASE d = 0
    BY <2>1, FirstDate DEF CalendarAdvances, d
  <2>2. CASE d # 0
    <3> DEFINE e == d - 1
    <3>1. e \in Nat /\ e + 1 = d
      BY <1>1, <2>2
    <3> HIDE DEF e
    <3>2. IsDay(e + 1)
      BY <1>1, <3>1
    <3>3. DateOf(Gmtime(At(e + 1, 0))) = DateAfter(Gmtime(At(e, 0)))
      BY <3>1, <3>2, DayAdvances
    <3>4. DateOf(Gmtime(At(d, 0))) = DateAfter(Gmtime(At(d - 1, 0)))
      BY <3>1, <3>3 DEF e
    <3> QED BY <2>2, <3>4 DEF CalendarAdvances, d
  <2> QED BY <2>1, <2>2
<1>3. RoundTrip
  <2> SUFFICES ASSUME NEW sec \in {0, 23295, 57600}, Before(At(d, sec), Wrap)
               PROVE  Mktime(Gmtime(At(d, sec))) = At(d, sec) /\ Mktime(Localtime(At(d, sec))) = At(d, sec)
    BY DEF RoundTrip, d
  <2>1. At(d, sec) \in Stamps
    <3>1. DaySecs \in Int /\ DaySecs >= 86400
      BY DEF DaySecs
    <3>2. sec \in 0..DaySecs - 1
      BY <3>1
    <3>3. At(d, sec) \in [day : Nat, sec : 0..DaySecs - 1]
      BY <1>1, <3>2 DEF At
    <3> QED BY <3>3 DEF Stamps
  <2> QED BY <2>1, BackAgain
<1> QED BY <1>2, <1>3

LEMMA ClocksAreRight == TimeJobOK => ClockRight
<1> SUFFICES ASSUME TimeJobOK, job.kind = "clock" PROVE ClockRight
  BY DEF ClockRight
<1> DEFINE d == job.day
           s == job.sec
           bcd == job.bcd
<1>1. d \in Eves /\ s \in {0, 59, 3599, 86399} /\ job.late \in Lates /\ bcd \in BOOLEAN
  BY DEF TimeJobOK, ClockJobs
<1>2. d \in Nat /\ ClockDay(d)
  BY <1>1 DEF Eves, ClockDay
<1>3. s \in Nat /\ s <= 86399
  BY <1>1
<1>4. PICK k \in 0..7 : job.late = [i \in 1..7 |-> IF i > k THEN 1 ELSE 0]
  BY <1>1 DEF Lates
<1> HIDE DEF d, s, bcd
<1>5. ClockShows(d, s, k, bcd)
  BY <1>1, <1>2, <1>3, ClockIsRight
<1> QED BY <1>4, <1>5 DEF ClockShows, ClockRight, d, s, bcd

\* What the kernel says the time is, on every day a timestamp can say.
THEOREM TimeTheorem == Spec => []TimeRight
<1>1. Init => TimeJobOK
  BY InitTimeJobOK
<1>2. TimeJobOK /\ [Tomorrow]_job => TimeJobOK'
  BY TomorrowTimeJobOK
<1>3. TimeJobOK => TimeRight
  BY DaysAreRight, ClocksAreRight DEF TimeRight
<1> QED BY <1>1, <1>2, <1>3, PTL DEF Spec

\* mktime gives back every timestamp gmtime or localtime has broken down, in whichever
\* second of 32 bits, whether or not the local time is beyond them.
THEOREM TimestampsComeBack == \A t \in Stamps : Mktime(Gmtime(t)) = t /\ Mktime(Localtime(t)) = t
BY BackAgain

\* At every second until 2069, after whichever of the seven reads the clock goes on, what
\* rtc_get_datetime reads is a time the clock showed, or an earlier one if a minute has
\* just begun.
THEOREM ClockIsReadRight ==
  \A d \in Nat, s \in Nat, k \in 0..7, bcd \in BOOLEAN :
    d <= 36523 /\ s <= 86399 => ClockShows(d, s, k, bcd)
BY ClockIsRight DEF ClockDay

=============================================================================
