-------------------------------- MODULE Divide --------------------------------
(***************************************************************************)
(* Division and bits of numbers of two words for the 32-bit build:         *)
(* lib/div.c.  Signed numbers are kept as what their bits say unsigned.    *)
(***************************************************************************)
EXTENDS Integers, FiniteSets

CONSTANT LogBits   \* 6: the numbers have 2^LogBits bits

ASSUME LogBitsAssumption == LogBits \in Nat \ {0}

\* 2^k
Pow2[k \in Nat] == IF k = 0 THEN 1 ELSE 2 * Pow2[k - 1]
NumBits == Pow2[LogBits]
Top     == Pow2[NumBits - 1]
Word    == Pow2[NumBits \div 2]
U64(a)  == a % Pow2[NumBits]
Hi(a)   == a \div Word
Lo(a)   == a % Word
IsNeg(a) == a >= Top
\* The value of a as a signed number.
Signed(a) == IF IsNeg(a) THEN a - Pow2[NumBits] ELSE a

\* arith64_neg, arith64_abs: invert and add one if b is negative.
Neg(a, b) == IF IsNeg(b) THEN U64(-a) ELSE a
Abs(a)    == Neg(a, a)
Xor(a, b) == IF IsNeg(a) = IsNeg(b) THEN 0 ELSE Top      \* as far as its sign goes

\* A shift by b bits: of two words, and by b modulo the width.
Shl(a, b) == U64(a * Pow2[b % NumBits])
Shr(a, b) == a \div Pow2[b % NumBits]
\* __ashldi3, __lshrdi3, __ashrdi3: word by word.
Half == NumBits \div 2
Ashldi3(a, b0) ==
  LET b == b0 % NumBits
  IN IF b >= Half THEN ((Lo(a) * Pow2[b - Half]) % Word) * Word
     ELSE IF b > 0 THEN ((Lo(a) \div Pow2[Half - b]) + ((Hi(a) * Pow2[b]) % Word)) * Word + ((Lo(a) * Pow2[b]) % Word)
     ELSE a
Lshrdi3(a, b0) ==
  LET b == b0 % NumBits
  IN IF b >= Half THEN Hi(a) \div Pow2[b - Half]
     ELSE IF b > 0 THEN (Hi(a) \div Pow2[b]) * Word + ((Hi(a) * Pow2[Half - b]) % Word) + (Lo(a) \div Pow2[b])
     ELSE a
Ashrdi3(a, b0) ==
  LET b  == b0 % NumBits
      hi == IF IsNeg(a) THEN Hi(a) - Word ELSE Hi(a)
  IN IF b >= Half THEN ((hi \div Pow2[b - Half]) % Word) + (IF IsNeg(a) THEN (Word - 1) * Word ELSE 0)
     ELSE IF b > 0 THEN ((hi \div Pow2[b]) % Word) * Word + ((Hi(a) * Pow2[Half - b]) % Word) + (Lo(a) \div Pow2[b])
     ELSE a

\* __clzdi2, __ctzdi2: if the upper, or lower, 2^k bits are 0, shift them out.
Clzdi2(a0) ==
  LET from[k \in 0..LogBits - 1] ==
        LET was == IF k = LogBits - 1 THEN [n |-> 0, a |-> a0] ELSE from[k + 1]
            b   == IF was.a \div Pow2[NumBits - Pow2[k]] = 0 THEN Pow2[k] ELSE 0
        IN [n |-> was.n + b, a |-> IF k = 0 THEN was.a ELSE Shl(was.a, b)]
  IN from[0].n
Ctzdi2(a0) ==
  LET from[k \in 0..LogBits - 1] ==
        LET was == IF k = LogBits - 1 THEN [n |-> 0, a |-> a0] ELSE from[k + 1]
            b   == IF was.a % Pow2[Pow2[k]] = 0 THEN Pow2[k] ELSE 0
        IN [n |-> was.n + b, a |-> IF k = 0 THEN was.a ELSE Shr(was.a, b)]
  IN from[0].n
Ffsdi2(a) == IF a = 0 THEN 0 ELSE Ctzdi2(a) + 1

\* Slip: a remainder equal to the divisor is kept.
FitsBelow(b, rem) == IsNeg(U64(b - rem))
\* wrap: whether the divisor fits, by the sign of b - rem - 1.
Fits(b, rem) == IsNeg(U64(b - rem - 1))
\* A turn of the long division: the next bit of the numerator into the remainder, the
\* last bit of the quotient behind the numerator.
DivTurn(b, s) ==
  LET rem == U64(2 * s.rem + (s.a \div Top))
  IN [rem |-> IF Fits(b, rem) THEN U64(rem - b) ELSE rem,
      a   |-> U64(2 * s.a) + s.wrap,
      wrap |-> IF Fits(b, rem) THEN 1 ELSE 0]

\* __divmoddi4, for b # 0.
Divmod(a, b) ==
  LET bits == Clzdi2(b) - Clzdi2(a) + 1
      turn[i \in 0..NumBits] ==
        IF i = 0 THEN [rem |-> Shr(a, bits), a |-> Shl(a, NumBits - bits), wrap |-> 0]
        ELSE DivTurn(b, turn[i - 1])
      last == turn[bits]
  IN IF b > a THEN [q |-> 0, r |-> a]
     ELSE IF Hi(b) = 0 /\ b = 1 THEN [q |-> a, r |-> 0]
     ELSE IF Hi(b) = 0 /\ Hi(a) = 0 THEN [q |-> Lo(a) \div Lo(b), r |-> Lo(a) % Lo(b)]
     ELSE [q |-> U64(2 * last.a) + last.wrap, r |-> last.rem]

\* __divdi3, __moddi3
Divdi3(a, b) == Neg(Divmod(Abs(a), Abs(b)).q, Xor(a, b))
Moddi3(a, b) == Neg(Divmod(Abs(a), Abs(b)).r, a)

=============================================================================
