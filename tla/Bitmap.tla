-------------------------------- MODULE Bitmap --------------------------------
(***************************************************************************)
(* lib/bitmap.c, which works on whole bytes and masks the two ends of a    *)
(* range.  A byte is the set of its bits that are 1, so |, & and ~ are     *)
(* union, intersection and difference.                                     *)
(***************************************************************************)
EXTENDS Integers, FiniteSets

CONSTANTS ByteBits,   \* 8
          SizeMax     \* 2^64: a size_t is below it

ASSUME ByteBitsAssumption == ByteBits \in Nat \ {0}
ASSUME SizeMaxAssumption == SizeMax \in Nat \ {0}

Bits == 0..ByteBits - 1
Least(S) == CHOOSE x \in S : \A y \in S : x <= y
Smaller(a, b) == IF a < b THEN a ELSE b

\* bit_mask(n)
Mask(n) == 0..n - 1

\* align(start_bit, 8) >> 3
StartByte(bit) == (bit + ByteBits - 1) \div ByteBits

\* The bytes a range [start, start + len) touches, each with the mask of the bits
\* that belong to the range: a first part, whole bytes, a last part.
Masks(size, start, len) ==
  LET sb == Smaller(size, start)
      eb == Smaller(size, (start + len) % SizeMax)
      startByte == StartByte(sb)
      endByte   == eb \div ByteBits
      startBound == startByte * ByteBits - sb
      endBound   == eb - endByte * ByteBits
      head == Bits \ Mask(ByteBits - startBound)
  IN IF endByte < startByte
     THEN {<<startByte - 1, head \cap Mask(endBound)>>}
     ELSE (IF startBound > 0 THEN {<<startByte - 1, head>>} ELSE {})
          \cup {<<b, Bits>> : b \in startByte..endByte - 1}
          \cup (IF endBound > 0 THEN {<<endByte, Mask(endBound)>>} ELSE {})

\* byte |= mask, byte &= ~mask
SetByte(byte, value, mask) == IF value = 1 THEN byte \cup mask ELSE byte \ mask

\* bitmap_set, on a map of whole bytes.
BitmapSet(map, size, value, start, len) ==
  LET masks == Masks(size, start, len)
  IN [b \in DOMAIN map |->
        IF \E m \in masks : m[1] = b
        THEN SetByte(map[b], value, (CHOOSE m \in masks : m[1] = b)[2])
        ELSE map[b]]

\* Slip: the bits outside the mask are not made equal to skip.
Unmasked(byte, value, mask) == IF value = 1 THEN byte ELSE Bits \ byte
\* The bits of a byte that have the value looked for, within the mask.
Matches(byte, value, mask) == IF value = 1 THEN byte \cap mask ELSE Bits \ (byte \cup (Bits \ mask))

\* bitmap_find: the first byte with a match, and the first match in it.
BitmapFind(map, size, value, start, len) ==
  LET found == {m \in Masks(size, start, len) : Matches(map[m[1]], value, m[2]) # {}}
      first == CHOOSE m \in found : \A n \in found : m[1] <= n[1]
  IN IF found = {} THEN -1
     ELSE first[1] * ByteBits + Least(Matches(map[first[1]], value, first[2]))

-----------------------------------------------------------------------------
(* What they are for.                                                      *)

\* The bits of a map that are 1.
OnesOf(map) == {i \in 0..Cardinality(DOMAIN map) * ByteBits - 1 :
                  i % ByteBits \in map[i \div ByteBits]}
\* The bits of the map a range names: [start, start + len), cut at its end.  With a
\* start of -1 the sum wraps, and it names none.
Named(size, start, len) == Smaller(size, start)..Smaller(size, (start + len) % SizeMax) - 1

=============================================================================
