------------------------------- MODULE MemCopy -------------------------------
(***************************************************************************)
(* memcpy and memmove of lib/string.c: byte by byte up to a word boundary, *)
(* then word by word if the source is aligned too, then byte by byte.      *)
(* Memory is a function from addresses to what is stored there.            *)
(***************************************************************************)
EXTENDS Integers

CONSTANT WordSize     \* word_size

ASSUME WordSizeAssumption == WordSize \in Nat \ {0}

WordAlign(a)     == ((a + WordSize - 1) \div WordSize) * WordSize
WordAlignDown(a) == a - (a % WordSize)

\* n turns of *(d++) = *(s++).
ForwardBytes(mem, d, s, n) ==
  LET after[i \in 0..n] == IF i = 0 THEN mem
                           ELSE [after[i - 1] EXCEPT ![d + i - 1] = after[i - 1][s + i - 1]]
  IN after[n]

\* n turns of *(dptr++) = *(sptr++): a word is read whole before it is written.
ForwardWords(mem, d, s, n) ==
  LET after[i \in 0..n] ==
        IF i = 0 THEN mem
        ELSE LET to   == d + (i - 1) * WordSize
                 from == s + (i - 1) * WordSize
             IN [a \in DOMAIN mem |-> IF a \in to..to + WordSize - 1
                                      THEN after[i - 1][from + a - to]
                                      ELSE after[i - 1][a]]
  IN after[n]

\* n turns of *(--d) = *(--s).
BackwardBytes(mem, d, s, n) ==
  LET after[i \in 0..n] == IF i = 0 THEN mem
                           ELSE [after[i - 1] EXCEPT ![d + n - i] = after[i - 1][s + n - i]]
  IN after[n]

\* How many words the second loop copies.  It tests the d the first loop left, which
\* it does not advance, so it ends when no byte is left: the last word may reach
\* beyond the last byte.
Words(d, end, rest) ==
  IF rest > 0 /\ d < end THEN (rest + WordSize - 1) \div WordSize ELSE 0

\* memcpy; d0 is where dst was, d where the first loop leaves it.
Memcpy(mem, d0, s0, n) ==
  LET head  == IF n < WordAlign(d0) - d0 THEN n ELSE WordAlign(d0) - d0
      first == ForwardBytes(mem, d0, s0, head)
      d     == d0 + head
      s     == s0 + head
      end   == WordAlignDown(d0 + n)
      words == Words(d, end, n - head)
  IN IF s % WordSize # 0
     THEN ForwardBytes(first, d, s, n - head)
     ELSE LET rest == n - head - words * WordSize
              body == ForwardWords(first, WordAlign(d0), s, words)
              k    == words * WordSize
          IN IF rest > 0 THEN ForwardBytes(body, WordAlign(d0) + k, s + k, rest) ELSE body

\* ldst - lsrc >= n, unsigned: the destination does not start inside the source.
NotInside(d, s, n) == d < s \/ d - s >= n

Memmove(mem, d, s, n) == IF NotInside(d, s, n) THEN Memcpy(mem, d, s, n)
                         ELSE BackwardBytes(mem, d, s, n)

=============================================================================
