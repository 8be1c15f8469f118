----------------------------- MODULE BuddyProofs -----------------------------
(***************************************************************************)
(* The page allocator is right for any memory size and any number of       *)
(* orders, when callers ask for single pages and give them back in reverse *)
(* order, and when buddy_init finds the page array zero and the last page  *)
(* free.  The other cases are the findings and the bounds of the runs.     *)
(*                                                                         *)
(* What makes page_is_buddy right although no flag is ever cleared is the  *)
(* invariant below: a page that still looks like a free block and is none  *)
(* lies inside a free block or is held, and the pages held are a stack in  *)
(* which the other halves of a block an earlier page was cut out of are    *)
(* free or were handed out after it.                                       *)
(*                                                                         *)
(* Before it stand the lemmas about blocks of pages, their heads and their *)
(* buddies: the arithmetic buddy.c does with shifts and exclusive ors.     *)
(***************************************************************************)
EXTENDS Buddy, FiniteSetTheorems, SequenceTheorems, TLAPS

-----------------------------------------------------------------------------
(* Least elements, in the place of induction.                              *)

\* A set of natural numbers that is not empty has a least element: the intervals up to
\* its elements are well-founded by inclusion.
LEMMA MinIsLeast ==
  ASSUME NEW S \in SUBSET Nat, S # {}
  PROVE  Min(S) \in S /\ \A y \in S : Min(S) <= y
<1> DEFINE R == StrictSubsetOrdering(Nat)
           T == {0..x : x \in S}
<1>1. T \subseteq FiniteSubsetsOf(Nat)
  <2> SUFFICES ASSUME NEW x \in S PROVE 0..x \in FiniteSubsetsOf(Nat)
    OBVIOUS
  <2>1. x \in Int /\ 0 \in Int
    OBVIOUS
  <2>2. IsFiniteSet(0..x)
    BY <2>1, FS_Interval
  <2> QED BY <2>2 DEF FiniteSubsetsOf
<1>2. T # {}
  OBVIOUS
<1>3. IsWellFoundedOn(R, FiniteSubsetsOf(Nat))
  BY FS_StrictSubsetOrderingWellFounded
<1>4. PICK t \in T : \A u \in T : ~(<<u, t>> \in R)
  <2> HIDE DEF R, T
  <2> QED BY <1>1, <1>2, <1>3, WFMin
<1>5. PICK x \in S : t = 0..x
  OBVIOUS
<1>6. ASSUME NEW y \in S, y < x PROVE FALSE
  <2>1. 0..y \subseteq 0..x /\ 0..y # 0..x
    BY <1>6
  <2>2. <<0..y, 0..x>> \in R
    BY <2>1 DEF StrictSubsetOrdering
  <2> QED BY <1>4, <1>5, <2>2
<1>7. \A y \in S : x <= y
  BY <1>6
<1> QED BY <1>7 DEF Min


\* A set of numbers up to a bound that is not empty has a greatest element.
LEMMA MaxIsGreatest ==
  ASSUME NEW n \in Nat, NEW S \in SUBSET (0..n), S # {}
  PROVE  Max(S) \in S /\ \A y \in S : y <= Max(S)
<1> DEFINE T == {n - x : x \in S}
<1>1. T \in SUBSET Nat /\ T # {}
  <2>1. \A x \in S : x \in Int /\ n - x \in Nat
    OBVIOUS
  <2>2. PICK x \in S : TRUE
    OBVIOUS
  <2>3. n - x \in T
    OBVIOUS
  <2> QED BY <2>1, <2>3
<1>2. PICK t \in T : \A y \in T : t <= y
  BY <1>1, MinIsLeast
<1>3. PICK x \in S : t = n - x
  BY <1>2
<1>4. ASSUME NEW y \in S PROVE x >= y
  <2>1. n - y \in T
    OBVIOUS
  <2>2. n - x <= n - y
    BY <1>2, <1>3, <2>1
  <2> QED BY <2>2
<1>5. Max(S) \in S /\ \A y \in S : Max(S) >= y
  BY <1>4 DEF Max
<1> QED BY <1>5

-----------------------------------------------------------------------------
(* Sizes.                                                                  *)

\* The sizes up to order n.
SizesUpTo(n, f) == f = [k \in 0..n |-> IF k = 0 THEN 1 ELSE 2 * f[k - 1]]

\* They can be written down one after the other.
LEMMA SizesExist == \A n \in Nat : \E f : SizesUpTo(n, f)
<1> DEFINE S == {n \in Nat : ~ \E f : SizesUpTo(n, f)}
<1> SUFFICES ASSUME S # {} PROVE FALSE
  OBVIOUS
<1>1. PICK n \in S : \A y \in S : n <= y
  BY MinIsLeast
<1>2. CASE n = 0
  <2>1. SizesUpTo(0, [k \in 0..0 |-> 1])
    BY DEF SizesUpTo
  <2> QED BY <1>1, <1>2, <2>1
<1>3. CASE n # 0
  <2>1. n - 1 \in Nat /\ n - 1 \notin S
    BY <1>1, <1>3
  <2>2. PICK f : SizesUpTo(n - 1, f)
    BY <2>1
  <2> DEFINE g == [k \in 0..n |-> IF k = n THEN 2 * f[n - 1] ELSE f[k]]
  <2>3. SizesUpTo(n, g)
    <3>1. DOMAIN f = 0..n - 1 /\ \A k \in 0..n - 1 : f[k] = IF k = 0 THEN 1 ELSE 2 * f[k - 1]
      BY <2>2 DEF SizesUpTo
    <3>2. n \in Nat /\ n # 0
      BY <1>3
    <3>3. \A k \in 0..n : g[k] = IF k = 0 THEN 1 ELSE 2 * g[k - 1]
      <4> SUFFICES ASSUME NEW k \in 0..n PROVE g[k] = IF k = 0 THEN 1 ELSE 2 * g[k - 1]
        OBVIOUS
      <4>1. CASE k = n
        BY <3>2, <4>1
      <4>2. CASE k # n
        <5>1. k \in 0..n - 1
          BY <3>2, <4>2
        <5>2. k # 0 => k - 1 \in 0..n - 1
          BY <5>1
        <5> QED BY <3>1, <3>2, <4>2, <5>1, <5>2
      <4> QED BY <4>1, <4>2
    <3> HIDE DEF g
    <3>4. g = [k \in 0..n |-> g[k]]
      BY DEF g
    <3> QED BY <3>3, <3>4 DEF SizesUpTo
  <2> QED BY <1>1, <2>3
<1> QED BY <1>2, <1>3

\* 1 << 0 and 1 << (k + 1).
LEMMA SizeSteps ==
  /\ Size[0] = 1
  /\ \A k \in 0..MaxOrder : k < MaxOrder => Size[k + 1] = 2 * Size[k]
<1>1. \E f : SizesUpTo(MaxOrder, f)
  BY SizesExist, MaxOrderAssumption
<1>2. Size = [k \in 0..MaxOrder |-> IF k = 0 THEN 1 ELSE 2 * Size[k - 1]]
  BY <1>1 DEF Size, SizesUpTo
<1> HIDE DEF Size
<1> QED BY <1>2, MaxOrderAssumption

\* Every size is at least one page.
LEMMA SizePositive == \A k \in 0..MaxOrder : Size[k] \in Nat \ {0}
<1> DEFINE S == {k \in 0..MaxOrder : Size[k] \notin Nat \ {0}}
<1> SUFFICES ASSUME S # {} PROVE FALSE
  OBVIOUS
<1>1. S \in SUBSET Nat
  BY MaxOrderAssumption
<1>2. PICK k \in S : \A y \in S : k <= y
  BY <1>1, MinIsLeast
<1>3. k # 0
  BY SizeSteps
<1>4. k - 1 \in 0..MaxOrder /\ k - 1 < MaxOrder /\ k - 1 \notin S
  BY <1>2, <1>3, MaxOrderAssumption
<1>5. Size[k - 1] \in Nat \ {0}
  BY <1>4
<1>6. Size[(k - 1) + 1] = 2 * Size[k - 1]
  BY <1>4, SizeSteps
<1>7. (k - 1) + 1 = k
  BY <1>2, MaxOrderAssumption
<1> QED BY <1>5, <1>6, <1>7

\* A smaller block fits a whole number of times into a greater one.
LEMMA SizeDivides ==
  \A k \in 0..MaxOrder : \A j \in 0..k : \E d \in Nat \ {0} : Size[k] = d * Size[j]
<1> SUFFICES ASSUME NEW j \in 0..MaxOrder
             PROVE  \A k \in 0..MaxOrder : j <= k => \E d \in Nat \ {0} : Size[k] = d * Size[j]
  BY MaxOrderAssumption
<1> DEFINE S == {k \in 0..MaxOrder : j <= k /\ ~ \E d \in Nat \ {0} : Size[k] = d * Size[j]}
<1> SUFFICES ASSUME S # {} PROVE FALSE
  OBVIOUS
<1>1. S \in SUBSET Nat
  BY MaxOrderAssumption
<1>2. PICK k \in S : \A y \in S : k <= y
  BY <1>1, MinIsLeast
<1>3. k # j
  <2>1. Size[j] = 1 * Size[j]
    BY SizePositive
  <2> QED BY <1>2, <2>1
<1>4. k - 1 \in 0..MaxOrder /\ k - 1 < MaxOrder /\ j <= k - 1 /\ k - 1 \notin S
  BY <1>2, <1>3, MaxOrderAssumption
<1>5. PICK d \in Nat \ {0} : Size[k - 1] = d * Size[j]
  BY <1>4
<1>6. Size[(k - 1) + 1] = 2 * Size[k - 1]
  BY <1>4, SizeSteps
<1>7. (k - 1) + 1 = k
  BY <1>2, MaxOrderAssumption
<1>8. Size[k] = (2 * d) * Size[j]
  BY <1>5, <1>6, <1>7, SizePositive
<1> QED BY <1>2, <1>8

\* Two blocks of one order fit into a block of any greater order.
LEMMA SizeGrows ==
  \A k \in 0..MaxOrder : \A j \in 0..k : /\ Size[j] <= Size[k]
                                         /\ j < k => 2 * Size[j] <= Size[k]
<1> SUFFICES ASSUME NEW k \in 0..MaxOrder, NEW j \in 0..k
             PROVE  Size[j] <= Size[k] /\ (j < k => 2 * Size[j] <= Size[k])
  OBVIOUS
<1>1. \A a \in 0..MaxOrder : \A b \in 0..a : Size[b] <= Size[a]
  <2> SUFFICES ASSUME NEW a \in 0..MaxOrder, NEW b \in 0..a PROVE Size[b] <= Size[a]
    OBVIOUS
  <2>1. PICK d \in Nat \ {0} : Size[a] = d * Size[b]
    BY SizeDivides
  <2>2. Size[b] \in Nat \ {0}
    BY SizePositive, MaxOrderAssumption
  <2>3. (d - 1) * Size[b] >= 0
    BY <2>2
  <2>4. d * Size[b] = (d - 1) * Size[b] + Size[b]
    BY <2>2
  <2> QED BY <2>1, <2>2, <2>3, <2>4, SizePositive
<1>2. CASE j < k
  <2>1. j + 1 \in 0..k /\ j \in 0..MaxOrder /\ j < MaxOrder
    BY <1>2, MaxOrderAssumption
  <2>2. Size[j + 1] = 2 * Size[j] /\ Size[j + 1] <= Size[k]
    BY <2>1, <1>1, SizeSteps
  <2> QED BY <1>1, <2>2
<1> QED BY <1>1, <1>2

-----------------------------------------------------------------------------
(* Division.                                                               *)

\* What \div and % give for a positive divisor.
LEMMA Division ==
  ASSUME NEW n \in Int, NEW b \in Nat \ {0}
  PROVE  /\ n \div b \in Int
         /\ n % b \in 0..b - 1
         /\ n = (n \div b) * b + (n % b)
<1> DEFINE S == {x \in Nat : \E q \in Int : n = q * b + x}
<1>1. S # {}
  <2> SUFFICES \E x \in Nat : \E q \in Int : n = q * b + x
    OBVIOUS
  <2>1. CASE n >= 0
    <3>1. n = 0 * b + n /\ n \in Nat
      BY <2>1
    <3> QED BY <3>1
  <2>2. CASE n < 0
    <3>1. (-n) * (b - 1) \in Nat
      BY <2>2
    <3>2. n = n * b + (-n) * (b - 1)
      OBVIOUS
    <3>3. \E q \in Int : n = q * b + (-n) * (b - 1)
      <4> WITNESS n \in Int
      <4> QED BY <3>2
    <3> QED BY <3>1, <3>3
  <2> QED BY <2>1, <2>2
<1>2. PICK x \in S : \A y \in S : x <= y
  BY <1>1, MinIsLeast
<1>3. PICK q \in Int : n = q * b + x
  BY <1>2
<1>4. x < b
  <2> SUFFICES ASSUME x >= b PROVE FALSE
    BY <1>2
  <2>1. n = (q + 1) * b + (x - b)
    BY <1>3
  <2>2. \E d \in Int : n = d * b + (x - b)
    <3> WITNESS q + 1 \in Int
    <3> QED BY <2>1
  <2>3. x - b \in Nat
    BY <1>2
  <2>4. x - b \in S
    BY <2>2, <2>3
  <2>5. x <= x - b
    BY <1>2, <2>4
  <2>6. x \in Nat
    BY <1>2
  <2> HIDE DEF S
  <2> QED BY <2>5, <2>6
<1>5. n % b = x /\ n \div b = q
  BY <1>3, <1>4
<1> QED BY <1>2, <1>3, <1>4, <1>5

\* A number lies in one interval of length b that starts at a multiple of b.
LEMMA MultiplesApart ==
  ASSUME NEW b \in Nat \ {0}, NEW x \in Int, NEW y \in Int, x * b < y * b
  PROVE  x * b + b <= y * b
<1>1. x < y
  <2> SUFFICES ASSUME x >= y PROVE FALSE
    OBVIOUS
  <2>1. (x - y) * b >= 0
    OBVIOUS
  <2>2. (x - y) * b = x * b - y * b
    OBVIOUS
  <2> QED BY <2>1, <2>2
<1>2. (y - x - 1) * b >= 0
  BY <1>1
<1>3. (y - x - 1) * b = y * b - x * b - b
  OBVIOUS
<1> QED BY <1>2, <1>3

-----------------------------------------------------------------------------
(* Heads and aligned blocks.                                               *)

\* A page lies in the block whose head HeadOf gives, and a head is its own head.
LEMMA HeadIs ==
  ASSUME NEW p \in Int, NEW k \in 0..MaxOrder
  PROVE  /\ HeadOf(p, k) \in Int
         /\ HeadOf(p, k) <= p /\ p < HeadOf(p, k) + Size[k]
         /\ HeadOf(HeadOf(p, k), k) = HeadOf(p, k)
         /\ \E a \in Int : HeadOf(p, k) = a * Size[k]
<1>1. Size[k] \in Nat \ {0}
  BY SizePositive
<1>2. /\ p \div Size[k] \in Int
      /\ p % Size[k] \in 0..Size[k] - 1
      /\ p = (p \div Size[k]) * Size[k] + (p % Size[k])
  BY <1>1, Division
<1>3. HeadOf(p, k) = (p \div Size[k]) * Size[k]
  BY <1>1, <1>2 DEF HeadOf
<1>4. HeadOf(p, k) = (p \div Size[k]) * Size[k] + 0
  BY <1>1, <1>2, <1>3
<1>5. HeadOf(p, k) % Size[k] = 0
  <2> DEFINE h == HeadOf(p, k)
             q == p \div Size[k]
             s == Size[k]
  <2>1. h \in Int /\ q \in Int /\ s \in Nat \ {0} /\ h = q * s + 0
    BY <1>1, <1>2, <1>3, <1>4
  <2> HIDE DEF h, q, s
  <2>2. h % s = 0
    BY <2>1
  <2> QED BY <2>2 DEF h, s
<1>6. HeadOf(p, k) \in Int
  BY <1>1, <1>2, <1>3
<1>7. HeadOf(HeadOf(p, k), k) = HeadOf(p, k)
  <2>1. \A h \in Int : h % Size[k] = 0 => HeadOf(h, k) = h
    BY DEF HeadOf
  <2> QED BY <1>5, <1>6, <2>1
<1>8. HeadOf(p, k) <= p /\ p < HeadOf(p, k) + Size[k]
  <2>1. \A s \in Nat \ {0} : \A m \in 0..s - 1 : p - m <= p /\ p < p - m + s
    OBVIOUS
  <2>2. p % Size[k] \in 0..Size[k] - 1
    BY <1>2
  <2>3. p - (p % Size[k]) <= p /\ p < p - (p % Size[k]) + Size[k]
    BY <1>1, <2>1, <2>2
  <2> QED BY <2>3 DEF HeadOf
<1> QED BY <1>2, <1>3, <1>6, <1>7, <1>8

\* The aligned pages are the multiples of the size.
LEMMA AlignedIsMultiple ==
  ASSUME NEW k \in 0..MaxOrder, NEW p \in Int
  PROVE  HeadOf(p, k) = p <=> \E a \in Int : p = a * Size[k]
<1>1. Size[k] \in Nat \ {0}
  BY SizePositive
<1>2. ASSUME NEW a \in Int, p = a * Size[k] PROVE HeadOf(p, k) = p
  <2> DEFINE s == Size[k]
  <2>1. s \in Nat \ {0} /\ p = a * s + 0
    BY <1>1, <1>2
  <2> HIDE DEF s
  <2>2. p % s = 0
    BY <2>1
  <2>3. p % Size[k] = 0
    BY <2>2 DEF s
  <2> QED BY <2>3 DEF HeadOf
<1> QED BY <1>2, HeadIs

\* Of two aligned pages of one order the first one's block ends before the other.
LEMMA AlignedApart ==
  ASSUME NEW k \in 0..MaxOrder, NEW p \in Int, NEW q \in Int,
         HeadOf(p, k) = p, HeadOf(q, k) = q, p < q
  PROVE  p + Size[k] <= q
<1>1. PICK a \in Int : p = a * Size[k]
  BY AlignedIsMultiple
<1>2. PICK b \in Int : q = b * Size[k]
  BY AlignedIsMultiple
<1> QED BY <1>1, <1>2, MultiplesApart, SizePositive

\* The head of a page's block is the one aligned page whose block the page lies in.
LEMMA HeadUnique ==
  ASSUME NEW k \in 0..MaxOrder, NEW p \in Int, NEW h \in Int,
         HeadOf(h, k) = h, h <= p, p < h + Size[k]
  PROVE  HeadOf(p, k) = h
<1>1. Size[k] \in Nat \ {0}
  BY SizePositive
<1> DEFINE g == HeadOf(p, k)
<1>2. g \in Int /\ g <= p /\ p < g + Size[k] /\ HeadOf(g, k) = g
  BY HeadIs
<1> HIDE DEF g
<1>3. ~(g < h)
  <2>1. g < h => g + Size[k] <= h
    BY <1>2, AlignedApart
  <2> QED BY <1>1, <1>2, <2>1
<1>4. ~(h < g)
  <2>1. h < g => h + Size[k] <= g
    BY <1>2, AlignedApart
  <2> QED BY <1>1, <1>2, <2>1
<1> QED BY <1>2, <1>3, <1>4 DEF g

\* Where a block ends the next block of its order starts.
LEMMA AlignedNext ==
  ASSUME NEW k \in 0..MaxOrder, NEW p \in Int, HeadOf(p, k) = p
  PROVE  HeadOf(p + Size[k], k) = p + Size[k] /\ HeadOf(p - Size[k], k) = p - Size[k]
<1>1. Size[k] \in Nat \ {0}
  BY SizePositive
<1>2. PICK a \in Int : p = a * Size[k]
  BY AlignedIsMultiple
<1>3. p + Size[k] = (a + 1) * Size[k] /\ p - Size[k] = (a - 1) * Size[k]
  BY <1>1, <1>2
<1>4. \E b \in Int : p + Size[k] = b * Size[k]
  BY <1>3
<1>5. \E b \in Int : p - Size[k] = b * Size[k]
  BY <1>3
<1>6. p + Size[k] \in Int /\ p - Size[k] \in Int
  BY <1>1
<1> QED BY <1>4, <1>5, <1>6, AlignedIsMultiple

\* The head of a block is a head at every smaller order.
LEMMA AlignedBelow ==
  ASSUME NEW k \in 0..MaxOrder, NEW j \in 0..k, NEW p \in Int, HeadOf(p, k) = p
  PROVE  HeadOf(p, j) = p
<1>1. j \in 0..MaxOrder
  BY MaxOrderAssumption
<1>2. PICK a \in Int : p = a * Size[k]
  BY AlignedIsMultiple
<1>3. PICK d \in Nat \ {0} : Size[k] = d * Size[j]
  BY SizeDivides
<1>4. p = (a * d) * Size[j]
  BY <1>1, <1>2, <1>3, SizePositive
<1>5. \E b \in Int : p = b * Size[j]
  <2> WITNESS a * d \in Int
  <2> QED BY <1>4
<1> QED BY <1>1, <1>5, AlignedIsMultiple

\* Of two aligned blocks that share a page the smaller one lies in the greater one.
LEMMA Nesting ==
  ASSUME NEW k \in 0..MaxOrder, NEW j \in 0..k, NEW p \in Int, NEW q \in Int,
         HeadOf(p, k) = p, HeadOf(q, j) = q,
         q < p + Size[k], p < q + Size[j]
  PROVE  p <= q /\ q + Size[j] <= p + Size[k]
<1>1. /\ j \in 0..MaxOrder
      /\ Size[j] \in Nat \ {0} /\ Size[k] \in Nat \ {0}
  BY SizePositive, MaxOrderAssumption
<1>2. HeadOf(p, j) = p
  BY AlignedBelow
<1>3. HeadOf(p + Size[k], j) = p + Size[k] /\ p + Size[k] \in Int
  BY <1>1, AlignedNext, AlignedBelow
<1>4. q < p => q + Size[j] <= p
  BY <1>1, <1>2, AlignedApart
<1>5. q + Size[j] <= p + Size[k]
  BY <1>1, <1>3, AlignedApart
<1> QED BY <1>1, <1>4, <1>5
-----------------------------------------------------------------------------
(* Buddies.                                                                *)

\* Two buddies are the halves of one block of the next order.
LEMMA Buddies ==
  ASSUME NEW k \in 0..MaxOrder, k < MaxOrder, NEW h \in Int, HeadOf(h, k) = h
  PROVE  /\ BuddyOf(h, k) \in Int /\ BuddyOf(h, k) # h
         /\ HeadOf(BuddyOf(h, k), k) = BuddyOf(h, k)
         /\ BuddyOf(BuddyOf(h, k), k) = h
         /\ \/ HeadOf(h, k + 1) = h /\ BuddyOf(h, k) = h + Size[k]
            \/ HeadOf(h, k + 1) = BuddyOf(h, k) /\ BuddyOf(h, k) = h - Size[k]
<1> DEFINE s == Size[k]
           q == h \div s
<1>1. s \in Nat \ {0} /\ k + 1 \in 0..MaxOrder /\ Size[k + 1] = 2 * s
  BY SizePositive, SizeSteps, MaxOrderAssumption
<1>2. q \in Int /\ h = q * s
  <2>1. q \in Int /\ h = q * s + (h % s)
    BY <1>1, Division
  <2>2. h % s \in Int
    BY <1>1, Division
  <2>3. \A m \in Int : h - m = h => m = 0
    OBVIOUS
  <2>4. h % s = 0
    BY <2>2, <2>3 DEF HeadOf
  <2>5. \A x \in Int : x + 0 = x
    OBVIOUS
  <2>6. q * s \in Int
    BY <1>1, <2>1
  <2> QED BY <2>1, <2>4, <2>5, <2>6
<1>3. \A x \in Int : (x * s) \div s = x
  <2> SUFFICES ASSUME NEW x \in Int PROVE (x * s) \div s = x
    OBVIOUS
  <2> DEFINE y == x * s
             t == s
  <2>1. y \in Int /\ t \in Nat \ {0} /\ y = x * t + 0
    BY <1>1
  <2> HIDE DEF y, t
  <2>2. y \div t = x
    BY <2>1
  <2> QED BY <2>2 DEF y, t
<1>4. q % 2 \in 0..1 /\ q = (q \div 2) * 2 + (q % 2) /\ q \div 2 \in Int
  BY <1>2, Division
<1> HIDE DEF s, q
<1>5. HeadOf(h + s, k) = h + s /\ HeadOf(h - s, k) = h - s
  BY AlignedNext DEF s
<1>6. CASE q % 2 = 0
  <2>1. BuddyOf(h, k) = h + s
    BY <1>6 DEF BuddyOf, s, q
  <2>2. h + s = (q + 1) * s
    BY <1>1, <1>2
  <2>3. (h + s) \div s = q + 1
    BY <1>2, <1>3, <2>2
  <2>4. (q + 1) % 2 # 0
    BY <1>2, <1>6
  <2>5. BuddyOf(h + s, k) = h
    BY <1>1, <2>3, <2>4 DEF BuddyOf, s
  <2>6. h = (q \div 2) * Size[k + 1]
    BY <1>1, <1>2, <1>4, <1>6
  <2>7. HeadOf(h, k + 1) = h
    BY <1>1, <1>4, <2>6, AlignedIsMultiple
  <2> QED BY <1>1, <1>5, <2>1, <2>5, <2>7 DEF s
<1>7. CASE q % 2 = 1
  <2>1. BuddyOf(h, k) = h - s
    BY <1>7 DEF BuddyOf, s, q
  <2>2. h - s = (q - 1) * s
    BY <1>1, <1>2
  <2>3. (h - s) \div s = q - 1
    BY <1>2, <1>3, <2>2
  <2>4. (q - 1) % 2 = 0
    BY <1>2, <1>7
  <2>5. BuddyOf(h - s, k) = h
    BY <1>1, <2>3, <2>4 DEF BuddyOf, s
  <2>6. h - s = (q \div 2) * Size[k + 1]
    BY <1>1, <1>2, <1>4, <1>7
  <2>7. h - s \in Int
    BY <1>1
  <2>8. HeadOf(h - s, k + 1) = h - s
    BY <1>1, <1>4, <2>6, <2>7, AlignedIsMultiple
  <2>9. HeadOf(h, k + 1) = h - s
    <3>1. h - s <= h /\ h < h - s + 2 * s
      BY <1>1
    <3> QED BY <1>1, <2>7, <2>8, <3>1, HeadUnique
  <2> QED BY <1>1, <1>5, <2>1, <2>5, <2>9 DEF s
<1> QED BY <1>4, <1>6, <1>7
\* The head of a page's block is found from the head at any smaller order.
LEMMA HeadOfHead ==
  ASSUME NEW k \in 0..MaxOrder, NEW j \in 0..k, NEW p \in Int
  PROVE  /\ HeadOf(HeadOf(p, j), k) = HeadOf(p, k)
         /\ HeadOf(p, k) <= HeadOf(p, j)
         /\ HeadOf(p, j) + Size[j] <= HeadOf(p, k) + Size[k]
<1> DEFINE h == HeadOf(p, k)
           g == HeadOf(p, j)
<1>1. j \in 0..MaxOrder
  BY MaxOrderAssumption
<1>2. h \in Int /\ h <= p /\ p < h + Size[k] /\ HeadOf(h, k) = h
  BY HeadIs
<1>3. g \in Int /\ g <= p /\ p < g + Size[j] /\ HeadOf(g, j) = g
  BY <1>1, HeadIs
<1>4. Size[j] \in Nat \ {0} /\ Size[k] \in Nat \ {0}
  BY <1>1, SizePositive
<1> HIDE DEF g, h
<1>5. g < h + Size[k] /\ h < g + Size[j]
  BY <1>2, <1>3, <1>4
<1>6. h <= g /\ g + Size[j] <= h + Size[k]
  BY <1>2, <1>3, <1>5, Nesting
<1>7. g < h + Size[k]
  BY <1>2, <1>3, <1>4, <1>6
<1>8. HeadOf(g, k) = h
  BY <1>2, <1>3, <1>6, <1>7, HeadUnique
<1> QED BY <1>6, <1>8 DEF g, h

\* A block of the next order is made of a block and its buddy, which share no page.
LEMMA Parent ==
  ASSUME NEW k \in 0..MaxOrder, k < MaxOrder, NEW h \in Int, HeadOf(h, k) = h,
         NEW x \in Int
  PROVE  /\ x \in Block(HeadOf(h, k + 1), k + 1) <=>
              x \in Block(h, k) \/ x \in Block(BuddyOf(h, k), k)
         /\ ~(x \in Block(h, k) /\ x \in Block(BuddyOf(h, k), k))
<1>1. Size[k] \in Nat \ {0} /\ Size[k + 1] = 2 * Size[k]
  BY SizePositive, SizeSteps
<1>2. \/ HeadOf(h, k + 1) = h /\ BuddyOf(h, k) = h + Size[k]
      \/ HeadOf(h, k + 1) = BuddyOf(h, k) /\ BuddyOf(h, k) = h - Size[k]
  BY Buddies
<1> QED BY <1>1, <1>2 DEF Block

\* The upper halves of a block, which expand_buddy gives back: each starts a size after
\* the head, is that head's buddy, and lies in the block.
LEMMA Halves ==
  ASSUME NEW k \in 0..MaxOrder, NEW j \in 0..k, j < k, NEW p \in Int, HeadOf(p, k) = p
  PROVE  /\ HeadOf(p, j) = p /\ BuddyOf(p, j) = p + Size[j]
         /\ HeadOf(p + Size[j], j) = p + Size[j]
         /\ BuddyOf(p + Size[j], j) = p
         /\ p + Size[j] + Size[j] <= p + Size[k]
<1>1. j \in 0..MaxOrder /\ j < MaxOrder /\ j + 1 \in 0..k
  BY MaxOrderAssumption
<1>2. HeadOf(p, j) = p /\ HeadOf(p, j + 1) = p
  BY <1>1, AlignedBelow
<1>3. BuddyOf(p, j) = p + Size[j]
  <2>1. BuddyOf(p, j) # p
    BY <1>1, <1>2, Buddies
  <2> QED BY <1>1, <1>2, <2>1, Buddies
<1>4. HeadOf(p + Size[j], j) = p + Size[j] /\ BuddyOf(p + Size[j], j) = p
  BY <1>1, <1>2, <1>3, Buddies
<1>5. 2 * Size[j] <= Size[k] /\ Size[j] \in Nat \ {0} /\ Size[k] \in Nat \ {0}
  BY <1>1, SizeGrows, SizePositive
<1> QED BY <1>2, <1>3, <1>4, <1>5

\* Every other page of a block lies in one of its upper halves.
LEMMA InSomeHalf ==
  ASSUME NEW k \in 0..MaxOrder, NEW p \in Int, NEW x \in Int, p < x, x < p + Size[k]
  PROVE  \E j \in 0..k : j < k /\ p + Size[j] <= x /\ x < p + Size[j] + Size[j]
<1> DEFINE S == {j \in 0..k : Size[j] <= x - p}
<1>1. \A j \in 0..k : Size[j] \in Nat \ {0}
  BY SizePositive, MaxOrderAssumption
<1>2. S # {}
  BY SizeSteps
<1>3. PICK j \in S : \A i \in S : i <= j
  <2>1. S \in SUBSET (0..k) /\ k \in Nat
    OBVIOUS
  <2> QED BY <1>2, <2>1, MaxIsGreatest
<1>4. j # k
  BY <1>1, <1>3
<1>5. j + 1 \in 0..k /\ j + 1 \notin S /\ j \in 0..MaxOrder /\ j < MaxOrder
  BY <1>3, <1>4, MaxOrderAssumption
<1>6. Size[j + 1] = 2 * Size[j]
  BY <1>5, SizeSteps
<1>7. ~(Size[j + 1] <= x - p)
  BY <1>5
<1> QED BY <1>1, <1>3, <1>4, <1>6, <1>7

\* The blocks met while merging upwards: the block of order top above page p is made of the
\* block of order k it started from and of the buddies met on the way, which share no page
\* with one another.
LEMMA Merging ==
  ASSUME NEW top \in 0..MaxOrder, NEW k \in 0..top, NEW p \in Int, HeadOf(p, k) = p,
         NEW x \in Int
  PROVE  /\ x \in Block(HeadOf(p, top), top) <=>
              \/ x \in Block(p, k)
              \/ \E j \in k..top - 1 : x \in Block(BuddyOf(HeadOf(p, j), j), j)
         /\ \A j \in k..top - 1 :
              x \in Block(BuddyOf(HeadOf(p, j), j), j) => x \notin Block(HeadOf(p, j), j)
<1> DEFINE h(j) == HeadOf(p, j)
           b(j) == BuddyOf(HeadOf(p, j), j)
<1>1. \A j \in k..top : j \in 0..MaxOrder
  BY MaxOrderAssumption
<1>2. \A j \in k..top : h(j) \in Int /\ HeadOf(h(j), j) = h(j)
  BY <1>1, HeadIs
<1>3. \A j \in k..top - 1 : /\ j \in k..top /\ j + 1 \in k..top
                            /\ j < MaxOrder /\ h(j + 1) = HeadOf(h(j), j + 1)
  <2> SUFFICES ASSUME NEW j \in k..top - 1
               PROVE  /\ j \in k..top /\ j + 1 \in k..top
                      /\ j < MaxOrder /\ h(j + 1) = HeadOf(h(j), j + 1)
    OBVIOUS
  <2>1. j \in k..top /\ j + 1 \in k..top /\ j < MaxOrder /\ j \in 0..j + 1
    BY MaxOrderAssumption
  <2> QED BY <1>1, <2>1, HeadOfHead
<1>4. \A j \in k..top - 1 :
        /\ x \in Block(h(j + 1), j + 1) <=> x \in Block(h(j), j) \/ x \in Block(b(j), j)
        /\ ~(x \in Block(h(j), j) /\ x \in Block(b(j), j))
  BY <1>1, <1>2, <1>3, Parent
<1>5. \A j \in k..top : x \in Block(h(j), j) => x \in Block(h(top), top)
  <2> SUFFICES ASSUME NEW j \in k..top, x \in Block(h(j), j)
               PROVE  x \in Block(h(top), top)
    OBVIOUS
  <2>1. j \in 0..top /\ Size[j] \in Int /\ Size[top] \in Int
    BY <1>1, SizePositive
  <2>2. h(top) <= h(j) /\ h(j) + Size[j] <= h(top) + Size[top]
    BY <2>1, HeadOfHead
  <2>3. h(top) \in Int /\ h(j) \in Int
    BY <1>2
  <2> HIDE DEF h
  <2> QED BY <2>1, <2>2, <2>3 DEF Block
<1>6. h(k) = p
  OBVIOUS
<1>7. ASSUME x \in Block(h(top), top), x \notin Block(p, k)
      PROVE  \E j \in k..top - 1 : x \in Block(b(j), j)
  <2> DEFINE S == {j \in k..top : x \in Block(h(j), j)}
  <2>1. top \in S /\ S \in SUBSET Nat
    BY <1>7
  <2>2. PICK j \in S : \A i \in S : j <= i
    BY <2>1, MinIsLeast
  <2>3. j # k
    BY <1>6, <1>7, <2>2
  <2>4. j - 1 \in k..top - 1 /\ j - 1 \in k..top /\ (j - 1) + 1 = j /\ ~(j <= j - 1)
    BY <2>2, <2>3
  <2>5. x \notin Block(h(j - 1), j - 1)
    BY <2>2, <2>4
  <2>6. x \in Block(b(j - 1), j - 1)
    BY <1>4, <2>2, <2>4, <2>5
  <2> QED BY <2>4, <2>6
<1> QED BY <1>3, <1>4, <1>5, <1>6, <1>7
\* A page of the zone, the head of its block and its block's buddies below the top order
\* have page structures the code may touch.
LEMMA InSlots ==
  ASSUME NEW p \in Pfns, NEW k \in Orders, NEW x \in Int,
         HeadOf(p, k) <= x, x < HeadOf(p, k) + Size[k]
  PROVE  x \in Slots /\ 0 <= HeadOf(p, k) /\ HeadOf(p, k) \in Pfns
<1> DEFINE t == Size[TopOrder]
           h == HeadOf(p, TopOrder)
           m == ((NrPages - 1) \div t + 1) * t
           n == NrPages - 1
<1>1. /\ TopOrder \in 0..MaxOrder /\ k \in 0..TopOrder /\ k \in 0..MaxOrder
      /\ MaxOrder \in 0..MaxOrder
  BY MaxOrderAssumption DEF TopOrder, Orders
<1>2. t \in Nat \ {0} /\ Size[MaxOrder] \in Nat \ {0} /\ Size[k] \in Nat \ {0}
  BY <1>1, SizePositive
<1>3. p \in Int /\ 0 <= p /\ p <= n /\ n \in Int
  BY NrPagesAssumption DEF Pfns
<1>4. /\ n \div t \in Int /\ n % t \in 0..t - 1
      /\ n = (n \div t) * t + (n % t)
  BY <1>2, <1>3, Division
<1>5. m = (n \div t) * t + t
  BY <1>2, <1>4
<1>6. m \in Int /\ n < m
  <2> DEFINE u == (n \div t) * t
  <2>1. u \in Int
    BY <1>2, <1>4
  <2>2. n = u + (n % t) /\ m = u + t
    BY <1>4, <1>5
  <2> HIDE DEF u, m, n
  <2> QED BY <1>2, <1>4, <2>1, <2>2, SMTT(20)
<1>7. HeadOf(m, TopOrder) = m
  <2>1. n \div t + 1 \in Int
    BY <1>4
  <2>2. \E a \in Int : m = a * Size[TopOrder]
    BY <2>1
  <2> QED BY <1>1, <1>6, <2>2, AlignedIsMultiple
<1>8. h \in Int /\ h <= p /\ HeadOf(h, TopOrder) = h
  BY <1>1, <1>3, HeadIs
<1> HIDE DEF m, n, t, h
<1>9. h + t <= m
  <2>1. h < m
    BY <1>3, <1>6, <1>8
  <2> QED BY <1>1, <1>6, <1>7, <1>8, <2>1, AlignedApart DEF t
<1>10. HeadOf(p, k) \in Int /\ HeadOf(p, k) <= p /\ HeadOf(HeadOf(p, k), k) = HeadOf(p, k)
  BY <1>1, <1>3, HeadIs
<1>11. HeadOf(p, k) + Size[k] <= h + t
  BY <1>1, <1>3, HeadOfHead DEF h, t
<1>12. 0 <= HeadOf(p, k)
  <2>1. HeadOf(0, k) = 0
    <3>1. 0 = 0 * Size[k]
      BY <1>2
    <3>2. \E a \in Int : 0 = a * Size[k]
      BY <3>1
    <3> QED BY <1>1, <3>2, AlignedIsMultiple
  <2>2. HeadOf(p, k) < 0 => HeadOf(p, k) + Size[k] <= 0
    BY <1>1, <1>10, <2>1, AlignedApart
  <2>3. p < HeadOf(p, k) + Size[k]
    BY <1>1, <1>3, HeadIs
  <2> QED BY <1>2, <1>3, <1>10, <2>2, <2>3
<1>13. x < m
  BY <1>2, <1>6, <1>8, <1>9, <1>10, <1>11
<1>14. HeadOf(p, k) \in Pfns
  BY <1>3, <1>10, <1>12 DEF Pfns, n
<1>15. -Size[MaxOrder] <= x
  BY <1>2, <1>10, <1>12
<1>16. x \in -Size[MaxOrder]..m - 1
  BY <1>2, <1>6, <1>13, <1>15
<1> QED BY <1>12, <1>14, <1>16 DEF Slots, m, n, t

-----------------------------------------------------------------------------
(* Lists.                                                                  *)

\* A list without repetitions loses one element when it is removed, and no other.
LEMMA RemovedOnce ==
  ASSUME NEW A, NEW s \in Seq(A), IsInjective(s), NEW e \in Range(s)
  PROVE  /\ RemoveFirst(s, e) \in Seq(A)
         /\ Len(RemoveFirst(s, e)) = Len(s) - 1
         /\ Range(RemoveFirst(s, e)) = Range(s) \ {e}
         /\ IsInjective(RemoveFirst(s, e))
<1> DEFINE I == {i \in 1..Len(s) : s[i] = e}
           n == Min(I)
           u == SubSeq(s, 1, n - 1)
           v == SubSeq(s, n + 1, Len(s))
           t == RemoveFirst(s, e)
<1>1. DOMAIN s = 1..Len(s) /\ Len(s) \in Nat /\ \A i \in 1..Len(s) : s[i] \in A
  BY LenProperties
<1>2. PICK a \in 1..Len(s) : s[a] = e
  BY <1>1 DEF Range
<1>3. n \in I
  <2>1. I # {} /\ I \in SUBSET Nat
    BY <1>1, <1>2
  <2> QED BY <2>1, MinIsLeast
<1>4. t = RemoveAt(s, n)
  BY <1>2, <1>3 DEF RemoveFirst, SelectInSeq
<1> HIDE DEF n
<1>5. n \in 1..Len(s) /\ s[n] = e
  BY <1>3
<1>6. /\ u \in Seq(A) /\ Len(u) = n - 1 /\ \A i \in 1..n - 1 : u[i] = s[i]
  <2>1. \A i \in 1..n - 1 : s[i] \in A
    BY <1>1, <1>5
  <2> QED BY <1>5, <2>1, SubSeqProperties
<1>7. /\ v \in Seq(A) /\ Len(v) = Len(s) - n /\ \A i \in 1..Len(s) - n : v[i] = s[n + i]
  <2>1. \A i \in n + 1..Len(s) : s[i] \in A
    BY <1>1, <1>5
  <2>2. n + 1 \in Int /\ Len(s) \in Int
    BY <1>1, <1>5
  <2>3. /\ v \in Seq(A)
        /\ Len(v) = IF n + 1 <= Len(s) THEN Len(s) - (n + 1) + 1 ELSE 0
        /\ \A i \in 1..Len(s) - (n + 1) + 1 : v[i] = s[(n + 1) + i - 1]
    BY <2>1, <2>2, SubSeqProperties
  <2>4. Len(v) = Len(s) - n
    <3>1. \A l, m \in Nat : m <= l => (IF m + 1 <= l THEN l - (m + 1) + 1 ELSE 0) = l - m
      OBVIOUS
    <3>2. n \in Nat /\ Len(s) \in Nat /\ n <= Len(s)
      BY <1>1, <1>5
    <3>3. (IF n + 1 <= Len(s) THEN Len(s) - (n + 1) + 1 ELSE 0) = Len(s) - n
      BY <3>1, <3>2
    <3> HIDE DEF v
    <3> QED BY <2>3, <3>3
  <2>5. ASSUME NEW i \in 1..Len(s) - n PROVE v[i] = s[n + i]
    <3>1. i \in 1..Len(s) - (n + 1) + 1 /\ (n + 1) + i - 1 = n + i
      BY <1>1, <1>5
    <3>2. v[i] = s[(n + 1) + i - 1]
      BY <2>3, <3>1
    <3> QED BY <3>1, <3>2
  <2> QED BY <2>3, <2>4, <2>5
<1>8. t = u \o v
  BY <1>4 DEF RemoveAt
<1> HIDE DEF u, v, t
<1>9. /\ t \in Seq(A) /\ Len(t) = Len(s) - 1
      /\ \A i \in 1..Len(s) - 1 : t[i] = IF i < n THEN s[i] ELSE s[i + 1]
  <2>1. /\ t \in Seq(A) /\ Len(t) = Len(u) + Len(v)
        /\ \A i \in 1..Len(u) + Len(v) : t[i] = IF i <= Len(u) THEN u[i] ELSE v[i - Len(u)]
    BY <1>6, <1>7, <1>8, ConcatProperties
  <2>2. Len(t) = Len(s) - 1
    BY <1>1, <1>5, <1>6, <1>7, <2>1
  <2>3. ASSUME NEW i \in 1..Len(s) - 1 PROVE t[i] = IF i < n THEN s[i] ELSE s[i + 1]
    <3>3. i \in 1..Len(u) + Len(v)
      BY <1>1, <1>5, <1>6, <1>7
    <3>4. t[i] = IF i <= Len(u) THEN u[i] ELSE v[i - Len(u)]
      BY <2>1, <3>3
    <3>1. CASE i < n
      <4>1. i <= Len(u) /\ i \in 1..n - 1
        BY <1>5, <1>6, <3>1
      <4> QED BY <1>6, <3>1, <3>4, <4>1
    <3>2. CASE i >= n
      <4>1. i - (n - 1) \in 1..Len(s) - n /\ n + (i - (n - 1)) = i + 1
        BY <1>1, <1>5, <3>2
      <4>2. ~(i <= Len(u)) /\ Len(u) = n - 1
        BY <1>5, <1>6, <3>2
      <4>3. t[i] = v[i - (n - 1)]
        BY <3>4, <4>2
      <4> QED BY <1>5, <1>7, <3>2, <4>1, <4>3
    <3> QED BY <1>5, <3>1, <3>2
  <2> QED BY <2>1, <2>2, <2>3
<1>10. DOMAIN t = 1..Len(s) - 1
  BY <1>9, LenProperties
<1>11. ASSUME NEW y PROVE y \in Range(t) <=> y \in Range(s) \ {e}
  <2>1. ASSUME y \in Range(t) PROVE y \in Range(s) \ {e}
    <3>1. PICK i \in 1..Len(s) - 1 : t[i] = y
      BY <1>10, <2>1 DEF Range
    <3>2. PICK j \in 1..Len(s) : y = s[j] /\ j # n
      <4>1. CASE i < n
        BY <1>1, <1>5, <1>9, <3>1, <4>1, SMTT(20)
      <4>2. CASE ~(i < n)
        <5>1. i + 1 \in 1..Len(s) /\ i + 1 # n
          BY <1>1, <1>5, <4>2
        <5> QED BY <1>9, <3>1, <4>2, <5>1
      <4> QED BY <4>1, <4>2
    <3>3. y # e
      BY <1>1, <1>5, <3>2 DEF IsInjective
    <3> QED BY <1>1, <3>2, <3>3 DEF Range
  <2>2. ASSUME y \in Range(s) \ {e} PROVE y \in Range(t)
    <3>1. PICK j \in 1..Len(s) : y = s[j]
      BY <1>1, <2>2 DEF Range
    <3>2. j # n
      BY <1>5, <2>2, <3>1
    <3>3. CASE j < n
      <4>1. j \in 1..Len(s) - 1
        BY <1>1, <1>5, <3>3
      <4> QED BY <1>9, <1>10, <3>1, <3>3, <4>1 DEF Range
    <3>4. CASE j > n
      <4>1. j - 1 \in 1..Len(s) - 1 /\ ~(j - 1 < n) /\ (j - 1) + 1 = j
        BY <1>1, <1>5, <3>4
      <4>2. t[j - 1] = y
        BY <1>9, <3>1, <4>1
      <4> QED BY <1>10, <4>1, <4>2 DEF Range
    <3> QED BY <1>5, <3>2, <3>3, <3>4
  <2> QED BY <2>1, <2>2
<1>12. IsInjective(t)
  <2> SUFFICES ASSUME NEW i \in 1..Len(s) - 1, NEW j \in 1..Len(s) - 1, t[i] = t[j]
               PROVE  i = j
    BY <1>10 DEF IsInjective
  <2> DEFINE c == IF i < n THEN i ELSE i + 1
             d == IF j < n THEN j ELSE j + 1
  <2>1. c \in 1..Len(s) /\ d \in 1..Len(s) /\ s[c] = s[d]
    BY <1>1, <1>5, <1>9
  <2>2. c = d
    BY <1>1, <2>1 DEF IsInjective
  <2> QED BY <1>1, <1>5, <2>2
<1> QED BY <1>9, <1>11, <1>12 DEF t

\* A list without repetitions stays so when something new is appended.
LEMMA AppendedOnce ==
  ASSUME NEW A, NEW s \in Seq(A), NEW e \in A
  PROVE  /\ Append(s, e) \in Seq(A)
         /\ Len(Append(s, e)) = Len(s) + 1
         /\ Range(Append(s, e)) = Range(s) \cup {e}
         /\ IsInjective(s) /\ e \notin Range(s) => IsInjective(Append(s, e))
<1> DEFINE t == Append(s, e)
<1>1. DOMAIN s = 1..Len(s) /\ Len(s) \in Nat
  BY LenProperties
<1>2. /\ t \in Seq(A) /\ Len(t) = Len(s) + 1
      /\ \A i \in 1..Len(s) : t[i] = s[i]
      /\ t[Len(s) + 1] = e
  BY AppendProperties
<1> HIDE DEF t
<1>3. DOMAIN t = 1..Len(s) + 1
  BY <1>2, LenProperties
<1>4. ASSUME NEW y PROVE y \in Range(t) <=> y \in Range(s) \cup {e}
  <2>1. y \in Range(t) => y \in Range(s) \cup {e}
    BY <1>1, <1>2, <1>3 DEF Range
  <2>2. y \in Range(s) => y \in Range(t)
    BY <1>1, <1>2, <1>3 DEF Range
  <2>3. e \in Range(t)
    <3>1. Len(s) + 1 \in DOMAIN t
      BY <1>1, <1>3
    <3> QED BY <1>2, <3>1 DEF Range
  <2> QED BY <2>1, <2>2, <2>3
<1>5. ASSUME IsInjective(s), e \notin Range(s) PROVE IsInjective(t)
  BY <1>1, <1>2, <1>3, <1>5 DEF IsInjective, Range
<1> QED BY <1>2, <1>4, <1>5 DEF t

\* A list without repetitions loses its first element, and no other, when it is taken off.
LEMMA TakenOnce ==
  ASSUME NEW A, NEW s \in Seq(A), s # <<>>, IsInjective(s)
  PROVE  /\ Head(s) \in Range(s) /\ Head(s) \in A
         /\ Tail(s) \in Seq(A)
         /\ Len(Tail(s)) = Len(s) - 1
         /\ Range(Tail(s)) = Range(s) \ {Head(s)}
         /\ IsInjective(Tail(s))
<1> DEFINE t == Tail(s)
<1>1. DOMAIN s = 1..Len(s) /\ Len(s) \in Nat \ {0} /\ Head(s) = s[1]
  BY LenProperties, EmptySeq
<1>2. /\ Head(s) \in A /\ t \in Seq(A) /\ Len(t) = Len(s) - 1
      /\ \A i \in 1..Len(t) : t[i] = s[i + 1]
  BY HeadTailProperties
<1>3. DOMAIN t = 1..Len(s) - 1
  BY <1>2, LenProperties
<1> HIDE DEF t
<1>4. ASSUME NEW y PROVE y \in Range(t) <=> y \in Range(s) \ {Head(s)}
  <2>1. ASSUME y \in Range(t) PROVE y \in Range(s) \ {Head(s)}
    <3>1. PICK i \in 1..Len(s) - 1 : y = t[i]
      BY <1>3, <2>1 DEF Range
    <3>2. i + 1 \in 1..Len(s) /\ i + 1 # 1 /\ 1 \in 1..Len(s)
      BY <1>1
    <3>3. y = s[i + 1]
      BY <1>2, <3>1
    <3> QED BY <1>1, <3>2, <3>3 DEF Range, IsInjective
  <2>2. ASSUME y \in Range(s) \ {Head(s)} PROVE y \in Range(t)
    <3>1. PICK j \in 1..Len(s) : y = s[j]
      BY <1>1, <2>2 DEF Range
    <3>2. j - 1 \in 1..Len(s) - 1 /\ (j - 1) + 1 = j
      BY <1>1, <2>2, <3>1
    <3>3. t[j - 1] = y
      BY <1>2, <3>1, <3>2
    <3> QED BY <1>3, <3>2, <3>3 DEF Range
  <2> QED BY <2>1, <2>2
<1>5. IsInjective(t)
  <2> SUFFICES ASSUME NEW i \in 1..Len(s) - 1, NEW j \in 1..Len(s) - 1, t[i] = t[j]
               PROVE  i = j
    BY <1>3 DEF IsInjective
  <2>1. i + 1 \in 1..Len(s) /\ j + 1 \in 1..Len(s) /\ s[i + 1] = s[j + 1]
    BY <1>1, <1>2
  <2>2. i + 1 = j + 1
    BY <1>1, <2>1 DEF IsInjective
  <2> QED BY <2>2
<1>6. Head(s) \in Range(s)
  BY <1>1 DEF Range
<1> QED BY <1>2, <1>4, <1>5, <1>6 DEF t

\* A list without its last element is the list again once that is appended.
LEMMA LastRemoved ==
  ASSUME NEW A, NEW s \in Seq(A), s # <<>>
  PROVE  /\ Len(s) \in DOMAIN s /\ s[Len(s)] \in A
         /\ RemoveAt(s, Len(s)) \in Seq(A)
         /\ DOMAIN RemoveAt(s, Len(s)) = 1..Len(s) - 1
         /\ \A i \in 1..Len(s) - 1 : RemoveAt(s, Len(s))[i] = s[i]
         /\ Append(RemoveAt(s, Len(s)), s[Len(s)]) = s
<1> DEFINE t == RemoveAt(s, Len(s))
           u == SubSeq(s, 1, Len(s) - 1)
<1>1. DOMAIN s = 1..Len(s) /\ Len(s) \in Nat /\ Len(s) # 0 /\ \A i \in 1..Len(s) : s[i] \in A
  BY LenProperties, EmptySeq
<1>2. t = u \o <<>>
  <2>1. SubSeq(s, Len(s) + 1, Len(s)) = <<>>
    BY <1>1, SubSeqEmpty
  <2> QED BY <2>1 DEF RemoveAt
<1>3. u \in Seq(A) /\ Len(u) = Len(s) - 1 /\ \A i \in 1..Len(s) - 1 : u[i] = s[i]
  <2>1. \A i \in 1..Len(s) - 1 : s[i] \in A
    BY <1>1
  <2>2. Len(s) - 1 \in Int /\ 1 \in Int
    BY <1>1
  <2>3. /\ u \in Seq(A)
        /\ Len(u) = IF 1 <= Len(s) - 1 THEN (Len(s) - 1) - 1 + 1 ELSE 0
        /\ \A i \in 1..(Len(s) - 1) - 1 + 1 : u[i] = s[1 + i - 1]
    BY <2>1, <2>2, SubSeqProperties
  <2>4. (Len(s) - 1) - 1 + 1 = Len(s) - 1 /\ \A i \in 1..Len(s) - 1 : 1 + i - 1 = i
    BY <1>1
  <2>5. \A m \in Nat : m # 0 => (IF 1 <= m - 1 THEN m - 1 ELSE 0) = m - 1
    OBVIOUS
  <2> HIDE DEF u
  <2>6. Len(u) = Len(s) - 1
    BY <1>1, <2>3, <2>4, <2>5
  <2>7. \A i \in 1..Len(s) - 1 : u[i] = s[i]
    BY <2>3, <2>4
  <2> QED BY <2>3, <2>6, <2>7
<1>4. t = u
  <2> HIDE DEF u, t
  <2> QED BY <1>2, <1>3, ConcatEmptySeq
<1>5. /\ Append(t, s[Len(s)]) \in Seq(A)
      /\ Len(Append(t, s[Len(s)])) = Len(t) + 1
      /\ \A i \in 1..Len(t) : Append(t, s[Len(s)])[i] = t[i]
      /\ Append(t, s[Len(s)])[Len(t) + 1] = s[Len(s)]
  <2>1. s[Len(s)] \in A
    BY <1>1
  <2> HIDE DEF u, t
  <2> QED BY <1>3, <1>4, <2>1, AppendProperties
<1>6. Append(t, s[Len(s)]) = s
  <2> HIDE DEF u, t
  <2>1. Len(Append(t, s[Len(s)])) = Len(s)
    BY <1>1, <1>3, <1>4, <1>5
  <2>2. \A i \in 1..Len(s) : Append(t, s[Len(s)])[i] = s[i]
    BY <1>1, <1>3, <1>4, <1>5
  <2> QED BY <1>5, <2>1, <2>2, SeqEqual
<1>7. DOMAIN t = 1..Len(s) - 1
  BY <1>3, <1>4, LenProperties
<1> QED BY <1>1, <1>3, <1>4, <1>6, <1>7

\* The uses of the allocator in which it is right.
Working == AllocSizes \subseteq {1} /\ Frees # "any" /\ PagesZeroed /\ LastPageAvail

-----------------------------------------------------------------------------
(* The inductive invariant.                                                *)

OnList(k)  == Range(free[k])
FreeBlocks == PagesOf(FreeHeads)
HeldPfns   == {b.pfn : b \in Range(held)}

\* The pages handed out, oldest first, with the one that is being released.
Stack == IF todo.nr > 0 /\ flag[todo.pfn]
         THEN Append(held, [pfn |-> todo.pfn, nr |-> 1]) ELSE held
HeadAt(i)  == Stack[i].pfn
OrderAt(i) == order[HeadAt(i)]

\* No list has a block twice.
Once == \A k \in Orders : IsInjective(free[k])

\* Free blocks share no page.
Apart ==
  \A j, k \in Orders : \A p \in OnList(j), q \in OnList(k) :
    p # q \/ j # k => Block(p, j) \cap Block(q, k) = {}

\* A page is used, free, about to be freed or not yet looked at, and not two of these.
Parts ==
  /\ Avail = Pfns \ used
  /\ used = HeldPfns \cup reserved
  /\ FreeBlocks \cap TodoPages = {}
  /\ \A x \in FreeBlocks \cup TodoPages : x < r

\* No page is held twice, and none that was never memory.
HeldOnce ==
  /\ \A i, j \in DOMAIN held : held[i].pfn = held[j].pfn => i = j
  /\ HeldPfns \subseteq Pfns \ reserved

\* Nothing is handed out before the scan is over, and what it finds has no flag.
BootFirst ==
  /\ NrPages - 1 \notin reserved
  /\ r < NrPages => held = <<>>
  /\ todo.nr > 0 /\ ~flag[todo.pfn] => held = <<>>
  /\ todo.nr > 0 /\ flag[todo.pfn] => todo.nr = 1 /\ r = NrPages
  /\ \A q \in TodoPages : q # todo.pfn => ~flag[q]

\* What a flag that was never cleared may mean.
Flagged ==
  \A q \in Slots : flag[q] =>
    /\ q \in Pfns /\ HeadOf(q, order[q]) = q
    /\ \/ q \in OnList(order[q])
       \/ \E i \in DOMAIN Stack : q = HeadAt(i)
       \/ \E m \in Orders : \E g \in OnList(m) :
            m > order[q] /\ Block(q, order[q]) \subseteq Block(g, m)

\* The pages handed out still look like the blocks they were the first pages of, and no
\* two of these blocks, nor one of them and a free one, look like a pair to merge.
StackPages ==
  \A i \in DOMAIN Stack :
    /\ flag[HeadAt(i)] /\ HeadOf(HeadAt(i), OrderAt(i)) = HeadAt(i)
    /\ OrderAt(i) < TopOrder =>
         /\ BuddyOf(HeadAt(i), OrderAt(i)) \notin OnList(OrderAt(i))
         /\ \A l \in DOMAIN Stack :
              OrderAt(l) = OrderAt(i) => HeadAt(l) # BuddyOf(HeadAt(i), OrderAt(i))

\* The upper halves of those blocks are free, or were handed out later.
StackHalves ==
  \A i \in DOMAIN Stack : \A j \in Orders : j < OrderAt(i) =>
    \/ HeadAt(i) + Size[j] \in OnList(j)
    \/ \E l \in DOMAIN Stack :
         l > i /\ HeadAt(l) = HeadAt(i) + Size[j] /\ OrderAt(l) = j

Counted == nr_free_pages = Cardinality(FreeBlocks \cup TodoPages)

ListsInv == ListsExact /\ Once /\ Apart /\ Coalesced
PagesInv == Parts /\ HeldOnce /\ BootFirst /\ Counted
StackInv == Flagged /\ StackPages /\ StackHalves
IInv == TypeOK /\ ListsInv /\ PagesInv /\ StackInv

-----------------------------------------------------------------------------
(* Consequences.                                                           *)

\* The pages of the blocks on the lists.
LEMMA PagesOnLists ==
  ASSUME NEW f \in [Orders -> Seq(Slots)], NEW x
  PROVE  x \in PagesOf({h \in Slots \X Orders : h[1] \in Range(f[h[2]])}) <=>
           \E k \in Orders : \E p \in Range(f[k]) : x \in Block(p, k)
<1> DEFINE heads == {h \in Slots \X Orders : h[1] \in Range(f[h[2]])}
<1>1. ASSUME x \in PagesOf(heads)
      PROVE  \E k \in Orders : \E p \in Range(f[k]) : x \in Block(p, k)
  <2>1. PICK h \in heads : x \in Block(h[1], h[2])
    BY <1>1 DEF PagesOf
  <2>2. h[2] \in Orders /\ h[1] \in Range(f[h[2]])
    OBVIOUS
  <2> QED BY <2>1, <2>2
<1>2. ASSUME NEW k \in Orders, NEW p \in Range(f[k]), x \in Block(p, k)
      PROVE  x \in PagesOf(heads)
  <2>1. p \in Slots
    BY RangeOfSeq
  <2>2. <<p, k>> \in heads
    BY <2>1
  <2>3. Block(<<p, k>>[1], <<p, k>>[2]) \in {Block(h[1], h[2]) : h \in heads}
    BY <2>2
  <2> QED BY <1>2, <2>3 DEF PagesOf
<1> QED BY <1>1, <1>2

\* The pages of the free blocks of a state.
LEMMA FreeBlocksAre ==
  ASSUME TypeOK, NEW x
  PROVE  x \in FreeBlocks <=> \E k \in Orders : \E p \in OnList(k) : x \in Block(p, k)
<1>1. free \in [Orders -> Seq(Slots)]
  BY DEF TypeOK
<1> QED BY <1>1, PagesOnLists DEF FreeBlocks, FreeHeads, OnList

\* What is free or about to be is memory nobody uses.
LEMMA Unused ==
  ASSUME TypeOK, Parts
  PROVE  /\ FreeBlocks \subseteq Pfns /\ TodoPages \subseteq Pfns
         /\ FreeBlocks \cap used = {} /\ TodoPages \cap used = {}
BY DEF TypeOK, Parts, Avail, FreeBlocks

\* Page frames are numbers that have a page structure.
LEMMA PfnsAre == Pfns \subseteq Slots /\ Slots \subseteq Int /\ Orders \subseteq 0..MaxOrder
<1>1. Orders \subseteq 0..MaxOrder
  BY MaxOrderAssumption DEF Orders, TopOrder
<1>2. 0 \in Orders /\ TopOrder \in 0..MaxOrder
  BY MaxOrderAssumption DEF Orders, TopOrder
<1>3. Size[0] = 1
  BY SizeSteps
<1>4. ASSUME NEW p \in Pfns PROVE p \in Slots
  <2>1. p \in Int /\ 0 \in 0..MaxOrder
    BY MaxOrderAssumption DEF Pfns
  <2>2. HeadOf(p, 0) <= p /\ p < HeadOf(p, 0) + Size[0]
    BY <2>1, HeadIs
  <2> QED BY <1>2, <2>1, <2>2, InSlots
<1>5. Slots \subseteq Int
  BY DEF Slots
<1> QED BY <1>1, <1>4, <1>5

\* The pages handed out, counting the one being released.
LEMMA StackIs ==
  ASSUME TypeOK, Parts, HeldOnce, BootFirst
  PROVE  /\ Stack \in Seq([pfn : Slots, nr : Nat])
         /\ DOMAIN held \subseteq DOMAIN Stack
         /\ \A i \in DOMAIN held : HeadAt(i) = held[i].pfn
         /\ \A i \in DOMAIN Stack : HeadAt(i) \in Pfns /\ HeadAt(i) \notin FreeBlocks
         /\ \A i, l \in DOMAIN Stack : HeadAt(i) = HeadAt(l) => i = l
         /\ todo.nr > 0 /\ flag[todo.pfn] =>
              /\ DOMAIN Stack = DOMAIN held \cup {Len(held) + 1}
              /\ HeadAt(Len(held) + 1) = todo.pfn
              /\ \A i \in DOMAIN held : i < Len(held) + 1
<1> DEFINE R == [pfn : Slots, nr : Nat]
<1>1. held \in Seq(R) /\ DOMAIN held = 1..Len(held) /\ Len(held) \in Nat
  <2>1. held \in Seq([pfn : Slots, nr : AllocSizes]) /\ AllocSizes \subseteq Nat
    BY AllocSizesAssumption, NrPagesAssumption DEF TypeOK
  <2>2. [pfn : Slots, nr : AllocSizes] \subseteq R
    BY <2>1
  <2>3. held \in Seq(R)
    BY <2>1, <2>2, SeqMonotonic
  <2> QED BY <2>3, LenProperties
<1>2. \A i \in DOMAIN held : held[i].pfn \in HeldPfns
  BY DEF HeldPfns, Range
<1>3. \A i \in DOMAIN held : held[i].pfn \in Pfns /\ held[i].pfn \in used
                             /\ held[i].pfn \notin FreeBlocks
  BY <1>2, Unused DEF HeldOnce, Parts
<1>4. CASE ~(todo.nr > 0 /\ flag[todo.pfn])
  <2>1. Stack = held
    BY <1>4 DEF Stack
  <2> QED BY <1>1, <1>3, <1>4, <2>1 DEF HeadAt, HeldOnce
<1>5. CASE todo.nr > 0 /\ flag[todo.pfn]
  <2> DEFINE e == [pfn |-> todo.pfn, nr |-> 1]
             n == Len(held) + 1
  <2>1. Stack = Append(held, e)
    BY <1>5 DEF Stack
  <2>2. todo.pfn \in TodoPages
    BY <1>5 DEF TypeOK, TodoPages
  <2>3. todo.pfn \in Pfns /\ todo.pfn \notin used /\ todo.pfn \notin FreeBlocks
    BY <2>2, Unused DEF Parts
  <2>4. e \in R
    BY <2>3, PfnsAre
  <2>5. /\ Stack \in Seq(R) /\ Len(Stack) = n
        /\ \A i \in 1..Len(held) : Stack[i] = held[i]
        /\ Stack[n] = e
    <3> HIDE DEF e, R
    <3> QED BY <1>1, <2>1, <2>4, AppendProperties
  <2>6. DOMAIN Stack = 1..n
    BY <2>5, LenProperties
  <2>7. HeadAt(n) = todo.pfn /\ \A i \in DOMAIN held : HeadAt(i) = held[i].pfn
    BY <1>1, <2>5 DEF HeadAt
  <2>8. DOMAIN Stack = DOMAIN held \cup {n} /\ \A i \in DOMAIN held : i < n
    BY <1>1, <2>6
  <2>9. \A i \in DOMAIN Stack : HeadAt(i) \in Pfns /\ HeadAt(i) \notin FreeBlocks
    BY <1>3, <2>3, <2>7, <2>8
  <2>10. \A i, l \in DOMAIN Stack : HeadAt(i) = HeadAt(l) => i = l
    BY <1>3, <2>3, <2>7, <2>8 DEF HeldOnce
  <2> QED BY <2>5, <2>7, <2>8, <2>9, <2>10
<1> QED BY <1>4, <1>5

\* A page that is about to be freed is not next to a block that a greater free one covers.
LEMMA NotCovered ==
  ASSUME TypeOK, ListsExact, Parts,
         NEW p \in TodoPages, NEW j \in Orders, NEW m \in Orders, j < m, NEW g \in OnList(m),
         BuddyOf(HeadOf(p, j), j) \in Block(g, m)
  PROVE  FALSE
<1> DEFINE h == HeadOf(p, j)
           b == BuddyOf(h, j)
           u == HeadOf(p, j + 1)
<1>1. p \in Int
  BY Unused, PfnsAre
<1>2. j \in 0..MaxOrder /\ m \in 0..MaxOrder /\ j + 1 \in 0..m /\ j < MaxOrder /\ j + 1 \in 0..MaxOrder
  BY MaxOrderAssumption DEF Orders, TopOrder
<1>3. g \in Int /\ HeadOf(g, m) = g
  <2>1. g \in Slots
    BY RangeOfSeq DEF TypeOK, OnList
  <2> QED BY <2>1, PfnsAre DEF ListsExact, OnList
<1>4. h \in Int /\ HeadOf(h, j) = h /\ h <= p /\ p < h + Size[j]
  BY <1>1, <1>2, HeadIs
<1>5. u \in Int /\ HeadOf(u, j + 1) = u /\ u <= p /\ p < u + Size[j + 1]
  BY <1>1, <1>2, HeadIs
<1>6. u = HeadOf(h, j + 1)
  <2>1. j \in 0..j + 1
    BY <1>2
  <2> QED BY <1>1, <1>2, <2>1, HeadOfHead
<1>7. b \in Int /\ b \in Block(u, j + 1)
  <2>1. b \in Int
    BY <1>2, <1>4, Buddies
  <2>2. b \in Block(b, j)
    BY <1>2, <2>1, SizePositive DEF Block
  <2> QED BY <1>2, <1>4, <1>6, <2>1, <2>2, Parent
<1>8. Size[m] \in Nat \ {0} /\ Size[j + 1] \in Nat \ {0}
  BY <1>2, SizePositive
<1> HIDE DEF h, b, u
<1>9. u < g + Size[m] /\ g < u + Size[j + 1]
  <2>1. b \in Block(g, m)
    BY DEF b, h
  <2> QED BY <1>3, <1>5, <1>7, <1>8, <2>1 DEF Block
<1>10. g <= u /\ u + Size[j + 1] <= g + Size[m]
  BY <1>2, <1>3, <1>5, <1>9, Nesting
<1>11. p \in Block(g, m)
  BY <1>1, <1>3, <1>5, <1>8, <1>10 DEF Block
<1>12. p \in FreeBlocks
  BY <1>11, FreeBlocksAre
<1> QED BY <1>12 DEF Parts

\* The first block buddy_page_free cuts off the range.
LEMMA FirstBlock ==
  ASSUME TypeOK, Parts, todo.nr > 0
  PROVE  /\ LargestOrder(todo) \in Orders
         /\ HeadOf(todo.pfn, LargestOrder(todo)) = todo.pfn
         /\ Size[LargestOrder(todo)] <= todo.nr
         /\ Block(todo.pfn, LargestOrder(todo)) \subseteq TodoPages
         /\ todo.pfn \in TodoPages /\ todo.pfn \in Pfns
<1> DEFINE S == {k \in Orders : todo.pfn % Size[k] = 0 /\ todo.nr >= Size[k]}
           k == LargestOrder(todo)
<1>1. todo.pfn \in Int /\ todo.nr \in Nat
  BY DEF TypeOK
<1>2. 0 \in S
  <2>1. Size[0] = 1 /\ 0 \in Orders
    BY SizeSteps, MaxOrderAssumption DEF Orders, TopOrder
  <2>2. todo.pfn % 1 = 0
    BY <1>1
  <2> QED BY <1>1, <2>1, <2>2
<1>3. TopOrder \in Nat /\ S \in SUBSET (0..TopOrder)
  BY MaxOrderAssumption DEF Orders, TopOrder
<1>4. k \in S
  BY <1>2, <1>3, MaxIsGreatest DEF LargestOrder
<1> HIDE DEF k
<1>5. HeadOf(todo.pfn, k) = todo.pfn
  BY <1>1, <1>4 DEF HeadOf
<1>6. Size[k] \in Nat \ {0}
  BY <1>4, PfnsAre, SizePositive
<1>7. Block(todo.pfn, k) \subseteq TodoPages /\ todo.pfn \in TodoPages
  BY <1>1, <1>4, <1>6 DEF Block, TodoPages
<1> QED BY <1>4, <1>5, <1>7, Unused DEF k

\* Where merging stops.
LEMMA MergeStops ==
  ASSUME NEW p, NEW k \in Orders
  PROVE  /\ MergedOrder(p, k) \in k..TopOrder
         /\ \A j \in k..MergedOrder(p, k) - 1 : IsBuddy(BuddyOf(HeadOf(p, j), j), j)
         /\ MergedOrder(p, k) < TopOrder =>
              ~IsBuddy(BuddyOf(HeadOf(p, MergedOrder(p, k)), MergedOrder(p, k)), MergedOrder(p, k))
<1> DEFINE S == {j \in k..TopOrder : j = TopOrder \/ ~IsBuddy(BuddyOf(HeadOf(p, j), j), j)}
           top == MergedOrder(p, k)
<1>1. TopOrder \in S /\ S \in SUBSET Nat
  BY MaxOrderAssumption DEF Orders, TopOrder
<1>2. top \in S /\ \A j \in S : top <= j
  BY <1>1, MinIsLeast DEF MergedOrder
<1> HIDE DEF top
<1>3. ASSUME NEW j \in k..top - 1 PROVE IsBuddy(BuddyOf(HeadOf(p, j), j), j)
  <2>1. k \in Int /\ top \in k..TopOrder /\ TopOrder \in Int
    BY <1>2, MaxOrderAssumption DEF Orders, TopOrder
  <2>2. j \in k..TopOrder /\ ~(top <= j)
    BY <2>1
  <2> QED BY <1>2, <2>2
<1>4. top < TopOrder => ~IsBuddy(BuddyOf(HeadOf(p, top), top), top)
  <2>1. \A t \in Int : t < TopOrder => t # TopOrder
    BY MaxOrderAssumption DEF TopOrder
  <2>2. top \in Int
    BY <1>1, <1>2
  <2> QED BY <1>2, <2>1, <2>2
<1> QED BY <1>2, <1>3, <1>4 DEF top

\* Releasing a page merges exactly the halves that were split off when it was handed out.
LEMMA ReleaseStops ==
  ASSUME IInv, todo.nr > 0, flag[todo.pfn]
  PROVE  /\ LargestOrder(todo) = 0
         /\ order[todo.pfn] \in Orders
         /\ MergedOrder(todo.pfn, 0) = order[todo.pfn]
         /\ \A i \in Orders : i <= order[todo.pfn] => HeadOf(todo.pfn, i) = todo.pfn
         /\ \A i \in Orders : i < order[todo.pfn] =>
              /\ BuddyOf(todo.pfn, i) = todo.pfn + Size[i]
              /\ todo.pfn + Size[i] \in OnList(i)
<1> DEFINE p == todo.pfn
           n == Len(held) + 1
           K == order[p]
           top == MergedOrder(p, 0)
<1> USE DEF IInv, ListsInv, PagesInv, StackInv
<1>1. p \in TodoPages /\ p \in Pfns /\ p \in Int /\ p \in Slots
  BY FirstBlock, PfnsAre
<1>2. /\ n \in DOMAIN Stack /\ HeadAt(n) = p
      /\ \A i \in DOMAIN Stack : i <= n /\ i \in Int
  <2>1. held \in Seq([pfn : Slots, nr : AllocSizes])
    BY DEF TypeOK
  <2>2. DOMAIN held = 1..Len(held) /\ Len(held) \in Nat
    BY <2>1, LenProperties
  <2> QED BY <2>2, StackIs
<1>3. OrderAt(n) = K /\ K \in Orders /\ HeadOf(p, K) = p /\ K \in 0..MaxOrder
  <2>1. OrderAt(n) = K /\ HeadOf(p, K) = p
    BY <1>2 DEF OrderAt, StackPages
  <2> QED BY <1>1, <2>1, PfnsAre DEF TypeOK
<1>4. LargestOrder(todo) = 0
  <2> DEFINE k == LargestOrder(todo)
  <2>1. k \in Orders /\ Size[k] <= todo.nr
    BY FirstBlock
  <2>2. todo.nr = 1
    BY DEF BootFirst
  <2>3. k \in 0..MaxOrder
    BY <2>1, PfnsAre
  <2>4. k # 0 => 2 * Size[0] <= Size[k]
    BY <2>3, SizeGrows
  <2> QED BY <2>1, <2>2, <2>3, <2>4, SizeSteps, SizePositive
<1>5. /\ top \in 0..TopOrder /\ top \in Orders /\ TopOrder \in Nat
      /\ \A i \in 0..top - 1 : IsBuddy(BuddyOf(HeadOf(p, i), i), i)
      /\ top < TopOrder => ~IsBuddy(BuddyOf(HeadOf(p, top), top), top)
  <2>1. 0 \in Orders /\ TopOrder \in Nat /\ Orders = 0..TopOrder
    BY MaxOrderAssumption DEF Orders, TopOrder
  <2> QED BY <2>1, MergeStops
<1>6. \A i \in Orders : i <= K => HeadOf(p, i) = p
  <2> SUFFICES ASSUME NEW i \in Orders, i <= K PROVE HeadOf(p, i) = p
    OBVIOUS
  <2>1. i \in 0..K
    BY <1>3 DEF Orders
  <2> QED BY <1>1, <1>3, <2>1, AlignedBelow
<1>7. \A i \in Orders : i < K => BuddyOf(p, i) = p + Size[i] /\ p + Size[i] \in OnList(i)
  <2> SUFFICES ASSUME NEW i \in Orders, i < K
               PROVE  BuddyOf(p, i) = p + Size[i] /\ p + Size[i] \in OnList(i)
    OBVIOUS
  <2>1. i \in 0..K
    BY <1>3 DEF Orders
  <2>2. BuddyOf(p, i) = p + Size[i]
    BY <1>1, <1>3, <2>1, Halves
  <2> QED BY <1>2, <1>3, <2>2 DEF StackHalves
<1>8. top <= K
  <2> SUFFICES ASSUME K < top PROVE FALSE
    BY <1>3, <1>5 DEF Orders
  <2> DEFINE c == BuddyOf(p, K)
  <2>1. K \in 0..top - 1 /\ K < TopOrder /\ K < MaxOrder /\ K + 1 \in Orders
    BY <1>3, <1>5, MaxOrderAssumption DEF Orders, TopOrder
  <2>2. flag[c] /\ order[c] = K
    BY <1>3, <1>5, <2>1 DEF IsBuddy
  <2>3. c \in Int /\ c # p /\ HeadOf(c, K) = c /\ BuddyOf(c, K) = p
    BY <1>1, <1>3, <2>1, Buddies
  <2>4. c \in Block(c, K)
    BY <1>3, <2>3, SizePositive DEF Block
  <2>5. c \in Slots
    <3>1. c \in Block(HeadOf(p, K + 1), K + 1)
      BY <1>1, <1>3, <2>1, <2>3, <2>4, Parent
    <3>2. K + 1 \in 0..MaxOrder /\ HeadOf(p, K + 1) \in Int
      BY <1>1, <2>1, PfnsAre, HeadIs
    <3>3. HeadOf(p, K + 1) <= c /\ c < HeadOf(p, K + 1) + Size[K + 1]
      BY <2>3, <3>1, <3>2, SizePositive DEF Block
    <3> QED BY <1>1, <2>1, <2>3, <3>3, InSlots
  <2>6. c \notin OnList(K)
    BY <1>2, <1>3, <2>1 DEF StackPages
  <2>7. ~ \E i \in DOMAIN Stack : c = HeadAt(i)
    <3> SUFFICES ASSUME NEW i \in DOMAIN Stack, c = HeadAt(i) PROVE FALSE
      OBVIOUS
    <3>1. OrderAt(i) = K
      BY <2>2 DEF OrderAt
    <3> QED BY <1>2, <1>3, <2>1, <3>1 DEF StackPages
  <2>8. \E m \in Orders : \E g \in OnList(m) : m > K /\ Block(c, K) \subseteq Block(g, m)
    BY <2>2, <2>5, <2>6, <2>7 DEF Flagged
  <2>9. PICK m \in Orders : \E g \in OnList(m) : m > K /\ Block(c, K) \subseteq Block(g, m)
    BY <2>8
  <2>10. PICK g \in OnList(m) : m > K /\ Block(c, K) \subseteq Block(g, m)
    BY <2>9
  <2>11. K < m
    BY <1>3, <2>10 DEF Orders
  <2>12. BuddyOf(HeadOf(p, K), K) \in Block(g, m)
    BY <1>3, <2>4, <2>10
  <2> QED BY <1>1, <1>3, <2>11, <2>12, NotCovered
<1>9. K <= top
  <2> SUFFICES ASSUME top < K PROVE FALSE
    BY <1>3, <1>5 DEF Orders
  <2>1. top < TopOrder /\ HeadOf(p, top) = p
    BY <1>3, <1>5, <1>6 DEF Orders
  <2>2. BuddyOf(p, top) \in OnList(top)
    BY <1>5, <1>7
  <2>3. IsBuddy(BuddyOf(p, top), top)
    BY <1>5, <2>2 DEF ListsExact, OnList
  <2> QED BY <1>5, <2>1, <2>3
<1>10. top = K
  BY <1>3, <1>5, <1>8, <1>9 DEF Orders
<1> QED BY <1>3, <1>4, <1>6, <1>7, <1>10

\* The buddies merged are free blocks, although page_is_buddy looks at a flag that nobody
\* clears: at boot because what has a flag is free or inside a free block, later because
\* merging undoes the split the released page came out of.
LEMMA MergedAreFree ==
  ASSUME IInv, todo.nr > 0, NEW k, k = LargestOrder(todo),
         NEW top, top = MergedOrder(todo.pfn, k), NEW j \in k..top - 1
  PROVE  BuddyOf(HeadOf(todo.pfn, j), j) \in OnList(j)
<1> DEFINE p == todo.pfn
           h == HeadOf(p, j)
           b == BuddyOf(h, j)
<1> USE DEF IInv, ListsInv, PagesInv, StackInv
<1>1. k \in Orders /\ p \in TodoPages /\ p \in Pfns /\ HeadOf(p, k) = p /\ Size[k] <= todo.nr
  BY FirstBlock
<1>2. /\ top \in k..TopOrder
      /\ \A i \in k..top - 1 : IsBuddy(BuddyOf(HeadOf(p, i), i), i)
      /\ top < TopOrder => ~IsBuddy(BuddyOf(HeadOf(p, top), top), top)
  BY <1>1, MergeStops
<1>3. /\ TopOrder \in Nat /\ k \in 0..TopOrder /\ top \in 0..TopOrder /\ top \in Orders
      /\ j \in Orders /\ j < TopOrder /\ j < top /\ k <= j /\ j + 1 \in Orders
      /\ j \in 0..MaxOrder /\ j < MaxOrder /\ j + 1 \in 0..MaxOrder
  BY <1>1, <1>2, MaxOrderAssumption DEF Orders, TopOrder
<1>4. p \in Int
  BY <1>1, PfnsAre
<1>5. h \in Int /\ HeadOf(h, j) = h /\ h <= p /\ p < h + Size[j]
  BY <1>3, <1>4, HeadIs
<1>6. b \in Slots
  <2>1. b \in Int /\ b \in Block(b, j)
    BY <1>3, <1>5, Buddies, SizePositive DEF Block
  <2>2. b \in Block(HeadOf(h, j + 1), j + 1)
    BY <1>3, <1>5, <2>1, Parent
  <2>3. HeadOf(h, j + 1) = HeadOf(p, j + 1) /\ HeadOf(p, j + 1) \in Int
    <3>1. j \in 0..j + 1
      BY <1>3
    <3> QED BY <1>3, <1>4, <3>1, HeadOfHead, HeadIs
  <2>4. HeadOf(p, j + 1) <= b /\ b < HeadOf(p, j + 1) + Size[j + 1]
    BY <1>3, <2>1, <2>2, <2>3, SizePositive DEF Block
  <2> QED BY <1>1, <1>3, <2>1, <2>4, InSlots
<1>7. flag[b] /\ order[b] = j
  BY <1>2 DEF IsBuddy
<1>8. ~ \E m \in Orders : \E g \in OnList(m) : m > order[b] /\ Block(b, order[b]) \subseteq Block(g, m)
  <2> SUFFICES ASSUME NEW m \in Orders, NEW g \in OnList(m), m > j, Block(b, j) \subseteq Block(g, m)
               PROVE  FALSE
    BY <1>7
  <2>1. b \in Block(b, j)
    <3>1. b \in Int /\ Size[j] \in Nat \ {0}
      BY <1>3, <1>6, PfnsAre, SizePositive
    <3> HIDE DEF b
    <3> QED BY <3>1 DEF Block
  <2>2. BuddyOf(HeadOf(p, j), j) \in Block(g, m)
    BY <2>1
  <2>3. j < m
    BY <1>3 DEF Orders
  <2> QED BY <1>1, <1>3, <2>2, <2>3, NotCovered
<1>9. b \in OnList(j) \/ \E i \in DOMAIN Stack : b = HeadAt(i)
  BY <1>6, <1>7, <1>8 DEF Flagged
<1>10. CASE ~flag[p]
  <2>1. Stack = <<>>
    BY <1>10 DEF BootFirst, Stack
  <2> QED BY <1>9, <2>1
<1>11. CASE flag[p]
  <2>1. k = 0 /\ top = order[p] /\ order[p] \in Orders /\ j < order[p] /\ j <= order[p]
    BY <1>3, <1>11, ReleaseStops DEF Orders
  <2> QED BY <1>3, <1>11, <2>1, ReleaseStops
<1> QED BY <1>10, <1>11

-----------------------------------------------------------------------------
(* FreeBlock.                                                              *)

\* The block buddy_page_free releases next, the buddies met above it and what they merge to.
Piece       == LargestOrder(todo)
Stop        == MergedOrder(todo.pfn, Piece)
MergedAt(j) == BuddyOf(HeadOf(todo.pfn, j), j)
Merged      == HeadOf(todo.pfn, Stop)

\* The merged block is the released one and the buddies, and shares no page with the rest.
LEMMA MergedBlock ==
  ASSUME IInv, todo.nr > 0
  PROVE  /\ Piece \in Orders /\ Stop \in Orders /\ Piece <= Stop
         /\ Merged \in Pfns /\ HeadOf(Merged, Stop) = Merged
         /\ \A j \in Piece..Stop - 1 : j \in Orders /\ MergedAt(j) \in OnList(j)
         /\ \A x : x \in Block(Merged, Stop) <=>
                     \/ x \in Block(todo.pfn, Piece)
                     \/ \E j \in Piece..Stop - 1 : x \in Block(MergedAt(j), j)
         /\ Block(Merged, Stop) \subseteq Pfns
         /\ \A m \in Orders : \A q \in OnList(m) :
              ~(m \in Piece..Stop - 1 /\ q = MergedAt(m)) =>
                Block(q, m) \cap Block(Merged, Stop) = {}
         /\ Merged \notin OnList(Stop)
         /\ Stop < TopOrder => ~IsBuddy(MergedAt(Stop), Stop)
<1> DEFINE p == todo.pfn
<1> USE DEF IInv, ListsInv, PagesInv
<1>1. /\ Piece \in Orders /\ p \in TodoPages /\ p \in Pfns /\ HeadOf(p, Piece) = p
      /\ Block(p, Piece) \subseteq TodoPages
  BY FirstBlock DEF Piece
<1>2. /\ Stop \in Piece..TopOrder
      /\ Stop < TopOrder => ~IsBuddy(MergedAt(Stop), Stop)
  BY <1>1, MergeStops DEF Stop, MergedAt
<1>3. /\ Stop \in Orders /\ Piece <= Stop /\ Stop \in 0..MaxOrder /\ Piece \in 0..Stop
      /\ \A j \in Piece..Stop - 1 : j \in Orders /\ j # Stop
  BY <1>1, <1>2, MaxOrderAssumption DEF Orders, TopOrder
<1>4. \A j \in Piece..Stop - 1 : MergedAt(j) \in OnList(j)
  BY MergedAreFree DEF Piece, Stop, MergedAt
<1>5. /\ p \in Int /\ Block(Merged, Stop) \subseteq Int /\ Block(p, Piece) \subseteq Int
      /\ \A j \in Piece..Stop - 1 : Block(MergedAt(j), j) \subseteq Int
  <2>1. \A a, k : a \in Int /\ k \in 0..MaxOrder => Block(a, k) \subseteq Int
    BY SizePositive DEF Block
  <2>2. p \in Int /\ Piece \in 0..MaxOrder
    BY <1>1, PfnsAre
  <2>3. Merged \in Int
    BY <1>3, <2>2, HeadIs DEF Merged
  <2>4. \A j \in Piece..Stop - 1 : MergedAt(j) \in Int /\ j \in 0..MaxOrder
    <3> SUFFICES ASSUME NEW j \in Piece..Stop - 1 PROVE MergedAt(j) \in Int /\ j \in 0..MaxOrder
      OBVIOUS
    <3>1. j \in Orders /\ free[j] \in Seq(Slots) /\ MergedAt(j) \in Range(free[j])
      BY <1>3, <1>4 DEF TypeOK, OnList
    <3> QED BY <3>1, RangeOfSeq, PfnsAre
  <2> QED BY <1>3, <2>1, <2>2, <2>3, <2>4
<1>6. \A x \in Int : x \in Block(Merged, Stop) <=>
                       \/ x \in Block(p, Piece)
                       \/ \E j \in Piece..Stop - 1 : x \in Block(MergedAt(j), j)
  BY <1>1, <1>3, <1>5, Merging DEF Merged, MergedAt
<1>7. \A x : x \in Block(Merged, Stop) <=>
               \/ x \in Block(p, Piece)
               \/ \E j \in Piece..Stop - 1 : x \in Block(MergedAt(j), j)
  BY <1>1, <1>3, <1>5, <1>6
<1>8. \A j \in Piece..Stop - 1 : Block(MergedAt(j), j) \subseteq FreeBlocks
  BY <1>3, <1>4, FreeBlocksAre
<1>9. FreeBlocks \subseteq Pfns /\ TodoPages \subseteq Pfns /\ FreeBlocks \cap TodoPages = {}
  BY Unused DEF Parts
<1>10. Block(Merged, Stop) \subseteq Pfns
  BY <1>1, <1>7, <1>8, <1>9
<1>11. p \in Block(Merged, Stop) /\ Merged \in Block(Merged, Stop) /\ HeadOf(Merged, Stop) = Merged
  <2>1. Merged \in Int /\ Merged <= p /\ p < Merged + Size[Stop] /\ HeadOf(Merged, Stop) = Merged
    BY <1>3, <1>5, HeadIs DEF Merged
  <2>2. Size[Stop] \in Nat \ {0}
    BY <1>3, SizePositive
  <2> QED BY <1>5, <2>1, <2>2 DEF Block
<1>12. ASSUME NEW m \in Orders, NEW q \in OnList(m), ~(m \in Piece..Stop - 1 /\ q = MergedAt(m)),
              NEW x \in Block(q, m), x \in Block(Merged, Stop)
       PROVE  FALSE
  <2>1. x \in FreeBlocks
    BY FreeBlocksAre
  <2>2. x \notin Block(p, Piece)
    BY <1>1, <1>9, <2>1
  <2>3. PICK j \in Piece..Stop - 1 : x \in Block(MergedAt(j), j)
    BY <1>7, <1>12, <2>2
  <2>4. q # MergedAt(j) \/ m # j
    BY <1>12
  <2>5. Block(q, m) \cap Block(MergedAt(j), j) = {}
    BY <1>3, <1>4, <2>4 DEF Apart
  <2> QED BY <2>3, <2>5
<1>13. Merged \notin OnList(Stop)
  <2>1. p \notin FreeBlocks
    BY <1>1, <1>9
  <2> QED BY <1>3, <1>11, <2>1, FreeBlocksAre
<1> QED BY <1>1, <1>2, <1>3, <1>4, <1>7, <1>10, <1>11, <1>12, <1>13

\* What a step of FreeBlock does to the state.
LEMMA FreeBlockDoes ==
  ASSUME IInv, FreeBlock
  PROVE  /\ free' \in [Orders -> Seq(Slots)]
         /\ \A j \in Orders : /\ IsInjective(free'[j])
                              /\ count'[j] = Len(free'[j])
                              /\ OnList(j)' = IF j \in Piece..Stop - 1 THEN OnList(j) \ {MergedAt(j)}
                                              ELSE IF j = Stop THEN OnList(j) \cup {Merged}
                                              ELSE OnList(j)
         /\ count' \in [Orders -> Int]
         /\ flag' \in [Slots -> BOOLEAN] /\ order' \in [Slots -> Orders]
         /\ \A q \in Slots : /\ flag'[q] <=> flag[q] \/ q = Merged
                             /\ order'[q] = IF q = Merged THEN Stop ELSE order[q]
         /\ todo' = [pfn |-> todo.pfn + Size[Piece], nr |-> todo.nr - Size[Piece]]
<1> USE DEF IInv, ListsInv
<1>1. todo.nr > 0
  BY DEF FreeBlock
<1>2. /\ Piece \in Orders /\ Stop \in Orders /\ Piece <= Stop
      /\ Merged \in Pfns
      /\ \A j \in Piece..Stop - 1 : j \in Orders /\ MergedAt(j) \in OnList(j)
      /\ Merged \notin OnList(Stop)
  BY <1>1, MergedBlock
<1>3. /\ free' = ListsAfterFree(todo.pfn, Piece, Stop)
      /\ count' = [j \in Orders |-> IF j \in Piece..Stop-1 THEN count[j] - 1
                                    ELSE IF j = Stop THEN count[j] + 1
                                    ELSE count[j]]
      /\ flag' = [flag EXCEPT ![Merged] = TRUE]
      /\ order' = [order EXCEPT ![Merged] = Stop]
      /\ todo' = [pfn |-> todo.pfn + Size[Piece], nr |-> todo.nr - Size[Piece]]
  BY DEF FreeBlock, Piece, Stop, Merged
<1>4. Merged \in Slots
  BY <1>2, PfnsAre
<1>5. ASSUME NEW j \in Orders
      PROVE  /\ free'[j] \in Seq(Slots) /\ IsInjective(free'[j])
             /\ count'[j] = Len(free'[j]) /\ count'[j] \in Int
             /\ OnList(j)' = IF j \in Piece..Stop - 1 THEN OnList(j) \ {MergedAt(j)}
                             ELSE IF j = Stop THEN OnList(j) \cup {Merged}
                             ELSE OnList(j)
  <2>1. /\ free[j] \in Seq(Slots) /\ IsInjective(free[j]) /\ count[j] = Len(free[j])
        /\ Len(free[j]) \in Nat
    <3>1. free[j] \in Seq(Slots)
      BY DEF TypeOK
    <3>2. count[j] = Len(free[j])
      BY DEF ListsExact
    <3> QED BY <3>1, <3>2, LenProperties DEF Once
  <2>2. CASE j \in Piece..Stop - 1
    <3>1. free'[j] = RemoveFirst(free[j], MergedAt(j)) /\ count'[j] = count[j] - 1
      BY <1>3, <2>2 DEF ListsAfterFree, MergedBuddies, MergedAt
    <3>2. MergedAt(j) \in Range(free[j])
      BY <1>2, <2>2 DEF OnList
    <3>3. /\ free'[j] \in Seq(Slots) /\ Len(free'[j]) = Len(free[j]) - 1
          /\ Range(free'[j]) = Range(free[j]) \ {MergedAt(j)} /\ IsInjective(free'[j])
      BY <2>1, <3>1, <3>2, RemovedOnce
    <3> QED BY <2>1, <2>2, <3>1, <3>3 DEF OnList
  <2>3. CASE j = Stop
    <3>1. j \notin Piece..Stop - 1
      BY <1>2, <2>3 DEF Orders
    <3>2. free'[j] = Append(free[j], Merged) /\ count'[j] = count[j] + 1
      BY <1>3, <2>3, <3>1 DEF ListsAfterFree, Merged
    <3>3. Merged \notin Range(free[j])
      BY <1>2, <2>3 DEF OnList
    <3>4. /\ free'[j] \in Seq(Slots) /\ Len(free'[j]) = Len(free[j]) + 1
          /\ Range(free'[j]) = Range(free[j]) \cup {Merged} /\ IsInjective(free'[j])
      BY <1>4, <2>1, <3>2, <3>3, AppendedOnce
    <3> QED BY <2>1, <2>3, <3>1, <3>2, <3>4 DEF OnList
  <2>4. CASE j \notin Piece..Stop - 1 /\ j # Stop
    <3>1. free'[j] = free[j] /\ count'[j] = count[j]
      BY <1>3, <2>4 DEF ListsAfterFree
    <3> QED BY <2>1, <2>4, <3>1 DEF OnList
  <2> QED BY <2>2, <2>3, <2>4
<1>6. free' \in [Orders -> Seq(Slots)]
  <2>1. free' = [j \in Orders |-> free'[j]]
    BY <1>3 DEF ListsAfterFree
  <2> QED BY <1>5, <2>1
<1>7. count' \in [Orders -> Int]
  <2>1. count' = [j \in Orders |-> count'[j]]
    BY <1>3
  <2> QED BY <1>5, <2>1
<1>8. flag' \in [Slots -> BOOLEAN]
  <2>1. flag \in [Slots -> BOOLEAN]
    BY DEF TypeOK
  <2> QED BY <1>3, <2>1
<1>9. order' \in [Slots -> Orders]
  <2>1. order \in [Slots -> Orders]
    BY DEF TypeOK
  <2> QED BY <1>2, <1>3, <2>1
<1>10. ASSUME NEW q \in Slots
       PROVE  /\ flag'[q] <=> flag[q] \/ q = Merged
              /\ order'[q] = IF q = Merged THEN Stop ELSE order[q]
  <2>1. flag \in [Slots -> BOOLEAN] /\ order \in [Slots -> Orders]
    BY DEF TypeOK
  <2>2. order'[q] = IF q = Merged THEN Stop ELSE order[q]
    BY <1>3, <2>1
  <2>3. flag'[q] = IF q = Merged THEN TRUE ELSE flag[q]
    BY <1>3, <1>4, <2>1
  <2> QED BY <2>2, <2>3
<1> QED BY <1>3, <1>5, <1>6, <1>7, <1>8, <1>9, <1>10

\* The released pages are free now, and nothing else has changed hands.
LEMMA FreeBlockMoves ==
  ASSUME IInv, FreeBlock
  PROVE  /\ FreeBlocks' = FreeBlocks \cup Block(todo.pfn, Piece)
         /\ TodoPages' = TodoPages \ Block(todo.pfn, Piece)
         /\ Block(todo.pfn, Piece) \subseteq TodoPages
         /\ todo.pfn \in Block(todo.pfn, Piece)
<1> USE DEF IInv, PagesInv
<1>1. todo.nr > 0
  BY DEF FreeBlock
<1>2. /\ Piece \in Orders /\ HeadOf(todo.pfn, Piece) = todo.pfn /\ Size[Piece] <= todo.nr
      /\ Block(todo.pfn, Piece) \subseteq TodoPages
  BY <1>1, FirstBlock DEF Piece
<1>3. Size[Piece] \in Nat \ {0} /\ todo.pfn \in Int /\ todo.nr \in Nat
  BY <1>2, SizePositive, PfnsAre DEF TypeOK
<1>4. TodoPages' = TodoPages \ Block(todo.pfn, Piece)
  <2>1. todo' = [pfn |-> todo.pfn + Size[Piece], nr |-> todo.nr - Size[Piece]]
    BY FreeBlockDoes
  <2>2. TodoPages' = todo.pfn + Size[Piece]..todo.pfn + Size[Piece] + (todo.nr - Size[Piece]) - 1
    BY <2>1 DEF TodoPages
  <2>3. TodoPages = todo.pfn..todo.pfn + todo.nr - 1
    BY DEF TodoPages
  <2>4. Block(todo.pfn, Piece) = todo.pfn..todo.pfn + Size[Piece] - 1
    BY DEF Block
  <2>5. \A p \in Int, n \in Nat, s \in Nat \ {0} : s <= n =>
          p + s..p + s + (n - s) - 1 = (p..p + n - 1) \ (p..p + s - 1)
    OBVIOUS
  <2> QED BY <1>2, <1>3, <2>2, <2>3, <2>4, <2>5
<1>5. ASSUME NEW x PROVE x \in FreeBlocks' <=> x \in FreeBlocks \cup Block(todo.pfn, Piece)
  <2>1. x \in FreeBlocks' <=> \E k \in Orders : \E p \in OnList(k)' : x \in Block(p, k)
    <3>1. free' \in [Orders -> Seq(Slots)]
      BY FreeBlockDoes
    <3> QED BY <3>1, PagesOnLists DEF FreeBlocks, FreeHeads, OnList
  <2>2. /\ Stop \in Orders
        /\ \A j \in Piece..Stop - 1 : j \in Orders /\ MergedAt(j) \in OnList(j)
        /\ x \in Block(Merged, Stop) <=>
             \/ x \in Block(todo.pfn, Piece)
             \/ \E j \in Piece..Stop - 1 : x \in Block(MergedAt(j), j)
    BY <1>1, MergedBlock
  <2>3. \A j \in Orders : OnList(j)' = IF j \in Piece..Stop - 1 THEN OnList(j) \ {MergedAt(j)}
                                       ELSE IF j = Stop THEN OnList(j) \cup {Merged}
                                       ELSE OnList(j)
    BY FreeBlockDoes
  <2>4. Stop \notin Piece..Stop - 1
    BY <1>2, <2>2 DEF Orders
  <2>5. x \in Block(Merged, Stop) => x \in FreeBlocks'
    BY <2>1, <2>2, <2>3, <2>4
  <2>6. ASSUME x \in FreeBlocks PROVE x \in FreeBlocks'
    <3>1. PICK k \in Orders : \E p \in OnList(k) : x \in Block(p, k)
      BY <2>6, FreeBlocksAre
    <3>2. PICK p \in OnList(k) : x \in Block(p, k)
      BY <3>1
    <3>3. CASE k \in Piece..Stop - 1 /\ p = MergedAt(k)
      BY <2>2, <2>5, <3>2, <3>3
    <3>4. CASE ~(k \in Piece..Stop - 1 /\ p = MergedAt(k))
      BY <2>1, <2>3, <3>2, <3>4
    <3> QED BY <3>3, <3>4
  <2>7. ASSUME x \in FreeBlocks' PROVE x \in FreeBlocks \cup Block(todo.pfn, Piece)
    <3>1. PICK k \in Orders : \E p \in OnList(k)' : x \in Block(p, k)
      BY <2>1, <2>7
    <3>2. PICK p \in OnList(k)' : x \in Block(p, k)
      BY <3>1
    <3>3. CASE p \in OnList(k)
      BY <3>2, <3>3, FreeBlocksAre
    <3>4. CASE p \notin OnList(k)
      <4>1. k = Stop /\ p = Merged
        BY <2>3, <3>2, <3>4
      <4> QED BY <2>2, <3>2, <4>1, FreeBlocksAre
    <3> QED BY <3>3, <3>4
  <2> QED BY <2>2, <2>5, <2>6, <2>7
<1>6. FreeBlocks' = FreeBlocks \cup Block(todo.pfn, Piece)
  BY <1>5
<1>7. todo.pfn \in Block(todo.pfn, Piece)
  BY <1>3 DEF Block
<1> QED BY <1>2, <1>4, <1>6, <1>7

\* The lists are right after the block is released.
LEMMA FreeBlockLists ==
  ASSUME IInv, FreeBlock
  PROVE  ListsInv'
<1> USE DEF IInv, ListsInv
<1>1. todo.nr > 0
  BY DEF FreeBlock
<1>2. /\ Piece \in Orders /\ Stop \in Orders /\ Piece <= Stop
      /\ Merged \in Pfns /\ HeadOf(Merged, Stop) = Merged
      /\ \A j \in Piece..Stop - 1 : j \in Orders /\ MergedAt(j) \in OnList(j)
      /\ Block(Merged, Stop) \subseteq Pfns
      /\ \A m \in Orders : \A q \in OnList(m) :
           ~(m \in Piece..Stop - 1 /\ q = MergedAt(m)) =>
             Block(q, m) \cap Block(Merged, Stop) = {}
      /\ Stop < TopOrder => ~IsBuddy(MergedAt(Stop), Stop)
  BY <1>1, MergedBlock
<1>3. \A j \in Orders : /\ IsInjective(free'[j])
                        /\ count'[j] = Len(free'[j])
                        /\ OnList(j)' = IF j \in Piece..Stop - 1 THEN OnList(j) \ {MergedAt(j)}
                                        ELSE IF j = Stop THEN OnList(j) \cup {Merged}
                                        ELSE OnList(j)
  BY FreeBlockDoes
<1>4. \A q \in Slots : /\ flag'[q] <=> flag[q] \/ q = Merged
                       /\ order'[q] = IF q = Merged THEN Stop ELSE order[q]
  BY FreeBlockDoes
<1>5. \A j \in Orders : OnList(j) \subseteq Slots
  BY RangeOfSeq DEF TypeOK, OnList
<1>6. Merged \in Slots /\ Merged \in Int /\ Stop \in 0..MaxOrder
  BY <1>2, PfnsAre
<1>7. \A j \in Orders : \A q \in OnList(j)' :
        \/ j = Stop /\ q = Merged
        \/ q \in OnList(j) /\ ~(j \in Piece..Stop - 1 /\ q = MergedAt(j))
  BY <1>3
<1>8. Once'
  BY <1>3 DEF Once
<1>9. ASSUME NEW k \in Orders, NEW q \in OnList(k)'
      PROVE  HeadOf(q, k) = q /\ Block(q, k) \subseteq Pfns /\ IsBuddy(q, k)'
  <2>1. CASE k = Stop /\ q = Merged
    BY <1>2, <1>4, <1>6, <2>1 DEF IsBuddy
  <2>2. CASE q \in OnList(k) /\ ~(k \in Piece..Stop - 1 /\ q = MergedAt(k))
    <3>1. q \in Slots /\ HeadOf(q, k) = q /\ Block(q, k) \subseteq Pfns /\ IsBuddy(q, k)
      BY <1>5, <2>2 DEF ListsExact, OnList
    <3>2. q \in Int /\ k \in 0..MaxOrder
      BY <3>1, PfnsAre
    <3>3. q \in Block(q, k) /\ Merged \in Block(Merged, Stop)
      BY <1>6, <3>2, SizePositive DEF Block
    <3>4. q # Merged
      BY <1>2, <2>2, <3>3
    <3> QED BY <1>4, <3>1, <3>4 DEF IsBuddy
  <2> QED BY <1>7, <2>1, <2>2
<1>10. ListsExact'
  BY <1>3, <1>9 DEF ListsExact, OnList
<1>11. Apart'
  <2> SUFFICES ASSUME NEW j \in Orders, NEW k \in Orders, NEW p \in OnList(j)', NEW q \in OnList(k)',
                      p # q \/ j # k
               PROVE  Block(p, j) \cap Block(q, k) = {}
    BY DEF Apart
  <2>1. CASE p \in OnList(j) /\ ~(j \in Piece..Stop - 1 /\ p = MergedAt(j))
    <3>1. CASE q \in OnList(k)
      BY <2>1, <3>1 DEF Apart
    <3>2. CASE k = Stop /\ q = Merged
      BY <1>2, <2>1, <3>2
    <3> QED BY <1>7, <3>1, <3>2
  <2>2. CASE j = Stop /\ p = Merged
    <3>1. ~(k = Stop /\ q = Merged)
      BY <2>2
    <3>2. q \in OnList(k) /\ ~(k \in Piece..Stop - 1 /\ q = MergedAt(k))
      BY <1>7, <3>1
    <3> QED BY <1>2, <2>2, <3>2
  <2> QED BY <1>7, <2>1, <2>2
<1>12. Coalesced'
  <2> SUFFICES ASSUME NEW k \in Orders \ {TopOrder}, NEW q \in OnList(k)',
                      BuddyOf(q, k) \in OnList(k)'
               PROVE  FALSE
    BY DEF Coalesced, OnList
  <2>1. k < TopOrder /\ k \in 0..MaxOrder /\ k < MaxOrder
    BY MaxOrderAssumption DEF Orders, TopOrder
  <2>2. ~IsBuddy(MergedAt(k), k) \/ k # Stop
    BY <1>2, <2>1
  <2>3. MergedAt(Stop) = BuddyOf(Merged, Stop)
    BY DEF MergedAt, Merged
  <2>4. \A x \in OnList(k) : IsBuddy(x, k)
    BY DEF ListsExact, OnList
  <2>5. CASE k = Stop /\ q = Merged
    <3>1. BuddyOf(q, k) # q
      BY <1>2, <1>6, <2>1, <2>5, Buddies
    <3>2. BuddyOf(q, k) \in OnList(k)
      BY <1>7, <2>5, <3>1
    <3> QED BY <2>2, <2>3, <2>4, <2>5, <3>2
  <2>6. CASE q \in OnList(k)
    <3>1. q \in Int /\ HeadOf(q, k) = q
      BY <1>5, <2>6, PfnsAre DEF ListsExact, OnList
    <3>2. CASE BuddyOf(q, k) \in OnList(k)
      BY <2>6, <3>2 DEF Coalesced, OnList
    <3>3. CASE k = Stop /\ BuddyOf(q, k) = Merged
      <4>1. BuddyOf(Merged, k) = q
        BY <2>1, <3>1, <3>3, Buddies
      <4> QED BY <2>2, <2>3, <2>4, <2>6, <3>3, <4>1
    <3> QED BY <1>7, <3>2, <3>3
  <2> QED BY <1>7, <2>5, <2>6
<1> QED BY <1>8, <1>10, <1>11, <1>12

\* No caller notices that a block is released.
LEMMA FreeBlockPages ==
  ASSUME IInv, FreeBlock
  PROVE  PagesInv' /\ (todo'.nr > 0 => ~flag'[todo'.pfn]) /\ Avail' = Avail
<1> USE DEF IInv, PagesInv
<1>1. todo.nr > 0 /\ UNCHANGED <<used, nr_free_pages, r, held, ret, reserved>>
  BY DEF FreeBlock
<1>2. /\ FreeBlocks' = FreeBlocks \cup Block(todo.pfn, Piece)
      /\ TodoPages' = TodoPages \ Block(todo.pfn, Piece)
      /\ Block(todo.pfn, Piece) \subseteq TodoPages
      /\ todo.pfn \in Block(todo.pfn, Piece)
  BY FreeBlockMoves
<1>3. Avail' = Avail
  BY <1>1, <1>2 DEF Avail, FreeBlocks, Pfns
<1>4. HeldPfns' = HeldPfns
  BY <1>1 DEF HeldPfns
<1>5. Parts'
  BY <1>1, <1>2, <1>3, <1>4 DEF Parts, Pfns
<1>6. HeldOnce'
  BY <1>1, <1>4 DEF HeldOnce, Pfns
<1>7. Counted'
  <2>1. FreeBlocks' \cup TodoPages' = FreeBlocks \cup TodoPages
    BY <1>2
  <2> QED BY <1>1, <2>1 DEF Counted
<1>8. \A q \in TodoPages' : ~flag'[q]
  <2> SUFFICES ASSUME NEW q \in TodoPages' PROVE ~flag'[q]
    OBVIOUS
  <2>1. q \in TodoPages /\ q # todo.pfn /\ ~flag[q]
    BY <1>2 DEF BootFirst
  <2>2. q \in Slots
    BY <2>1, Unused, PfnsAre
  <2>3. q # Merged
    <3>1. Merged \in Block(Merged, Stop)
      <4>1. Merged \in Int /\ Stop \in 0..MaxOrder
        BY <1>1, MergedBlock, PfnsAre
      <4> QED BY <4>1, SizePositive DEF Block
    <3>2. \A j \in Piece..Stop - 1 : Block(MergedAt(j), j) \subseteq FreeBlocks
      <4>1. \A j \in Piece..Stop - 1 : j \in Orders /\ MergedAt(j) \in OnList(j)
        BY <1>1, MergedBlock
      <4> QED BY <4>1, FreeBlocksAre
    <3>3. Merged \in Block(todo.pfn, Piece) \cup FreeBlocks
      BY <1>1, <3>1, <3>2, MergedBlock
    <3>4. q \notin Block(todo.pfn, Piece) \cup FreeBlocks
      BY <1>2, <2>1 DEF Parts
    <3> QED BY <3>3, <3>4
  <2> QED BY <2>1, <2>2, <2>3, FreeBlockDoes
<1>9. todo'.nr > 0 => todo'.pfn \in TodoPages'
  <2>1. todo' = [pfn |-> todo.pfn + Size[Piece], nr |-> todo.nr - Size[Piece]]
    BY FreeBlockDoes
  <2>2. todo'.pfn \in Int /\ todo'.nr \in Int
    <3>1. Piece \in 0..MaxOrder /\ todo.pfn \in Int /\ todo.nr \in Nat
      BY <1>1, MergedBlock, PfnsAre DEF TypeOK
    <3> QED BY <2>1, <3>1, SizePositive
  <2> QED BY <2>2 DEF TodoPages
<1>10. todo'.nr > 0 => held = <<>>
  <2> SUFFICES ASSUME todo'.nr > 0, held # <<>> PROVE FALSE
    OBVIOUS
  <2>1. todo.nr = 1
    BY <1>1 DEF BootFirst
  <2>2. todo'.nr = 1 - Size[Piece]
    BY <2>1, FreeBlockDoes
  <2>3. Size[Piece] \in Nat \ {0}
    BY <1>1, MergedBlock, PfnsAre, SizePositive
  <2> QED BY <2>2, <2>3
<1>11. BootFirst'
  BY <1>1, <1>8, <1>9, <1>10 DEF BootFirst
<1> QED BY <1>3, <1>5, <1>6, <1>7, <1>8, <1>9, <1>11

\* A released page and the halves it is merged with leave nothing behind that
\* page_is_buddy could mistake for a free block.
LEMMA FreeBlockStack ==
  ASSUME IInv, FreeBlock
  PROVE  StackInv'
<1> USE DEF IInv, ListsInv, PagesInv, StackInv
<1> DEFINE n == Len(held) + 1
<1>1. todo.nr > 0 /\ held' = held
  BY DEF FreeBlock
<1>2. Stack' = held
  BY <1>1, FreeBlockPages DEF Stack
<1>3. /\ DOMAIN held \subseteq DOMAIN Stack
      /\ \A i \in DOMAIN held : HeadAt(i) = held[i].pfn
      /\ flag[todo.pfn] =>
           /\ DOMAIN Stack = DOMAIN held \cup {n}
           /\ HeadAt(n) = todo.pfn
  BY <1>1, StackIs
<1>4. /\ Piece \in Orders /\ Stop \in Orders /\ Piece <= Stop
      /\ Merged \in Pfns /\ HeadOf(Merged, Stop) = Merged
      /\ \A j \in Piece..Stop - 1 : j \in Orders /\ MergedAt(j) \in OnList(j)
      /\ \A x : x \in Block(Merged, Stop) <=>
                  \/ x \in Block(todo.pfn, Piece)
                  \/ \E j \in Piece..Stop - 1 : x \in Block(MergedAt(j), j)
  BY <1>1, MergedBlock
<1>5. \A j \in Orders : OnList(j)' = IF j \in Piece..Stop - 1 THEN OnList(j) \ {MergedAt(j)}
                                     ELSE IF j = Stop THEN OnList(j) \cup {Merged}
                                     ELSE OnList(j)
  BY FreeBlockDoes
<1>6. \A q \in Slots : /\ flag'[q] <=> flag[q] \/ q = Merged
                       /\ order'[q] = IF q = Merged THEN Stop ELSE order[q]
  BY FreeBlockDoes
<1>7. Merged \notin used /\ todo.pfn \notin used /\ Merged \in Slots /\ todo.pfn \in Slots
  <2>1. Merged \in Block(Merged, Stop)
    <3>1. Merged \in Int /\ Stop \in 0..MaxOrder
      BY <1>4, PfnsAre
    <3> QED BY <3>1, SizePositive DEF Block
  <2>2. Block(todo.pfn, Piece) \subseteq TodoPages /\ todo.pfn \in Block(todo.pfn, Piece)
    BY FreeBlockMoves
  <2>3. \A j \in Piece..Stop - 1 : Block(MergedAt(j), j) \subseteq FreeBlocks
    BY <1>4, FreeBlocksAre
  <2> QED BY <1>4, <2>1, <2>2, <2>3, Unused, PfnsAre
<1>8. \A m \in Orders : m = Stop => Merged \in OnList(m)'
  <2>1. Stop \notin Piece..Stop - 1
    BY <1>4 DEF Orders
  <2> QED BY <1>5, <2>1
<1>9. ASSUME flag[todo.pfn]
      PROVE  /\ Merged = todo.pfn /\ Stop = order[todo.pfn] /\ OrderAt(n) = Stop
             /\ \A j \in Piece..Stop - 1 : MergedAt(j) = todo.pfn + Size[j]
  <2>1. /\ Piece = 0 /\ Stop = order[todo.pfn]
        /\ \A i \in Orders : i <= Stop => HeadOf(todo.pfn, i) = todo.pfn
        /\ \A i \in Orders : i < Stop => BuddyOf(todo.pfn, i) = todo.pfn + Size[i]
    BY <1>1, <1>9, ReleaseStops DEF Piece, Stop
  <2>2. Stop <= Stop /\ \A j \in Piece..Stop - 1 : j < Stop /\ j <= Stop
    BY <1>4 DEF Orders
  <2>3. Merged = todo.pfn
    BY <1>4, <2>1, <2>2 DEF Merged
  <2> QED BY <1>3, <1>4, <1>9, <2>1, <2>2, <2>3 DEF MergedAt, OrderAt
<1>10. ASSUME NEW i \in DOMAIN held
       PROVE  /\ i \in DOMAIN Stack /\ HeadAt(i)' = HeadAt(i) /\ OrderAt(i)' = OrderAt(i)
              /\ HeadAt(i) \in Slots /\ HeadAt(i) \in used
              /\ flag[todo.pfn] /\ OrderAt(i) \in Orders
  <2>1. HeadAt(i)' = held[i].pfn /\ HeadAt(i) = held[i].pfn
    BY <1>2, <1>3 DEF HeadAt
  <2>2. HeadAt(i) \in Pfns /\ HeadAt(i) \in used
    BY <2>1 DEF HeldOnce, Parts, HeldPfns, Range
  <2>3. HeadAt(i) \in Slots /\ HeadAt(i) # Merged
    BY <1>7, <2>2, PfnsAre
  <2>4. OrderAt(i)' = order'[HeadAt(i)]
    BY <2>1 DEF OrderAt
  <2>5. OrderAt(i)' = OrderAt(i)
    BY <1>6, <2>3, <2>4 DEF OrderAt
  <2>6. held # <<>>
    OBVIOUS
  <2>7. flag[todo.pfn]
    BY <1>1, <2>6 DEF BootFirst
  <2>8. OrderAt(i) \in Orders
    BY <2>3 DEF OrderAt, TypeOK
  <2> QED BY <1>3, <2>1, <2>2, <2>3, <2>5, <2>7, <2>8
<1>11. ASSUME NEW q \in Slots, flag'[q]
       PROVE  /\ q \in Pfns /\ HeadOf(q, order'[q]) = q
              /\ \/ q \in OnList(order[q])'
                 \/ \E i \in DOMAIN held : q = HeadAt(i)'
                 \/ \E m \in Orders : \E g \in OnList(m)' :
                      m > order'[q] /\ Block(q, order'[q]) \subseteq Block(g, m)
  <2>1. CASE q = Merged
    <3>1. order'[q] = Stop
      BY <1>6, <2>1
    <3>2. q \in Range(free'[Stop])
      BY <1>4, <1>8, <2>1 DEF OnList
    <3> QED BY <1>4, <2>1, <3>1, <3>2 DEF OnList
  <2>2. CASE q # Merged
    <3> DEFINE o == order[q]
    <3>1. flag[q] /\ order'[q] = o /\ o \in Orders
      BY <1>6, <1>11, <2>2 DEF TypeOK
    <3>2. q \in Pfns /\ HeadOf(q, o) = q
      BY <3>1 DEF Flagged
    <3>3. ASSUME NEW m \in Piece..Stop - 1, m \in Orders, o <= m, Block(q, o) \subseteq Block(MergedAt(m), m)
          PROVE  \E l \in Orders : \E g \in OnList(l)' : l > o /\ Block(q, o) \subseteq Block(g, l)
      <4>1. Block(q, o) \subseteq Block(Merged, Stop)
        BY <1>4, <3>3
      <4>2. Stop > o
        BY <1>4, <3>1, <3>3 DEF Orders
      <4>3. PICK l \in Orders : l = Stop
        BY <1>4
      <4>4. Merged \in OnList(l)'
        BY <1>8, <4>3
      <4>5. PICK g \in OnList(l)' : g = Merged
        BY <4>4
      <4>6. l > o /\ Block(q, o) \subseteq Block(g, l)
        BY <4>1, <4>2, <4>3, <4>5
      <4> QED BY <4>6
    <3>4. CASE q \in OnList(o)
      <4>1. CASE o \in Piece..Stop - 1 /\ q = MergedAt(o)
        <5>1. o <= o
          BY <3>1 DEF Orders
        <5> QED BY <3>1, <3>2, <3>3, <4>1, <5>1
      <4>2. CASE ~(o \in Piece..Stop - 1 /\ q = MergedAt(o))
        <5>1. q \in OnList(o)'
          BY <1>5, <3>1, <3>4, <4>2
        <5> QED BY <3>1, <3>2, <5>1
      <4> QED BY <4>1, <4>2
    <3>5. CASE \E i \in DOMAIN Stack : q = HeadAt(i)
      <4>1. PICK i \in DOMAIN Stack : q = HeadAt(i)
        BY <3>5
      <4>2. i \in DOMAIN held
        <5>1. CASE flag[todo.pfn]
          BY <1>3, <1>9, <2>2, <4>1, <5>1
        <5>2. CASE ~flag[todo.pfn]
          BY <5>2 DEF Stack
        <5> QED BY <5>1, <5>2
      <4> QED BY <1>10, <3>1, <3>2, <4>1, <4>2
    <3>6. CASE \E m \in Orders : \E g \in OnList(m) : m > o /\ Block(q, o) \subseteq Block(g, m)
      <4>1. PICK m \in Orders : \E g \in OnList(m) : m > o /\ Block(q, o) \subseteq Block(g, m)
        BY <3>6
      <4>2. PICK g \in OnList(m) : m > o /\ Block(q, o) \subseteq Block(g, m)
        BY <4>1
      <4>3. CASE m \in Piece..Stop - 1 /\ g = MergedAt(m)
        <5>1. o <= m
          BY <3>1, <4>2 DEF Orders
        <5> QED BY <3>1, <3>2, <3>3, <4>2, <4>3, <5>1
      <4>4. CASE ~(m \in Piece..Stop - 1 /\ g = MergedAt(m))
        <5>1. g \in OnList(m)'
          BY <1>5, <4>4
        <5> QED BY <3>1, <3>2, <4>2, <5>1
      <4> QED BY <4>3, <4>4
    <3> QED BY <3>1, <3>4, <3>5, <3>6 DEF Flagged
  <2> QED BY <2>1, <2>2
<1>12. Flagged'
  BY <1>2, <1>11 DEF Flagged
<1>13. StackPages'
  <2> SUFFICES ASSUME NEW i \in DOMAIN held
               PROVE  /\ flag'[HeadAt(i)'] /\ HeadOf(HeadAt(i)', OrderAt(i)') = HeadAt(i)'
                      /\ OrderAt(i)' < TopOrder =>
                           /\ BuddyOf(HeadAt(i)', OrderAt(i)') \notin OnList(OrderAt(i))'
                           /\ \A l \in DOMAIN held : OrderAt(l)' = OrderAt(i)' =>
                                HeadAt(l)' # BuddyOf(HeadAt(i)', OrderAt(i)')
    BY <1>2 DEF StackPages
  <2>1. flag'[HeadAt(i)'] /\ HeadOf(HeadAt(i)', OrderAt(i)') = HeadAt(i)'
    BY <1>6, <1>10 DEF StackPages
  <2>2. ASSUME OrderAt(i) < TopOrder
        PROVE  BuddyOf(HeadAt(i), OrderAt(i)) \notin OnList(OrderAt(i))'
    <3>1. BuddyOf(HeadAt(i), OrderAt(i)) \notin OnList(OrderAt(i))
      BY <1>10, <2>2 DEF StackPages
    <3>2. ~(OrderAt(i) = Stop /\ BuddyOf(HeadAt(i), OrderAt(i)) = Merged)
      BY <1>3, <1>9, <1>10, <2>2 DEF StackPages
    <3> QED BY <1>5, <1>10, <3>1, <3>2
  <2>3. ASSUME OrderAt(i) < TopOrder, NEW l \in DOMAIN held, OrderAt(l) = OrderAt(i)
        PROVE  HeadAt(l) # BuddyOf(HeadAt(i), OrderAt(i))
    BY <1>10, <2>3 DEF StackPages
  <2> QED BY <1>10, <2>1, <2>2, <2>3
<1>14. StackHalves'
  <2> SUFFICES ASSUME NEW i \in DOMAIN held, NEW j \in Orders, j < OrderAt(i)
               PROVE  \/ HeadAt(i) + Size[j] \in OnList(j)'
                      \/ \E l \in DOMAIN held :
                           l > i /\ HeadAt(l) = HeadAt(i) + Size[j] /\ OrderAt(l) = j
    BY <1>2, <1>10 DEF StackHalves
  <2>1. CASE HeadAt(i) + Size[j] \in OnList(j)
    <3>1. ~(j \in Piece..Stop - 1 /\ HeadAt(i) + Size[j] = MergedAt(j))
      <4> SUFFICES ASSUME j \in Piece..Stop - 1, HeadAt(i) + Size[j] = todo.pfn + Size[j]
                   PROVE  FALSE
        BY <1>9, <1>10
      <4>1. HeadAt(i) \in Int /\ todo.pfn \in Int
        BY <1>7, <1>10, PfnsAre
      <4>2. Size[j] \in Int
        BY PfnsAre, SizePositive
      <4>3. \A a, b, c \in Int : a + c = b + c => a = b
        OBVIOUS
      <4>4. HeadAt(i) = todo.pfn
        BY <4>1, <4>2, <4>3
      <4> QED BY <1>7, <1>10, <4>4
    <3> QED BY <1>5, <2>1, <3>1
  <2>2. CASE \E l \in DOMAIN Stack : l > i /\ HeadAt(l) = HeadAt(i) + Size[j] /\ OrderAt(l) = j
    <3>1. PICK l \in DOMAIN Stack : l > i /\ HeadAt(l) = HeadAt(i) + Size[j] /\ OrderAt(l) = j
      BY <2>2
    <3>2. CASE l \in DOMAIN held
      BY <3>1, <3>2
    <3>3. CASE l = n
      <4>1. HeadAt(n) = todo.pfn /\ Merged = todo.pfn /\ OrderAt(n) = Stop
        BY <1>3, <1>9, <1>10
      <4>2. j = Stop /\ HeadAt(i) + Size[j] = Merged
        BY <3>1, <3>3, <4>1
      <4> QED BY <1>8, <4>2
    <3> QED BY <1>3, <1>10, <3>2, <3>3
  <2> QED BY <1>10, <2>1, <2>2 DEF StackHalves
<1> QED BY <1>12, <1>13, <1>14

-----------------------------------------------------------------------------
(* AllocPages.                                                             *)

\* The block an allocation takes, and the upper halves it gives back.
Took    == Min(Candidates(1))
Page    == Head(free[Took])
Half(j) == Page + Size[j]

\* The halves given back and the page handed out are the block that was taken.
LEMMA TakenBlock ==
  ASSUME IInv, Candidates(1) # {}, free[Took] # <<>>
  PROVE  /\ Took \in Orders /\ count[Took] # 0
         /\ Page \in OnList(Took) /\ Page \in Pfns /\ HeadOf(Page, Took) = Page
         /\ flag[Page] /\ order[Page] = Took
         /\ Block(Page, Took) \subseteq Pfns /\ Page \in Block(Page, Took)
         /\ \A j \in Orders : j < Took =>
              /\ Half(j) \in Pfns /\ HeadOf(Half(j), j) = Half(j)
              /\ BuddyOf(Half(j), j) = Page /\ HeadOf(Page, j) = Page
              /\ Half(j) \in Block(Half(j), j)
              /\ Block(Half(j), j) \subseteq Block(Page, Took)
              /\ Page \notin Block(Half(j), j)
              /\ Half(j) \notin OnList(j)
              /\ \A i \in Orders : i < Took /\ i # j =>
                   Block(Half(i), i) \cap Block(Half(j), j) = {}
         /\ \A x \in Block(Page, Took) :
              x # Page => \E j \in Orders : j < Took /\ x \in Block(Half(j), j)
<1> USE DEF IInv, ListsInv, PagesInv
<1>1. Took \in Orders /\ count[Took] # 0
  <2>1. Candidates(1) \in SUBSET Nat
    BY DEF Candidates, OrderOf
  <2>2. Took \in Candidates(1)
    BY <2>1, MinIsLeast DEF Took
  <2> QED BY <2>2 DEF Candidates, OrderOf, Orders
<1>2. /\ Took \in 0..MaxOrder /\ Took \in Nat /\ Took <= TopOrder /\ TopOrder < MaxOrder
      /\ Orders = 0..TopOrder /\ TopOrder \in Nat /\ MaxOrder \in Nat
  BY <1>1, MaxOrderAssumption DEF Orders, TopOrder
<1>3. Page \in OnList(Took) /\ Page \in Slots
  <2>1. free[Took] \in Seq(Slots) /\ IsInjective(free[Took])
    BY <1>1 DEF TypeOK, Once
  <2> QED BY <2>1, TakenOnce DEF Page, OnList
<1>4. /\ HeadOf(Page, Took) = Page /\ Block(Page, Took) \subseteq Pfns
      /\ flag[Page] /\ order[Page] = Took
  BY <1>1, <1>3 DEF ListsExact, OnList, IsBuddy
<1>5. Page \in Int /\ Page \in Block(Page, Took) /\ Page \in Pfns
  <2>1. Page \in Int
    BY <1>3, PfnsAre
  <2>2. Page \in Block(Page, Took)
    BY <1>2, <2>1, SizePositive DEF Block
  <2> QED BY <1>4, <2>1, <2>2
<1>6. ASSUME NEW j \in Orders, j < Took
      PROVE  /\ j \in 0..Took /\ j \in 0..MaxOrder /\ Size[j] \in Nat \ {0} /\ Half(j) \in Int
             /\ HeadOf(Page, j) = Page /\ HeadOf(Half(j), j) = Half(j)
             /\ BuddyOf(Half(j), j) = Page
             /\ Half(j) + Size[j] <= Page + Size[Took]
  <2>1. j \in 0..Took /\ j \in 0..MaxOrder /\ j < MaxOrder
    BY <1>2, <1>6
  <2>2. Size[j] \in Nat \ {0}
    BY <2>1, SizePositive
  <2>3. Half(j) \in Int
    BY <1>5, <2>2 DEF Half
  <2>4. /\ HeadOf(Page, j) = Page /\ HeadOf(Page + Size[j], j) = Page + Size[j]
        /\ BuddyOf(Page + Size[j], j) = Page
        /\ Page + Size[j] + Size[j] <= Page + Size[Took]
    BY <1>2, <1>4, <1>5, <1>6, <2>1, Halves
  <2> QED BY <2>1, <2>2, <2>3, <2>4 DEF Half
<1>7. Size[Took] \in Nat \ {0}
  BY <1>2, SizePositive
<1>8. ASSUME NEW j \in Orders, j < Took
      PROVE  /\ Half(j) \in Block(Half(j), j)
             /\ Block(Half(j), j) \subseteq Block(Page, Took)
             /\ Page \notin Block(Half(j), j)
  <2>1. /\ Half(j) \in Int /\ Size[j] \in Nat \ {0}
        /\ Half(j) + Size[j] <= Page + Size[Took]
    BY <1>6, <1>8
  <2>2. Half(j) = Page + Size[j]
    BY DEF Half
  <2>3. Page \in Int /\ Size[Took] \in Nat \ {0}
    BY <1>5, <1>7
  <2>4. \A p \in Int, h \in Int, s \in Nat \ {0}, t \in Nat \ {0} :
          h = p + s /\ h + s <= p + t =>
            h \in h..h + s - 1 /\ h..h + s - 1 \subseteq p..p + t - 1 /\ p \notin h..h + s - 1
    OBVIOUS
  <2> HIDE DEF Page, Half, Took
  <2> QED BY <2>1, <2>2, <2>3, <2>4 DEF Block
<1>9. ASSUME NEW j \in Orders, j < Took PROVE Half(j) \notin OnList(j)
  <2> SUFFICES ASSUME Half(j) \in OnList(j) PROVE FALSE
    OBVIOUS
  <2>1. j # Took
    BY <1>2, <1>9 DEF Orders
  <2>2. Block(Half(j), j) \cap Block(Page, Took) = {}
    BY <1>1, <1>3, <2>1 DEF Apart
  <2> QED BY <1>8, <1>9, <2>2
<1>10. ASSUME NEW i \in Orders, NEW j \in Orders, j < Took, i < j
       PROVE  Block(Half(i), i) \cap Block(Half(j), j) = {}
  <2>1. i < Took /\ i \in 0..j /\ j \in 0..MaxOrder
    BY <1>2, <1>10
  <2>2. 2 * Size[i] <= Size[j]
    BY <1>10, <2>1, SizeGrows
  <2>3. Size[i] \in Nat /\ Size[j] \in Nat
    BY <1>6, <1>10, <2>1
  <2> QED BY <1>5, <2>2, <2>3 DEF Block, Half
<1>11. ASSUME NEW i \in Orders, NEW j \in Orders, j < Took, i < Took, i # j
       PROVE  Block(Half(i), i) \cap Block(Half(j), j) = {}
  <2>1. i < j \/ j < i
    BY <1>11 DEF Orders
  <2>2. i < j => Block(Half(i), i) \cap Block(Half(j), j) = {}
    BY <1>10, <1>11
  <2>3. j < i => Block(Half(j), j) \cap Block(Half(i), i) = {}
    BY <1>10, <1>11
  <2> QED BY <2>1, <2>2, <2>3
<1>12. ASSUME NEW x \in Block(Page, Took), x # Page
       PROVE  \E j \in Orders : j < Took /\ x \in Block(Half(j), j)
  <2>1. x \in Int /\ Page < x /\ x < Page + Size[Took]
    BY <1>5, <1>7, <1>12 DEF Block
  <2>2. PICK j \in 0..Took : j < Took /\ Page + Size[j] <= x /\ x < Page + Size[j] + Size[j]
    BY <1>2, <1>5, <2>1, InSomeHalf
  <2>3. j \in Orders
    BY <1>2, <2>2
  <2>4. x \in Block(Half(j), j)
    BY <1>6, <2>1, <2>2, <2>3 DEF Block, Half
  <2> QED BY <2>2, <2>3, <2>4
<1>13. \A j \in Orders : j < Took => Half(j) \in Pfns
  BY <1>4, <1>8
<1> QED BY <1>1, <1>3, <1>4, <1>5, <1>6, <1>8, <1>9, <1>11, <1>12, <1>13

\* What a successful allocation does to the state.
LEMMA AllocDoes ==
  ASSUME IInv, AllocPages(1)
  PROVE  /\ Candidates(1) # {} /\ free[Took] # <<>>
         /\ todo.nr = 0 /\ r = NrPages
         /\ free' \in [Orders -> Seq(Slots)]
         /\ \A j \in Orders : /\ IsInjective(free'[j])
                              /\ count'[j] = Len(free'[j])
                              /\ OnList(j)' = IF j = Took THEN OnList(j) \ {Page}
                                              ELSE IF j < Took THEN OnList(j) \cup {Half(j)}
                                              ELSE OnList(j)
         /\ count' \in [Orders -> Int]
         /\ flag' \in [Slots -> BOOLEAN] /\ order' \in [Slots -> Orders]
         /\ \A q \in Slots : /\ flag'[q] <=> flag[q] \/ \E j \in Orders : j < Took /\ q = Half(j)
                             /\ (~ \E j \in Orders : j < Took /\ q = Half(j)) => order'[q] = order[q]
         /\ \A j \in Orders : j < Took => order'[Half(j)] = j
         /\ used' = used \cup {Page}
         /\ held' = Append(held, [pfn |-> Page, nr |-> 1])
         /\ ret' = Page
         /\ nr_free_pages' = nr_free_pages - 1
         /\ UNCHANGED <<r, todo, reserved>>
<1> USE DEF IInv, ListsInv
<1> DEFINE back == UpperHalves(Page, Took, 1)
<1>1. /\ todo.nr = 0 /\ r = NrPages /\ Candidates(1) # {} /\ free[Took] # <<>>
      /\ free'  = [j \in Orders |-> IF j = Took THEN Tail(free[j])
                                    ELSE IF j \in DOMAIN back THEN Append(free[j], back[j])
                                    ELSE free[j]]
      /\ count' = [j \in Orders |-> IF j = Took THEN count[j] - 1
                                    ELSE IF j \in DOMAIN back THEN count[j] + 1
                                    ELSE count[j]]
      /\ flag'  = [p \in Slots |-> flag[p] \/ p \in Range(back)]
      /\ order' = [p \in Slots |-> IF p \in Range(back)
                                   THEN CHOOSE j \in DOMAIN back : back[j] = p
                                   ELSE order[p]]
      /\ used'  = used \cup ((Page..Page + 1 - 1) \cap Pfns)
      /\ held'  = Append(held, [pfn |-> Page, nr |-> 1])
      /\ ret'   = Page
      /\ nr_free_pages' = nr_free_pages - 1
      /\ UNCHANGED <<r, todo, reserved>>
  BY DEF AllocPages, Ready, Booted, Page, Took
<1>2. /\ Took \in Orders /\ Page \in OnList(Took) /\ Page \in Pfns
      /\ \A j \in Orders : j < Took =>
           /\ Half(j) \in Pfns /\ Half(j) \in Block(Half(j), j) /\ Half(j) \notin OnList(j)
           /\ \A i \in Orders : i < Took /\ i # j =>
                Block(Half(i), i) \cap Block(Half(j), j) = {}
  BY <1>1, TakenBlock
<1>3. /\ DOMAIN back = {j \in Orders : j < Took}
      /\ \A j \in Orders : j < Took => back[j] = Half(j)
  <2>1. Orders = 0..TopOrder /\ TopOrder \in Nat
    BY MaxOrderAssumption DEF Orders, TopOrder
  <2>2. 0..Took - 1 = {j \in Orders : j < Took}
    <3> HIDE DEF Took
    <3> QED BY <1>2, <2>1
  <2> QED BY <2>2 DEF UpperHalves, OrderOf, Half
<1> HIDE DEF back
<1>4. \A q : q \in Range(back) <=> \E j \in Orders : j < Took /\ q = Half(j)
  BY <1>3 DEF Range
<1>5. ASSUME NEW j \in Orders
      PROVE  /\ free'[j] \in Seq(Slots) /\ IsInjective(free'[j])
             /\ count'[j] = Len(free'[j]) /\ count'[j] \in Int
             /\ OnList(j)' = IF j = Took THEN OnList(j) \ {Page}
                             ELSE IF j < Took THEN OnList(j) \cup {Half(j)}
                             ELSE OnList(j)
  <2>1. /\ free[j] \in Seq(Slots) /\ IsInjective(free[j]) /\ count[j] = Len(free[j])
        /\ Len(free[j]) \in Nat
    <3>1. free[j] \in Seq(Slots)
      BY DEF TypeOK
    <3>2. count[j] = Len(free[j])
      BY DEF ListsExact
    <3> QED BY <3>1, <3>2, LenProperties DEF Once
  <2>2. CASE j = Took
    <3>1. free'[j] = Tail(free[j]) /\ count'[j] = count[j] - 1 /\ Page = Head(free[j])
      BY <1>1, <2>2 DEF Page
    <3>2. free[j] # <<>>
      BY <1>1, <2>2
    <3>3. /\ free'[j] \in Seq(Slots) /\ Len(free'[j]) = Len(free[j]) - 1
          /\ Range(free'[j]) = Range(free[j]) \ {Page} /\ IsInjective(free'[j])
      BY <2>1, <3>1, <3>2, TakenOnce
    <3> QED BY <2>1, <2>2, <3>1, <3>3 DEF OnList
  <2>3. CASE j # Took /\ j < Took
    <3>1. free'[j] = Append(free[j], Half(j)) /\ count'[j] = count[j] + 1
      BY <1>1, <1>3, <2>3
    <3>2. Half(j) \notin Range(free[j]) /\ Half(j) \in Slots
      BY <1>2, <2>3, PfnsAre DEF OnList
    <3>3. /\ free'[j] \in Seq(Slots) /\ Len(free'[j]) = Len(free[j]) + 1
          /\ Range(free'[j]) = Range(free[j]) \cup {Half(j)} /\ IsInjective(free'[j])
      BY <2>1, <3>1, <3>2, AppendedOnce
    <3> QED BY <2>1, <2>3, <3>1, <3>3 DEF OnList
  <2>4. CASE j # Took /\ ~(j < Took)
    <3>1. free'[j] = free[j] /\ count'[j] = count[j]
      BY <1>1, <1>3, <2>4
    <3> QED BY <2>1, <2>4, <3>1 DEF OnList
  <2> QED BY <2>2, <2>3, <2>4
<1>6. free' \in [Orders -> Seq(Slots)]
  <2>1. free' = [j \in Orders |-> free'[j]]
    BY <1>1
  <2> QED BY <1>5, <2>1
<1>7. count' \in [Orders -> Int]
  <2>1. count' = [j \in Orders |-> count'[j]]
    BY <1>1
  <2> QED BY <1>5, <2>1
<1>8. \A q \in Slots : flag'[q] <=> flag[q] \/ \E j \in Orders : j < Took /\ q = Half(j)
  BY <1>1, <1>4
<1>9. flag' \in [Slots -> BOOLEAN]
  <2>1. flag \in [Slots -> BOOLEAN]
    BY DEF TypeOK
  <2> QED BY <1>1, <2>1
<1>10. ASSUME NEW j \in Orders, j < Took PROVE order'[Half(j)] = j
  <2>1. Half(j) \in Slots
    BY <1>2, <1>10, PfnsAre
  <2>2. order'[Half(j)] = CHOOSE i \in DOMAIN back : back[i] = Half(j)
    BY <1>1, <1>4, <1>10, <2>1
  <2>3. j \in DOMAIN back /\ back[j] = Half(j)
    BY <1>3, <1>10
  <2>4. ASSUME NEW i \in DOMAIN back, back[i] = Half(j) PROVE i = j
    <3>1. i \in Orders /\ i < Took /\ Half(i) = Half(j)
      BY <1>3, <2>4
    <3> QED BY <1>2, <1>10, <3>1
  <2> QED BY <2>2, <2>3, <2>4
<1>11. \A q \in Slots : (~ \E j \in Orders : j < Took /\ q = Half(j)) => order'[q] = order[q]
  BY <1>1, <1>4
<1>12. order' \in [Slots -> Orders]
  <2>1. order \in [Slots -> Orders]
    BY DEF TypeOK
  <2>2. \A q \in Slots : order'[q] \in Orders
    BY <1>10, <1>11, <2>1
  <2>3. order' = [q \in Slots |-> order'[q]]
    BY <1>1
  <2> QED BY <2>2, <2>3
<1>13. used' = used \cup {Page}
  <2>1. \A p \in Int : p..p + 1 - 1 = {p}
    OBVIOUS
  <2>2. Page..Page + 1 - 1 = {Page}
    BY <1>2, <2>1, PfnsAre
  <2> QED BY <1>1, <1>2, <2>2
<1> QED BY <1>1, <1>5, <1>6, <1>7, <1>8, <1>9, <1>10, <1>11, <1>12, <1>13

\* The lists are right after an allocation.
LEMMA AllocLists ==
  ASSUME IInv, AllocPages(1)
  PROVE  ListsInv'
<1> USE DEF IInv, ListsInv
<1>1. /\ Took \in Orders /\ Page \in OnList(Took)
      /\ Block(Page, Took) \subseteq Pfns /\ Page \in Block(Page, Took)
      /\ \A j \in Orders : j < Took =>
           /\ Half(j) \in Pfns /\ HeadOf(Half(j), j) = Half(j)
           /\ BuddyOf(Half(j), j) = Page
           /\ Half(j) \in Block(Half(j), j)
           /\ Block(Half(j), j) \subseteq Block(Page, Took)
           /\ Page \notin Block(Half(j), j)
           /\ Half(j) \notin OnList(j)
           /\ \A i \in Orders : i < Took /\ i # j =>
                Block(Half(i), i) \cap Block(Half(j), j) = {}
  BY AllocDoes, TakenBlock
<1>2. \A j \in Orders : /\ IsInjective(free'[j])
                        /\ count'[j] = Len(free'[j])
                        /\ OnList(j)' = IF j = Took THEN OnList(j) \ {Page}
                                        ELSE IF j < Took THEN OnList(j) \cup {Half(j)}
                                        ELSE OnList(j)
  BY AllocDoes
<1>3. /\ \A q \in Slots : /\ flag'[q] <=> flag[q] \/ \E j \in Orders : j < Took /\ q = Half(j)
                          /\ (~ \E j \in Orders : j < Took /\ q = Half(j)) => order'[q] = order[q]
      /\ \A j \in Orders : j < Took => order'[Half(j)] = j
  BY AllocDoes
<1>4. \A j \in Orders : OnList(j) \subseteq Slots
  BY RangeOfSeq DEF TypeOK, OnList
<1>5. \A j \in Orders : \A q \in OnList(j)' :
        \/ j < Took /\ q = Half(j)
        \/ q \in OnList(j) /\ ~(j = Took /\ q = Page)
  BY <1>2
<1>6. Once'
  BY <1>2 DEF Once
<1>7. ASSUME NEW k \in Orders, NEW q \in OnList(k), ~(k = Took /\ q = Page)
      PROVE  Block(q, k) \cap Block(Page, Took) = {} /\ q \in Block(q, k)
  <2>1. q \in Int /\ k \in 0..MaxOrder
    BY <1>4, PfnsAre
  <2>2. q \in Block(q, k)
    BY <2>1, SizePositive DEF Block
  <2> QED BY <1>1, <1>7, <2>2 DEF Apart
<1>8. ASSUME NEW k \in Orders, NEW q \in OnList(k)'
      PROVE  HeadOf(q, k) = q /\ Block(q, k) \subseteq Pfns /\ IsBuddy(q, k)'
  <2>1. CASE k < Took /\ q = Half(k)
    <3>1. Half(k) \in Slots
      BY <1>1, <2>1, PfnsAre
    <3>2. flag'[q] /\ order'[q] = k
      BY <1>3, <2>1, <3>1
    <3>3. HeadOf(q, k) = q /\ Block(q, k) \subseteq Pfns
      BY <1>1, <2>1
    <3> QED BY <3>2, <3>3 DEF IsBuddy
  <2>2. CASE q \in OnList(k) /\ ~(k = Took /\ q = Page)
    <3>1. q \in Slots /\ HeadOf(q, k) = q /\ Block(q, k) \subseteq Pfns /\ IsBuddy(q, k)
      BY <1>4, <2>2 DEF ListsExact, OnList
    <3>2. ~ \E j \in Orders : j < Took /\ q = Half(j)
      BY <1>1, <1>7, <2>2
    <3> QED BY <1>3, <3>1, <3>2 DEF IsBuddy
  <2> QED BY <1>5, <2>1, <2>2
<1>9. ListsExact'
  BY <1>2, <1>8 DEF ListsExact, OnList
<1>10. Apart'
  <2> SUFFICES ASSUME NEW j \in Orders, NEW k \in Orders, NEW p \in OnList(j)', NEW q \in OnList(k)',
                      p # q \/ j # k
               PROVE  Block(p, j) \cap Block(q, k) = {}
    BY DEF Apart
  <2>1. CASE p \in OnList(j) /\ ~(j = Took /\ p = Page)
    <3>1. CASE q \in OnList(k)
      BY <2>1, <3>1 DEF Apart
    <3>2. CASE k < Took /\ q = Half(k)
      BY <1>1, <1>7, <2>1, <3>2
    <3> QED BY <1>5, <3>1, <3>2
  <2>2. CASE j < Took /\ p = Half(j)
    <3>1. CASE q \in OnList(k) /\ ~(k = Took /\ q = Page)
      BY <1>1, <1>7, <2>2, <3>1
    <3>2. CASE k < Took /\ q = Half(k)
      <4>1. j # k
        BY <2>2, <3>2
      <4> QED BY <1>1, <2>2, <3>2, <4>1
    <3> QED BY <1>5, <3>1, <3>2
  <2> QED BY <1>5, <2>1, <2>2
<1>11. Coalesced'
  <2> SUFFICES ASSUME NEW k \in Orders \ {TopOrder}, NEW q \in OnList(k)',
                      BuddyOf(q, k) \in OnList(k)'
               PROVE  FALSE
    BY DEF Coalesced, OnList
  <2>1. k \in Orders /\ k \in 0..MaxOrder /\ k < MaxOrder
    BY MaxOrderAssumption DEF Orders, TopOrder
  <2>2. ASSUME k < Took, NEW x \in OnList(k), ~(k = Took /\ x = Page) PROVE x # Page
    BY <1>1, <1>7, <2>1, <2>2
  <2>3. ASSUME k < Took PROVE Page \notin OnList(k)'
    <3>1. Page # Half(k)
      BY <1>1, <2>1, <2>3
    <3>2. k # Took
      BY <1>1, <2>1, <2>3 DEF Orders
    <3> QED BY <1>5, <2>1, <2>2, <2>3, <3>1, <3>2
  <2>4. CASE k < Took /\ q = Half(k)
    BY <1>1, <2>1, <2>3, <2>4
  <2>5. CASE q \in OnList(k)
    <3>1. q \in Int /\ HeadOf(q, k) = q
      BY <1>4, <2>1, <2>5, PfnsAre DEF ListsExact, OnList
    <3>2. CASE BuddyOf(q, k) \in OnList(k)
      BY <2>5, <3>2 DEF Coalesced, OnList
    <3>3. CASE k < Took /\ BuddyOf(q, k) = Half(k)
      <4>1. BuddyOf(Half(k), k) = q
        BY <2>1, <3>1, <3>3, Buddies
      <4> QED BY <1>1, <2>1, <2>3, <3>3, <4>1
    <3> QED BY <1>5, <2>1, <3>2, <3>3
  <2> QED BY <1>5, <2>1, <2>4, <2>5
<1> QED BY <1>6, <1>9, <1>10, <1>11

\* The page is the caller's and nobody else's.
LEMMA AllocMoves ==
  ASSUME IInv, AllocPages(1)
  PROVE  /\ Page \in FreeBlocks /\ FreeBlocks' = FreeBlocks \ {Page}
         /\ TodoPages = {} /\ TodoPages' = {}
<1> USE DEF IInv, ListsInv
<1>1. /\ Took \in Orders /\ Page \in OnList(Took) /\ Page \in Block(Page, Took)
      /\ \A j \in Orders : j < Took =>
           /\ Block(Half(j), j) \subseteq Block(Page, Took)
           /\ Page \notin Block(Half(j), j)
      /\ \A x \in Block(Page, Took) :
           x # Page => \E j \in Orders : j < Took /\ x \in Block(Half(j), j)
  BY AllocDoes, TakenBlock
<1>2. \A j \in Orders : OnList(j)' = IF j = Took THEN OnList(j) \ {Page}
                                     ELSE IF j < Took THEN OnList(j) \cup {Half(j)}
                                     ELSE OnList(j)
  BY AllocDoes
<1>3. todo.nr = 0 /\ todo' = todo /\ todo.pfn \in Int
  BY AllocDoes DEF TypeOK
<1>4. TodoPages = {} /\ TodoPages' = {}
  BY <1>3 DEF TodoPages
<1>5. Page \in FreeBlocks /\ Block(Page, Took) \subseteq FreeBlocks
  BY <1>1, FreeBlocksAre
<1>6. \A j \in Orders : j < Took => j # Took
  BY <1>1 DEF Orders
<1>7. ASSUME NEW x PROVE x \in FreeBlocks' <=> x \in FreeBlocks \ {Page}
  <2>1. x \in FreeBlocks' <=> \E k \in Orders : \E p \in OnList(k)' : x \in Block(p, k)
    <3>1. free' \in [Orders -> Seq(Slots)]
      BY AllocDoes
    <3> QED BY <3>1, PagesOnLists DEF FreeBlocks, FreeHeads, OnList
  <2>2. ASSUME x \in FreeBlocks \ {Page} PROVE x \in FreeBlocks'
    <3>1. PICK k \in Orders : \E p \in OnList(k) : x \in Block(p, k)
      BY <2>2, FreeBlocksAre
    <3>2. PICK p \in OnList(k) : x \in Block(p, k)
      BY <3>1
    <3>3. CASE k = Took /\ p = Page
      <4>1. PICK j \in Orders : j < Took /\ x \in Block(Half(j), j)
        BY <1>1, <2>2, <3>2, <3>3
      <4> QED BY <1>2, <1>6, <2>1, <4>1
    <3>4. CASE ~(k = Took /\ p = Page)
      BY <1>2, <2>1, <3>2, <3>4
    <3> QED BY <3>3, <3>4
  <2>3. ASSUME x \in FreeBlocks' PROVE x \in FreeBlocks \ {Page}
    <3>1. PICK k \in Orders : \E p \in OnList(k)' : x \in Block(p, k)
      BY <2>1, <2>3
    <3>2. PICK p \in OnList(k)' : x \in Block(p, k)
      BY <3>1
    <3>3. CASE k < Took /\ p = Half(k)
      BY <1>1, <1>5, <3>2, <3>3
    <3>4. CASE p \in OnList(k) /\ ~(k = Took /\ p = Page)
      <4>1. x \in FreeBlocks
        BY <3>2, <3>4, FreeBlocksAre
      <4>2. Block(p, k) \cap Block(Page, Took) = {}
        BY <1>1, <3>4 DEF Apart
      <4> QED BY <1>1, <3>2, <4>1, <4>2
    <3> QED BY <1>2, <3>2, <3>3, <3>4
  <2> QED BY <2>2, <2>3
<1> QED BY <1>4, <1>5, <1>7

\* The list of the callers' allocations after one more.
LEMMA HeldGrows ==
  ASSUME IInv, AllocPages(1)
  PROVE  /\ held' \in Seq([pfn : Slots, nr : Nat])
         /\ DOMAIN held' = DOMAIN held \cup {Len(held) + 1}
         /\ \A i \in DOMAIN held : held'[i] = held[i] /\ i < Len(held) + 1 /\ i \in Nat
         /\ held'[Len(held) + 1] = [pfn |-> Page, nr |-> 1]
         /\ HeldPfns' = HeldPfns \cup {Page}
         /\ Stack = held /\ Stack' = held'
<1> DEFINE R == [pfn : Slots, nr : Nat]
           e == [pfn |-> Page, nr |-> 1]
<1>1. todo.nr = 0 /\ todo' = todo /\ held' = Append(held, e)
  BY AllocDoes
<1>2. Stack = held /\ Stack' = held'
  BY <1>1 DEF Stack
<1>3. held \in Seq(R)
  BY <1>2, StackIs DEF IInv, PagesInv
<1>4. e \in R
  <2>1. Page \in Slots
    BY AllocDoes, TakenBlock, PfnsAre
  <2> QED BY <2>1
<1> HIDE DEF R
<1>5. /\ held' \in Seq(R) /\ Len(held') = Len(held) + 1
      /\ \A i \in 1..Len(held) : held'[i] = held[i]
      /\ held'[Len(held) + 1] = e
  <2> HIDE DEF e
  <2> QED BY <1>1, <1>3, <1>4, AppendProperties
<1>6. DOMAIN held = 1..Len(held) /\ Len(held) \in Nat /\ DOMAIN held' = 1..Len(held) + 1
  BY <1>3, <1>5, LenProperties
<1>7. Range(held') = Range(held) \cup {e}
  <2> HIDE DEF e
  <2> QED BY <1>1, <1>3, <1>4, AppendedOnce
<1>8. HeldPfns' = HeldPfns \cup {Page}
  <2>1. e.pfn = Page
    OBVIOUS
  <2> HIDE DEF e
  <2>2. \A x : x \in HeldPfns' <=> x \in HeldPfns \cup {Page}
    BY <1>7, <2>1 DEF HeldPfns
  <2> QED BY <2>2
<1> QED BY <1>2, <1>5, <1>6, <1>8 DEF R

\* What the bitmap says stays right.
LEMMA AllocPagesInv ==
  ASSUME IInv, AllocPages(1)
  PROVE  PagesInv' /\ Avail' = Avail \ {Page}
<1> USE DEF IInv, PagesInv
<1>1. /\ todo.nr = 0 /\ r = NrPages
      /\ used' = used \cup {Page}
      /\ nr_free_pages' = nr_free_pages - 1
      /\ UNCHANGED <<r, todo, reserved>>
  BY AllocDoes
<1>2. /\ Page \in FreeBlocks /\ FreeBlocks' = FreeBlocks \ {Page}
      /\ TodoPages = {} /\ TodoPages' = {}
  BY AllocMoves
<1>3. FreeBlocks \subseteq Pfns /\ FreeBlocks \cap used = {} /\ Page \in Pfns /\ Page \notin used
  BY <1>2, Unused
<1>4. HeldPfns' = HeldPfns \cup {Page}
  BY HeldGrows
<1>5. Avail' = Avail \ {Page}
  <2>1. {p \in Pfns \ reserved : p >= r} = {}
    BY <1>1, NrPagesAssumption DEF Pfns
  <2>2. {p \in Pfns \ reserved : p >= r}' = {}
    BY <1>1, NrPagesAssumption DEF Pfns
  <2>3. Avail = FreeBlocks /\ Avail' = FreeBlocks'
    BY <1>2, <2>1, <2>2 DEF Avail, FreeBlocks
  <2> QED BY <1>2, <2>3
<1>6. Parts'
  <2>1. Avail' = Pfns \ used'
    BY <1>1, <1>5 DEF Parts
  <2>2. used' = HeldPfns' \cup reserved'
    BY <1>1, <1>4 DEF Parts
  <2>3. FreeBlocks' \cap TodoPages' = {}
    BY <1>2
  <2>4. \A x \in FreeBlocks' \cup TodoPages' : x < r'
    BY <1>1, <1>2 DEF Parts
  <2> QED BY <2>1, <2>2, <2>3, <2>4 DEF Parts, Pfns
<1>7. HeldOnce'
  <2>1. /\ DOMAIN held' = DOMAIN held \cup {Len(held) + 1}
        /\ \A i \in DOMAIN held : held'[i] = held[i] /\ held[i].pfn \in used
        /\ held'[Len(held) + 1].pfn = Page
    <3>1. \A i \in DOMAIN held : held[i].pfn \in used
      BY DEF Parts, HeldPfns, Range
    <3> QED BY <3>1, HeldGrows
  <2>2. \A i, j \in DOMAIN held' : held'[i].pfn = held'[j].pfn => i = j
    BY <1>3, <2>1 DEF HeldOnce
  <2>3. HeldPfns' \subseteq Pfns \ reserved'
    BY <1>1, <1>3, <1>4 DEF HeldOnce, Parts
  <2> QED BY <2>2, <2>3 DEF HeldOnce, Pfns
<1>8. BootFirst'
  BY <1>1, <1>2, NrPagesAssumption DEF BootFirst
<1>9. Counted'
  <2>1. IsFiniteSet(FreeBlocks)
    <3>1. IsFiniteSet(0..NrPages - 1)
      BY NrPagesAssumption, FS_Interval
    <3> QED BY <1>3, <3>1, FS_Subset DEF Pfns
  <2>2. Cardinality(FreeBlocks \ {Page}) = Cardinality(FreeBlocks) - 1
    BY <1>2, <2>1, FS_RemoveElement
  <2>3. FreeBlocks \cup TodoPages = FreeBlocks /\ FreeBlocks' \cup TodoPages' = FreeBlocks \ {Page}
    BY <1>2
  <2> QED BY <1>1, <2>2, <2>3 DEF Counted
<1> QED BY <1>5, <1>6, <1>7, <1>8, <1>9

\* Whatever was split, what the pages handed out look like is known.
LEMMA AllocStack ==
  ASSUME IInv, AllocPages(1)
  PROVE  StackInv'
<1> USE DEF IInv, ListsInv, PagesInv, StackInv
<1>0. PICK n : n = Len(held) + 1
  OBVIOUS
<1>1. /\ DOMAIN Stack' = DOMAIN Stack \cup {n} /\ n \notin DOMAIN Stack
      /\ \A i \in DOMAIN Stack : HeadAt(i)' = HeadAt(i) /\ i < n /\ i \in Nat
      /\ HeadAt(n)' = Page
  <2>1. /\ Stack = held /\ Stack' = held'
        /\ DOMAIN held' = DOMAIN held \cup {n}
        /\ \A i \in DOMAIN held : held'[i] = held[i] /\ i < n /\ i \in Nat
        /\ held'[n] = [pfn |-> Page, nr |-> 1]
    BY <1>0, HeldGrows
  <2>2. n \notin DOMAIN held
    BY <2>1
  <2>3. HeadAt(n)' = Page
    BY <2>1 DEF HeadAt
  <2> QED BY <2>1, <2>2, <2>3 DEF HeadAt
<1>2. /\ Took \in Orders /\ Page \in OnList(Took) /\ Page \in Block(Page, Took)
      /\ Page \in Pfns /\ HeadOf(Page, Took) = Page
      /\ flag[Page] /\ order[Page] = Took
      /\ \A j \in Orders : j < Took =>
           /\ Half(j) \in Pfns /\ HeadOf(Half(j), j) = Half(j)
           /\ BuddyOf(Half(j), j) = Page
           /\ Half(j) \in Block(Half(j), j)
           /\ Block(Half(j), j) \subseteq Block(Page, Took)
           /\ Page \notin Block(Half(j), j)
      /\ \A x \in Block(Page, Took) :
           x # Page => \E j \in Orders : j < Took /\ x \in Block(Half(j), j)
  BY AllocDoes, TakenBlock
<1>3. \A j \in Orders : OnList(j)' = IF j = Took THEN OnList(j) \ {Page}
                                     ELSE IF j < Took THEN OnList(j) \cup {Half(j)}
                                     ELSE OnList(j)
  BY AllocDoes
<1>4. /\ \A q \in Slots : /\ flag'[q] <=> flag[q] \/ \E j \in Orders : j < Took /\ q = Half(j)
                          /\ (~ \E j \in Orders : j < Took /\ q = Half(j)) => order'[q] = order[q]
      /\ \A j \in Orders : j < Took => order'[Half(j)] = j
  BY AllocDoes
<1>5. Page \in Slots /\ Page \in FreeBlocks /\ Block(Page, Took) \subseteq FreeBlocks
  BY <1>2, PfnsAre, FreeBlocksAre
<1>6. \A j \in Orders : j < Took => Half(j) \in FreeBlocks /\ Half(j) # Page /\ j # Took
  BY <1>2, <1>5 DEF Orders
<1>7. ASSUME NEW i \in DOMAIN Stack
      PROVE  /\ HeadAt(i) \in Slots /\ HeadAt(i) \notin FreeBlocks /\ HeadAt(i) # Page
             /\ HeadAt(i)' = HeadAt(i) /\ OrderAt(i)' = OrderAt(i)
             /\ OrderAt(i) \in Orders /\ flag'[HeadAt(i)]
             /\ i \in DOMAIN Stack' /\ i < n
  <2>1. HeadAt(i) \in Slots /\ HeadAt(i) \notin FreeBlocks
    BY StackIs, PfnsAre
  <2>2. ~ \E j \in Orders : j < Took /\ HeadAt(i) = Half(j)
    BY <1>6, <2>1
  <2>3. order'[HeadAt(i)] = order[HeadAt(i)] /\ flag'[HeadAt(i)]
    BY <1>4, <2>1, <2>2 DEF StackPages
  <2>4. HeadAt(i)' = HeadAt(i)
    BY <1>1
  <2>5. OrderAt(i)' = order'[HeadAt(i)]
    BY <2>4 DEF OrderAt
  <2>6. OrderAt(i) \in Orders
    BY <2>1 DEF OrderAt, TypeOK
  <2> QED BY <1>1, <1>5, <2>1, <2>3, <2>4, <2>5, <2>6 DEF OrderAt
<1>8. HeadAt(n)' = Page /\ OrderAt(n)' = Took /\ flag'[Page] /\ order'[Page] = Took
  <2>1. ~ \E j \in Orders : j < Took /\ Page = Half(j)
    BY <1>6
  <2>2. order'[Page] = Took /\ flag'[Page]
    BY <1>2, <1>4, <1>5, <2>1
  <2> QED BY <1>1, <2>2 DEF OrderAt
<1>9. ASSUME NEW q \in Slots, flag'[q]
      PROVE  /\ q \in Pfns /\ HeadOf(q, order'[q]) = q
             /\ \/ q \in OnList(order[q])'
                \/ \E i \in DOMAIN Stack' : q = HeadAt(i)'
                \/ \E m \in Orders : \E g \in OnList(m)' :
                     m > order'[q] /\ Block(q, order'[q]) \subseteq Block(g, m)
  <2>1. CASE \E j \in Orders : j < Took /\ q = Half(j)
    <3>1. PICK j \in Orders : j < Took /\ q = Half(j)
      BY <2>1
    <3>2. order'[q] = j /\ q \in OnList(j)'
      BY <1>3, <1>4, <1>6, <3>1
    <3> QED BY <1>2, <3>1, <3>2 DEF OnList
  <2>2. CASE ~ \E j \in Orders : j < Took /\ q = Half(j)
    <3> DEFINE o == order[q]
    <3>1. flag[q] /\ order'[q] = o /\ o \in Orders
      BY <1>4, <1>9, <2>2 DEF TypeOK
    <3>2. q \in Pfns /\ HeadOf(q, o) = q
      BY <3>1 DEF Flagged
    <3>3. CASE q \in OnList(o)
      <4>1. CASE q = Page
        BY <1>1, <3>1, <3>2, <4>1
      <4>2. CASE q # Page
        <5>1. q \in OnList(o)'
          BY <1>3, <3>1, <3>3, <4>2
        <5> QED BY <3>1, <3>2, <5>1 DEF OnList
      <4> QED BY <4>1, <4>2
    <3>4. CASE \E i \in DOMAIN Stack : q = HeadAt(i)
      BY <1>7, <3>1, <3>2, <3>4
    <3>5. CASE \E m \in Orders : \E g \in OnList(m) : m > o /\ Block(q, o) \subseteq Block(g, m)
      <4>1. PICK m \in Orders : \E g \in OnList(m) : m > o /\ Block(q, o) \subseteq Block(g, m)
        BY <3>5
      <4>2. PICK g \in OnList(m) : m > o /\ Block(q, o) \subseteq Block(g, m)
        BY <4>1
      <4>3. CASE ~(m = Took /\ g = Page)
        <5>1. g \in OnList(m)'
          BY <1>3, <4>3
        <5> QED BY <3>1, <3>2, <4>2, <5>1
      <4>4. CASE m = Took /\ g = Page
        <5>1. q \in Int /\ o \in 0..MaxOrder
          BY <3>1, <3>2, PfnsAre
        <5>2. q \in Block(q, o) /\ Size[o] \in Nat \ {0}
          BY <5>1, SizePositive DEF Block
        <5>3. q # Page
          BY <1>2, <3>1, <4>2, <4>4 DEF Orders
        <5>4. PICK j \in Orders : j < Took /\ q \in Block(Half(j), j)
          BY <1>2, <4>2, <4>4, <5>2, <5>3
        <5>5. j \in 0..MaxOrder /\ Half(j) \in Int /\ Size[j] \in Nat \ {0} /\ HeadOf(Half(j), j) = Half(j)
          BY <1>2, <5>4, PfnsAre, SizePositive
        <5>6. Half(j) <= q /\ q < Half(j) + Size[j] /\ q # Half(j)
          BY <2>2, <5>1, <5>4, <5>5 DEF Block
        <5>7. o < j
          <6> SUFFICES ASSUME j <= o PROVE FALSE
            BY <3>1 DEF Orders
          <6>1. j \in 0..o
            BY <3>1 DEF Orders
          <6>2. q <= Half(j)
            BY <3>2, <5>1, <5>2, <5>5, <5>6, <6>1, Nesting, SMTT(20)
          <6> QED BY <5>1, <5>5, <5>6, <6>2
        <5>8. o \in 0..j
          BY <3>1, <5>7 DEF Orders
        <5>9. q + Size[o] <= Half(j) + Size[j]
          BY <3>2, <5>1, <5>2, <5>5, <5>6, <5>8, Nesting
        <5>10. Block(q, o) \subseteq Block(Half(j), j)
          BY <5>1, <5>2, <5>5, <5>6, <5>9 DEF Block
        <5>11. j > o /\ Half(j) \in OnList(j)'
          BY <1>3, <1>6, <3>1, <5>4, <5>7 DEF Orders
        <5> QED BY <3>1, <3>2, <5>10, <5>11
      <4> QED BY <4>3, <4>4
    <3> QED BY <3>1, <3>3, <3>4, <3>5 DEF Flagged
  <2> QED BY <2>1, <2>2
<1>10. Flagged'
  BY <1>9 DEF Flagged
<1>11. ASSUME NEW i \in DOMAIN Stack, OrderAt(i) < TopOrder
       PROVE  /\ BuddyOf(HeadAt(i), OrderAt(i)) \notin OnList(OrderAt(i))'
              /\ OrderAt(i) = Took => Page # BuddyOf(HeadAt(i), OrderAt(i))
  <2>1. BuddyOf(HeadAt(i), OrderAt(i)) \notin OnList(OrderAt(i))
    BY <1>11 DEF StackPages
  <2>2. /\ OrderAt(i) \in 0..MaxOrder /\ OrderAt(i) < MaxOrder /\ HeadAt(i) \in Int
        /\ HeadOf(HeadAt(i), OrderAt(i)) = HeadAt(i)
    <3>1. OrderAt(i) \in 0..MaxOrder /\ HeadAt(i) \in Int
      BY <1>7, PfnsAre
    <3>2. OrderAt(i) < MaxOrder
      <4> HIDE DEF OrderAt
      <4> QED BY <1>11, <3>1, MaxOrderAssumption DEF TopOrder
    <3> QED BY <3>1, <3>2 DEF StackPages
  <2>3. ASSUME OrderAt(i) < Took PROVE BuddyOf(HeadAt(i), OrderAt(i)) # Half(OrderAt(i))
    <3>1. BuddyOf(BuddyOf(HeadAt(i), OrderAt(i)), OrderAt(i)) = HeadAt(i)
      BY <2>2, Buddies
    <3>2. BuddyOf(Half(OrderAt(i)), OrderAt(i)) = Page /\ HeadAt(i) # Page
      BY <1>2, <1>7, <2>3
    <3> QED BY <3>1, <3>2
  <2> QED BY <1>2, <1>3, <1>7, <2>1, <2>3
<1>12. Took < TopOrder => BuddyOf(Page, Took) \notin OnList(Took)
  <2>1. Took < TopOrder => Took # TopOrder
    BY <1>2 DEF Orders
  <2> QED BY <1>2, <2>1 DEF Coalesced, OnList
<1>13. StackPages'
  <2> SUFFICES ASSUME NEW i \in DOMAIN Stack'
               PROVE  /\ flag'[HeadAt(i)'] /\ HeadOf(HeadAt(i)', OrderAt(i)') = HeadAt(i)'
                      /\ OrderAt(i)' < TopOrder =>
                           /\ BuddyOf(HeadAt(i)', OrderAt(i)') \notin OnList(OrderAt(i))'
                           /\ \A l \in DOMAIN Stack' : OrderAt(l)' = OrderAt(i)' =>
                                HeadAt(l)' # BuddyOf(HeadAt(i)', OrderAt(i)')
    BY DEF StackPages
  <2>1. CASE i \in DOMAIN Stack
    <3>1. flag'[HeadAt(i)'] /\ HeadOf(HeadAt(i)', OrderAt(i)') = HeadAt(i)'
      BY <1>7, <2>1 DEF StackPages
    <3>2. ASSUME OrderAt(i) < TopOrder, NEW l \in DOMAIN Stack', OrderAt(l)' = OrderAt(i)
          PROVE  HeadAt(l)' # BuddyOf(HeadAt(i), OrderAt(i))
      <4>1. CASE l \in DOMAIN Stack
        BY <1>7, <2>1, <3>2, <4>1 DEF StackPages
      <4>2. CASE l = n
        BY <1>8, <1>11, <2>1, <3>2, <4>2
      <4> QED BY <1>1, <4>1, <4>2
    <3> QED BY <1>7, <1>11, <2>1, <3>1, <3>2
  <2>2. CASE i = n
    <3>1. flag'[HeadAt(i)'] /\ HeadOf(HeadAt(i)', OrderAt(i)') = HeadAt(i)'
      BY <1>2, <1>8, <2>2
    <3>2. ASSUME Took < TopOrder PROVE BuddyOf(Page, Took) \notin Range(free'[Took])
      <4>1. PICK k \in Orders : k = Took
        BY <1>2
      <4>2. BuddyOf(Page, Took) \notin OnList(k)'
        BY <1>3, <1>12, <3>2, <4>1
      <4> QED BY <4>1, <4>2 DEF OnList
    <3>3. ASSUME Took < TopOrder, NEW l \in DOMAIN Stack', OrderAt(l)' = Took
          PROVE  HeadAt(l)' # BuddyOf(Page, Took)
      <4>1. /\ Took \in 0..MaxOrder /\ Took < MaxOrder /\ Page \in Int
            /\ BuddyOf(Page, Took) # Page /\ BuddyOf(BuddyOf(Page, Took), Took) = Page
        <5>1. Took \in 0..MaxOrder /\ Took < MaxOrder /\ Page \in Int
          BY <1>2, <3>3, PfnsAre, MaxOrderAssumption DEF TopOrder
        <5> QED BY <1>2, <5>1, Buddies
      <4>2. CASE l \in DOMAIN Stack
        <5>1. OrderAt(l) = Took /\ HeadAt(l)' = HeadAt(l)
          BY <1>7, <3>3, <4>2
        <5>2. Page # BuddyOf(HeadAt(l), OrderAt(l))
          BY <1>11, <3>3, <4>2, <5>1
        <5> QED BY <4>1, <5>1, <5>2
      <4>3. CASE l = n
        BY <1>8, <4>1, <4>3
      <4> QED BY <1>1, <4>2, <4>3
    <3> QED BY <1>8, <2>2, <3>1, <3>2, <3>3 DEF OnList
  <2> QED BY <1>1, <2>1, <2>2
<1>14. StackHalves'
  <2> SUFFICES ASSUME NEW i \in DOMAIN Stack', NEW j \in Orders, j < OrderAt(i)'
               PROVE  \/ HeadAt(i)' + Size[j] \in OnList(j)'
                      \/ \E l \in DOMAIN Stack' :
                           l > i /\ HeadAt(l)' = HeadAt(i)' + Size[j] /\ OrderAt(l)' = j
    BY DEF StackHalves
  <2>1. CASE i \in DOMAIN Stack
    <3>1. CASE HeadAt(i) + Size[j] \in OnList(j)
      <4>1. CASE j = Took /\ HeadAt(i) + Size[j] = Page
        <5>1. n \in DOMAIN Stack' /\ n > i
          BY <1>1, <2>1
        <5> QED BY <1>7, <1>8, <2>1, <4>1, <5>1
      <4>2. CASE ~(j = Took /\ HeadAt(i) + Size[j] = Page)
        BY <1>3, <1>7, <2>1, <3>1, <4>2
      <4> QED BY <4>1, <4>2
    <3>2. CASE \E l \in DOMAIN Stack : l > i /\ HeadAt(l) = HeadAt(i) + Size[j] /\ OrderAt(l) = j
      BY <1>7, <2>1, <3>2
    <3> QED BY <1>7, <2>1, <3>1, <3>2 DEF StackHalves
  <2>2. CASE i = n
    <3>1. j < Took /\ HeadAt(i)' + Size[j] = Half(j)
      BY <1>8, <2>2 DEF Half
    <3> QED BY <1>3, <1>6, <3>1
  <2> QED BY <1>1, <2>1, <2>2
<1> QED BY <1>10, <1>13, <1>14

-----------------------------------------------------------------------------
(* The other actions.                                                      *)

\* The lists are what the lists of blocks and the page structures make them.
LEMMA ListsSame ==
  ASSUME ListsInv, UNCHANGED <<free, count, flag, order>>
  PROVE  ListsInv' /\ FreeBlocks' = FreeBlocks
<1>1. ListsExact'
  BY DEF ListsInv, ListsExact, IsBuddy, Pfns, Orders, TopOrder
<1>2. Once'
  BY DEF ListsInv, Once
<1>3. Apart'
  BY DEF ListsInv, Apart, OnList
<1>4. Coalesced'
  BY DEF ListsInv, Coalesced
<1>5. FreeBlocks' = FreeBlocks
  BY DEF FreeBlocks, FreeHeads
<1> QED BY <1>1, <1>2, <1>3, <1>4, <1>5 DEF ListsInv

\* So is what the flags mean, as long as the stack is the same.
LEMMA StackSame ==
  ASSUME StackInv, UNCHANGED <<free, flag, order>>, Stack' = Stack
  PROVE  StackInv'
<1>1. /\ \A i : HeadAt(i)' = HeadAt(i) /\ OrderAt(i)' = OrderAt(i)
      /\ \A k : OnList(k)' = OnList(k)
  BY DEF HeadAt, OrderAt, OnList
<1>2. Flagged'
  BY <1>1 DEF StackInv, Flagged, OnList
<1>3. StackPages'
  BY <1>1 DEF StackInv, StackPages, OnList
<1>4. StackHalves'
  BY <1>1 DEF StackInv, StackHalves, OnList
<1> QED BY <1>2, <1>3, <1>4 DEF StackInv

\* A page with a flag is in a free block or in the stack.
LEMMA FlagMeans ==
  ASSUME IInv, NEW q \in Slots, flag[q]
  PROVE  q \in FreeBlocks \/ \E i \in DOMAIN Stack : q = HeadAt(i)
<1>1. order[q] \in Orders /\ q \in Block(q, order[q])
  <2>1. order[q] \in Orders
    BY DEF IInv, TypeOK
  <2>2. q \in Int /\ order[q] \in 0..MaxOrder
    BY <2>1, PfnsAre
  <2> QED BY <2>1, <2>2, SizePositive DEF Block
<1> QED BY <1>1, FreeBlocksAre DEF IInv, StackInv, Flagged

\* The next range of free pages of the bitmap.
LEMMA RangeFound ==
  ASSUME Working, IInv, BootRange
  PROVE  \E first \in Pfns : \E end \in 0..NrPages :
           /\ r <= first /\ first < end
           /\ todo' = [pfn |-> first, nr |-> end - first]
           /\ nr_free_pages' = nr_free_pages + (end - first) /\ r' = end
           /\ first..end - 1 \subseteq Pfns \ used
           /\ \A x \in Pfns : r <= x /\ x < first => x \in used
<1> USE DEF IInv, PagesInv
<1> DEFINE first == FindAvail(r)
           next  == FindUsed(first)
           end   == IF next = NOTFOUND THEN NrPages ELSE next
           A == {p \in Pfns : p >= r /\ p \notin used}
           U == {p \in Pfns : p >= first /\ p \in used}
<1>1. /\ todo.nr = 0 /\ r < NrPages
      /\ nr_free_pages' = nr_free_pages + (end - first)
      /\ todo' = [pfn |-> first, nr |-> end - first]
      /\ r' = end
  BY DEF BootRange, StartFree
<1>2. /\ r \in 0..NrPages /\ NrPages \in Nat /\ NrPages > 1
      /\ Pfns = 0..NrPages - 1 /\ Pfns \subseteq Nat
  BY NrPagesAssumption DEF TypeOK, Pfns
<1>3. used = reserved
  <2>1. held = <<>>
    BY <1>1 DEF BootFirst
  <2> QED BY <2>1 DEF Parts, HeldPfns, Range
<1>4. NrPages - 1 \in A
  BY <1>1, <1>2, <1>3 DEF BootFirst
<1>5. first \in A /\ \A x \in A : first <= x
  <2>1. A # {} /\ A \in SUBSET Nat
    BY <1>2, <1>4
  <2>2. first = Min(A)
    BY <2>1 DEF FindAvail
  <2> HIDE DEF A, first
  <2> QED BY <2>1, <2>2, MinIsLeast
<1> HIDE DEF first
<1>6. first \in Nat /\ first # NOTFOUND
  BY <1>2, <1>5 DEF NOTFOUND
<1>7. CASE U = {}
  <2>1. end = NrPages
    BY <1>7 DEF FindUsed
  <2>2. first..end - 1 \subseteq Pfns \ used
    BY <1>2, <1>5, <1>6, <1>7, <2>1
  <2>3. first < end /\ end \in 0..NrPages
    BY <1>2, <1>5, <1>6, <2>1
  <2> HIDE DEF end
  <2> QED BY <1>1, <1>2, <1>5, <2>2, <2>3
<1>8. CASE U # {}
  <2>1. next = Min(U)
    BY <1>6, <1>8 DEF FindUsed
  <2>2. next \in U /\ \A x \in U : next <= x
    <3>1. U \in SUBSET Nat
      BY <1>2
    <3> HIDE DEF U, next
    <3> QED BY <1>8, <2>1, <3>1, MinIsLeast
  <2> HIDE DEF next
  <2>3. end = next
    BY <1>2, <2>2 DEF NOTFOUND
  <2>4. first < end
    BY <1>2, <1>5, <1>6, <2>2, <2>3
  <2>5. end \in 0..NrPages
    BY <1>2, <2>2, <2>3
  <2> HIDE DEF end
  <2>6. first..end - 1 \subseteq Pfns \ used
    BY <1>2, <1>5, <1>6, <2>2, <2>3, <2>5
  <2> QED BY <1>1, <1>2, <1>5, <2>4, <2>5, <2>6
<1> QED BY <1>7, <1>8

\* The scan of the bitmap changes the invariant nowhere.
LEMMA BootRangeInv ==
  ASSUME Working, IInv, BootRange
  PROVE  IInv' /\ Avail' = Avail
<1> USE DEF IInv, PagesInv
<1>1. PICK first \in Pfns : \E end \in 0..NrPages :
           /\ r <= first /\ first < end
           /\ todo' = [pfn |-> first, nr |-> end - first]
           /\ nr_free_pages' = nr_free_pages + (end - first) /\ r' = end
           /\ first..end - 1 \subseteq Pfns \ used
           /\ \A x \in Pfns : r <= x /\ x < first => x \in used
  BY RangeFound
<1>2. PICK end \in 0..NrPages :
           /\ r <= first /\ first < end
           /\ todo' = [pfn |-> first, nr |-> end - first]
           /\ nr_free_pages' = nr_free_pages + (end - first) /\ r' = end
           /\ first..end - 1 \subseteq Pfns \ used
           /\ \A x \in Pfns : r <= x /\ x < first => x \in used
  BY <1>1
<1>3. /\ todo.nr = 0 /\ r < NrPages /\ held = <<>>
      /\ UNCHANGED <<used, flag, order, free, count, held, ret, reserved>>
  BY DEF BootRange, BootFirst
<1>4. NrPages \in Nat /\ r \in Nat /\ first \in Nat /\ end \in Nat /\ todo.pfn \in Int
  BY NrPagesAssumption DEF TypeOK, Pfns
<1>5. TypeOK'
  <2>1. todo' \in [pfn : Int, nr : Nat] /\ r' \in 0..NrPages /\ nr_free_pages' \in Int
    BY <1>2, <1>4 DEF TypeOK
  <2>2. /\ used' \subseteq Pfns /\ reserved' \subseteq Pfns
        /\ flag' \in [Slots -> BOOLEAN] /\ order' \in [Slots -> Orders]
        /\ free' \in [Orders -> Seq(Slots)] /\ count' \in [Orders -> Int]
        /\ held' \in Seq([pfn : Slots, nr : AllocSizes]) /\ ret' \in Pfns \cup {NOTFOUND}
    BY <1>3 DEF TypeOK
  <2> QED BY <2>1, <2>2 DEF TypeOK, Pfns, Slots, Orders, TopOrder
<1>6. ListsInv' /\ FreeBlocks' = FreeBlocks
  BY <1>3, ListsSame
<1>7. TodoPages = {} /\ TodoPages' = first..end - 1
  BY <1>2, <1>3, <1>4 DEF TodoPages
<1>8. \A x \in FreeBlocks : x \in Pfns /\ x < r
  BY Unused DEF Parts
<1>9. used = reserved
  BY <1>3 DEF Parts, HeldPfns, Range
<1>10. Avail' = Avail
  <2>1. Avail = FreeBlocks \cup {p \in Pfns \ reserved : p >= r}
    BY <1>7 DEF Avail, FreeBlocks
  <2>2. Avail' = FreeBlocks \cup (first..end - 1) \cup {p \in Pfns \ reserved : p >= end}
    BY <1>2, <1>3, <1>6, <1>7 DEF Avail, FreeBlocks, Pfns
  <2>3. \A x : x \in {p \in Pfns \ reserved : p >= r} <=>
                 x \in first..end - 1 \/ x \in {p \in Pfns \ reserved : p >= end}
    <3> SUFFICES ASSUME NEW x \in Pfns
                 PROVE  x \notin reserved /\ x >= r <=>
                          x \in first..end - 1 \/ (x \notin reserved /\ x >= end)
      BY <1>2
    <3>1. x \in Nat
      BY <1>4 DEF Pfns
    <3>2. x \in first..end - 1 => x \notin reserved /\ x >= r
      BY <1>2, <1>4, <1>9, <3>1
    <3>3. x >= end => x >= r
      BY <1>2, <1>4, <3>1
    <3>4. x \notin reserved /\ x >= r => x >= first
      BY <1>2, <1>4, <1>9, <3>1
    <3> QED BY <1>4, <3>1, <3>2, <3>3, <3>4
  <2> QED BY <2>1, <2>2, <2>3
<1>11. Parts'
  <2>1. FreeBlocks \cap (first..end - 1) = {}
    BY <1>2, <1>4, <1>8
  <2>2. \A x \in FreeBlocks \cup (first..end - 1) : x < end
    <3>1. \A x \in FreeBlocks : x \in Nat /\ x < r
      BY <1>4, <1>8 DEF Pfns
    <3> QED BY <1>2, <1>4, <3>1
  <2> QED BY <1>2, <1>3, <1>6, <1>7, <1>10, <2>1, <2>2 DEF Parts, HeldPfns, Pfns
<1>12. HeldOnce'
  BY <1>3 DEF HeldOnce, HeldPfns, Pfns
<1>13. \A q \in TodoPages' : ~flag[q]
  <2> SUFFICES ASSUME NEW q \in first..end - 1, flag[q] PROVE FALSE
    BY <1>7
  <2>1. q \in Pfns /\ q \in Slots /\ q \in Nat /\ r <= q
    BY <1>2, <1>4, PfnsAre DEF Pfns
  <2>2. Stack = <<>>
    BY <1>3 DEF Stack
  <2>3. q \in FreeBlocks
    BY <2>1, <2>2, FlagMeans
  <2> QED BY <1>4, <1>8, <2>1, <2>3
<1>14. first \in TodoPages'
  BY <1>2, <1>4, <1>7
<1>15. BootFirst'
  BY <1>2, <1>3, <1>13, <1>14 DEF BootFirst
<1>16. Counted'
  <2>1. IsFiniteSet(FreeBlocks)
    <3>1. IsFiniteSet(0..NrPages - 1)
      BY NrPagesAssumption, FS_Interval
    <3> QED BY <1>8, <3>1, FS_Subset DEF Pfns
  <2>2. IsFiniteSet(first..end - 1) /\ Cardinality(first..end - 1) = end - first
    <3>1. first \in Int /\ end - 1 \in Int /\ ~(first > end - 1) /\ (end - 1) - first + 1 = end - first
      BY <1>2, <1>4
    <3> QED BY <3>1, FS_Interval
  <2>3. FreeBlocks \cap (first..end - 1) = {}
    BY <1>2, <1>4, <1>8
  <2>4. Cardinality(FreeBlocks \cup (first..end - 1)) = Cardinality(FreeBlocks) + (end - first)
    <3> DEFINE I == first..end - 1
    <3>1. IsFiniteSet(I) /\ Cardinality(I) = end - first /\ FreeBlocks \cap I = {}
      BY <2>2, <2>3
    <3> HIDE DEF I
    <3>2. Cardinality(FreeBlocks \cap I) = 0
      BY <3>1, FS_EmptySet
    <3>3. Cardinality(FreeBlocks \cup I)
            = Cardinality(FreeBlocks) + Cardinality(I) - Cardinality(FreeBlocks \cap I)
      BY <2>1, <3>1, FS_Union
    <3>4. Cardinality(FreeBlocks) \in Nat
      BY <2>1, FS_CardinalityType
    <3>5. Cardinality(FreeBlocks \cup I) = Cardinality(FreeBlocks) + (end - first)
      BY <1>4, <3>1, <3>2, <3>3, <3>4
    <3> QED BY <3>5 DEF I
  <2>5. nr_free_pages = Cardinality(FreeBlocks)
    BY <1>7 DEF Counted
  <2> QED BY <1>2, <1>6, <1>7, <2>4, <2>5 DEF Counted
<1>17. StackInv'
  <2>1. ~flag'[todo'.pfn]
    BY <1>2, <1>3, <1>13, <1>14
  <2>2. Stack' = Stack
    BY <1>3, <2>1 DEF Stack
  <2> QED BY <1>3, <2>2, StackSame
<1> QED BY <1>5, <1>6, <1>10, <1>11, <1>12, <1>15, <1>16, <1>17

\* A turn of buddy_page_free keeps the invariant, and what the allocator answers for.
LEMMA FreeBlockInv ==
  ASSUME IInv, FreeBlock
  PROVE  IInv' /\ Avail' = Avail
<1>1. UNCHANGED <<used, nr_free_pages, r, held, ret, reserved>> /\ todo.nr > 0
  BY DEF FreeBlock
<1>2. TypeOK'
  <2>1. todo' \in [pfn : Int, nr : Nat]
    <3>1. /\ todo' = [pfn |-> todo.pfn + Size[Piece], nr |-> todo.nr - Size[Piece]]
          /\ Piece \in Orders /\ Size[Piece] <= todo.nr
      BY <1>1, FreeBlockDoes, FirstBlock DEF IInv, PagesInv, Piece
    <3>2. Size[Piece] \in Nat /\ todo.pfn \in Int /\ todo.nr \in Nat
      BY <3>1, PfnsAre, SizePositive DEF IInv, TypeOK
    <3>3. todo.pfn + Size[Piece] \in Int /\ todo.nr - Size[Piece] \in Nat
      BY <3>1, <3>2
    <3> QED BY <3>1, <3>3
  <2>2. /\ flag' \in [Slots -> BOOLEAN] /\ order' \in [Slots -> Orders]
        /\ free' \in [Orders -> Seq(Slots)] /\ count' \in [Orders -> Int]
    BY FreeBlockDoes
  <2>3. /\ used' \subseteq Pfns /\ reserved' \subseteq Pfns /\ nr_free_pages' \in Int
        /\ r' \in 0..NrPages /\ held' \in Seq([pfn : Slots, nr : AllocSizes])
        /\ ret' \in Pfns \cup {NOTFOUND}
    BY <1>1 DEF IInv, TypeOK
  <2> QED BY <2>1, <2>2, <2>3 DEF TypeOK, Pfns, Slots, Orders, TopOrder
<1> QED BY <1>2, FreeBlockLists, FreeBlockPages, FreeBlockStack DEF IInv

\* An allocation keeps the invariant.
LEMMA AllocPagesKeeps ==
  ASSUME IInv, AllocPages(1), 1 \in AllocSizes
  PROVE  IInv'
<1>1. TypeOK'
  <2>1. Page \in Pfns /\ Page \in Slots
    BY AllocDoes, TakenBlock, PfnsAre
  <2>2. held' \in Seq([pfn : Slots, nr : AllocSizes])
    <3> DEFINE S == [pfn : Slots, nr : AllocSizes]
               e == [pfn |-> Page, nr |-> 1]
    <3>1. e \in S
      BY <2>1
    <3>2. held \in Seq(S) /\ held' = Append(held, e)
      BY AllocDoes DEF IInv, TypeOK
    <3> HIDE DEF S, e
    <3>3. held' \in Seq(S)
      BY <3>1, <3>2, AppendProperties
    <3> QED BY <3>3 DEF S
  <2>3. /\ flag' \in [Slots -> BOOLEAN] /\ order' \in [Slots -> Orders]
        /\ free' \in [Orders -> Seq(Slots)] /\ count' \in [Orders -> Int]
        /\ used' = used \cup {Page} /\ ret' = Page /\ nr_free_pages' = nr_free_pages - 1
        /\ UNCHANGED <<r, todo, reserved>>
    BY AllocDoes
  <2>4. /\ used' \subseteq Pfns /\ reserved' \subseteq Pfns /\ nr_free_pages' \in Int
        /\ r' \in 0..NrPages /\ todo' \in [pfn : Int, nr : Nat] /\ ret' \in Pfns \cup {NOTFOUND}
    BY <2>1, <2>3 DEF IInv, TypeOK
  <2> QED BY <2>2, <2>3, <2>4 DEF TypeOK, Pfns, Slots, Orders, TopOrder
<1> QED BY <1>1, AllocLists, AllocPagesInv, AllocStack DEF IInv

\* A failed allocation changes the answer and nothing else.
LEMMA AllocFailsInv ==
  ASSUME IInv, NEW nr, AllocFails(nr)
  PROVE  IInv' /\ Avail' = Avail
<1>1. /\ ret' = NOTFOUND
      /\ UNCHANGED <<used, flag, order, free, count, nr_free_pages, r, todo, held, reserved>>
  BY DEF AllocFails
<1>2. TypeOK'
  BY <1>1 DEF IInv, TypeOK, Pfns, Slots, Orders, TopOrder
<1>3. ListsInv' /\ FreeBlocks' = FreeBlocks
  BY <1>1, ListsSame DEF IInv
<1>4. Avail' = Avail
  BY <1>1, <1>3 DEF Avail, FreeBlocks, TodoPages, Pfns
<1>5. PagesInv'
  <2>1. TodoPages' = TodoPages /\ HeldPfns' = HeldPfns
    BY <1>1 DEF TodoPages, HeldPfns
  <2>2. Parts' /\ Counted'
    BY <1>1, <1>3, <1>4, <2>1 DEF IInv, PagesInv, Parts, Counted, Pfns
  <2>3. HeldOnce' /\ BootFirst'
    BY <1>1, <2>1 DEF IInv, PagesInv, HeldOnce, BootFirst, Pfns
  <2> QED BY <2>2, <2>3 DEF PagesInv
<1>6. StackInv'
  <2>1. Stack' = Stack
    BY <1>1 DEF Stack
  <2> QED BY <1>1, <2>1, StackSame DEF IInv
<1> QED BY <1>2, <1>3, <1>4, <1>5, <1>6 DEF IInv

-----------------------------------------------------------------------------
(* FreePages.                                                              *)

\* The page given back is the one handed out last.
LEMMA Returned ==
  ASSUME Working, IInv, NEW i \in Releasable, FreePages(i)
  PROVE  /\ todo.nr = 0 /\ r = NrPages /\ i \in DOMAIN held /\ held[i].pfn \in HeldPfns
         /\ used' = used \ {held[i].pfn}
         /\ todo' = [pfn |-> held[i].pfn, nr |-> 1]
         /\ nr_free_pages' = nr_free_pages + 1
         /\ held' \in Seq([pfn : Slots, nr : AllocSizes])
         /\ DOMAIN held' \subseteq DOMAIN held
         /\ \A j \in DOMAIN held' : held'[j] = held[j] /\ j # i
         /\ DOMAIN held = DOMAIN held' \cup {i}
         /\ Append(held', [pfn |-> held[i].pfn, nr |-> 1]) = held
         /\ UNCHANGED <<flag, order, free, count, r, ret, reserved>>
<1> DEFINE S == [pfn : Slots, nr : AllocSizes]
           p == held[i].pfn
<1>1. held \in Seq(S) /\ DOMAIN held = 1..Len(held) /\ Len(held) \in Nat
  <2>1. held \in Seq(S)
    BY DEF IInv, TypeOK
  <2> QED BY <2>1, LenProperties
<1>2. i \in DOMAIN held /\ i = Len(held)
  BY FreesAssumption DEF Working, Releasable
<1>3. held # <<>>
  BY <1>2
<1>4. held[i] \in S /\ p \in Slots /\ p \in Int /\ held[i].nr = 1 /\ held[i] = [pfn |-> p, nr |-> 1]
  <2>1. held[i] \in S
    <3> HIDE DEF S
    <3> QED BY <1>1, <1>2, ElementOfSeq
  <2>2. held[i].nr \in AllocSizes /\ p \in Slots /\ held[i] = [pfn |-> held[i].pfn, nr |-> held[i].nr]
    BY <2>1
  <2>3. held[i].nr = 1
    BY <2>2 DEF Working
  <2> QED BY <2>1, <2>2, <2>3, PfnsAre
<1>5. /\ todo.nr = 0 /\ r = NrPages
      /\ used' = used \ (p..p + 1 - 1)
      /\ todo' = [pfn |-> p, nr |-> 1] /\ nr_free_pages' = nr_free_pages + 1
      /\ held' = RemoveAt(held, i)
      /\ UNCHANGED <<flag, order, free, count, r, ret, reserved>>
  BY <1>4 DEF FreePages, StartFree, Ready, Booted
<1>6. /\ held' \in Seq(S) /\ DOMAIN held' = 1..Len(held) - 1
      /\ \A j \in 1..Len(held) - 1 : held'[j] = held[j]
      /\ Append(held', held[i]) = held
  <2> HIDE DEF S
  <2> QED BY <1>1, <1>2, <1>3, <1>5, LastRemoved
<1>7. p..p + 1 - 1 = {p}
  BY <1>4
<1>8. p \in HeldPfns
  BY <1>2 DEF HeldPfns, Range
<1>9. DOMAIN held = DOMAIN held' \cup {i} /\ \A j \in DOMAIN held' : j # i
  <2>1. Len(held) # 0
    BY <1>1, <1>2
  <2> QED BY <1>1, <1>2, <1>6, <2>1
<1> HIDE DEF S
<1>10. held' \in Seq([pfn : Slots, nr : AllocSizes])
  BY <1>6 DEF S
<1>11. Append(held', [pfn |-> p, nr |-> 1]) = held
  BY <1>4, <1>6
<1> HIDE DEF p
<1>12. used' = used \ {p}
  BY <1>5, <1>7
<1>13. DOMAIN held' \subseteq DOMAIN held /\ \A j \in DOMAIN held' : held'[j] = held[j]
  BY <1>6, <1>9
<1> QED BY <1>2, <1>5, <1>8, <1>9, <1>10, <1>11, <1>12, <1>13 DEF p

\* The page given back is no longer one of those held.
LEMMA HeldShrinks ==
  ASSUME Working, IInv, NEW i \in Releasable, FreePages(i)
  PROVE  HeldPfns' = HeldPfns \ {held[i].pfn}
<1> DEFINE p == held[i].pfn
<1>1. \A x : x \in HeldPfns' <=> \E j \in DOMAIN held' : x = held'[j].pfn
  BY DEF HeldPfns, Range
<1>2. \A x : x \in HeldPfns <=> \E j \in DOMAIN held : x = held[j].pfn
  BY DEF HeldPfns, Range
<1>3. /\ DOMAIN held = DOMAIN held' \cup {i}
      /\ \A j \in DOMAIN held' : held'[j] = held[j] /\ j # i
  BY Returned
<1>4. \A j \in DOMAIN held' : held'[j].pfn # p
  BY <1>3 DEF IInv, PagesInv, HeldOnce
<1>5. \A x : x \in HeldPfns' <=> x \in HeldPfns /\ x # p
  BY <1>1, <1>2, <1>3, <1>4
<1> QED BY <1>5

\* A release of the page handed out last keeps the invariant: until buddy_page_free has
\* put the page on a list, it is the last page of the stack.
LEMMA FreePagesInv ==
  ASSUME Working, IInv, NEW i \in Releasable, FreePages(i)
  PROVE  IInv' /\ Avail' = Avail \cup {held[i].pfn}
<1> USE DEF IInv, PagesInv
<1> DEFINE p == held[i].pfn
<1>1. /\ todo.nr = 0 /\ r = NrPages /\ i \in DOMAIN held /\ p \in HeldPfns
      /\ used' = used \ {p}
      /\ todo' = [pfn |-> p, nr |-> 1]
      /\ nr_free_pages' = nr_free_pages + 1
      /\ held' \in Seq([pfn : Slots, nr : AllocSizes])
      /\ DOMAIN held' \subseteq DOMAIN held
      /\ \A j \in DOMAIN held' : held'[j] = held[j] /\ j # i
      /\ DOMAIN held = DOMAIN held' \cup {i}
      /\ Append(held', [pfn |-> p, nr |-> 1]) = held
      /\ UNCHANGED <<flag, order, free, count, r, ret, reserved>>
  BY Returned
<1>2. p \in Pfns /\ p \notin reserved /\ p \in used
  BY <1>1 DEF HeldOnce, Parts
<1>3. p \in Int
  BY <1>2, PfnsAre
<1>4. TypeOK'
  <2>1. todo' \in [pfn : Int, nr : Nat] /\ used' \subseteq Pfns /\ nr_free_pages' \in Int
    BY <1>1, <1>3 DEF TypeOK
  <2>2. /\ flag' \in [Slots -> BOOLEAN] /\ order' \in [Slots -> Orders]
        /\ free' \in [Orders -> Seq(Slots)] /\ count' \in [Orders -> Int]
        /\ reserved' \subseteq Pfns /\ r' \in 0..NrPages /\ ret' \in Pfns \cup {NOTFOUND}
    BY <1>1 DEF TypeOK
  <2> QED BY <1>1, <2>1, <2>2 DEF TypeOK, Pfns, Slots, Orders, TopOrder
<1>5. ListsInv' /\ FreeBlocks' = FreeBlocks
  BY <1>1, ListsSame
<1>6. TodoPages = {} /\ TodoPages' = {p}
  <2>1. todo.pfn \in Int
    BY DEF TypeOK
  <2>2. \A x \in Int : x..x + 0 - 1 = {} /\ x..x + 1 - 1 = {x}
    OBVIOUS
  <2>3. todo'.pfn = p /\ todo'.nr = 1
    BY <1>1
  <2> HIDE DEF p
  <2> QED BY <1>1, <1>3, <2>1, <2>2, <2>3 DEF TodoPages
<1>7. FreeBlocks \subseteq Pfns /\ p \notin FreeBlocks
  BY <1>2, Unused
<1>8. Avail' = Avail \cup {p}
  <2>1. {x \in Pfns \ reserved : x >= r} = {}
    BY <1>1, NrPagesAssumption DEF Pfns
  <2>2. {x \in Pfns \ reserved : x >= r}' = {}
    BY <1>1, NrPagesAssumption DEF Pfns
  <2>3. Avail = FreeBlocks /\ Avail' = FreeBlocks' \cup {p}
    BY <1>6, <2>1, <2>2 DEF Avail, FreeBlocks
  <2> QED BY <1>5, <2>3
<1>9. HeldPfns' = HeldPfns \ {p}
  BY HeldShrinks
<1>10. Parts'
  <2>1. Avail' = Pfns \ used'
    BY <1>1, <1>2, <1>8 DEF Parts
  <2>2. used' = HeldPfns' \cup reserved'
    BY <1>1, <1>2, <1>9 DEF Parts
  <2>3. FreeBlocks' \cap TodoPages' = {}
    BY <1>5, <1>6, <1>7
  <2>4. \A x \in FreeBlocks' \cup TodoPages' : x < r'
    BY <1>1, <1>2, <1>5, <1>6, <1>7, NrPagesAssumption DEF Pfns
  <2> QED BY <2>1, <2>2, <2>3, <2>4 DEF Parts, Pfns
<1>11. HeldOnce'
  <2>1. \A j, l \in DOMAIN held' : held'[j].pfn = held'[l].pfn => j = l
    BY <1>1 DEF HeldOnce
  <2>2. HeldPfns' \subseteq Pfns \ reserved'
    BY <1>1, <1>9 DEF HeldOnce
  <2> QED BY <2>1, <2>2 DEF HeldOnce, Pfns
<1>12. flag[p]
  <2>1. i \in DOMAIN Stack /\ HeadAt(i) = p
    BY <1>1, StackIs
  <2> QED BY <2>1 DEF StackInv, StackPages
<1>13. todo'.pfn = p /\ todo'.nr = 1 /\ flag'[todo'.pfn]
  BY <1>1, <1>12
<1>14. BootFirst'
  <2>1. NrPages - 1 \notin reserved'
    BY <1>1 DEF BootFirst
  <2>2. ~(r' < NrPages)
    BY <1>1, NrPagesAssumption
  <2>3. \A q \in TodoPages' : q = todo'.pfn
    BY <1>6, <1>13
  <2> QED BY <1>1, <1>13, <2>1, <2>2, <2>3 DEF BootFirst
<1>15. Counted'
  <2>1. IsFiniteSet(FreeBlocks)
    <3>1. IsFiniteSet(0..NrPages - 1)
      BY NrPagesAssumption, FS_Interval
    <3> QED BY <1>7, <3>1, FS_Subset DEF Pfns
  <2>2. Cardinality(FreeBlocks \cup {p}) = Cardinality(FreeBlocks) + 1
    <3> HIDE DEF p
    <3> QED BY <1>7, <2>1, FS_AddElement
  <2>3. FreeBlocks \cup TodoPages = FreeBlocks /\ FreeBlocks' \cup TodoPages' = FreeBlocks \cup {p}
    BY <1>5, <1>6
  <2> QED BY <1>1, <2>2, <2>3 DEF Counted
<1>16. StackInv'
  <2>1. Stack = held
    BY <1>1 DEF Stack
  <2>2. Stack' = Append(held', [pfn |-> p, nr |-> 1])
    BY <1>13 DEF Stack
  <2>3. Stack' = Stack
    BY <1>1, <2>1, <2>2
  <2> QED BY <1>1, <2>3, StackSame
<1> QED BY <1>4, <1>5, <1>8, <1>10, <1>11, <1>14, <1>15, <1>16

-----------------------------------------------------------------------------
(* The theorems.                                                           *)

\* When buddy_init starts, no page is on a list, none is held and no flag is set.
LEMMA InitInv ==
  ASSUME Working, Init
  PROVE  IInv
<1>1. /\ used = reserved /\ reserved \subseteq Pfns /\ NrPages - 1 \notin reserved
      /\ free = [k \in Orders |-> <<>>] /\ count = [k \in Orders |-> 0]
      /\ nr_free_pages = 0 /\ r = 0 /\ todo = [pfn |-> 0, nr |-> 0]
      /\ held = <<>> /\ ret = NOTFOUND
  BY DEF Init, Working
<1>2. flag \in [Slots -> {FALSE}] /\ order \in [Slots -> {0}] /\ 0 \in Orders
  <2>1. flag \in [Slots -> AnyFlag] /\ order \in [Slots -> AnyOrder]
    BY DEF Init
  <2>2. AnyFlag = {FALSE} /\ AnyOrder = {0}
    BY Zenon DEF Working, AnyFlag, AnyOrder
  <2>3. 0 \in Orders
    BY MaxOrderAssumption DEF Orders, TopOrder
  <2> QED BY <2>1, <2>2, <2>3
<1>3. TypeOK
  <2>1. flag \in [Slots -> BOOLEAN] /\ order \in [Slots -> Orders]
    BY <1>2
  <2>2. free \in [Orders -> Seq(Slots)] /\ held \in Seq([pfn : Slots, nr : AllocSizes])
    BY <1>1, EmptySeq
  <2>3. count \in [Orders -> Int] /\ nr_free_pages \in Int /\ r \in 0..NrPages
        /\ todo \in [pfn : Int, nr : Nat]
    BY <1>1, NrPagesAssumption
  <2> QED BY <1>1, <2>1, <2>2, <2>3 DEF TypeOK
<1>4. \A k \in Orders : free[k] = <<>> /\ OnList(k) = {}
  BY <1>1 DEF OnList, Range
<1>5. ListsInv
  <2>1. ListsExact
    BY <1>1, <1>4 DEF ListsExact, OnList
  <2>2. Once
    BY <1>4 DEF Once, IsInjective
  <2>3. Apart /\ Coalesced
    BY <1>4 DEF Apart, Coalesced, OnList
  <2> QED BY <2>1, <2>2, <2>3 DEF ListsInv
<1>6. FreeBlocks = {} /\ TodoPages = {} /\ HeldPfns = {}
  <2>1. FreeBlocks = {}
    BY <1>3, <1>4, FreeBlocksAre
  <2>2. TodoPages = {}
    BY <1>1 DEF TodoPages
  <2> QED BY <1>1, <2>1, <2>2 DEF HeldPfns, Range
<1>7. PagesInv
  <2>1. Avail = Pfns \ reserved
    <3>1. {p \in Pfns \ reserved : p >= r} = Pfns \ reserved
      BY <1>1, NrPagesAssumption DEF Pfns
    <3> QED BY <1>6, <3>1 DEF Avail, FreeBlocks
  <2>2. Parts /\ HeldOnce
    BY <1>1, <1>6, <2>1 DEF Parts, HeldOnce
  <2>3. BootFirst
    BY <1>1, <1>6 DEF BootFirst
  <2>4. Counted
    BY <1>1, <1>6, FS_EmptySet DEF Counted
  <2> QED BY <2>2, <2>3, <2>4 DEF PagesInv
<1>8. StackInv
  <2>1. Stack = <<>>
    BY <1>1 DEF Stack
  <2>2. \A q \in Slots : ~flag[q]
    BY <1>2
  <2>3. Flagged
    BY <2>2 DEF Flagged
  <2>4. StackPages /\ StackHalves
    BY <2>1 DEF StackPages, StackHalves
  <2> QED BY <2>3, <2>4 DEF StackInv
<1> QED BY <1>3, <1>5, <1>7, <1>8 DEF IInv

\* A step in which the allocator does nothing keeps the invariant.
LEMMA StutterInv ==
  ASSUME IInv, UNCHANGED vars
  PROVE  IInv'
<1>1. UNCHANGED <<used, flag, order, free, count, nr_free_pages, r, todo, held, ret, reserved>>
  BY DEF vars
<1>2. TypeOK'
  BY <1>1 DEF IInv, TypeOK, Pfns, Slots, Orders, TopOrder
<1>3. ListsInv' /\ FreeBlocks' = FreeBlocks
  BY <1>1, ListsSame DEF IInv
<1>4. PagesInv'
  <2>1. TodoPages' = TodoPages /\ HeldPfns' = HeldPfns
    BY <1>1 DEF TodoPages, HeldPfns
  <2>2. Avail' = Avail
    BY <1>1, <1>3, <2>1 DEF Avail, FreeBlocks, Pfns
  <2>3. Parts' /\ Counted'
    BY <1>1, <1>3, <2>1, <2>2 DEF IInv, PagesInv, Parts, Counted, Pfns
  <2>4. HeldOnce' /\ BootFirst'
    BY <1>1, <2>1 DEF IInv, PagesInv, HeldOnce, BootFirst, Pfns
  <2> QED BY <2>3, <2>4 DEF PagesInv
<1>5. StackInv'
  <2>1. Stack' = Stack
    BY <1>1 DEF Stack
  <2> QED BY <1>1, <2>1, StackSame DEF IInv
<1> QED BY <1>2, <1>3, <1>4, <1>5 DEF IInv

\* The steps of the allocator, when callers ask for single pages.
LEMMA Steps ==
  ASSUME Working, Next
  PROVE  \/ BootRange
         \/ FreeBlock
         \/ 1 \in AllocSizes /\ (AllocPages(1) \/ AllocFails(1))
         \/ \E i \in Releasable : FreePages(i)
BY DEF Next, Working

\* Every reachable state satisfies the invariant.
THEOREM Invariance ==
  ASSUME Working
  PROVE  Spec => []IInv
<1>1. Init => IInv
  BY InitInv
<1>2. IInv /\ [Next]_vars => IInv'
  <2> SUFFICES ASSUME IInv, [Next]_vars PROVE IInv'
    OBVIOUS
  <2>1. CASE BootRange
    BY <2>1, BootRangeInv
  <2>2. CASE FreeBlock
    BY <2>2, FreeBlockInv
  <2>3. CASE 1 \in AllocSizes /\ AllocPages(1)
    BY <2>3, AllocPagesKeeps
  <2>4. CASE AllocFails(1)
    BY <2>4, AllocFailsInv
  <2>5. ASSUME NEW i \in Releasable, FreePages(i) PROVE IInv'
    BY <2>5, FreePagesInv
  <2>6. CASE UNCHANGED vars
    BY <2>6, StutterInv
  <2> QED BY <2>1, <2>2, <2>3, <2>4, <2>5, <2>6, Steps
<1> QED BY <1>1, <1>2, PTL DEF Spec

\* The pages callers hold are those whose frame number they were given.
LEMMA HeldPagesAre ==
  ASSUME Working, TypeOK
  PROVE  /\ HeldPages = HeldPfns
         /\ \A i \in DOMAIN held : held[i].pfn..held[i].pfn + held[i].nr - 1 = {held[i].pfn}
<1>1. \A x \in Int : x..x + 1 - 1 = {x}
  OBVIOUS
<1>2. \A b \in [pfn : Slots, nr : AllocSizes] :
        /\ b.pfn..b.pfn + b.nr - 1 = {b.pfn} /\ Block(b.pfn, 0) = {b.pfn}
  <2> SUFFICES ASSUME NEW b \in [pfn : Slots, nr : AllocSizes]
               PROVE  b.pfn..b.pfn + b.nr - 1 = {b.pfn} /\ Block(b.pfn, 0) = {b.pfn}
    OBVIOUS
  <2>1. b.nr = 1 /\ b.pfn \in Int
    BY PfnsAre DEF Working
  <2>2. Size[0] = 1
    BY SizeSteps
  <2> QED BY <1>1, <2>1, <2>2 DEF Block
<1>3. Range(held) \subseteq [pfn : Slots, nr : AllocSizes]
  BY RangeOfSeq DEF TypeOK
<1>4. \A i \in DOMAIN held : held[i] \in Range(held)
  BY DEF Range
<1>5. \A x : x \in HeldPages <=> \E b \in Range(held) : x = b.pfn
  BY <1>2, <1>3 DEF HeldPages
<1>6. HeldPages = HeldPfns
  BY <1>5 DEF HeldPfns
<1> QED BY <1>2, <1>3, <1>4, <1>6

\* Every variable has its type.
THEOREM TypeCorrect ==
  ASSUME Working
  PROVE  Spec => []TypeOK
<1>1. IInv => TypeOK
  BY DEF IInv
<1> QED BY <1>1, Invariance, PTL

\* What page_is_buddy, list_front's caller and the bitmap rely on holds at every moment:
\* the lists are exact, no two buddies are left apart, and no page is lost.
THEOREM ListsStayRight ==
  ASSUME Working
  PROVE  Spec => []ListsRight
<1>1. IInv => ListsRight
  <2> SUFFICES ASSUME IInv PROVE ListsRight
    OBVIOUS
  <2> USE DEF IInv, ListsInv, PagesInv
  <2>1. Accounting
    <3> SUFFICES ASSUME Ready PROVE /\ Pfns \ used = FreeBlocks
                                    /\ nr_free_pages = Cardinality(FreeBlocks)
                                    /\ used = HeldPages \cup reserved
      BY DEF Accounting, FreeBlocks
    <3>1. TodoPages = {}
      <4>1. todo.nr = 0 /\ todo.pfn \in Int
        BY DEF Ready, TypeOK
      <4> QED BY <4>1 DEF TodoPages
    <3>2. {p \in Pfns \ reserved : p >= r} = {}
      BY NrPagesAssumption DEF Ready, Booted, Pfns
    <3>3. Avail = FreeBlocks
      BY <3>1, <3>2 DEF Avail, FreeBlocks
    <3>4. nr_free_pages = Cardinality(FreeBlocks)
      BY <3>1 DEF Counted
    <3> QED BY <3>3, <3>4, HeldPagesAre DEF Parts
  <2> QED BY <2>1 DEF ListsRight
<1> QED BY <1>1, Invariance, PTL

\* No page is in two free blocks or in one twice, and none that is free is held by a caller
\* or was never memory; no two callers hold one page.
THEOREM NothingUsedTwice ==
  ASSUME Working
  PROVE  Spec => []NoDoubleUse
<1>1. IInv => NoDoubleUse
  <2> SUFFICES ASSUME IInv PROVE NoDoubleUse
    OBVIOUS
  <2> USE DEF IInv, ListsInv, PagesInv
  <2>1. ASSUME NEW g \in FreeHeads, NEW h \in FreeHeads, g # h
        PROVE  Block(g[1], g[2]) \cap Block(h[1], h[2]) = {}
    <3>1. /\ g \in Slots \X Orders /\ h \in Slots \X Orders
          /\ g[1] \in OnList(g[2]) /\ h[1] \in OnList(h[2])
      BY DEF FreeHeads, OnList
    <3>2. g[1] # h[1] \/ g[2] # h[2]
      BY <2>1, <3>1
    <3> QED BY <3>1, <3>2 DEF Apart
  <2>2. \A k \in Orders : IsInjective(free[k])
    BY DEF Once
  <2>3. PagesOf(FreeHeads) \cap (HeldPages \cup reserved) = {}
    BY Unused, HeldPagesAre DEF Parts, FreeBlocks
  <2>4. \A i, j \in DOMAIN held :
          i # j => (held[i].pfn..held[i].pfn + held[i].nr - 1)
                     \cap (held[j].pfn..held[j].pfn + held[j].nr - 1) = {}
    BY HeldPagesAre DEF HeldOnce
  <2> QED BY <2>1, <2>2, <2>3, <2>4 DEF NoDoubleUse
<1> QED BY <1>1, Invariance, PTL

\* An allocation fails only when no page is available.
LEMMA FailsWhenNone ==
  ASSUME IInv, NEW nr, AllocFails(nr)
  PROVE  Avail = {}
<1> USE DEF IInv, ListsInv, PagesInv
<1>1. todo.nr = 0 /\ r = NrPages /\ Candidates(nr) = {}
  BY DEF AllocFails, Ready, Booted
<1>2. \A k \in Orders : count[k] = 0
  BY <1>1 DEF Candidates, OrderOf, Orders
<1>3. \A k \in Orders : OnList(k) = {}
  <2> SUFFICES ASSUME NEW k \in Orders PROVE Range(free[k]) = {}
    BY DEF OnList
  <2>1. free[k] \in Seq(Slots) /\ Len(free[k]) = 0
    BY <1>2 DEF TypeOK, ListsExact
  <2>2. free[k] = <<>>
    BY <2>1, EmptySeq
  <2> QED BY <2>2 DEF Range
<1>4. FreeBlocks = {}
  BY <1>3, FreeBlocksAre
<1>5. TodoPages = {}
  <2>1. todo.pfn \in Int
    BY DEF TypeOK
  <2> QED BY <1>1, <2>1 DEF TodoPages
<1>6. {p \in Pfns \ reserved : p >= r} = {}
  BY <1>1, NrPagesAssumption DEF Pfns
<1> QED BY <1>4, <1>5, <1>6 DEF Avail, FreeBlocks

\* The allocator keeps the promise of mm.h.  The scan at boot and the merging of blocks
\* change nothing a caller sees; an allocation hands out an available page and fails only
\* when there is none; a release makes the page available again.
THEOREM PromiseKept ==
  ASSUME Working
  PROVE  Spec => PageAllocatorSpec
<1>1. Init => Promise!Init
  <2> SUFFICES ASSUME Init PROVE Promise!Init
    OBVIOUS
  <2>1. IInv
    BY InitInv
  <2>2. Avail \in SUBSET Pfns
    BY <2>1 DEF IInv, PagesInv, Parts
  <2>3. {b.pfn : b \in Range(held)} = {} /\ ret = NOTFOUND
    BY DEF Init, Range
  <2> QED BY <2>2, <2>3 DEF Promise!Init
<1>2. IInv /\ IInv' /\ [Next]_vars => [Promise!Next]_Promise!vars
  <2> SUFFICES ASSUME IInv, [Next]_vars PROVE [Promise!Next]_Promise!vars
    OBVIOUS
  <2> USE DEF HeldPfns
  <2>1. CASE BootRange
    <3>1. Avail' = Avail
      BY <2>1, BootRangeInv
    <3>2. held' = held /\ ret' = ret
      BY <2>1 DEF BootRange
    <3> QED BY <3>1, <3>2 DEF Promise!vars
  <2>2. CASE FreeBlock
    <3>1. Avail' = Avail
      BY <2>2, FreeBlockInv
    <3>2. held' = held /\ ret' = ret
      BY <2>2 DEF FreeBlock
    <3> QED BY <3>1, <3>2 DEF Promise!vars
  <2>3. CASE AllocPages(1)
    <3>1. Avail' = Avail \ {Page}
      BY <2>3, AllocPagesInv
    <3>2. HeldPfns' = HeldPfns \cup {Page}
      BY <2>3, HeldGrows
    <3>3. ret' = Page
      BY <2>3, AllocDoes
    <3>4. Page \in Avail
      BY <2>3, AllocMoves DEF Avail, FreeBlocks
    <3>5. Promise!Alloc
      BY <3>1, <3>2, <3>3, <3>4 DEF Promise!Alloc
    <3> QED BY <3>5 DEF Promise!Next
  <2>4. CASE AllocFails(1)
    <3>1. Avail = {}
      BY <2>4, FailsWhenNone
    <3>2. Avail' = Avail
      BY <2>4, AllocFailsInv
    <3>3. held' = held /\ ret' = NOTFOUND
      BY <2>4 DEF AllocFails
    <3>4. Promise!Fail
      BY <3>1, <3>2, <3>3 DEF Promise!Fail
    <3> QED BY <3>4 DEF Promise!Next
  <2>5. ASSUME NEW i \in Releasable, FreePages(i) PROVE Promise!Next
    <3>1. PICK p : p = held[i].pfn
      OBVIOUS
    <3>2. Avail' = Avail \cup {p}
      BY <2>5, <3>1, FreePagesInv
    <3>3. p \in HeldPfns /\ HeldPfns' = HeldPfns \ {p} /\ ret' = ret
      BY <2>5, <3>1, Returned, HeldShrinks
    <3>4. Promise!Free
      BY <3>2, <3>3 DEF Promise!Free
    <3> QED BY <3>4 DEF Promise!Next
  <2>6. CASE UNCHANGED vars
    <3>1. UNCHANGED <<free, r, todo, held, ret, reserved>>
      BY <2>6 DEF vars
    <3>2. Avail' = Avail
      BY <3>1 DEF Avail, FreeHeads, TodoPages, Pfns
    <3> QED BY <3>1, <3>2 DEF Promise!vars
  <2> QED BY <2>1, <2>2, <2>3, <2>4, <2>5, <2>6, Steps
<1> QED BY <1>1, <1>2, Invariance, PTL DEF Spec, PageAllocatorSpec, Promise!Spec
=============================================================================
