---------------------------- MODULE PhysMemProofs ----------------------------
(***************************************************************************)
(* Theorems about PhysMem, for any size of a page, any memory map and any  *)
(* requests.                                                               *)
(***************************************************************************)
EXTENDS PhysMem, FiniteSetTheorems, TLAPS

-----------------------------------------------------------------------------
(* Least and greatest elements, in the place of induction.                 *)

\* A set of natural numbers that is not empty has a least element: the intervals up to
\* its elements are well-founded by inclusion.
LEMMA MinIsLeast ==
  ASSUME NEW S \in SUBSET Nat, S # {}
  PROVE  Min(S) \in S /\ \A y \in S : Min(S) <= y
<1> DEFINE R == StrictSubsetOrdering(Nat)
           T == {0..x : x \in S}
<1>1. T \subseteq FiniteSubsetsOf(Nat)
  <2> SUFFICES ASSUME NEW x \in S PROVE 0..x \in FiniteSubsetsOf(Nat)
    OBVIOUS
  <2>1. x \in Int /\ 0 \in Int
    OBVIOUS
  <2>2. IsFiniteSet(0..x)
    BY <2>1, FS_Interval
  <2> QED BY <2>2 DEF FiniteSubsetsOf
<1>2. T # {}
  OBVIOUS
<1>3. IsWellFoundedOn(R, FiniteSubsetsOf(Nat))
  BY FS_StrictSubsetOrderingWellFounded
<1>4. PICK t \in T : \A u \in T : ~(<<u, t>> \in R)
  <2> HIDE DEF R, T
  <2> QED BY <1>1, <1>2, <1>3, WFMin
<1>5. PICK x \in S : t = 0..x
  OBVIOUS
<1>6. ASSUME NEW y \in S, y < x PROVE FALSE
  <2>1. 0..y \subseteq 0..x /\ 0..y # 0..x
    BY <1>6
  <2>2. <<0..y, 0..x>> \in R
    BY <2>1 DEF StrictSubsetOrdering
  <2> QED BY <1>4, <1>5, <2>2
<1>7. \A y \in S : x <= y
  BY <1>6
<1> QED BY <1>7 DEF Min

\* Likewise: one of a finite set of regions ends last.
LEMMA LastEnds ==
  ASSUME NEW map, IsFiniteSet(map), map # {},
         \A m \in map : m.addr \in Nat /\ m.len \in Nat
  PROVE  \E m \in map : \A n \in map : n.addr + n.len <= m.addr + m.len
<1> DEFINE R == StrictSubsetOrdering(map)
           Has(S) == \E m \in S : \A n \in S : n.addr + n.len <= m.addr + m.len
           T == {S \in SUBSET map : S # {} /\ ~Has(S)}
<1> SUFFICES ASSUME T # {} PROVE FALSE
  OBVIOUS
<1>1. T \subseteq FiniteSubsetsOf(map)
  BY FS_FiniteSubsetsOfFinite
<1>2. IsWellFoundedOn(R, FiniteSubsetsOf(map))
  BY FS_StrictSubsetOrderingWellFounded
<1>3. PICK S \in T : \A U \in T : ~(<<U, S>> \in R)
  <2> HIDE DEF R, T
  <2> QED BY <1>1, <1>2, WFMin
<1>4. PICK x \in S : TRUE
  OBVIOUS
<1>5. S \ {x} # {}
  BY <1>3, <1>4
<1>6. <<S \ {x}, S>> \in R
  BY <1>4 DEF StrictSubsetOrdering
<1>7. Has(S \ {x})
  BY <1>3, <1>5, <1>6
<1>8. PICK m \in S \ {x} : \A n \in S \ {x} : n.addr + n.len <= m.addr + m.len
  BY <1>7
<1>9. /\ m.addr + m.len \in Nat /\ x.addr + x.len \in Nat
      /\ \A n \in S : n.addr + n.len \in Nat
  BY <1>4, <1>8
<1>10. CASE x.addr + x.len <= m.addr + m.len
  <2>1. \A n \in S : n.addr + n.len <= m.addr + m.len
    BY <1>8, <1>10
  <2> QED BY <2>1
<1>11. CASE ~(x.addr + x.len <= m.addr + m.len)
  <2>1. \A n \in S : n.addr + n.len <= x.addr + x.len
    BY <1>8, <1>9, <1>11
  <2> QED BY <2>1, <1>4
<1> QED BY <1>10, <1>11

\* The greater of two numbers.
LEMMA MaxOfTwo ==
  ASSUME NEW a \in Nat, NEW b \in Nat
  PROVE  Max({a, b}) = IF a >= b THEN a ELSE b
<1>1. \A x \in {a, b} : (\A y \in {a, b} : x >= y) <=> x = IF a >= b THEN a ELSE b
  OBVIOUS
<1> QED BY <1>1 DEF Max

-----------------------------------------------------------------------------
(* Pages and bytes.                                                        *)

\* A multiple of the page size.
LEMMA WholePages ==
  ASSUME NEW a \in Nat, a % PgSize = 0
  PROVE  a \div PgSize \in Nat /\ a = (a \div PgSize) * PgSize
BY SizesAssumption

\* A page lies below an address exactly if its number is less than that of the address.
LEMMA PageBelow ==
  ASSUME NEW p \in Nat, NEW a \in Nat
  PROVE  p < a \div PgSize <=> p * PgSize + PgSize <= a
<1>1. (p + 1) * PgSize = p * PgSize + PgSize
  BY SizesAssumption
<1>2. p < a \div PgSize <=> (p + 1) * PgSize <= a
  BY SizesAssumption
<1> QED BY <1>1, <1>2

\* What align() gives.
LEMMA Aligned ==
  ASSUME NEW a \in Nat
  PROVE  /\ Align(a) \in Nat /\ Align(a) % PgSize = 0
         /\ a <= Align(a)
<1> DEFINE q == (a + PgSize - 1) \div PgSize
<1>1. q \in Nat /\ q * PgSize <= a + PgSize - 1 /\ a + PgSize - 1 < q * PgSize + PgSize
  BY SizesAssumption
<1>2. Align(a) = q * PgSize
  BY DEF Align
<1> HIDE DEF q
<1>3. q * PgSize \in Nat /\ (q * PgSize) % PgSize = 0
  BY <1>1, SizesAssumption
<1> QED BY <1>1, <1>2, <1>3, SizesAssumption

-----------------------------------------------------------------------------
(* What the scans of the bitmap come to.                                   *)

\* The least frame of a set, if there is one.
LEMMA FirstOfIs ==
  ASSUME NEW S \in SUBSET Nat
  PROVE  \/ S = {} /\ FirstOf(S) = NOTFOUND
         \/ FirstOf(S) \in S /\ \A y \in S : FirstOf(S) <= y
BY MinIsLeast DEF FirstOf

\* A frame below which S has none up to i, but is of S, is the first of S from i on.
LEMMA FirstFrom ==
  ASSUME NEW S \in SUBSET Nat, NEW i \in Nat, NEW l \in S, i <= l,
         \A p \in S : p >= i => l <= p
  PROVE  FirstOf({p \in S : p >= i}) = l
<1> DEFINE T == {p \in S : p >= i}
<1>1. T \in SUBSET Nat /\ l \in T /\ \A p \in T : l <= p
  OBVIOUS
<1>2. FirstOf(T) \in T /\ \A y \in T : FirstOf(T) <= y
  BY <1>1, FirstOfIs
<1>3. FirstOf(T) <= l /\ l <= FirstOf(T) /\ FirstOf(T) \in Int /\ l \in Int
  BY <1>1, <1>2
<1>4. FirstOf(T) = l
  <2> HIDE DEF T
  <2> QED BY <1>3
<1> QED BY <1>4

\* The free frames with no used one among the nr from there on, as far as the bitmap goes.
Starts(nr) == {p \in Pfns \ used : \A q \in used : ~(p <= q /\ q < p + nr)}

\* The equation of the scan in BlockPageAlloc.
IsScan(f, nr) ==
  f = [i \in 0..pfn_max |->
        LET l == FindAvail(i)
            u == FindUsed(l, nr)
        IN IF i = pfn_max \/ l = NOTFOUND THEN NOTFOUND
           ELSE IF u = NOTFOUND THEN l ELSE f[u]]

\* Where the scan is at i, it has missed nothing from i on.
LEMMA ScanStep ==
  ASSUME pfn_max \in Nat, used \subseteq Pfns, NEW nr \in Nat \ {0}, NEW i \in 0..pfn_max
  PROVE  LET l == FindAvail(i)
             u == FindUsed(l, nr)
             s == FirstOf({p \in Starts(nr) : p >= i})
         IN  /\ i = pfn_max \/ l = NOTFOUND => s = NOTFOUND
             /\ i # pfn_max /\ l # NOTFOUND /\ u = NOTFOUND => s = l
             /\ i # pfn_max /\ l # NOTFOUND /\ u # NOTFOUND =>
                  /\ u \in 0..pfn_max /\ i < u
                  /\ s = FirstOf({p \in Starts(nr) : p >= u})
<1> DEFINE l == FindAvail(i)
           u == FindUsed(l, nr)
           Unused == {p \in Pfns \ used : p >= i}
           From(k) == {p \in Starts(nr) : p >= k}
           Met == {p \in used : p >= l /\ p < l + nr}
<1>1. /\ Pfns \subseteq Nat /\ i \in Nat /\ Unused \in SUBSET Nat
      /\ \A p \in Pfns : p < pfn_max
  BY DEF Pfns
<1>2. Starts(nr) \subseteq Pfns \ used
  BY DEF Starts
<1>3. \/ Unused = {} /\ l = NOTFOUND
      \/ l \in Unused /\ \A y \in Unused : l <= y
  BY <1>1, FirstOfIs DEF FindAvail
<1>4. \A k \in Nat : From(k) \in SUBSET Nat
  BY <1>1, <1>2
<1>5. CASE i = pfn_max \/ l = NOTFOUND
  <2>1. Unused = {}
    BY <1>1, <1>3, <1>5 DEF NOTFOUND
  <2>2. From(i) = {}
    BY <1>2, <2>1
  <2> QED BY <1>4, <1>5, <2>2 DEF FirstOf
<1>6. CASE i # pfn_max /\ l # NOTFOUND
  <2>1. l \in Unused /\ l \in Nat /\ i <= l /\ l \in Pfns \ used /\ \A p \in Unused : l <= p
    BY <1>1, <1>3, <1>6
  <2>2. Met \in SUBSET Nat /\ u = FirstOf(Met)
    BY <1>1 DEF FindUsed
  <2>3. CASE u = NOTFOUND
    <3>1. Met = {}
      <4>1. FirstOf(Met) = -1
        BY <2>2, <2>3 DEF NOTFOUND
      <4>2. Met = {} \/ FirstOf(Met) \in Met
        BY <2>2, FirstOfIs
      <4> HIDE DEF Met
      <4> QED BY <2>2, <4>1, <4>2
    <3>2. l \in Starts(nr)
      BY <2>1, <3>1 DEF Starts
    <3>3. \A p \in Starts(nr) : p >= i => l <= p
      BY <1>2, <2>1
    <3>4. FirstOf(From(i)) = l
      BY <1>1, <1>2, <2>1, <3>2, <3>3, FirstFrom
    <3> QED BY <1>6, <2>3, <3>4
  <2>4. CASE u # NOTFOUND
    <3>1. u \in Met
      BY <2>2, <2>4, FirstOfIs
    <3>2. u \in Pfns /\ u \in Nat /\ l <= u /\ u < l + nr /\ u \in used /\ l # u
      BY <1>1, <2>1, <3>1
    <3>3. u \in 0..pfn_max /\ i < u
      BY <1>1, <2>1, <3>2
    <3>4. ASSUME NEW p \in Starts(nr), p >= i PROVE p >= u
      <4>1. p \in Nat /\ l <= p
        BY <1>1, <1>2, <2>1, <3>4
      <4>2. ~(p <= u /\ u < p + nr)
        BY <3>2 DEF Starts
      <4> QED BY <2>1, <3>2, <4>1, <4>2
    <3>5. \A p \in Starts(nr) : p >= i <=> p >= u
      <4> SUFFICES ASSUME NEW p \in Starts(nr) PROVE p >= i <=> p >= u
        OBVIOUS
      <4>1. p \in Nat /\ i \in Nat /\ u \in Nat
        <5>1. p \in Pfns
          BY <1>2
        <5> QED BY <1>1, <3>2, <5>1
      <4>2. p >= i => p >= u
        BY <3>4
      <4> HIDE DEF u
      <4> QED BY <3>3, <4>1, <4>2
    <3>6. From(i) = From(u)
      BY <3>5
    <3> QED BY <1>6, <2>4, <3>3, <3>6
  <2> QED BY <2>3, <2>4
<1> QED BY <1>5, <1>6

\* block_page_alloc returns the first run that meets no used frame, or none.
LEMMA BlockPageAllocIs ==
  ASSUME pfn_max \in Nat, used \subseteq Pfns, NEW nr \in Nat \ {0}
  PROVE  BlockPageAlloc(nr) = FirstOf(Starts(nr))
<1> DEFINE g == [i \in 0..pfn_max |-> FirstOf({p \in Starts(nr) : p >= i})]
           s == CHOOSE f : IsScan(f, nr)
<1>1. IsScan(g, nr)
  <2> DEFINE Turn(i) == LET l == FindAvail(i)
                            u == FindUsed(l, nr)
                        IN IF i = pfn_max \/ l = NOTFOUND THEN NOTFOUND
                           ELSE IF u = NOTFOUND THEN l ELSE g[u]
  <2>1. ASSUME NEW i \in 0..pfn_max PROVE g[i] = Turn(i)
    <3> DEFINE l == FindAvail(i)
               u == FindUsed(l, nr)
    <3>1. /\ i = pfn_max \/ l = NOTFOUND => g[i] = NOTFOUND
          /\ i # pfn_max /\ l # NOTFOUND /\ u = NOTFOUND => g[i] = l
          /\ i # pfn_max /\ l # NOTFOUND /\ u # NOTFOUND => g[i] = g[u]
      BY ScanStep
    <3> HIDE DEF g, l, u
    <3>2. Turn(i) = IF i = pfn_max \/ l = NOTFOUND THEN NOTFOUND
                    ELSE IF u = NOTFOUND THEN l ELSE g[u]
      BY DEF l, u
    <3> QED BY <3>1, <3>2
  <2> QED BY <2>1 DEF IsScan
<1>2. IsScan(s, nr)
  <2> HIDE DEF g
  <2> QED BY <1>1
<1>3. BlockPageAlloc(nr) = s[0]
  BY Zenon DEF BlockPageAlloc, IsScan
<1> HIDE DEF s
<1> DEFINE Wrong == {k \in Nat : k <= pfn_max /\ s[pfn_max - k] # g[pfn_max - k]}
<1>4. Wrong = {}
  <2> SUFFICES ASSUME Wrong # {} PROVE FALSE
    OBVIOUS
  <2>1. PICK k \in Wrong : \A j \in Wrong : k <= j
    BY MinIsLeast
  <2> DEFINE i == pfn_max - k
             l == FindAvail(i)
             u == FindUsed(l, nr)
  <2>2. i \in 0..pfn_max /\ s[i] # g[i]
    BY <2>1
  <2>3. s[i] = IF i = pfn_max \/ l = NOTFOUND THEN NOTFOUND
               ELSE IF u = NOTFOUND THEN l ELSE s[u]
    BY <1>2, <2>2 DEF IsScan
  <2>4. /\ i = pfn_max \/ l = NOTFOUND => g[i] = NOTFOUND
        /\ i # pfn_max /\ l # NOTFOUND /\ u = NOTFOUND => g[i] = l
        /\ i # pfn_max /\ l # NOTFOUND /\ u # NOTFOUND =>
              u \in 0..pfn_max /\ i < u /\ g[i] = g[u]
    BY <2>2, ScanStep
  <2>5. s[u] # g[u] /\ u \in 0..pfn_max /\ i < u
    BY <2>2, <2>3, <2>4
  <2>6. pfn_max - u \in Wrong /\ pfn_max - u < k /\ pfn_max - u \in Nat /\ k \in Nat
    <3> HIDE DEF l, u, g
    <3>1. pfn_max - (pfn_max - u) = u
      BY <2>5
    <3> QED BY <2>1, <2>5, <3>1
  <2> HIDE DEF Wrong, u
  <2> QED BY <2>1, <2>5, <2>6
<1>5. s[0] = g[0]
  <2>1. pfn_max \notin Wrong
    BY <1>4
  <2>2. pfn_max - pfn_max = 0 /\ pfn_max <= pfn_max
    OBVIOUS
  <2> HIDE DEF g
  <2> QED BY <2>1, <2>2
<1>6. {p \in Starts(nr) : p >= 0} = Starts(nr)
  BY DEF Starts, Pfns
<1>7. g[0] = FirstOf(Starts(nr))
  BY <1>6
<1> QED BY <1>3, <1>5, <1>7

\* The equation of the scan in buddy_init.
IsRelease(f, full) ==
  f = [i \in 0..pfn_max |->
        LET l == FirstOf({p \in Pfns \ full : p >= i})
            r == IF l = NOTFOUND THEN NOTFOUND ELSE FirstOf({p \in full : p >= l})
            e == IF r = NOTFOUND THEN pfn_max ELSE r
        IN IF i = pfn_max THEN {} ELSE (l..e - 1) \cup f[e]]

\* Where that scan is at i, it has missed nothing from i on, if the last frame is free.
LEMMA ReleaseStep ==
  ASSUME pfn_max \in Nat, NEW full \in SUBSET Pfns, pfn_max - 1 \in Pfns \ full,
         NEW i \in 0..pfn_max, i # pfn_max
  PROVE  LET l == FirstOf({p \in Pfns \ full : p >= i})
             r == IF l = NOTFOUND THEN NOTFOUND ELSE FirstOf({p \in full : p >= l})
             e == IF r = NOTFOUND THEN pfn_max ELSE r
         IN  /\ e \in 0..pfn_max /\ i < e
             /\ {p \in Pfns \ full : p >= i} = (l..e - 1) \cup {p \in Pfns \ full : p >= e}
<1> DEFINE Unused(k) == {p \in Pfns \ full : p >= k}
           Full(k) == {p \in full : p >= k}
           l == FirstOf(Unused(i))
           r == IF l = NOTFOUND THEN NOTFOUND ELSE FirstOf(Full(l))
           e == IF r = NOTFOUND THEN pfn_max ELSE r
<1>1. Pfns = 0..pfn_max - 1 /\ Pfns \subseteq Nat
  BY DEF Pfns
<1>2. l \in Unused(i) /\ \A y \in Unused(i) : l <= y
  <2>1. pfn_max - 1 \in Unused(i) /\ Unused(i) \in SUBSET Nat
    BY <1>1
  <2> HIDE DEF Unused
  <2> QED BY <2>1, FirstOfIs
<1>3. l \in Nat /\ i <= l /\ l <= pfn_max - 1 /\ l \notin full /\ l # NOTFOUND
  BY <1>1, <1>2 DEF NOTFOUND
<1>4. r = FirstOf(Full(l)) /\ Full(l) \in SUBSET Nat
  BY <1>1, <1>3
<1>5. /\ e \in 0..pfn_max /\ l < e
      /\ \A p \in Full(l) : e <= p
      /\ e # pfn_max => e \in full
  <2>1. CASE r = NOTFOUND
    <3>1. \A p \in Full(l) : FALSE
      <4>1. FirstOf(Full(l)) = -1
        BY <1>4, <2>1 DEF NOTFOUND
      <4>2. Full(l) = {} \/ FirstOf(Full(l)) \in Full(l)
        BY <1>4, FirstOfIs
      <4> HIDE DEF Full
      <4> QED BY <1>4, <4>1, <4>2
    <3>2. e = pfn_max
      BY <2>1
    <3> HIDE DEF e, l
    <3> QED BY <1>3, <3>1, <3>2
  <2>2. CASE r # NOTFOUND
    <3>1. r \in Full(l) /\ \A p \in Full(l) : r <= p
      BY <1>4, <2>2, FirstOfIs
    <3>2. e = r
      BY <2>2
    <3> HIDE DEF r, l, e
    <3>3. r \in full /\ r >= l /\ r \in Pfns
      BY <3>1
    <3> QED BY <1>1, <1>3, <3>1, <3>2, <3>3
  <2> QED BY <2>1, <2>2
<1> HIDE DEF l, e
<1>6. ASSUME NEW p \in Nat PROVE p \in Unused(i) <=> p \in (l..e - 1) \cup Unused(e)
  <2>1. CASE p < l
    BY <1>2, <1>3, <1>5, <2>1
  <2>2. CASE l <= p /\ p < e
    <3>1. p \notin full
      BY <1>5, <2>2
    <3> QED BY <1>1, <1>3, <1>5, <2>2, <3>1
  <2>3. CASE e <= p
    BY <1>3, <1>5, <2>3
  <2> QED BY <1>3, <1>5, <2>1, <2>2, <2>3
<1>7. Unused(i) \subseteq Nat /\ Unused(e) \subseteq Nat /\ l..e - 1 \subseteq Nat
  BY <1>1, <1>3, <1>5
<1>8. Unused(i) = (l..e - 1) \cup Unused(e)
  <2> HIDE DEF Unused
  <2> QED BY <1>6, <1>7
<1> QED BY <1>3, <1>5, <1>8 DEF l, e

\* What buddy_init releases are the free frames, if the last frame is one.
LEMMA ReleasedIs ==
  ASSUME pfn_max \in Nat, NEW full \in SUBSET Pfns, pfn_max - 1 \in Pfns \ full
  PROVE  Released(full) = Pfns \ full
<1> DEFINE Unused(k) == {p \in Pfns \ full : p >= k}
           g == [i \in 0..pfn_max |-> Unused(i)]
           s == CHOOSE f : IsRelease(f, full)
           l(i) == FirstOf(Unused(i))
           r(i) == IF l(i) = NOTFOUND THEN NOTFOUND ELSE FirstOf({p \in full : p >= l(i)})
           e(i) == IF r(i) = NOTFOUND THEN pfn_max ELSE r(i)
<1>1. ASSUME NEW i \in 0..pfn_max
      PROVE  /\ i = pfn_max => g[i] = {}
             /\ i # pfn_max => e(i) \in 0..pfn_max /\ i < e(i)
                                 /\ g[i] = (l(i)..e(i) - 1) \cup g[e(i)]
  <2>1. CASE i = pfn_max
    BY <2>1 DEF Pfns
  <2>2. CASE i # pfn_max
    <3>1. e(i) \in 0..pfn_max /\ i < e(i) /\ Unused(i) = (l(i)..e(i) - 1) \cup Unused(e(i))
      BY <2>2, ReleaseStep, Zenon
    <3> HIDE DEF Unused, l, e
    <3> QED BY <2>2, <3>1
  <2> QED BY <2>1, <2>2
<1> HIDE DEF g
<1>2. IsRelease(g, full)
  <2>1. g = [i \in 0..pfn_max |-> IF i = pfn_max THEN {} ELSE (l(i)..e(i) - 1) \cup g[e(i)]]
    <3> HIDE DEF l, e
    <3>1. g = [i \in 0..pfn_max |-> g[i]]
      BY DEF g
    <3> QED BY <1>1, <3>1
  <2> QED BY <2>1, Zenon DEF IsRelease
<1>3. IsRelease(s, full)
  BY <1>2
<1>4. Released(full) = s[0]
  BY Zenon DEF Released, IsRelease
<1> HIDE DEF s
<1> DEFINE Wrong == {k \in Nat : k <= pfn_max /\ s[pfn_max - k] # g[pfn_max - k]}
<1>5. Wrong = {}
  <2> SUFFICES ASSUME Wrong # {} PROVE FALSE
    OBVIOUS
  <2>1. PICK k \in Wrong : \A j \in Wrong : k <= j
    BY MinIsLeast
  <2> DEFINE i == pfn_max - k
  <2>2. i \in 0..pfn_max /\ s[i] # g[i]
    BY <2>1
  <2>3. s[i] = IF i = pfn_max THEN {} ELSE (l(i)..e(i) - 1) \cup s[e(i)]
    BY <1>3, <2>2 DEF IsRelease
  <2> DEFINE u == e(i)
             m == l(i)
  <2>4. /\ i = pfn_max => g[i] = {}
        /\ i # pfn_max => u \in 0..pfn_max /\ i < u /\ g[i] = (m..u - 1) \cup g[u]
    BY <1>1, <2>2
  <2>5. s[i] = IF i = pfn_max THEN {} ELSE (m..u - 1) \cup s[u]
    BY <2>3
  <2> HIDE DEF u, m
  <2>6. s[u] # g[u] /\ u \in 0..pfn_max /\ i < u
    BY <2>2, <2>4, <2>5
  <2>7. pfn_max - u \in Wrong /\ pfn_max - u < k /\ pfn_max - u \in Nat /\ k \in Nat
    <3>1. pfn_max - (pfn_max - u) = u
      BY <2>6
    <3> QED BY <2>1, <2>6, <3>1
  <2> HIDE DEF Wrong
  <2> QED BY <2>1, <2>7
<1>6. s[0] = g[0]
  <2>1. pfn_max \notin Wrong
    BY <1>5
  <2>2. pfn_max - pfn_max = 0 /\ pfn_max <= pfn_max
    OBVIOUS
  <2> QED BY <2>1, <2>2
<1>7. g[0] = Pfns \ full
  BY DEF g, Pfns
<1> QED BY <1>4, <1>6, <1>7

\* A run of free frames is where a scan may start; the other way round only the end of the
\* bitmap can cut it short.
LEMMA RunsAreStarts ==
  ASSUME pfn_max \in Nat, used \subseteq Pfns, NEW nr \in Nat \ {0}
  PROVE  Runs(nr) = {p \in Starts(nr) : p + nr <= pfn_max}
<1>1. Pfns = 0..pfn_max - 1
  BY DEF Pfns
<1>2. ASSUME NEW p \in Pfns
      PROVE  p..p + nr - 1 \subseteq Pfns \ used <=> p \in Starts(nr) /\ p + nr <= pfn_max
  <2>1. p \in Nat /\ p < pfn_max /\ p \in p..p + nr - 1 /\ p + nr - 1 \in p..p + nr - 1
    BY <1>1
  <2>2. ASSUME p..p + nr - 1 \subseteq Pfns \ used
        PROVE  p \in Starts(nr) /\ p + nr <= pfn_max
    <3>1. p + nr - 1 \in 0..pfn_max - 1
      BY <1>1, <2>1, <2>2
    <3>2. ASSUME NEW q \in used, p <= q, q < p + nr PROVE FALSE
      <4>1. q \in p..p + nr - 1
        BY <1>1, <2>1, <3>2
      <4> QED BY <2>2, <4>1
    <3> QED BY <2>1, <2>2, <3>1, <3>2 DEF Starts
  <2>3. ASSUME p \in Starts(nr), p + nr <= pfn_max, NEW q \in p..p + nr - 1
        PROVE  q \in Pfns \ used
    <3>1. q \in 0..pfn_max - 1
      BY <2>1, <2>3
    <3>2. q \notin used
      BY <2>1, <2>3 DEF Starts
    <3> QED BY <1>1, <3>1, <3>2
  <2> QED BY <2>2, <2>3
<1>3. Starts(nr) \subseteq Pfns
  BY DEF Starts
<1> QED BY <1>2, <1>3 DEF Runs

-----------------------------------------------------------------------------
(* Regions and the frames in them.                                         *)

\* Regions start on a page, so a page whose bytes are all memory lies in one region.
LEMMA MemoryIs ==
  ASSUME NEW map \in MemoryMaps, NEW p \in Nat
  PROVE  (\A a \in p * PgSize..(p + 1) * PgSize - 1 :
              \E m \in map : a \in m.addr..m.addr + m.len - 1)
         <=> \E m \in map : m.addr <= p * PgSize /\ p * PgSize + PgSize <= m.addr + m.len
<1>1. \A m \in map : m.addr \in Nat /\ m.addr % PgSize = 0 /\ m.len \in Nat \ {0}
  BY MapsAssumption
<1> DEFINE lo == p * PgSize
<1>2. p \in Nat /\ PgSize \in Nat \ {0} /\ lo \in Nat /\ (p + 1) * PgSize = lo + PgSize
  BY SizesAssumption
<1>3. ASSUME NEW m \in map, m.addr <= lo, lo + PgSize <= m.addr + m.len,
             NEW a \in lo..(p + 1) * PgSize - 1
      PROVE  a \in m.addr..m.addr + m.len - 1
  <2> HIDE DEF lo
  <2> QED BY <1>1, <1>2, <1>3
<1>4. ASSUME \A a \in lo..(p + 1) * PgSize - 1 :
                \E m \in map : a \in m.addr..m.addr + m.len - 1
      PROVE  \E m \in map : m.addr <= lo /\ lo + PgSize <= m.addr + m.len
  <2> DEFINE last == lo + PgSize - 1
  <2>1. last \in lo..(p + 1) * PgSize - 1
    <3> HIDE DEF lo
    <3> QED BY <1>2
  <2>2. PICK m \in map : last \in m.addr..m.addr + m.len - 1
    BY <1>4, <2>1
  <2> DEFINE f == m.addr \div PgSize
  <2>3. f \in Nat /\ m.addr = f * PgSize /\ m.addr \in Nat /\ m.len \in Nat
    BY <1>1, WholePages
  <2>4. m.addr <= last /\ last <= m.addr + m.len - 1
    BY <1>1, <1>2, <2>2, <2>3
  <2>5. f <= p
    <3> SUFFICES ASSUME p < f PROVE FALSE
      BY <1>2, <2>3
    <3>1. p * PgSize + PgSize <= m.addr
      BY <1>2, <2>3, PageBelow
    <3> HIDE DEF f
    <3>2. lo + PgSize <= m.addr /\ m.addr \in Nat
      BY <2>3, <3>1
    <3> HIDE DEF lo
    <3> QED BY <1>2, <2>4, <3>2
  <2>6. f * PgSize <= lo
    <3> HIDE DEF f
    <3>1. (p - f) * PgSize >= 0
      BY <1>2, <2>3, <2>5
    <3>2. (p - f) * PgSize = p * PgSize - f * PgSize
      BY <1>2, <2>3
    <3> QED BY <1>2, <2>3, <3>1, <3>2
  <2>7. m.addr <= lo /\ lo + PgSize <= m.addr + m.len
    <3> HIDE DEF lo, f
    <3>1. m.addr <= lo
      BY <2>3, <2>6
    <3> QED BY <1>2, <2>3, <2>4, <3>1 DEF last
  <2> QED BY <2>7
<1> HIDE DEF lo
<1>5. p * PgSize = lo
  BY DEF lo
<1> QED BY <1>3, <1>4, <1>5

\* Of a region that ends above what is reserved, the frames from there on are made
\* available that lie in it with all their bytes.
LEMMA AvailableIs ==
  ASSUME NEW map \in MemoryMaps, NEW m \in map,
         NEW end \in Nat, end % PgSize = 0, end < m.addr + m.len
  PROVE  Available(m, end) = {p \in Nat : /\ end \div PgSize <= p
                                          /\ m.addr <= p * PgSize
                                          /\ p * PgSize + PgSize <= m.addr + m.len}
<1>1. m.addr \in Nat /\ m.addr % PgSize = 0 /\ m.len \in Nat \ {0}
  BY MapsAssumption
<1> DEFINE base == Max({m.addr, end})
           len == m.addr + m.len - base
           f == base \div PgSize
           n == len \div PgSize
           a == m.addr \div PgSize
           r == end \div PgSize
<1>2. base = IF m.addr >= end THEN m.addr ELSE end
  BY <1>1, MaxOfTwo
<1>3. base \in Nat /\ base % PgSize = 0 /\ len \in Nat
  <2> HIDE DEF base
  <2> QED BY <1>1, <1>2
<1>4. /\ f \in Nat /\ base = f * PgSize
      /\ a \in Nat /\ m.addr = a * PgSize
      /\ r \in Nat /\ end = r * PgSize
  <2> HIDE DEF base
  <2> QED BY <1>1, <1>3, WholePages
<1>5. PgSize \in Nat \ {0} /\ n \in Nat
  <2> HIDE DEF len
  <2> QED BY <1>3, SizesAssumption
<1> HIDE DEF base, f, a, r
<1>6. \A x, y \in Nat : x <= y <=> x * PgSize <= y * PgSize
  BY <1>5
<1>7. f = IF a >= r THEN a ELSE r
  BY <1>2, <1>4, <1>6
<1>8. ASSUME NEW p \in Nat
      PROVE  p <= f + n - 1 /\ f <= p <=> f <= p /\ p * PgSize + PgSize <= m.addr + m.len
  <2>1. CASE p < f
    <3> HIDE DEF n, len
    <3> QED BY <1>4, <1>5, <2>1
  <2>2. CASE f <= p
    <3>1. p - f \in Nat /\ (p - f) * PgSize = p * PgSize - f * PgSize
      BY <1>4, <1>5, <2>2
    <3>2. p - f < n <=> (p - f) * PgSize + PgSize <= len
      <4> HIDE DEF len
      <4> QED BY <1>3, <3>1, PageBelow
    <3>3. (p - f) * PgSize + PgSize <= len <=> p * PgSize + PgSize <= m.addr + m.len
      <4>1. p * PgSize \in Nat /\ base \in Nat
        BY <1>3, <1>5
      <4> QED BY <1>1, <1>4, <1>5, <3>1, <4>1
    <3>4. p - f < n <=> p <= f + n - 1
      <4> HIDE DEF n
      <4> QED BY <1>4, <1>5
    <3> QED BY <2>2, <3>2, <3>3, <3>4
  <2> QED BY <1>4, <2>1, <2>2
<1>9. ASSUME NEW p \in Nat PROVE f <= p <=> r <= p /\ m.addr <= p * PgSize
  <2>1. m.addr <= p * PgSize <=> a <= p
    BY <1>4, <1>6
  <2> QED BY <1>4, <1>7, <2>1
<1>10. Available(m, end) = f..f + n - 1
  BY DEF Available, base, f
<1>11. f..f + n - 1 \subseteq Nat
  <2> HIDE DEF n
  <2> QED BY <1>4, <1>5
<1>12. ASSUME NEW p \in Nat PROVE p \in f..f + n - 1 <=> f <= p /\ p <= f + n - 1
  <2> HIDE DEF n
  <2> QED BY <1>4, <1>5
<1> HIDE DEF n
<1> QED BY <1>8, <1>9, <1>10, <1>11, <1>12 DEF r

-----------------------------------------------------------------------------
(* The invariant.                                                          *)

\* The allocations are blocks of at least one frame.
HeldType == held \subseteq [pfn : Nat, nr : Nat \ {0}]

\* Before there is a bitmap everything handed out is reserved, and there is nothing else.
StartInv == phase = "start" => /\ used = {} /\ zone = {}
                               /\ \A b \in held : Frames(b) \subseteq Reserved

\* Afterwards an allocation that is not reserved starts in the bitmap, though it may end
\* beyond it; and the buddy system has nothing before it is set up.
LaterInv == /\ phase # "start" => \A b \in held : Frames(b) \subseteq Reserved \/ b.pfn \in Pfns
            /\ phase = "bitmap" => zone = {}

IInv == TypeOK /\ HeldType /\ StartInv /\ LaterInv /\ PagesRight

\* The number of reserved pages.
LEMMA ReservedIs ==
  ASSUME reserved_end \in Nat, reserved_end % PgSize = 0
  PROVE  /\ reserved_end \div PgSize \in Nat
         /\ reserved_end = (reserved_end \div PgSize) * PgSize
         /\ \A p \in Nat : p \in Reserved <=> p < reserved_end \div PgSize
         /\ Reserved \subseteq Nat
<1>1. /\ reserved_end \div PgSize \in Nat
      /\ reserved_end = (reserved_end \div PgSize) * PgSize
  BY WholePages
<1>2. \A p \in Nat : p \in Reserved <=> p < reserved_end \div PgSize
  BY <1>1 DEF Reserved
<1>3. Reserved \subseteq Nat
  BY <1>1 DEF Reserved
<1> QED BY <1>1, <1>2, <1>3

LEMMA InitHolds == Init => IInv
<1> SUFFICES ASSUME Init PROVE IInv
  OBVIOUS
<1>1. PICK end \in MbootEnds : reserved_end = Align(Max({KernEnd, end}))
  BY DEF Init
<1>2. reserved_end \in Nat /\ reserved_end % PgSize = 0
  <2>1. Max({KernEnd, end}) \in Nat
    BY SizesAssumption, MaxOfTwo
  <2> QED BY <1>1, <2>1, Aligned
<1>3. TypeOK
  BY <1>2 DEF Init, TypeOK, Pfns, NOTFOUND
<1>4. HeldType /\ StartInv /\ LaterInv
  BY DEF Init, HeldType, StartInv, LaterInv
<1>5. PagesRight
  BY DEF Init, PagesRight, NoPageTwice, BitmapExact
<1> QED BY <1>3, <1>4, <1>5 DEF IInv

LEMMA EarlyAllocKeeps ==
  ASSUME IInv, NEW nr \in Requests, EarlyAlloc(nr) PROVE IInv'
<1> DEFINE r == reserved_end \div PgSize
           new == Block(r, nr)
<1>1. /\ reserved_end \in Nat /\ reserved_end % PgSize = 0 /\ nr \in Nat \ {0}
      /\ r \in Nat /\ reserved_end = r * PgSize
      /\ \A p \in Nat : p \in Reserved <=> p < r
      /\ PgSize \in Nat \ {0}
  BY RequestsAssumption, ReservedIs, SizesAssumption DEF IInv, TypeOK
<1>2. /\ phase = "start" /\ ret' = r /\ held' = held \cup {new}
      /\ reserved_end' = Align(reserved_end + nr * PgSize)
      /\ UNCHANGED <<phase, regions, pfn_max, used, zone>>
  BY DEF EarlyAlloc
<1>3. /\ reserved_end' \in Nat /\ reserved_end' % PgSize = 0
      /\ reserved_end + nr * PgSize <= reserved_end'
  <2>1. reserved_end + nr * PgSize \in Nat
    BY <1>1
  <2> QED BY <1>2, <2>1, Aligned
<1> DEFINE s == reserved_end' \div PgSize
<1>4. s \in Nat /\ reserved_end' = s * PgSize /\ (\A p \in Nat : p \in Reserved' <=> p < s)
  <2>1. s \in Nat /\ reserved_end' = s * PgSize
    BY <1>3, WholePages
  <2> QED BY <2>1 DEF Reserved
<1>5. r + nr <= s
  <2> HIDE DEF r, s
  <2> SUFFICES ASSUME s < r + nr PROVE FALSE
    BY <1>1, <1>4
  <2>1. (r + nr - s - 1) * PgSize >= 0
    BY <1>1, <1>4
  <2>2. (r + nr - s - 1) * PgSize = r * PgSize + nr * PgSize - s * PgSize - PgSize
    BY <1>1, <1>4
  <2>3. r * PgSize + nr * PgSize <= s * PgSize
    BY <1>1, <1>3, <1>4
  <2> QED BY <1>1, <1>4, <2>1, <2>2, <2>3
<1> HIDE DEF r, s
<1>6. Frames(new) = {p \in Nat : r <= p /\ p < r + nr} /\ new \in [pfn : Nat, nr : Nat \ {0}]
  BY <1>1 DEF Frames, Block
<1> HIDE DEF new
<1>7. Frames(new) \subseteq Reserved' /\ Frames(new) \cap Reserved = {} /\ Reserved \subseteq Reserved'
  <2>1. Reserved \subseteq Nat
    BY <1>1, ReservedIs
  <2> QED BY <1>1, <1>4, <1>5, <1>6, <2>1
<1>8. \A b \in held : Frames(b) \subseteq Reserved
  BY <1>2 DEF IInv, StartInv
<1>9. TypeOK'
  <2>1. \A b \in held' : b.pfn \in Nat /\ b.nr \in Nat \ {0}
    BY <1>2, <1>6 DEF IInv, TypeOK
  <2> QED BY <1>1, <1>2, <1>3, <2>1 DEF IInv, TypeOK, Pfns
<1>10. HeldType'
  BY <1>2, <1>6 DEF IInv, HeldType
<1>11. StartInv' /\ LaterInv'
  <2>1. used = {} /\ zone = {}
    BY <1>2 DEF IInv, StartInv
  <2> QED BY <1>2, <1>7, <1>8, <2>1 DEF StartInv, LaterInv, Frames
<1>12. NoPageTwice'
  <2>1. zone' = {}
    BY <1>2 DEF IInv, StartInv
  <2>2. \A b, c \in held : b # c => Frames(b) \cap Frames(c) = {}
    BY DEF IInv, PagesRight, NoPageTwice
  <2>3. \A b, c \in held' : b # c => Frames(b) \cap Frames(c) = {}
    BY <1>2, <1>7, <1>8, <2>2
  <2> QED BY <1>2, <2>1, <2>3 DEF NoPageTwice, Frames
<1>13. BitmapExact'
  BY <1>2 DEF BitmapExact
<1> QED BY <1>9, <1>10, <1>11, <1>12, <1>13 DEF IInv, PagesRight

\* align() goes up in the same way from any page on.
LEMMA AlignFrom ==
  ASSUME NEW r \in Nat, NEW a \in Nat
  PROVE  Align(r * PgSize + a) = r * PgSize + Align(a)
<1> DEFINE q == (a + PgSize - 1) \div PgSize
           x == r * PgSize + a + PgSize - 1
<1>1. PgSize \in Nat \ {0} /\ q \in Nat
  BY SizesAssumption
<1>2. q * PgSize <= a + PgSize - 1 /\ a + PgSize - 1 < q * PgSize + PgSize
  BY SizesAssumption
<1>3. x \div PgSize = r + q
  <2> HIDE DEF q
  <2>1. (r + q) * PgSize = r * PgSize + q * PgSize /\ r * PgSize \in Nat /\ q * PgSize \in Nat
    BY <1>1
  <2>2. x \in Nat /\ (r + q) * PgSize <= x /\ x < (r + q) * PgSize + PgSize
    BY <1>1, <1>2, <2>1
  <2>3. \A p \in Nat : p < x \div PgSize <=> p * PgSize + PgSize <= x
    <3> HIDE DEF x
    <3> QED BY <2>2, PageBelow
  <2>4. x \div PgSize \in Nat
    <3> HIDE DEF x
    <3> QED BY <1>1, <2>2
  <2> HIDE DEF x
  <2>5. ~(r + q < x \div PgSize)
    BY <1>1, <2>2, <2>3
  <2>6. CASE r + q = 0
    BY <2>4, <2>5, <2>6
  <2>7. CASE r + q # 0
    <3>1. r + q - 1 \in Nat /\ (r + q - 1) * PgSize = (r + q) * PgSize - PgSize
      BY <1>1, <2>7
    <3>2. r + q - 1 < x \div PgSize
      BY <1>1, <2>1, <2>2, <2>3, <3>1
    <3> QED BY <1>1, <2>4, <2>5, <3>2
  <2> QED BY <2>6, <2>7
<1> HIDE DEF q
<1>4. Align(r * PgSize + a) = (r + q) * PgSize
  BY <1>3 DEF Align
<1>5. Align(a) = q * PgSize
  BY DEF Align, q
<1> QED BY <1>1, <1>4, <1>5

LEMMA MemMapInitKeeps == ASSUME IInv, MemMapInit PROVE IInv'
<1> DEFINE r == reserved_end \div PgSize
           n == Align(BitmapBytes) \div PgSize
           s == reserved_end' \div PgSize
<1>1. /\ reserved_end \in Nat /\ reserved_end % PgSize = 0
      /\ r \in Nat /\ reserved_end = r * PgSize
      /\ \A p \in Nat : p \in Reserved <=> p < r
      /\ PgSize \in Nat \ {0} /\ regions \in MemoryMaps /\ Reserved \subseteq Nat
  BY ReservedIs, SizesAssumption DEF IInv, TypeOK
<1>2. /\ phase = "start" /\ phase' = "bitmap"
      /\ pfn_max' = PhyAddrLimit \div PgSize
      /\ reserved_end' = EndWithMap
      /\ used' = (0..pfn_max' - 1)
                   \ UNION {Available(m, reserved_end') :
                              m \in {x \in regions : x.addr + x.len > reserved_end'}}
      /\ held' = held \cup {BitmapBlock}
      /\ UNCHANGED <<regions, zone, ret>>
  BY DEF MemMapInit
<1>3. \A m \in regions : m.addr \in Nat /\ m.addr % PgSize = 0 /\ m.len \in Nat \ {0}
  BY <1>1, MapsAssumption
<1>4. PhyAddrLimit \div PgSize \in Nat \ {0}
  <2> DEFINE Ends == {m.addr + m.len : m \in regions}
  <2>1. PICK m \in regions : \A x \in regions : x.addr + x.len <= m.addr + m.len
    BY <1>1, <1>3, MapsAssumption, LastEnds
  <2>2. m.addr + m.len \in Ends /\ \A e \in Ends : m.addr + m.len >= e
    BY <1>3, <2>1
  <2>3. Max(Ends) \in Ends
    <3> HIDE DEF Ends
    <3> QED BY <2>2 DEF Max
  <2>4. Max(Ends) \in Nat \ {0}
    BY <1>3, <2>3
  <2>5. PhyAddrLimit = Align(Max(Ends))
    BY DEF PhyAddrLimit
  <2> HIDE DEF Ends
  <2>6. PhyAddrLimit \in Nat \ {0} /\ PhyAddrLimit % PgSize = 0
    BY <2>4, <2>5, Aligned
  <2>7. PhyAddrLimit \div PgSize \in Nat /\ PhyAddrLimit = (PhyAddrLimit \div PgSize) * PgSize
    BY <2>6, WholePages
  <2> QED BY <1>1, <2>6, <2>7
<1>5. BitmapBytes \in Nat \ {0}
  <2>1. \A x \in Nat \ {0} : (x + 7) \div 8 \in Nat \ {0}
    OBVIOUS
  <2> QED BY <1>4, <2>1 DEF BitmapBytes
<1>6. n \in Nat \ {0} /\ Align(BitmapBytes) = n * PgSize
  <2>1. Align(BitmapBytes) \in Nat \ {0} /\ Align(BitmapBytes) % PgSize = 0
    BY <1>5, Aligned
  <2>2. n \in Nat /\ Align(BitmapBytes) = n * PgSize
    BY <2>1, WholePages
  <2> QED BY <1>1, <2>1, <2>2
<1>7. /\ reserved_end' = r * PgSize + n * PgSize
      /\ reserved_end' \in Nat /\ reserved_end' % PgSize = 0
  <2>1. reserved_end' = r * PgSize + n * PgSize
    BY <1>1, <1>2, <1>5, <1>6, AlignFrom DEF EndWithMap
  <2>2. reserved_end + BitmapBytes \in Nat
    BY <1>1, <1>5
  <2> QED BY <1>2, <2>1, <2>2, Aligned DEF EndWithMap
<1>8. s \in Nat /\ reserved_end' = s * PgSize /\ (\A p \in Nat : p \in Reserved' <=> p < s)
  <2>1. s \in Nat /\ reserved_end' = s * PgSize
    BY <1>7, WholePages
  <2> QED BY <2>1 DEF Reserved
<1>9. BitmapBlock = Block(r, n)
  BY DEF BitmapBlock
<1> HIDE DEF r, n, s
<1>10. s = r + n
  <2>1. (r + n) * PgSize = s * PgSize
    BY <1>1, <1>6, <1>7, <1>8
  <2>2. (s - (r + n)) * PgSize = 0
    BY <1>1, <1>6, <1>8, <2>1
  <2> QED BY <1>1, <1>6, <1>8, <2>2
<1>11. /\ Frames(BitmapBlock) = {p \in Nat : r <= p /\ p < r + n}
       /\ BitmapBlock \in [pfn : Nat, nr : Nat \ {0}]
  BY <1>1, <1>6, <1>9 DEF Frames, Block
<1> DEFINE new == BitmapBlock
<1> HIDE DEF new
<1>12. /\ Frames(new) \subseteq Reserved' /\ Frames(new) \cap Reserved = {}
       /\ Reserved \subseteq Reserved'
  <2>1. Frames(new) = {p \in Nat : r <= p /\ p < r + n}
    BY <1>11 DEF new
  <2>2. ASSUME NEW p \in Reserved PROVE p \in Reserved'
    BY <1>1, <1>6, <1>8, <1>10, <2>2
  <2>3. ASSUME NEW p \in Frames(new) PROVE p \in Reserved' /\ p \notin Reserved
    BY <1>1, <1>6, <1>8, <1>10, <2>1, <2>3
  <2> QED BY <2>2, <2>3
<1>13. /\ held' = held \cup {new} /\ new \in [pfn : Nat, nr : Nat \ {0}]
  BY <1>2, <1>11 DEF new
<1>14. \A b \in held : Frames(b) \subseteq Reserved
  BY <1>2 DEF IInv, StartInv
<1>15. \A b \in held' : Frames(b) \subseteq Reserved'
  BY <1>12, <1>13, <1>14
<1>16. Pfns' = 0..pfn_max' - 1 /\ Pfns' \subseteq Nat /\ used' \subseteq Pfns' /\ pfn_max' \in Nat
  BY <1>2, <1>4 DEF Pfns
<1>17. zone' = {}
  BY <1>2 DEF IInv, StartInv
<1>18. TypeOK'
  <2>1. \A b \in held' : b.pfn \in Nat /\ b.nr \in Nat \ {0}
    BY <1>13 DEF IInv, TypeOK
  <2> QED BY <1>1, <1>2, <1>7, <1>16, <1>17, <2>1 DEF IInv, TypeOK
<1>19. HeldType'
  BY <1>13 DEF IInv, HeldType
<1>20. StartInv' /\ LaterInv'
  BY <1>2, <1>15, <1>17 DEF StartInv, LaterInv, Frames
<1>21. NoPageTwice'
  <2>1. \A b, c \in held : b # c => Frames(b) \cap Frames(c) = {}
    BY DEF IInv, PagesRight, NoPageTwice
  <2>2. \A b, c \in held' : b # c => Frames(b) \cap Frames(c) = {}
    BY <1>12, <1>13, <1>14, <2>1
  <2> QED BY <1>15, <1>17, <2>2 DEF NoPageTwice, Frames
<1>22. BitmapExact'
  <2> DEFINE In(p, m) == m.addr <= p * PgSize /\ p * PgSize + PgSize <= m.addr + m.len
  <2>1. ASSUME NEW p \in Pfns' PROVE p \in Memory' <=> \E m \in regions : In(p, m)
    BY <1>1, <1>2, <1>16, MemoryIs DEF Memory
  <2>2. ASSUME NEW p \in Pfns'
        PROVE  p \notin used' <=> s <= p /\ \E m \in regions : In(p, m)
    <3>1. p \in Nat /\ p \in 0..pfn_max' - 1
      BY <1>16
    <3>2. ASSUME NEW m \in regions, m.addr + m.len > reserved_end'
          PROVE  p \in Available(m, reserved_end') <=> s <= p /\ In(p, m)
      <4>1. Available(m, reserved_end') = {x \in Nat : s <= x /\ In(x, m)}
        BY <1>1, <1>7, <3>2, AvailableIs DEF s
      <4> HIDE DEF In
      <4> QED BY <3>1, <4>1
    <3>3. ASSUME NEW m \in regions, s <= p, In(p, m) PROVE m.addr + m.len > reserved_end'
      <4>1. (p - s) * PgSize >= 0 /\ (p - s) * PgSize = p * PgSize - s * PgSize
        BY <1>1, <1>8, <3>1, <3>3
      <4>2. p * PgSize \in Nat /\ s * PgSize \in Nat
        BY <1>1, <1>8, <3>1
      <4>3. s * PgSize <= p * PgSize
        BY <4>1, <4>2
      <4> QED BY <1>1, <1>3, <1>8, <3>3, <4>2, <4>3
    <3>4. p \notin used' <=> \E m \in {x \in regions : x.addr + x.len > reserved_end'} :
                               p \in Available(m, reserved_end')
      BY <1>2, <3>1
    <3> HIDE DEF In
    <3> QED BY <3>2, <3>3, <3>4
  <2> HIDE DEF In
  <2>3. ASSUME NEW p \in Pfns' PROVE p \in Reserved' <=> p < s
    BY <1>8, <1>16
  <2>4. ASSUME NEW p \in Pfns' PROVE p \in used' <=> p \notin Memory' \/ p \in Reserved'
    <3> DEFINE mem == \E m \in regions : In(p, m)
    <3>1. p \in Memory' <=> mem
      BY <2>1
    <3>2. p \notin used' <=> s <= p /\ mem
      BY <2>2
    <3>3. p \in Reserved' <=> p < s
      BY <2>3
    <3>4. s <= p <=> ~(p < s)
      BY <1>8, <1>16
    <3> HIDE DEF mem
    <3> QED BY <3>1, <3>2, <3>3, <3>4
  <2>5. UNION {Frames(b) : b \in held'} \subseteq Reserved'
    BY <1>15
  <2>6. used' = Pfns' \cap ((Pfns' \ Memory') \cup Reserved' \cup UNION {Frames(b) : b \in held'})
    BY <1>16, <2>4, <2>5
  <2> QED BY <1>2, <2>6 DEF BitmapExact, Frames
<1> QED BY <1>18, <1>19, <1>20, <1>21, <1>22 DEF IInv, PagesRight

\* A block of free frames, cut short by the end of the bitmap or not, is apart from all
\* that is held and from what is reserved.
LEMMA NewIsApart ==
  ASSUME IInv, phase # "start", NEW nr \in Nat \ {0}, NEW p \in Starts(nr)
  PROVE  /\ \A c \in held : Frames(Block(p, nr)) \cap Frames(c) = {}
         /\ Frames(Block(p, nr)) \cap Reserved = {}
         /\ Frames(Block(p, nr)) \cap Pfns \subseteq Memory \ used
         /\ Block(p, nr) \in [pfn : Nat, nr : Nat \ {0}]
         /\ p \in Frames(Block(p, nr))
<1> DEFINE new == Block(p, nr)
<1>1. /\ pfn_max \in Nat /\ Pfns = 0..pfn_max - 1 /\ used \subseteq Pfns
      /\ reserved_end \in Nat /\ reserved_end % PgSize = 0
  BY DEF IInv, TypeOK, Pfns
<1>2. p \in Pfns /\ p \in Nat /\ p < pfn_max /\ p \notin used
      /\ \A q \in used : ~(p <= q /\ q < p + nr)
  BY <1>1 DEF Starts
<1>3. Frames(new) = {q \in Nat : p <= q /\ q < p + nr} /\ new \in [pfn : Nat, nr : Nat \ {0}]
  BY <1>2 DEF Frames, Block
<1> HIDE DEF new
<1>4. used = Pfns \cap ((Pfns \ Memory) \cup Reserved \cup UNION {Frames(b) : b \in held})
  BY DEF IInv, PagesRight, BitmapExact
<1>5. \A q \in Pfns : q \in Reserved => q \in used
  BY <1>4
<1> DEFINE r == reserved_end \div PgSize
<1>6. r \in Nat /\ (\A q \in Nat : q \in Reserved <=> q < r) /\ Reserved \subseteq Nat
  BY <1>1, ReservedIs
<1> HIDE DEF r
<1>7. ASSUME NEW q \in Frames(new), q \in Reserved PROVE FALSE
  <2>1. q \in Nat /\ p <= q /\ q < r
    BY <1>3, <1>6, <1>7
  <2>2. p \in Reserved
    BY <1>2, <1>6, <2>1
  <2> QED BY <1>2, <1>5, <2>2
<1>8. ASSUME NEW q \in Frames(new), q \in Pfns PROVE q \notin used
  BY <1>2, <1>3, <1>8
<1>9. Frames(new) \cap Pfns \subseteq Memory \ used
  BY <1>4, <1>8
<1>10. ASSUME NEW c \in held, NEW q \in Frames(new), q \in Frames(c) PROVE FALSE
  <2>1. q \in Nat /\ p <= q /\ q < p + nr
    BY <1>3
  <2>2. q \notin Pfns
    BY <1>4, <1>8, <1>10
  <2>3. pfn_max <= q
    BY <1>1, <2>1, <2>2
  <2>4. c.pfn \in Pfns
    BY <1>7, <1>10 DEF IInv, LaterInv
  <2>5. c.pfn \in Nat /\ c.nr \in Nat /\ c.pfn < pfn_max /\ q <= c.pfn + c.nr - 1
    BY <1>1, <1>10, <2>4 DEF Frames, IInv, TypeOK
  <2>6. pfn_max - 1 \in Frames(c) /\ pfn_max - 1 \in Pfns
    BY <1>1, <2>1, <2>3, <2>5 DEF Frames
  <2>7. pfn_max - 1 \in used
    BY <1>4, <2>6
  <2> QED BY <1>1, <1>2, <2>1, <2>3, <2>7
<1>11. p \in Frames(new)
  BY <1>2, <1>3
<1> QED BY <1>3, <1>7, <1>9, <1>10, <1>11 DEF new

LEMMA BitmapAllocKeeps ==
  ASSUME IInv, NEW nr \in Requests, BitmapAlloc(nr) PROVE IInv'
<1>1. /\ phase = "bitmap" /\ ret' = BlockPageAlloc(nr)
      /\ UNCHANGED <<phase, regions, reserved_end, pfn_max, zone>>
  BY DEF BitmapAlloc
<1>2. nr \in Nat \ {0} /\ pfn_max \in Nat /\ used \subseteq Pfns /\ Starts(nr) \in SUBSET Nat
  BY RequestsAssumption DEF IInv, TypeOK, Starts, Pfns
<1>3. ret' = FirstOf(Starts(nr))
  BY <1>1, <1>2, BlockPageAllocIs
<1>4. CASE ret' = NOTFOUND
  <2>1. UNCHANGED <<phase, regions, reserved_end, pfn_max, zone, used, held>>
    BY <1>1, <1>4 DEF BitmapAlloc
  <2> QED BY <1>4, <2>1 DEF IInv, TypeOK, HeldType, StartInv, LaterInv, PagesRight, NoPageTwice,
                            BitmapExact, Pfns, Reserved, Memory, Frames
<1>5. CASE ret' # NOTFOUND
  <2> DEFINE p == ret'
             new == Block(p, nr)
  <2>1. p \in Starts(nr)
    BY <1>2, <1>3, <1>5, FirstOfIs
  <2>2. /\ \A c \in held : Frames(new) \cap Frames(c) = {}
        /\ Frames(new) \cap Reserved = {}
        /\ Frames(new) \cap Pfns \subseteq Memory \ used
        /\ new \in [pfn : Nat, nr : Nat \ {0}]
    BY <1>1, <1>2, <2>1, NewIsApart
  <2>3. used' = used \cup (Frames(new) \cap Pfns) /\ held' = held \cup {new}
    BY <1>5 DEF BitmapAlloc
  <2>4. new.pfn = p /\ p \in Pfns /\ p \in Nat
    BY <1>2, <2>1 DEF Block, Starts, Pfns
  <2>5. Pfns' = Pfns /\ Reserved' = Reserved /\ Memory' = Memory
    BY <1>1 DEF Pfns, Reserved, Memory
  <2> HIDE DEF new
  <2>6. TypeOK'
    <3>1. \A b \in held' : b.pfn \in Nat /\ b.nr \in Nat \ {0}
      BY <2>2, <2>3 DEF IInv, TypeOK
    <3>2. used' \subseteq Pfns'
      BY <1>2, <2>3, <2>5
    <3> QED BY <1>1, <2>4, <2>5, <3>1, <3>2 DEF IInv, TypeOK
  <2>7. HeldType' /\ StartInv'
    BY <1>1, <2>2, <2>3 DEF IInv, HeldType, StartInv
  <2>8. LaterInv'
    BY <1>1, <2>3, <2>4, <2>5 DEF IInv, LaterInv, Frames
  <2>9. NoPageTwice'
    <3>1. \A b, c \in held' : b # c => Frames(b) \cap Frames(c) = {}
      BY <2>2, <2>3 DEF IInv, PagesRight, NoPageTwice
    <3>2. zone' = {}
      BY <1>1 DEF IInv, LaterInv
    <3>3. \A b \in held' : \/ Frames(b) \subseteq Reserved
                           \/ Frames(b) \cap Reserved = {} /\ Frames(b) \cap Pfns \subseteq Memory
      BY <1>1, <2>2, <2>3 DEF IInv, PagesRight, NoPageTwice
    <3> QED BY <2>5, <3>1, <3>2, <3>3 DEF NoPageTwice, Frames
  <2>10. BitmapExact'
    <3>1. used = Pfns \cap ((Pfns \ Memory) \cup Reserved \cup UNION {Frames(b) : b \in held})
      BY <1>1 DEF IInv, PagesRight, BitmapExact
    <3>2. UNION {Frames(b) : b \in held'} = Frames(new) \cup UNION {Frames(b) : b \in held}
      BY <2>3
    <3>3. used' = Pfns \cap ((Pfns \ Memory) \cup Reserved \cup UNION {Frames(b) : b \in held'})
      BY <2>3, <3>1, <3>2
    <3> QED BY <1>1, <2>5, <3>3 DEF BitmapExact, Frames
  <2> QED BY <2>6, <2>7, <2>8, <2>9, <2>10 DEF IInv, PagesRight
<1> QED BY <1>4, <1>5

LEMMA FreeKeeps == ASSUME IInv, NEW b \in held, Free(b) PROVE IInv'
<1> DEFINE p == b.pfn
           r == reserved_end \div PgSize
<1>1. /\ phase # "start" /\ b.nr = 1 /\ p * PgSize >= reserved_end
      /\ used' = used \ Frames(b) /\ held' = held \ {b}
      /\ zone' = IF phase = "buddy" THEN zone \cup Frames(b) ELSE zone
      /\ UNCHANGED <<phase, regions, reserved_end, pfn_max, ret>>
  BY DEF Free
<1>2. /\ p \in Nat /\ Frames(b) = {p}
      /\ reserved_end \in Nat /\ reserved_end % PgSize = 0 /\ PgSize \in Nat \ {0}
      /\ used \subseteq Pfns
  BY <1>1, SizesAssumption DEF IInv, TypeOK, Frames
<1>3. p \notin Reserved
  <2>1. r \in Nat /\ reserved_end = r * PgSize /\ (p \in Reserved <=> p < r)
    BY <1>2, ReservedIs
  <2> HIDE DEF r
  <2>2. p < r => (r - p) * PgSize > 0
    BY <1>2, <2>1
  <2>3. (r - p) * PgSize = r * PgSize - p * PgSize /\ r * PgSize \in Nat /\ p * PgSize \in Nat
    BY <1>2, <2>1
  <2> QED BY <1>1, <2>1, <2>2, <2>3
<1>4. p \in Pfns /\ p \in Memory
  BY <1>1, <1>2, <1>3 DEF IInv, LaterInv, PagesRight, NoPageTwice
<1>5. \A c \in held \ {b} : p \notin Frames(c)
  BY <1>2 DEF IInv, PagesRight, NoPageTwice
<1>6. Pfns' = Pfns /\ Reserved' = Reserved /\ Memory' = Memory
  BY <1>1 DEF Pfns, Reserved, Memory
<1> HIDE DEF p
<1>7. TypeOK'
  BY <1>1, <1>2, <1>4, <1>6 DEF IInv, TypeOK
<1>8. HeldType' /\ StartInv'
  BY <1>1 DEF IInv, HeldType, StartInv
<1>9. LaterInv'
  BY <1>1, <1>6 DEF IInv, LaterInv, Frames
<1>10. NoPageTwice'
  <2>1. zone' \subseteq zone \cup {p}
    BY <1>1, <1>2
  <2>2. p \notin UNION {Frames(c) : c \in held'}
    BY <1>1, <1>5
  <2>3. zone' \cap (Reserved \cup UNION {Frames(c) : c \in held'}) = {} /\ zone' \subseteq Memory
    BY <1>1, <1>3, <1>4, <2>1, <2>2 DEF IInv, PagesRight, NoPageTwice
  <2> QED BY <1>1, <1>6, <2>3 DEF IInv, PagesRight, NoPageTwice, Frames
<1>11. BitmapExact'
  <2>1. used = Pfns \cap ((Pfns \ Memory) \cup Reserved \cup UNION {Frames(c) : c \in held})
    BY <1>1 DEF IInv, PagesRight, BitmapExact
  <2>2. UNION {Frames(c) : c \in held} = {p} \cup UNION {Frames(c) : c \in held'}
    BY <1>1, <1>2
  <2>3. p \notin UNION {Frames(c) : c \in held'}
    BY <1>1, <1>5
  <2>4. used' = used \ {p}
    BY <1>1, <1>2
  <2>5. used' = Pfns \cap ((Pfns \ Memory) \cup Reserved \cup UNION {Frames(c) : c \in held'})
    BY <1>3, <1>4, <2>1, <2>2, <2>3, <2>4
  <2>6. phase = "buddy" => zone' = Pfns \ used'
    <3>1. phase = "buddy" => zone = Pfns \ used /\ zone' = zone \cup {p}
      BY <1>1, <1>2 DEF IInv, PagesRight, BitmapExact
    <3> QED BY <1>4, <2>4, <3>1
  <2> QED BY <1>1, <1>6, <2>5, <2>6 DEF BitmapExact, Frames
<1> QED BY <1>7, <1>8, <1>9, <1>10, <1>11 DEF IInv, PagesRight

LEMMA BuddyInitKeeps == ASSUME IInv, BuddyInit PROVE IInv'
<1> DEFINE p == BlockPageAlloc(PageArray)
           new == Block(p, PageArray)
<1>1. /\ phase = "bitmap" /\ phase' = "buddy"
      /\ p # NOTFOUND /\ p + PageArray < pfn_max /\ pfn_max - 1 \notin used
      /\ used' = used \cup (Frames(new) \cap Pfns)
      /\ held' = held \cup {new} /\ ret' = p /\ zone' = Released(used')
      /\ UNCHANGED <<regions, reserved_end, pfn_max>>
  BY DEF BuddyInit, UsedWithArray, Block
<1>2. /\ PageArray \in Nat \ {0} /\ pfn_max \in Nat /\ used \subseteq Pfns
      /\ Starts(PageArray) \in SUBSET Nat /\ Pfns = 0..pfn_max - 1
  BY RequestsAssumption DEF IInv, TypeOK, Starts, Pfns
<1>3. p \in Starts(PageArray)
  BY <1>1, <1>2, BlockPageAllocIs, FirstOfIs
<1>4. /\ \A c \in held : Frames(new) \cap Frames(c) = {}
      /\ Frames(new) \cap Reserved = {}
      /\ Frames(new) \cap Pfns \subseteq Memory \ used
      /\ new \in [pfn : Nat, nr : Nat \ {0}]
      /\ new.pfn = p /\ p \in Pfns /\ p \in Nat
      /\ Frames(new) = p..p + PageArray - 1
  <2>1. new.pfn = p /\ p \in Pfns /\ p \in Nat /\ Frames(new) = p..p + PageArray - 1
    BY <1>2, <1>3 DEF Block, Starts, Pfns, Frames
  <2> QED BY <1>1, <1>2, <1>3, <2>1, NewIsApart
<1>5. Pfns' = Pfns /\ Reserved' = Reserved /\ Memory' = Memory
  BY <1>1 DEF Pfns, Reserved, Memory
<1> HIDE DEF p, new
<1>6. used' \subseteq Pfns
  BY <1>1, <1>2
<1>7. zone' = Pfns \ used'
  <2>1. pfn_max - 1 \in Pfns
    BY <1>2, <1>4
  <2>2. pfn_max - 1 \notin Frames(new)
    BY <1>1, <1>2, <1>4
  <2>3. pfn_max - 1 \in Pfns \ used'
    BY <1>1, <2>1, <2>2
  <2> QED BY <1>1, <1>2, <1>6, <2>3, ReleasedIs
<1>8. used = Pfns \cap ((Pfns \ Memory) \cup Reserved \cup UNION {Frames(b) : b \in held})
  BY <1>1 DEF IInv, PagesRight, BitmapExact
<1>9. used' = Pfns \cap ((Pfns \ Memory) \cup Reserved \cup UNION {Frames(b) : b \in held'})
  <2>1. UNION {Frames(b) : b \in held'} = Frames(new) \cup UNION {Frames(b) : b \in held}
    BY <1>1
  <2> QED BY <1>1, <1>8, <2>1
<1>10. TypeOK'
  <2>1. \A b \in held' : b.pfn \in Nat /\ b.nr \in Nat \ {0}
    BY <1>1, <1>4 DEF IInv, TypeOK
  <2> QED BY <1>1, <1>4, <1>5, <1>6, <1>7, <2>1 DEF IInv, TypeOK
<1>11. HeldType' /\ StartInv'
  BY <1>1, <1>4 DEF IInv, HeldType, StartInv
<1>12. LaterInv'
  BY <1>1, <1>4, <1>5 DEF IInv, LaterInv, Frames
<1>13. NoPageTwice'
  <2>1. \A b, c \in held' : b # c => Frames(b) \cap Frames(c) = {}
    BY <1>1, <1>4 DEF IInv, PagesRight, NoPageTwice
  <2>2. zone' \cap (Reserved \cup UNION {Frames(b) : b \in held'}) = {} /\ zone' \subseteq Memory
    BY <1>7, <1>9
  <2>3. \A b \in held' : \/ Frames(b) \subseteq Reserved
                         \/ Frames(b) \cap Reserved = {} /\ Frames(b) \cap Pfns \subseteq Memory
    BY <1>1, <1>4 DEF IInv, PagesRight, NoPageTwice
  <2> QED BY <1>5, <2>1, <2>2, <2>3 DEF NoPageTwice, Frames
<1>14. BitmapExact'
  BY <1>5, <1>7, <1>9 DEF BitmapExact, Frames
<1> QED BY <1>10, <1>11, <1>12, <1>13, <1>14 DEF IInv, PagesRight

LEMMA BuddyAllocKeeps == ASSUME IInv, BuddyAlloc PROVE IInv'
<1>1. phase = "buddy" /\ UNCHANGED <<phase, regions, reserved_end, pfn_max>>
  BY DEF BuddyAlloc
<1>2. Pfns' = Pfns /\ Reserved' = Reserved /\ Memory' = Memory
  BY <1>1 DEF Pfns, Reserved, Memory
<1>3. CASE ret' = NOTFOUND /\ UNCHANGED <<zone, used, held>>
  BY <1>1, <1>2, <1>3 DEF IInv, TypeOK, HeldType, StartInv, LaterInv, PagesRight, NoPageTwice,
                          BitmapExact, Frames
<1>4. ASSUME NEW p \in zone, ret' = p, zone' = zone \ {p}, used' = used \cup {p},
             held' = held \cup {Block(p, 1)}
      PROVE  IInv'
  <2> DEFINE new == Block(p, 1)
  <2>1. zone = Pfns \ used /\ used \subseteq Pfns
    BY <1>1 DEF IInv, TypeOK, PagesRight, BitmapExact
  <2>2. p \in Pfns /\ p \in Nat /\ p \notin used /\ Pfns \subseteq Nat
    BY <1>4, <2>1 DEF Pfns
  <2>3. p \in Starts(1)
    BY <2>1, <2>2 DEF Starts
  <2>4. /\ \A c \in held : Frames(new) \cap Frames(c) = {}
        /\ Frames(new) \cap Reserved = {}
        /\ Frames(new) \cap Pfns \subseteq Memory \ used
        /\ new \in [pfn : Nat, nr : Nat \ {0}]
    BY <1>1, <2>3, NewIsApart
  <2>5. Frames(new) = {p} /\ new.pfn = p
    BY <2>2 DEF Frames, Block
  <2>6. held' = held \cup {new}
    BY <1>4
  <2> HIDE DEF new
  <2>7. used' = Pfns \cap ((Pfns \ Memory) \cup Reserved \cup UNION {Frames(b) : b \in held'})
    <3>1. used = Pfns \cap ((Pfns \ Memory) \cup Reserved \cup UNION {Frames(b) : b \in held})
      BY <1>1 DEF IInv, PagesRight, BitmapExact
    <3>2. UNION {Frames(b) : b \in held'} = {p} \cup UNION {Frames(b) : b \in held}
      BY <2>5, <2>6
    <3> QED BY <1>4, <2>2, <3>1, <3>2
  <2>8. zone' = Pfns \ used'
    BY <1>4, <2>1
  <2>9. TypeOK'
    <3>1. \A b \in held' : b.pfn \in Nat /\ b.nr \in Nat \ {0}
      BY <2>4, <2>6 DEF IInv, TypeOK
    <3>2. used' \subseteq Pfns /\ zone' \subseteq Pfns
      BY <2>7, <2>8
    <3> QED BY <1>1, <1>2, <1>4, <2>2, <3>1, <3>2 DEF IInv, TypeOK
  <2>10. HeldType' /\ StartInv' /\ LaterInv'
    BY <1>1, <1>2, <2>2, <2>4, <2>5, <2>6 DEF IInv, HeldType, StartInv, LaterInv, Frames
  <2>11. NoPageTwice'
    <3>1. \A b, c \in held' : b # c => Frames(b) \cap Frames(c) = {}
      BY <2>4, <2>6 DEF IInv, PagesRight, NoPageTwice
    <3>2. zone' \cap (Reserved \cup UNION {Frames(b) : b \in held'}) = {} /\ zone' \subseteq Memory
      BY <2>7, <2>8
    <3>3. \A b \in held' : \/ Frames(b) \subseteq Reserved
                           \/ Frames(b) \cap Reserved = {} /\ Frames(b) \cap Pfns \subseteq Memory
      BY <1>1, <2>4, <2>6 DEF IInv, PagesRight, NoPageTwice
    <3> QED BY <1>2, <3>1, <3>2, <3>3 DEF NoPageTwice, Frames
  <2>12. BitmapExact'
    BY <1>2, <2>7, <2>8 DEF BitmapExact, Frames
  <2> QED BY <2>9, <2>10, <2>11, <2>12 DEF IInv, PagesRight
<1> QED BY <1>3, <1>4 DEF BuddyAlloc

\* Every step keeps the invariant.
LEMMA NextKeeps == IInv /\ [Next]_vars => IInv'
<1> SUFFICES ASSUME IInv, [Next]_vars PROVE IInv'
  OBVIOUS
<1>1. CASE MemMapInit
  BY <1>1, MemMapInitKeeps
<1>2. CASE BuddyInit
  BY <1>2, BuddyInitKeeps
<1>3. CASE BuddyAlloc
  BY <1>3, BuddyAllocKeeps
<1>4. CASE \E nr \in Requests : EarlyAlloc(nr) \/ BitmapAlloc(nr)
  BY <1>4, EarlyAllocKeeps, BitmapAllocKeeps
<1>5. CASE \E b \in held : Free(b)
  BY <1>5, FreeKeeps
<1>6. CASE UNCHANGED vars
  BY <1>6 DEF vars, IInv, TypeOK, HeldType, StartInv, LaterInv, PagesRight, NoPageTwice,
              BitmapExact, Pfns, Reserved, Memory, Frames
<1> QED BY <1>1, <1>2, <1>3, <1>4, <1>5, <1>6 DEF Next

\* The invariant holds: the three allocators of memory.c follow each other without a gap.
LEMMA Invariance == Spec => []IInv
<1> QED BY InitHolds, NextKeeps, PTL DEF Spec

-----------------------------------------------------------------------------
(* The theorems.                                                           *)

\* Every variable has its type, whatever memory map the boot loader passes.
THEOREM TypeCorrect == Spec => []TypeOK
<1>1. IInv => TypeOK
  BY DEF IInv
<1> QED BY <1>1, Invariance, PTL

\* No frame has two owners across the three allocators, and from mem_map_init on the
\* bitmap of memory.c knows exactly the frames that have one: neither the rounding of
\* regions, nor a run cut short at the end of the bitmap, nor the frames buddy_init
\* releases hand a frame out twice or lose one.
THEOREM PagesStayRight == Spec => []PagesRight
<1>1. IInv => PagesRight
  BY DEF IInv
<1> QED BY <1>1, Invariance, PTL

\* block_page_alloc returns a run of free frames if there is one; else nothing, or a run
\* that ends beyond memory.
THEOREM OverrunsAreLast == Spec => OverrunsOnlyWhenFull
<1> DEFINE Found(nr) == \/ ret' \in Runs(nr)
                        \/ Runs(nr) = {} /\ (ret' = NOTFOUND \/ ret' + nr > pfn_max)
<1>1. ASSUME IInv, NEW nr \in Requests, BitmapAlloc(nr) PROVE Found(nr)
  <2>1. nr \in Nat \ {0} /\ pfn_max \in Nat /\ used \subseteq Pfns /\ Starts(nr) \in SUBSET Nat
    BY <1>1, RequestsAssumption DEF IInv, TypeOK, Starts, Pfns
  <2>2. ret' = FirstOf(Starts(nr))
    BY <1>1, <2>1, BlockPageAllocIs DEF BitmapAlloc
  <2>3. Runs(nr) = {p \in Starts(nr) : p + nr <= pfn_max}
    BY <2>1, RunsAreStarts
  <2>4. CASE Starts(nr) = {}
    BY <2>1, <2>2, <2>3, <2>4 DEF FirstOf
  <2>5. CASE ret' \in Starts(nr) /\ \A y \in Starts(nr) : ret' <= y
    <3>1. PICK r \in Starts(nr) : r = ret' /\ \A y \in Starts(nr) : r <= y
      BY <2>5
    <3>2. r \in Nat
      BY <2>1, <3>1
    <3>3. CASE r + nr <= pfn_max
      BY <2>3, <3>1, <3>3
    <3>4. CASE r + nr > pfn_max
      <4>1. ASSUME NEW p \in Starts(nr) PROVE ~(p + nr <= pfn_max)
        <5>1. p \in Nat /\ r <= p
          BY <2>1, <3>1
        <5> QED BY <2>1, <3>2, <3>4, <5>1
      <4> QED BY <2>3, <3>1, <3>4, <4>1
    <3> QED BY <2>1, <3>2, <3>3, <3>4
  <2> QED BY <2>1, <2>2, <2>4, <2>5, FirstOfIs
<1>2. IInv /\ [Next]_vars => [\A nr \in Requests : BitmapAlloc(nr) => Found(nr)]_vars
  BY <1>1
<1> QED BY <1>2, Invariance, PTL DEF Spec, OverrunsOnlyWhenFull
=============================================================================
