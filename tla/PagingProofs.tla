----------------------------- MODULE PagingProofs -----------------------------
(***************************************************************************)
(* Theorems about Paging, for tables of any size, any size of a page and   *)
(* any regions.  The invariant gives every table a level and the first     *)
(* page it stands for, so that the tables are a tree, and puts the walk    *)
(* and expand_page on the path of the page at hand.  For the refinement of *)
(* DirectMap it also says how far the request under way has come.          *)
(***************************************************************************)
EXTENDS Paging, SequenceTheorems, FiniteSetTheorems, TLAPS

-----------------------------------------------------------------------------
(* Blocks of pages: what an entry of a level stands for.                   *)

\* The first page of the block of level l a page lies in, as a physical page.
Block(a, l) == (a - (a % Cover(l))) % KernPage

\* How many pages an entry of each level covers.
LEMMA Covers ==
  /\ E \in Nat \ {0, 1} /\ PgSize \in Nat \ {0}
  /\ Cover(1) = 1 /\ Cover(2) = E /\ Cover(3) = E * E /\ Cover(4) = E * E * E
  /\ \A l \in Levels : Cover(l) \in Nat \ {0}
  /\ \A l \in 1..3 : Cover(l + 1) = E * Cover(l)
  /\ KernPage \in Nat \ {0} /\ 2 * KernPage = E * Cover(4)
<1>1. E \in Nat \ {0, 1} /\ PgSize \in Nat \ {0} /\ E % 2 = 0
  BY EAssumption, PgSizeAssumption
<1>2. Cover(1) = 1 /\ Cover(2) = E /\ Cover(3) = E * E /\ Cover(4) = E * E * E
  BY DEF Cover
<1>3. E * E \in Nat \ {0} /\ E * E * E \in Nat \ {0} /\ E * E * E = E * (E * E)
  <2>1. \A m, n \in Nat \ {0} : m * n \in Nat \ {0}
    OBVIOUS
  <2>2. E * E \in Nat \ {0}
    BY <1>1, <2>1
  <2>3. E * (E * E) \in Nat \ {0}
    BY <1>1, <2>1, <2>2
  <2>4. E * E * E = E * (E * E)
    BY <1>1
  <2> QED BY <2>2, <2>3, <2>4
<1>4. \A l \in Levels : Cover(l) \in Nat \ {0}
  <2>1. \A l \in Levels : l = 1 \/ l = 2 \/ l = 3 \/ l = 4
    BY DEF Levels
  <2> QED BY <1>1, <1>2, <1>3, <2>1
<1>5. \A l \in 1..3 : Cover(l + 1) = E * Cover(l)
  <2>1. \A l \in 1..3 : (l = 1 /\ l + 1 = 2) \/ (l = 2 /\ l + 1 = 3) \/ (l = 3 /\ l + 1 = 4)
    OBVIOUS
  <2> QED BY <1>1, <1>2, <1>3, <2>1
<1>6. KernPage \in Nat \ {0} /\ 2 * KernPage = E * Cover(4)
  <2> DEFINE h == E \div 2
             c == Cover(4)
  <2>1. h \in Nat \ {0} /\ E = 2 * h
    BY <1>1
  <2>2. c \in Nat \ {0}
    BY <1>2, <1>3
  <2>3. KernPage = h * c
    BY DEF KernPage
  <2> HIDE DEF h, c
  <2>4. h * c \in Nat \ {0} /\ 2 * (h * c) = (2 * h) * c
    BY <2>1, <2>2
  <2>5. 2 * KernPage = E * c
    BY <2>1, <2>3, <2>4
  <2> QED BY <2>3, <2>4, <2>5 DEF c
<1> QED BY <1>1, <1>2, <1>4, <1>5, <1>6

\* Division by n.
LEMMA Division ==
  ASSUME NEW a \in Nat, NEW n \in Nat \ {0}
  PROVE  /\ a \div n \in Nat /\ (a % n) \in 0..n - 1
         /\ a = (a \div n) * n + (a % n)
         /\ a - (a % n) = (a \div n) * n
<1>1. a \div n \in Nat /\ (a % n) \in 0..n - 1
  OBVIOUS
<1>2. n \in Nat /\ n > 0
  OBVIOUS
<1>3. a = (a \div n) * n + (a % n)
  BY <1>2
<1>4. (a \div n) * n \in Nat
  BY <1>1
<1> QED BY <1>1, <1>3, <1>4

\* What division and remainder are, recognised.
LEMMA DivisionIs ==
  ASSUME NEW n \in Nat \ {0}, NEW q \in Nat, NEW r \in 0..n - 1, NEW a \in Nat, a = q * n + r
  PROVE  a \div n = q /\ a % n = r
OBVIOUS

\* A block of m times n pages, and the blocks of n pages it consists of.
LEMMA NestedBlocks ==
  ASSUME NEW a \in Nat, NEW n \in Nat \ {0}, NEW m \in Nat \ {0}
  PROVE  LET i == (a \div n) % m
         IN /\ i \in 0..m - 1 /\ i * n \in Nat /\ i * n + n <= m * n
            /\ a - (a % n) = (a - (a % (m * n))) + i * n
            /\ a - (a % (m * n)) \in Nat /\ a - (a % n) \in Nat
            /\ (a - (a % (m * n))) % (m * n) = 0
            /\ a \div (m * n) = (a \div n) \div m
<1> DEFINE q == a \div n
           r == a % n
           i == q % m
           u == q \div m
           s == i * n + r
<1>1. q \in Nat /\ r \in 0..n - 1 /\ a = q * n + r /\ a - r = q * n
  BY Division
<1>2. u \in Nat /\ i \in 0..m - 1 /\ q = u * m + i
  BY <1>1, Division
<1>3. m * n \in Nat \ {0}
  OBVIOUS
<1>4. i * n \in Nat /\ i * n + n <= m * n
  <2> HIDE DEF i
  <2>1. (m - i - 1) * n >= 0
    BY <1>2
  <2>2. (m - i - 1) * n = m * n - i * n - n
    BY <1>2
  <2> QED BY <1>2, <2>1, <2>2
<1>5. s \in 0..m * n - 1
  <2> HIDE DEF i, r
  <2> QED BY <1>1, <1>3, <1>4
<1>6. a = u * (m * n) + s
  <2> HIDE DEF i, r, q, u
  <2>1. q * n = (u * m) * n + i * n
    BY <1>2
  <2>2. (u * m) * n = u * (m * n)
    BY <1>2
  <2> QED BY <1>1, <1>2, <1>4, <2>1, <2>2
<1>7. a \div (m * n) = u /\ a % (m * n) = s
  <2> DEFINE c == m * n
  <2>1. c \in Nat \ {0} /\ s \in 0..c - 1 /\ a = u * c + s /\ u \in Nat
    BY <1>2, <1>3, <1>5, <1>6
  <2> HIDE DEF s, u, c
  <2>2. a \div c = u /\ a % c = s
    BY <2>1, DivisionIs
  <2> QED BY <2>2 DEF c
<1>8. a - (a % (m * n)) = u * (m * n) /\ u * (m * n) \in Nat
  <2> HIDE DEF s, u
  <2> QED BY <1>2, <1>3, <1>5, <1>6, <1>7
<1>9. (u * (m * n)) % (m * n) = 0
  <2> DEFINE c == m * n
             b == u * c
             z == 0
  <2> HIDE DEF u
  <2>1. c \in Nat \ {0} /\ z \in 0..c - 1 /\ b = u * c + z /\ b \in Nat /\ u \in Nat
    BY <1>2, <1>3
  <2>2. b % c = z
    <3> HIDE DEF b, c, z
    <3> QED BY <2>1, DivisionIs
  <2> QED BY <2>2
<1>10. a - r = (a - (a % (m * n))) + i * n /\ a - r \in Nat
  <2> HIDE DEF i, r, q, u
  <2> QED BY <1>1, <1>4, <1>5, <1>6, <1>7, <1>8
<1> QED BY <1>2, <1>4, <1>7, <1>8, <1>9, <1>10

\* The remainder of what is less than two times KernPage.
LEMMA ModKern ==
  ASSUME NEW a \in 0..2 * KernPage - 1
  PROVE  a % KernPage = IF a < KernPage THEN a ELSE a - KernPage
<1>1. KernPage \in Nat \ {0} /\ a \in Nat
  BY Covers
<1> DEFINE k == KernPage
<1>2. k \in Nat \ {0} /\ a < 2 * k
  BY <1>1
<1> HIDE DEF k
<1>3. CASE a < k
  <2>1. a = 0 * k + a /\ a \in 0..k - 1
    BY <1>1, <1>2, <1>3
  <2>2. a % k = a
    BY <1>1, <1>2, <2>1, DivisionIs
  <2> QED BY <1>3, <2>2 DEF k
<1>4. CASE ~(a < k)
  <2> DEFINE b == a - k
  <2>1. a = 1 * k + b /\ b \in 0..k - 1
    BY <1>1, <1>2, <1>4
  <2> HIDE DEF b
  <2>2. a % k = b
    BY <1>1, <1>2, <2>1, DivisionIs
  <2> QED BY <1>4, <2>2 DEF k, b
<1> QED BY <1>3, <1>4

\* A sum that stays below the size of the direct mapping.
LEMMA SumModKern ==
  ASSUME NEW a \in Nat, NEW b \in Nat, a + b < 2 * KernPage, (a % KernPage) + b < KernPage
  PROVE  (a + b) % KernPage = (a % KernPage) + b
<1>1. KernPage \in Nat \ {0}
  BY Covers
<1>2. a \in 0..2 * KernPage - 1 /\ a + b \in 0..2 * KernPage - 1
  BY <1>1
<1> QED BY <1>1, <1>2, ModKern

\* A block is one of those the block above consists of, and lies in one half.
LEMMA Blocks ==
  ASSUME NEW a \in 0..2 * KernPage - 1
  PROVE  \A l \in Levels :
           /\ Idx(a, l) \in Index
           /\ Block(a, l) \in Nat /\ Block(a, l) + Cover(l) <= KernPage
           /\ l < 4 => Block(a, l) = Block(a, l + 1) + Idx(a, l) * Cover(l)
           /\ l = 4 => Block(a, l) = (Idx(a, l) * Cover(l)) % KernPage
<1> DEFINE Right(l) == /\ Block(a, l) \in Nat /\ Block(a, l) + Cover(l) <= KernPage
                       /\ l < 4 => Block(a, l) = Block(a, l + 1) + Idx(a, l) * Cover(l)
                       /\ l = 4 => Block(a, l) = (Idx(a, l) * Cover(l)) % KernPage
<1>1. /\ KernPage \in Nat \ {0} /\ 2 * KernPage = E * Cover(4) /\ a \in Nat /\ E \in Nat \ {0, 1}
      /\ \A l \in Levels : Cover(l) \in Nat \ {0}
  BY Covers
<1>2. ASSUME NEW l \in Levels
      PROVE  /\ Idx(a, l) \in Index /\ Idx(a, l) * Cover(l) \in Nat
             /\ Idx(a, l) * Cover(l) + Cover(l) <= E * Cover(l)
             /\ a - (a % Cover(l)) = (a - (a % (E * Cover(l)))) + Idx(a, l) * Cover(l)
             /\ a - (a % Cover(l)) \in Nat /\ a - (a % (E * Cover(l))) \in Nat
             /\ a - (a % Cover(l)) <= a
  <2> DEFINE n == Cover(l)
  <2>1. n \in Nat \ {0} /\ E \in Nat \ {0} /\ a \in Nat
    BY <1>1
  <2> HIDE DEF n
  <2>2. LET i == (a \div n) % E
        IN /\ i \in 0..E - 1 /\ i * n \in Nat /\ i * n + n <= E * n
           /\ a - (a % n) = (a - (a % (E * n))) + i * n
           /\ a - (a % (E * n)) \in Nat /\ a - (a % n) \in Nat
    BY <2>1, NestedBlocks
  <2>3. (a % n) \in Nat
    BY <2>1
  <2>4. a - (a % n) <= a
    BY <2>1, <2>3
  <2> QED BY <2>2, <2>4 DEF Idx, Index, n
<1>3. Right(4)
  <2> DEFINE c == Cover(4)
             i == Idx(a, 4)
             h == E \div 2
  <2>1. 4 \in Levels /\ c \in Nat \ {0} /\ i \in Nat
    BY <1>1, <1>2 DEF Levels, Index
  <2>2. a - (a % c) = (a - (a % (2 * KernPage))) + i * c /\ i * c \in Nat /\ i * c + c <= 2 * KernPage
    BY <1>1, <1>2, <2>1
  <2>3. a % (2 * KernPage) = a
    <3> DEFINE k == 2 * KernPage
    <3>1. k \in Nat \ {0} /\ a \in 0..k - 1 /\ a = 0 * k + a
      BY <1>1
    <3> HIDE DEF k
    <3>2. a % k = a
      BY <1>1, <3>1, DivisionIs
    <3> QED BY <3>2 DEF k
  <2>4. a - (a % c) = i * c
    BY <1>1, <2>2, <2>3
  <2>5. h \in Nat /\ KernPage = h * c
    <3>1. h \in Nat
      BY <1>1
    <3> QED BY <3>1 DEF KernPage
  <2> HIDE DEF c, i, h
  <2>6. i * c < h * c => i * c + c <= h * c
    <3>1. CASE i < h
      <4>1. (h - i - 1) * c >= 0
        BY <2>1, <2>5, <3>1
      <4>2. (h - i - 1) * c = h * c - i * c - c
        BY <2>1, <2>5
      <4> QED BY <2>1, <2>2, <2>5, <4>1, <4>2
    <3>2. CASE i >= h
      <4>1. (i - h) * c >= 0
        BY <2>1, <2>5, <3>2
      <4>2. (i - h) * c = i * c - h * c
        BY <2>1, <2>5
      <4> QED BY <1>1, <2>1, <2>2, <2>5, <4>1, <4>2
    <3> QED BY <2>1, <2>5, <3>1, <3>2
  <2>7. (i * c) % KernPage = IF i * c < KernPage THEN i * c ELSE i * c - KernPage
    <3>1. i * c \in 0..2 * KernPage - 1
      BY <1>1, <2>1, <2>2
    <3> QED BY <3>1, ModKern
  <2>8. (i * c) % KernPage \in Nat /\ ((i * c) % KernPage) + c <= KernPage
    <3> DEFINE m == i * c
    <3>1. /\ m \in Nat /\ m + c <= 2 * KernPage /\ (m < KernPage => m + c <= KernPage)
          /\ m % KernPage = IF m < KernPage THEN m ELSE m - KernPage
      BY <2>2, <2>5, <2>6, <2>7
    <3> HIDE DEF m
    <3>2. m % KernPage \in Nat /\ (m % KernPage) + c <= KernPage
      BY <1>1, <2>1, <3>1
    <3> QED BY <3>2 DEF m
  <2> QED BY <2>4, <2>8 DEF Block, c, i
<1>4. ASSUME NEW l \in 1..3, Right(l + 1) PROVE Right(l)
  <2> DEFINE c == Cover(l)
             up == Cover(l + 1)
             i == Idx(a, l)
             b == a - (a % up)
  <2>1. l \in Levels /\ l + 1 \in Levels /\ l < 4 /\ ~(l = 4)
    BY DEF Levels
  <2>2. up = E * c /\ c \in Nat \ {0} /\ up \in Nat \ {0}
    BY <1>1, <2>1, Covers
  <2>3. i * c \in Nat /\ i * c + c <= up /\ a - (a % c) = b + i * c /\ b \in Nat /\ b + i * c <= a
    BY <1>2, <2>1, <2>2
  <2>4. b % KernPage = Block(a, l + 1) /\ (b % KernPage) \in Nat /\ (b % KernPage) + up <= KernPage
    BY <1>4 DEF Block
  <2>5. Block(a, l) = (b + i * c) % KernPage
    BY <2>3 DEF Block
  <2> DEFINE m == i * c
  <2> HIDE DEF b, m, up, c, i
  <2>6. (b + m) % KernPage = (b % KernPage) + m
    BY <1>1, <2>2, <2>3, <2>4, SumModKern, SMTT(20) DEF m
  <2>7. Block(a, l) = Block(a, l + 1) + m /\ Block(a, l) \in Nat /\ Block(a, l) + c <= KernPage
    BY <1>1, <2>2, <2>3, <2>4, <2>5, <2>6 DEF m
  <2> QED BY <2>1, <2>7 DEF m, i, c
<1> HIDE DEF Right
<1>5. Right(3)
  BY <1>3, <1>4
<1>6. Right(2)
  BY <1>4, <1>5
<1>7. Right(1)
  BY <1>4, <1>6
<1>8. \A l \in Levels : l = 1 \/ l = 2 \/ l = 3 \/ l = 4
  BY DEF Levels
<1>9. \A l \in Levels : Right(l)
  BY <1>3, <1>5, <1>6, <1>7, <1>8
<1> QED BY <1>2, <1>9 DEF Right

-----------------------------------------------------------------------------
(* Looking a page up, level by level.                                      *)

\* What is found for a page at level l, after `up' at the level above.
Below(t, a, l, up) == IF up.kind = "table" THEN t[up.at][Idx(a, l)]
                      ELSE Within(up, Idx(a, l), l)
\* What is found for a page at level l of the tables t.
Look(t, a, l) ==
  LET e4 == t[Pgd][Idx(a, 4)]
      e3 == Below(t, a, 3, e4)
      e2 == Below(t, a, 2, e3)
  IN CASE l = 4 -> e4 [] l = 3 -> e3 [] l = 2 -> e2 [] l = 1 -> Below(t, a, 1, e2)

\* The walk of the processor, level by level.
LEMMA Looks ==
  ASSUME NEW t, NEW a
  PROVE  /\ Look(t, a, 4) = t[Pgd][Idx(a, 4)]
         /\ \A l \in 1..3 : Look(t, a, l) = Below(t, a, l, Look(t, a, l + 1))
<1>1. \A l \in 1..3 : l = 1 \/ l = 2 \/ l = 3
  OBVIOUS
<1>2. /\ Look(t, a, 4) = t[Pgd][Idx(a, 4)]
      /\ Look(t, a, 3) = Below(t, a, 3, Look(t, a, 4))
      /\ Look(t, a, 2) = Below(t, a, 2, Look(t, a, 3))
      /\ Look(t, a, 1) = Below(t, a, 1, Look(t, a, 2))
  BY DEF Look
<1> QED BY <1>1, <1>2

\* f is the function of Lookup.
IsLookup(f, t, a) ==
  f = [l \in Levels |->
         IF l = 4 THEN t[Pgd][Idx(a, 4)]
         ELSE LET up == f[l + 1]
              IN IF up.kind = "table" THEN t[up.at][Idx(a, l)] ELSE Within(up, Idx(a, l), l)]

\* What the processor finds is what the walk finds at the last level.
LEMMA LookupIs == ASSUME NEW t, NEW a PROVE Lookup(t, a) = Look(t, a, 1)
<1> DEFINE g == [l \in Levels |-> Look(t, a, l)]
           s == CHOOSE f : IsLookup(f, t, a)
<1>1. 1 \in Levels /\ 2 \in Levels /\ 3 \in Levels /\ 4 \in Levels
      /\ \A l \in Levels : l = 4 \/ (l \in 1..3 /\ l + 1 \in Levels /\ l # 4)
  BY DEF Levels
<1>2. IsLookup(g, t, a)
  <2> DEFINE Turn(l) == IF l = 4 THEN t[Pgd][Idx(a, 4)] ELSE Below(t, a, l, g[l + 1])
  <2>1. ASSUME NEW l \in Levels PROVE Look(t, a, l) = Turn(l)
    <3>1. CASE l = 4
      BY <3>1, Looks
    <3>2. CASE l # 4
      <4>1. g[l + 1] = Look(t, a, l + 1)
        BY <1>1, <3>2
      <4> QED BY <1>1, <3>2, <4>1, Looks
    <3> QED BY <3>1, <3>2
  <2> HIDE DEF g
  <2>2. [l \in Levels |-> Look(t, a, l)] = [l \in Levels |-> Turn(l)]
    BY <2>1, Zenon
  <2>3. g = [l \in Levels |-> Turn(l)]
    BY <2>2 DEF g
  <2> QED BY <2>3, Zenon DEF IsLookup, Below
<1>3. IsLookup(s, t, a)
  BY <1>2, Zenon
<1>4. Lookup(t, a) = s[1]
  BY Zenon DEF Lookup, IsLookup
<1> HIDE DEF s, g
<1>5. s[4] = t[Pgd][Idx(a, 4)] /\ \A l \in 1..3 : s[l] = Below(t, a, l, s[l + 1])
  <2>1. ASSUME NEW l \in 1..3 PROVE s[l] = Below(t, a, l, s[l + 1])
    <3>1. l \in Levels /\ l # 4
      BY DEF Levels
    <3> QED BY <1>3, <3>1, Zenon DEF IsLookup, Below
  <2>2. s[4] = t[Pgd][Idx(a, 4)]
    BY <1>1, <1>3, Zenon DEF IsLookup
  <2> QED BY <2>1, <2>2
<1>6. s[3] = Below(t, a, 3, s[4]) /\ s[2] = Below(t, a, 2, s[3]) /\ s[1] = Below(t, a, 1, s[2])
  <2>1. 3 + 1 = 4 /\ 2 + 1 = 3 /\ 1 + 1 = 2 /\ 1 \in 1..3 /\ 2 \in 1..3 /\ 3 \in 1..3
    OBVIOUS
  <2> HIDE DEF Below
  <2> QED BY <1>5, <2>1
<1> QED BY <1>4, <1>5, <1>6, Zenon DEF Look

-----------------------------------------------------------------------------
(* The tree of tables.                                                     *)

\* The physical page entry i of table f stands for, or starts with: lev says of each
\* table which level it is of, and at with which page it starts.
Spot(lev, at, f, i) == (at[f] + i * Cover(lev[f])) % KernPage

\* What an entry may be.
PageEntry(lev, at, f, i, e)     == lev[f] < 4 /\ e = Page(Spot(lev, at, f, i))
TableEntry(t, lev, at, f, i, e) == /\ lev[f] > 1 /\ e = Table(e.at) /\ e.at \in DOMAIN t \ {Pgd}
                                   /\ lev[e.at] = lev[f] - 1 /\ at[e.at] = Spot(lev, at, f, i)
EntryOK(t, lev, at, f, i, e) ==
  e = None \/ PageEntry(lev, at, f, i, e) \/ TableEntry(t, lev, at, f, i, e)

Tree(t, lev, at) ==
  /\ lev \in [DOMAIN t -> Levels] /\ at \in [DOMAIN t -> Phys]
  /\ Pgd \in DOMAIN t /\ lev[Pgd] = 4 /\ at[Pgd] = 0
  /\ \A f \in DOMAIN t : /\ lev[f] = 4 => f = Pgd
                         /\ lev[f] < 4 => at[f] + Cover(lev[f] + 1) <= KernPage
                         /\ t[f] = [i \in Index |-> t[f][i]]
                         /\ \A i \in Index : EntryOK(t, lev, at, f, i, t[f][i])

\* No table hangs at two places, unless they are in the pgd.
Once(t) ==
  \A f \in DOMAIN t, g \in DOMAIN t, i \in Index, j \in Index :
    t[f][i].kind = "table" /\ t[g][j].kind = "table" /\ t[f][i].at = t[g][j].at
      => (f = g /\ i = j) \/ (f = Pgd /\ g = Pgd)

\* What a look-up of a page finds at level l.
Finds(t, lev, at, a, l, e) ==
  \/ e = None
  \/ l < 4 /\ e = Page(Block(a, l))
  \/ /\ l > 1 /\ e = Table(e.at) /\ e.at \in DOMAIN t \ {Pgd}
     /\ lev[e.at] = l - 1 /\ at[e.at] = Block(a, l)

\* An entry of the table on the path of a page.
LEMMA EntryFound ==
  ASSUME NEW t, NEW lev, NEW at, Tree(t, lev, at), NEW a \in 0..2 * KernPage - 1,
         NEW l \in Levels, NEW f \in DOMAIN t, lev[f] = l, l < 4 => at[f] = Block(a, l + 1)
  PROVE  /\ Spot(lev, at, f, Idx(a, l)) = Block(a, l)
         /\ Finds(t, lev, at, a, l, t[f][Idx(a, l)])
<1> DEFINE i == Idx(a, l)
<1>1. i \in Index
  BY Blocks
<1>2. Spot(lev, at, f, i) = Block(a, l)
  <2>1. CASE l = 4
    <3>1. at[f] = 0
      BY <2>1 DEF Tree
    <3>2. i * Cover(l) \in Nat
      <4>1. Cover(l) \in Nat /\ i \in Nat
        BY <1>1, Covers DEF Index
      <4> QED BY <4>1
    <3>3. Block(a, l) = (i * Cover(l)) % KernPage
      BY <2>1, Blocks
    <3> HIDE DEF i
    <3> QED BY <3>1, <3>2, <3>3 DEF Spot
  <2>2. CASE l # 4
    <3>1. l < 4
      BY <2>2 DEF Levels
    <3>2. Block(a, l) = at[f] + i * Cover(l) /\ Block(a, l) \in Nat /\ Block(a, l) + Cover(l) <= KernPage
      BY <3>1, Blocks
    <3>3. Block(a, l) % KernPage = Block(a, l)
      <4>1. Block(a, l) < KernPage /\ Block(a, l) \in 0..2 * KernPage - 1
        BY <3>2, Covers
      <4> QED BY <4>1, ModKern
    <3> HIDE DEF i
    <3> QED BY <3>2, <3>3 DEF Spot
  <2> QED BY <2>1, <2>2
<1>3. EntryOK(t, lev, at, f, i, t[f][i])
  BY <1>1 DEF Tree
<1> HIDE DEF i
<1>4. Finds(t, lev, at, a, l, t[f][i])
  BY <1>2, <1>3 DEF EntryOK, PageEntry, TableEntry, Finds
<1> QED BY <1>2, <1>4 DEF i

\* What is found for a page, at every level.
LEMMA TreePath ==
  ASSUME NEW t, NEW lev, NEW at, Tree(t, lev, at), NEW a \in 0..2 * KernPage - 1
  PROVE  \A l \in Levels : Finds(t, lev, at, a, l, Look(t, a, l))
<1> DEFINE Right(l) == Finds(t, lev, at, a, l, Look(t, a, l))
<1>1. Right(4)
  <2>1. 4 \in Levels /\ Pgd \in DOMAIN t /\ lev[Pgd] = 4
    BY DEF Tree, Levels
  <2>2. Finds(t, lev, at, a, 4, t[Pgd][Idx(a, 4)])
    BY <2>1, EntryFound
  <2> QED BY <2>2, Looks
<1>2. ASSUME NEW l \in 1..3, Right(l + 1) PROVE Right(l)
  <2> DEFINE up == Look(t, a, l + 1)
             i == Idx(a, l)
  <2>1. Look(t, a, l) = Below(t, a, l, up) /\ l \in Levels /\ l < 4 /\ l + 1 - 1 = l
    BY Looks DEF Levels
  <2>2. Finds(t, lev, at, a, l + 1, up)
    BY <1>2
  <2> HIDE DEF up
  <2>3. CASE up = None
    <3>1. Look(t, a, l) = None
      BY <2>1, <2>3 DEF Below, Within, None
    <3> QED BY <3>1 DEF Finds
  <2>4. CASE up = Page(Block(a, l + 1))
    <3>1. Below(t, a, l, up) = Page(Block(a, l + 1) + i * Cover(l))
      BY <2>4 DEF Below, Within, Page
    <3>2. Block(a, l) = Block(a, l + 1) + i * Cover(l)
      BY <2>1, Blocks
    <3> QED BY <2>1, <3>1, <3>2 DEF Finds
  <2>5. CASE /\ up = Table(up.at) /\ up.at \in DOMAIN t \ {Pgd}
             /\ lev[up.at] = l + 1 - 1 /\ at[up.at] = Block(a, l + 1)
    <3>1. Below(t, a, l, up) = t[up.at][i]
      <4>1. up.kind = "table"
        BY <2>5 DEF Table
      <4> QED BY <4>1 DEF Below
    <3>2. Finds(t, lev, at, a, l, t[up.at][i])
      BY <2>1, <2>5, EntryFound
    <3> QED BY <2>1, <3>1, <3>2
  <2> QED BY <2>2, <2>3, <2>4, <2>5 DEF Finds
<1> HIDE DEF Right
<1>3. Right(3)
  BY <1>1, <1>2
<1>4. Right(2)
  BY <1>2, <1>3
<1>5. Right(1)
  BY <1>2, <1>4
<1>6. \A l \in Levels : l = 1 \/ l = 2 \/ l = 3 \/ l = 4
  BY DEF Levels
<1> QED BY <1>1, <1>3, <1>4, <1>5, <1>6 DEF Right

\* What an entry stands for lies in one half.
LEMMA SpotFits ==
  ASSUME NEW t, NEW lev, NEW at, Tree(t, lev, at), NEW f \in DOMAIN t, NEW i \in Index
  PROVE  /\ Spot(lev, at, f, i) \in Phys /\ Spot(lev, at, f, i) + Cover(lev[f]) <= KernPage
         /\ lev[f] < 4 => Spot(lev, at, f, i) = at[f] + i * Cover(lev[f])
<1>1. /\ lev[f] \in Levels /\ at[f] \in Nat /\ KernPage \in Nat \ {0} /\ E \in Nat \ {0, 1}
      /\ Cover(lev[f]) \in Nat \ {0} /\ i \in Nat /\ i <= E - 1
  BY Covers DEF Tree, Phys, Index
<1> DEFINE c == Cover(lev[f])
<1>2. i * c \in Nat /\ i * c + c <= E * c
  <2>1. c \in Nat \ {0}
    BY <1>1
  <2> HIDE DEF c
  <2>2. (E - i - 1) * c >= 0
    BY <1>1, <2>1
  <2>3. (E - i - 1) * c = E * c - i * c - c
    BY <1>1, <2>1
  <2> QED BY <1>1, <2>1, <2>2, <2>3
<1>3. CASE lev[f] = 4
  <2> DEFINE a == i * Cover(4)
  <2>1. /\ at[f] = 0 /\ c = Cover(4) /\ Cover(4) \in Nat \ {0} /\ 2 * KernPage = E * Cover(4)
        /\ 4 \in Levels
    BY <1>1, <1>3, Covers DEF Tree, Levels
  <2>2. a \in 0..2 * KernPage - 1
    BY <1>1, <1>2, <2>1
  <2>3. Idx(a, 4) = i
    <3> DEFINE d == Cover(4)
               z == 0
    <3>1. d \in Nat \ {0} /\ a \in Nat /\ z \in 0..d - 1 /\ a = i * d + z
      BY <1>2, <2>1, <2>2
    <3> HIDE DEF a, d, z
    <3>2. a \div d = i
      BY <1>1, <3>1, DivisionIs
    <3>3. i % E = i
      <4>1. E \in Nat \ {0} /\ 0 \in Nat /\ i \in 0..E - 1 /\ i = 0 * E + i
        BY <1>1
      <4> QED BY <1>1, <4>1, DivisionIs
    <3> QED BY <3>2, <3>3 DEF Idx, d
  <2>4. Block(a, 4) \in Nat /\ Block(a, 4) + Cover(4) <= KernPage /\ Block(a, 4) = a % KernPage
    BY <2>1, <2>2, <2>3, Blocks
  <2>5. Spot(lev, at, f, i) = a % KernPage
    <3> HIDE DEF a
    <3>1. a \in Nat
      BY <2>2
    <3> QED BY <1>3, <2>1, <3>1 DEF Spot, a
  <2> QED BY <1>1, <1>3, <2>1, <2>4, <2>5 DEF Phys
<1>4. CASE lev[f] # 4
  <2>1. lev[f] \in 1..3
    BY <1>1, <1>4 DEF Levels
  <2>2. at[f] + E * c <= KernPage
    BY <2>1, Covers DEF Tree
  <2> DEFINE s == at[f] + i * c
  <2>3. s \in Nat /\ s + c <= KernPage /\ s < KernPage /\ s \in 0..2 * KernPage - 1
    <3> HIDE DEF c
    <3>1. c \in Nat \ {0}
      BY <1>1 DEF c
    <3> QED BY <1>1, <1>2, <2>2, <3>1
  <2>4. s % KernPage = s
    BY <2>3, ModKern
  <2>5. Spot(lev, at, f, i) = s % KernPage
    BY DEF Spot
  <2>6. Spot(lev, at, f, i) = at[f] + i * Cover(lev[f])
    BY <2>4, <2>5, Zenon
  <2> HIDE DEF s
  <2> QED BY <1>1, <2>3, <2>4, <2>5, <2>6 DEF Phys
<1> QED BY <1>3, <1>4

\* Entries of one table become none, or pages.
LEMMA RowChanged ==
  ASSUME NEW t, NEW lev, NEW at, Tree(t, lev, at), Once(t), NEW f \in DOMAIN t, NEW row,
         row = [i \in Index |-> row[i]],
         \A i \in Index : row[i] = t[f][i] \/ row[i] = None \/ PageEntry(lev, at, f, i, row[i]),
         NEW u, DOMAIN u = DOMAIN t, u[f] = row, \A h \in DOMAIN t : h # f => u[h] = t[h]
  PROVE  Tree(u, lev, at) /\ Once(u)
<1>1. ASSUME NEW h \in DOMAIN t, NEW i \in Index
      PROVE  /\ u[h][i] = t[h][i] \/ u[h][i] = None \/ PageEntry(lev, at, h, i, u[h][i])
             /\ u[h] = [j \in Index |-> u[h][j]]
  BY DEF Tree
<1>2. \A h \in DOMAIN t : u[h] = [j \in Index |-> u[h][j]]
  BY DEF Tree
<1>3. ASSUME NEW h \in DOMAIN t, NEW i \in Index
      PROVE  EntryOK(u, lev, at, h, i, u[h][i])
  <2>1. EntryOK(t, lev, at, h, i, t[h][i])
    BY DEF Tree
  <2> QED BY <1>1, <2>1 DEF EntryOK, TableEntry
<1>4. ASSUME NEW h \in DOMAIN t, NEW i \in Index, u[h][i].kind = "table"
      PROVE  u[h][i] = t[h][i]
  <2>1. None.kind # "table" /\ \A p : Page(p).kind # "table"
    BY DEF None, Page
  <2> QED BY <1>1, <1>4, <2>1 DEF PageEntry
<1>5. Once(u)
  <2> SUFFICES ASSUME NEW g \in DOMAIN t, NEW h \in DOMAIN t, NEW i \in Index, NEW j \in Index,
                      u[g][i].kind = "table", u[h][j].kind = "table", u[g][i].at = u[h][j].at
               PROVE  (g = h /\ i = j) \/ (g = Pgd /\ h = Pgd)
    BY DEF Once
  <2>1. u[g][i] = t[g][i] /\ u[h][j] = t[h][j]
    BY <1>4
  <2> QED BY <2>1 DEF Once
<1> QED BY <1>2, <1>3, <1>5 DEF Tree

\* An entry becomes a table that is new, and empty.
LEMMA TableAdded ==
  ASSUME NEW t, NEW lev, NEW at, Tree(t, lev, at), Once(t), NEW f \in DOMAIN t, lev[f] > 1,
         NEW i \in Index, NEW g, g \notin DOMAIN t,
         NEW u, DOMAIN u = DOMAIN t \cup {g}, u[g] = Empty, u[f] = [t[f] EXCEPT ![i] = Table(g)],
         \A h \in DOMAIN t : h # f => u[h] = t[h]
  PROVE  (\E l, a : Tree(u, l, a)) /\ Once(u)
<1> DEFINE l == [h \in DOMAIN u |-> IF h = g THEN lev[f] - 1 ELSE lev[h]]
           a == [h \in DOMAIN u |-> IF h = g THEN Spot(lev, at, f, i) ELSE at[h]]
<1>1. /\ Pgd \in DOMAIN t /\ g # Pgd /\ f # g /\ g \in DOMAIN u /\ lev[f] \in Levels
      /\ lev[f] - 1 \in Levels /\ lev[f] - 1 + 1 = lev[f] /\ lev[f] - 1 < 4 /\ lev[f] - 1 # 4
      /\ \A h \in DOMAIN u : h = g \/ (h \in DOMAIN t /\ h # g)
  BY DEF Tree, Levels
<1>2. \A h \in DOMAIN t : l[h] = lev[h] /\ a[h] = at[h]
  OBVIOUS
<1>3. l[g] = lev[f] - 1 /\ a[g] = Spot(lev, at, f, i)
  BY <1>1
<1>4. l \in [DOMAIN u -> Levels] /\ a \in [DOMAIN u -> Phys]
  <2>1. \A h \in DOMAIN u : l[h] \in Levels /\ a[h] \in Phys
    <3>1. \A h \in DOMAIN t : lev[h] \in Levels /\ at[h] \in Phys
      BY DEF Tree
    <3>2. Spot(lev, at, f, i) \in Phys
      BY SpotFits
    <3> QED BY <1>1, <1>2, <1>3, <3>1, <3>2
  <2> HIDE DEF l, a
  <2>2. l = [h \in DOMAIN u |-> l[h]] /\ a = [h \in DOMAIN u |-> a[h]]
    BY DEF l, a
  <2> QED BY <2>1, <2>2
<1>5. \A h \in DOMAIN t, j \in Index : Spot(l, a, h, j) = Spot(lev, at, h, j)
  BY <1>2 DEF Spot
<1>6. \A j \in Index : u[g][j] = None
  BY DEF Empty
<1>7. ASSUME NEW h \in DOMAIN t, NEW j \in Index
      PROVE  u[h][j] = IF h = f /\ j = i THEN Table(g) ELSE t[h][j]
  <2>1. t[f] = [k \in Index |-> t[f][k]]
    BY DEF Tree
  <2>2. CASE h = f
    <3>1. u[h][j] = [t[f] EXCEPT ![i] = Table(g)][j]
      BY <2>2
    <3> QED BY <2>1, <2>2, <3>1
  <2> QED BY <2>2
<1>8. \A h \in DOMAIN u : u[h] = [j \in Index |-> u[h][j]]
  <2>1. u[g] = [j \in Index |-> u[g][j]]
    BY DEF Empty
  <2>2. u[f] = [j \in Index |-> u[f][j]]
    <3>1. t[f] = [k \in Index |-> t[f][k]]
      BY DEF Tree
    <3> DEFINE r == [t[f] EXCEPT ![i] = Table(g)]
    <3>2. r = [j \in Index |-> r[j]]
      BY <3>1
    <3> QED BY <3>2
  <2>3. \A h \in DOMAIN t : t[h] = [j \in Index |-> t[h][j]]
    BY DEF Tree
  <2> QED BY <1>1, <2>1, <2>2, <2>3
<1> HIDE DEF l, a
<1>9. ASSUME NEW h \in DOMAIN u, NEW j \in Index
      PROVE  EntryOK(u, l, a, h, j, u[h][j])
  <2>1. CASE h = g
    BY <1>6, <2>1 DEF EntryOK
  <2>2. CASE h = f /\ j = i
    <3>1. u[h][j] = Table(g) /\ Table(g).at = g
      BY <1>7, <2>2 DEF Table
    <3>2. TableEntry(u, l, a, h, j, u[h][j])
      BY <1>1, <1>2, <1>3, <1>5, <2>2, <3>1 DEF TableEntry
    <3> QED BY <3>2 DEF EntryOK
  <2>3. CASE h \in DOMAIN t /\ ~(h = f /\ j = i)
    <3>1. u[h][j] = t[h][j] /\ l[h] = lev[h] /\ Spot(l, a, h, j) = Spot(lev, at, h, j)
      BY <1>2, <1>5, <1>7, <2>3
    <3>2. EntryOK(t, lev, at, h, j, t[h][j])
      BY <2>3 DEF Tree
    <3> QED BY <1>2, <3>1, <3>2 DEF EntryOK, PageEntry, TableEntry
  <2> QED BY <1>1, <2>1, <2>2, <2>3
<1>10. \A h \in DOMAIN u : /\ l[h] = 4 => h = Pgd
                           /\ l[h] < 4 => a[h] + Cover(l[h] + 1) <= KernPage
  <2> SUFFICES ASSUME NEW h \in DOMAIN u
               PROVE  /\ l[h] = 4 => h = Pgd
                      /\ l[h] < 4 => a[h] + Cover(l[h] + 1) <= KernPage
    OBVIOUS
  <2>1. CASE h = g
    <3>1. Spot(lev, at, f, i) + Cover(lev[f]) <= KernPage
      BY SpotFits
    <3> QED BY <1>1, <1>3, <2>1, <3>1
  <2>2. CASE h # g
    BY <1>1, <1>2, <2>2 DEF Tree
  <2> QED BY <2>1, <2>2
<1>11. l[Pgd] = 4 /\ a[Pgd] = 0
  BY <1>1, <1>2 DEF Tree
<1>12. Tree(u, l, a)
  BY <1>1, <1>4, <1>8, <1>9, <1>10, <1>11 DEF Tree
<1>13. Once(u)
  <2> SUFFICES ASSUME NEW c \in DOMAIN u, NEW d \in DOMAIN u, NEW j \in Index, NEW k \in Index,
                      u[c][j].kind = "table", u[d][k].kind = "table", u[c][j].at = u[d][k].at
               PROVE  (c = d /\ j = k) \/ (c = Pgd /\ d = Pgd)
    BY DEF Once
  <2>1. None.kind # "table" /\ Table(g).at = g
    BY DEF None, Table
  <2>2. c \in DOMAIN t /\ d \in DOMAIN t
    BY <1>1, <1>6, <2>1
  <2>3. ASSUME NEW h \in DOMAIN t, NEW m \in Index, t[h][m].kind = "table" PROVE t[h][m].at # g
    <3>1. EntryOK(t, lev, at, h, m, t[h][m])
      BY DEF Tree
    <3> QED BY <2>3, <3>1 DEF EntryOK, PageEntry, TableEntry, None, Page
  <2>4. CASE c = f /\ j = i
    <3>1. u[d][k].at = g
      BY <1>7, <2>1, <2>2, <2>4
    <3> QED BY <1>7, <2>2, <2>3, <2>4, <3>1
  <2>5. CASE d = f /\ k = i
    <3>1. u[c][j].at = g
      BY <1>7, <2>1, <2>2, <2>5
    <3> QED BY <1>7, <2>2, <2>3, <2>5, <3>1
  <2>6. CASE ~(c = f /\ j = i) /\ ~(d = f /\ k = i)
    <3>1. u[c][j] = t[c][j] /\ u[d][k] = t[d][k]
      BY <1>7, <2>2, <2>6
    <3> QED BY <2>2, <3>1 DEF Once
  <2> QED BY <2>4, <2>5, <2>6
<1> QED BY <1>12, <1>13

\* A table nothing hangs from is given back.
LEMMA TableDropped ==
  ASSUME NEW t, NEW lev, NEW at, Tree(t, lev, at), Once(t), NEW g \in DOMAIN t \ {Pgd},
         \A f \in DOMAIN t, i \in Index : t[f][i].kind = "table" => t[f][i].at # g,
         NEW u, DOMAIN u = DOMAIN t \ {g}, \A h \in DOMAIN u : u[h] = t[h]
  PROVE  (\E l, a : Tree(u, l, a)) /\ Once(u)
<1> DEFINE l == [h \in DOMAIN u |-> lev[h]]
           a == [h \in DOMAIN u |-> at[h]]
<1>1. Pgd \in DOMAIN u /\ \A h \in DOMAIN u : h \in DOMAIN t /\ l[h] = lev[h] /\ a[h] = at[h]
  BY DEF Tree
<1>2. l \in [DOMAIN u -> Levels] /\ a \in [DOMAIN u -> Phys]
  BY DEF Tree
<1> HIDE DEF l, a
<1>3. ASSUME NEW h \in DOMAIN u, NEW j \in Index PROVE EntryOK(u, l, a, h, j, u[h][j])
  <2>1. EntryOK(t, lev, at, h, j, t[h][j]) /\ u[h][j] = t[h][j] /\ h \in DOMAIN t
    BY <1>1 DEF Tree
  <2>2. Spot(l, a, h, j) = Spot(lev, at, h, j) /\ l[h] = lev[h]
    BY <1>1 DEF Spot
  <2>3. TableEntry(t, lev, at, h, j, t[h][j]) => TableEntry(u, l, a, h, j, u[h][j])
    <3> SUFFICES ASSUME TableEntry(t, lev, at, h, j, t[h][j])
                 PROVE  TableEntry(u, l, a, h, j, u[h][j])
      OBVIOUS
    <3>1. t[h][j].kind = "table"
      BY DEF TableEntry, Table
    <3>2. t[h][j].at \in DOMAIN u \ {Pgd}
      BY <2>1, <3>1 DEF TableEntry
    <3> QED BY <1>1, <2>1, <2>2, <3>2 DEF TableEntry
  <2> QED BY <2>1, <2>2, <2>3 DEF EntryOK, PageEntry
<1>4. \A h \in DOMAIN u : /\ l[h] = 4 => h = Pgd
                          /\ l[h] < 4 => a[h] + Cover(l[h] + 1) <= KernPage
                          /\ u[h] = [i \in Index |-> u[h][i]]
  BY <1>1 DEF Tree
<1>5. Tree(u, l, a)
  BY <1>1, <1>2, <1>3, <1>4 DEF Tree
<1>6. Once(u)
  BY <1>1 DEF Once
<1> QED BY <1>5, <1>6

\* The tables above a level are the same in t and u.
AgreeAbove(t, u, lev, k) == \A h \in DOMAIN t : lev[h] > k => u[h] = t[h]

\* Above a level, what is found does not depend on the tables of that level and below.
LEMMA LookAbove ==
  ASSUME NEW t, NEW lev, NEW at, Tree(t, lev, at), NEW a \in 0..2 * KernPage - 1, NEW k \in Levels,
         NEW u, AgreeAbove(t, u, lev, k)
  PROVE  \A l \in Levels : l > k => Look(u, a, l) = Look(t, a, l)
<1> DEFINE Same(l) == l > k => Look(u, a, l) = Look(t, a, l)
<1>1. Same(4)
  <2>1. Pgd \in DOMAIN t /\ lev[Pgd] = 4
    BY DEF Tree
  <2> QED BY <2>1, Looks DEF AgreeAbove
<1>2. ASSUME NEW l \in 1..3, Same(l + 1) PROVE Same(l)
  <2> SUFFICES ASSUME l > k PROVE Look(u, a, l) = Look(t, a, l)
    OBVIOUS
  <2> DEFINE up == Look(t, a, l + 1)
  <2>1. l + 1 > k /\ l + 1 \in Levels /\ l + 1 - 1 = l
    BY DEF Levels
  <2>2. Look(u, a, l + 1) = up
    BY <1>2, <2>1
  <2>3. Finds(t, lev, at, a, l + 1, up)
    BY <2>1, TreePath
  <2>4. Look(u, a, l) = Below(u, a, l, up) /\ Look(t, a, l) = Below(t, a, l, up)
    BY <2>2, Looks
  <2> HIDE DEF up
  <2>5. up.kind = "table" => up.at \in DOMAIN t /\ lev[up.at] = l
    BY <2>1, <2>3 DEF Finds, None, Page
  <2> QED BY <2>4, <2>5 DEF Below, AgreeAbove
<1> HIDE DEF Same
<1>3. Same(3)
  BY <1>1, <1>2
<1>4. Same(2)
  BY <1>2, <1>3
<1>5. Same(1)
  BY <1>2, <1>4
<1>6. \A l \in Levels : l = 1 \/ l = 2 \/ l = 3 \/ l = 4
  BY DEF Levels
<1> QED BY <1>1, <1>3, <1>4, <1>5, <1>6 DEF Same

-----------------------------------------------------------------------------
(* The parts of a region.                                                  *)

\* A part is made of whole pages of its level and lies in one half.  What is mapped is
\* the physical page of the same number.
Whole(r)   == \E m \in Nat, n \in Nat \ {0} : /\ r.at = m * Cover(r.level)
                                              /\ r.to = r.at + n * Cover(r.level)
PartsOf(c) == {r \in PartType : /\ Whole(r) /\ r.phys + (r.to - r.at) <= KernPage
                                /\ c \/ r.phys = r.at % KernPage}

\* Products keep the order, and multiples of n are n apart.
LEMMA Times ==
  ASSUME NEW n \in Nat \ {0}, NEW a \in Nat, NEW b \in Nat
  PROVE  /\ a * n \in Nat /\ b * n \in Nat
         /\ a * n <= b * n <=> a <= b
         /\ a * n < b * n + n <=> a <= b
         /\ a * n = b * n <=> a = b
<1>1. a * n \in Nat /\ b * n \in Nat
  OBVIOUS
<1>2. ASSUME a <= b PROVE a * n <= b * n
  <2>1. (b - a) * n >= 0
    BY <1>2
  <2>2. (b - a) * n = b * n - a * n
    OBVIOUS
  <2> QED BY <1>1, <2>1, <2>2
<1>3. ASSUME a > b PROVE a * n >= b * n + n
  <2>1. (a - b - 1) * n >= 0
    BY <1>3
  <2>2. (a - b - 1) * n = a * n - b * n - n
    OBVIOUS
  <2> QED BY <1>1, <2>1, <2>2
<1>4. a <= b \/ a > b
  OBVIOUS
<1>5. a * n = b * n => a = b
  <2>1. a < b => b * n >= a * n + n
    <3> SUFFICES ASSUME a < b PROVE b * n >= a * n + n
      OBVIOUS
    <3>1. (b - a - 1) * n >= 0
      OBVIOUS
    <3>2. (b - a - 1) * n = b * n - a * n - n
      OBVIOUS
    <3> QED BY <1>1, <3>1, <3>2
  <2> DEFINE p == a * n
             q == b * n
  <2>2. p \in Nat /\ q \in Nat /\ (a < b => q >= p + n) /\ (a > b => p >= q + n)
    BY <1>1, <1>3, <2>1
  <2> HIDE DEF p, q
  <2>3. p = q => a = b
    BY <2>2
  <2> QED BY <2>3 DEF p, q
<1> DEFINE p == a * n
           q == b * n
<1>6. p \in Nat /\ q \in Nat /\ (a <= b => p <= q) /\ (a > b => p >= q + n) /\ (p = q => a = b)
  BY <1>1, <1>2, <1>3, <1>5
<1> HIDE DEF p, q
<1>7. /\ p <= q <=> a <= b
      /\ p < q + n <=> a <= b
  BY <1>4, <1>6
<1>8. a = b => p = q
  BY DEF p, q
<1> QED BY <1>6, <1>7, <1>8 DEF p, q

\* Rounding up to a multiple of n.
LEMMA AlignIs ==
  ASSUME NEW n \in Nat \ {0}, NEW a \in Nat
  PROVE  /\ \E i \in Nat : Align(a, n) = i * n /\ a <= i * n /\ i * n < a + n
         /\ \E i \in Nat : AlignDown(a, n) = i * n /\ i * n <= a /\ a < i * n + n
<1>1. \E i \in Nat : Align(a, n) = i * n /\ a <= i * n /\ i * n < a + n
  <2> DEFINE b == a + n - 1
             q == b \div n
             r == b % n
  <2>1. b \in Nat
    OBVIOUS
  <2>2. q \in Nat /\ r \in 0..n - 1 /\ b = q * n + r
    <3> HIDE DEF b
    <3> QED BY <2>1, Division
  <2>3. Align(a, n) = q * n
    BY DEF Align
  <2> HIDE DEF q, r
  <2>4. a <= q * n /\ q * n < a + n
    <3>1. q * n \in Nat
      BY <2>2
    <3> QED BY <2>2, <3>1
  <2> QED BY <2>2, <2>3, <2>4
<1>2. \E i \in Nat : AlignDown(a, n) = i * n /\ i * n <= a /\ a < i * n + n
  <2> DEFINE q == a \div n
             r == a % n
  <2>1. q \in Nat /\ r \in 0..n - 1 /\ a = q * n + r /\ a - r = q * n
    BY Division
  <2>2. AlignDown(a, n) = q * n
    BY <2>1 DEF AlignDown
  <2> HIDE DEF q, r
  <2>3. q * n <= a /\ a < q * n + n
    <3>1. q * n \in Nat
      BY <2>1
    <3> QED BY <2>1, <3>1
  <2> QED BY <2>1, <2>2, <2>3
<1> QED BY <1>1, <1>2

\* Rounding a multiple of n leaves it alone.
LEMMA AlignedIs ==
  ASSUME NEW n \in Nat \ {0}, NEW i \in Nat
  PROVE  /\ Align(i * n, n) = i * n /\ AlignDown(i * n, n) = i * n
         /\ (i * n) % n = 0 /\ (i * n) \div n = i
<1> DEFINE a == i * n
           z == 0
           y == n - 1
           b == a + n - 1
<1>1. /\ a \in Nat /\ b \in Nat /\ z \in 0..n - 1 /\ y \in 0..n - 1
      /\ a = i * n + z /\ b = i * n + y
  OBVIOUS
<1> HIDE DEF a, b, z, y
<1>2. a \div n = i /\ a % n = z /\ b \div n = i
  BY <1>1, DivisionIs
<1>3. Align(a, n) = i * n /\ AlignDown(a, n) = a
  BY <1>1, <1>2 DEF Align, AlignDown, b, z
<1> QED BY <1>2, <1>3 DEF a, z

\* One call of __map_region.
LEMMA PieceGood ==
  ASSUME NEW l \in 1..3, NEW i \in Nat, NEW j \in Nat, i < j, NEW d \in Nat, NEW c \in BOOLEAN,
         d <= i * Cover(l), j * Cover(l) <= 2 * KernPage, j * Cover(l) - d <= KernPage,
         c \/ d = 0 \/ d = KernPage,
         NEW from, NEW to, NEW delta, from = (i * Cover(l)) * PgSize,
         to = (j * Cover(l)) * PgSize, delta = d * PgSize
  PROVE  /\ Region(from, from - delta, to - from, l) \in PartsOf(c)
         /\ Region(from, from - delta, to - from, l).at = i * Cover(l)
         /\ Region(from, from - delta, to - from, l).to = j * Cover(l)
         /\ Region(from, from - delta, to - from, l).level = l
<1> DEFINE n == Cover(l)
           g == n * PgSize
           a == i * n
           b == j * n
           r == Region(from, from - delta, to - from, l)
<1>1. n \in Nat \ {0} /\ PgSize \in Nat \ {0} /\ KernPage \in Nat \ {0} /\ l \in Levels
  BY Covers DEF Levels
<1>2. g \in Nat \ {0} /\ a \in Nat /\ b \in Nat /\ a + n <= b /\ a < b /\ d <= a
  <2> HIDE DEF n
  <2>1. g \in Nat \ {0} /\ a \in Nat /\ b \in Nat
    BY <1>1
  <2>2. i + 1 <= j /\ (i + 1) * n = i * n + n
    BY <1>1
  <2>3. (i + 1) * n <= j * n
    BY <1>1, <2>2, Times
  <2> QED BY <1>1, <2>1, <2>2, <2>3 DEF n
<1>3. /\ from = a * PgSize /\ to = b * PgSize /\ from = i * g /\ to = j * g
      /\ from \in Nat /\ to \in Nat /\ delta \in Nat /\ from < to
      /\ from - delta = (a - d) * PgSize
  <2>1. from = a * PgSize /\ to = b * PgSize
    OBVIOUS
  <2>2. from = i * g /\ to = j * g
    <3> HIDE DEF n
    <3>1. (i * n) * PgSize = i * (n * PgSize) /\ (j * n) * PgSize = j * (n * PgSize)
      BY <1>1
    <3> QED BY <2>1, <3>1
  <2> HIDE DEF a, b, g
  <2>3. from \in Nat /\ to \in Nat /\ delta \in Nat /\ from - delta = (a - d) * PgSize
    BY <1>1, <1>2, <2>1
  <2>4. from < to
    <3>1. ~(b <= a)
      BY <1>2
    <3>2. ~(b * PgSize <= a * PgSize)
      BY <1>1, <1>2, <3>1, Times
    <3> QED BY <2>1, <2>3, <3>2
  <2> QED BY <2>1, <2>2, <2>3, <2>4
<1> HIDE DEF g
<1>4. AlignDown(from, g) = from /\ from % g = 0 /\ Align(to, g) = to
  BY <1>2, <1>3, AlignedIs
<1>5. from \div PgSize = a /\ to \div PgSize = b /\ (from - delta) \div PgSize = a - d
  <2>1. a - d \in Nat
    BY <1>2
  <2> DEFINE e == a - d
  <2> HIDE DEF a, b, e
  <2>2. (a * PgSize) \div PgSize = a /\ (b * PgSize) \div PgSize = b /\ (e * PgSize) \div PgSize = e
    BY <1>1, <1>2, <2>1, AlignedIs DEF e
  <2> QED BY <1>3, <2>2 DEF e
<1>6. from + (to - from) = to /\ from - delta - 0 = from - delta /\ to - from \in Nat \ {0}
  <2>1. from - delta \in Int
    BY <1>3
  <2> QED BY <1>3, <2>1
<1>7. r = [at |-> a, phys |-> a - d, to |-> b, level |-> l, size |-> to - from]
  <2>1. AlignDown(from, Cover(l) * PgSize) = from /\ from % (Cover(l) * PgSize) = 0
        /\ Align(to, Cover(l) * PgSize) = to
    BY <1>4 DEF g
  <2> HIDE DEF a, b
  <2> QED BY <1>5, <1>6, <2>1 DEF Region
<1> HIDE DEF r
<1>8. a - d \in Phys /\ a - d + (b - a) <= KernPage
  <2> HIDE DEF a, b
  <2>1. b - d <= KernPage
    BY DEF a, b
  <2> QED BY <1>1, <1>2, <2>1 DEF Phys
<1>9. r \in PartType
  <2>1. a \in 0..2 * KernPage /\ b \in 0..2 * KernPage
    <3> HIDE DEF a
    <3>1. b <= 2 * KernPage
      OBVIOUS
    <3> HIDE DEF b
    <3> QED BY <1>1, <1>2, <3>1
  <2> HIDE DEF a, b
  <2> QED BY <1>6, <1>7, <1>8, <2>1 DEF PartType
<1>10. Whole(r)
  <2>1. j - i \in Nat \ {0}
    OBVIOUS
  <2>2. b = a + (j - i) * n
    <3> HIDE DEF n
    <3> QED BY <1>1
  <2>3. r.at = i * Cover(r.level) /\ r.to = r.at + (j - i) * Cover(r.level)
    <3>1. r.at = a /\ r.to = b /\ r.level = l
      BY <1>7
    <3> QED BY <2>2, <3>1
  <2> QED BY <2>1, <2>3 DEF Whole
<1>11. c \/ a - d = a % KernPage
  <2> SUFFICES ASSUME ~c PROVE a - d = a % KernPage
    OBVIOUS
  <2>1. a \in 0..2 * KernPage - 1 /\ a - d < KernPage /\ (d = 0 \/ d = KernPage)
    <3>1. b <= 2 * KernPage
      OBVIOUS
    <3> HIDE DEF a, b
    <3> QED BY <1>1, <1>2, <1>8, <3>1 DEF Phys
  <2> HIDE DEF a
  <2>2. a % KernPage = IF a < KernPage THEN a ELSE a - KernPage
    BY <2>1, ModKern
  <2>3. a \in Nat /\ d <= a /\ KernPage \in Nat
    BY <1>1, <1>2
  <2> QED BY <2>1, <2>2, <2>3
<1>12. r \in PartsOf(c)
  <2>1. r.at = a /\ r.to = b /\ r.phys = a - d
    BY <1>7
  <2> HIDE DEF a, b
  <2> QED BY <1>8, <1>9, <1>10, <1>11, <2>1 DEF PartsOf
<1> QED BY <1>7, <1>12 DEF r

\* The parts s follow each other from page a up to page b.
Links(s, a, b) ==
  IF s = <<>> THEN a = b
  ELSE s[1].at = a /\ s[Len(s)].to = b /\ \A i \in 1..Len(s) - 1 : s[i].to = s[i + 1].at

\* Parts that follow each other, put after each other.
LEMMA LinksJoin ==
  ASSUME NEW S, NEW s \in Seq(S), NEW t \in Seq(S), NEW a, NEW b, NEW e, Links(s, a, b), Links(t, b, e)
  PROVE  s \o t \in Seq(S) /\ Links(s \o t, a, e)
<1> DEFINE u == s \o t
           m == Len(s)
           n == Len(t)
<1>1. /\ u \in Seq(S) /\ Len(u) = m + n /\ m \in Nat /\ n \in Nat
      /\ \A i \in 1..m + n : u[i] = IF i <= m THEN s[i] ELSE t[i - m]
  BY ConcatProperties
<1>2. CASE s = <<>>
  BY <1>1, <1>2, ConcatEmptySeq DEF Links
<1>3. CASE t = <<>>
  BY <1>1, <1>3, ConcatEmptySeq DEF Links
<1>4. CASE s # <<>> /\ t # <<>>
  <2>1. m > 0 /\ n > 0
    BY <1>1, <1>4, EmptySeq
  <2>2. s[1].at = a /\ s[m].to = b /\ t[1].at = b /\ t[n].to = e
        /\ (\A i \in 1..m - 1 : s[i].to = s[i + 1].at)
        /\ (\A i \in 1..n - 1 : t[i].to = t[i + 1].at)
    BY <1>4 DEF Links
  <2> HIDE DEF u, m, n
  <2>3. u # <<>>
    BY <1>1, <2>1
  <2>4. u[1] = s[1] /\ u[m + n] = t[n] /\ Len(u) = m + n
    <3>1. 1 \in 1..m + n /\ 1 <= m /\ m + n \in 1..m + n /\ ~(m + n <= m) /\ m + n - m = n
      BY <1>1, <2>1
    <3> QED BY <1>1, <3>1
  <2>5. ASSUME NEW i \in 1..m + n - 1 PROVE u[i].to = u[i + 1].at
    <3>0. i \in 1..m + n /\ i + 1 \in 1..m + n
      BY <1>1
    <3>1. CASE i < m
      <4>1. i \in 1..m - 1 /\ i <= m /\ i + 1 <= m
        BY <1>1, <3>1
      <4> QED BY <1>1, <2>2, <3>0, <4>1
    <3>2. CASE i = m
      <4>1. i <= m /\ ~(i + 1 <= m) /\ i + 1 - m = 1
        BY <1>1, <3>2
      <4>2. u[i] = s[m] /\ u[i + 1] = t[1]
        BY <1>1, <3>0, <3>2, <4>1
      <4> QED BY <2>2, <4>2
    <3>3. CASE i > m
      <4>1. ~(i <= m) /\ ~(i + 1 <= m) /\ i + 1 - m = (i - m) + 1 /\ i - m \in 1..n - 1
        BY <1>1, <3>3
      <4>2. u[i] = t[i - m] /\ u[i + 1] = t[(i - m) + 1]
        BY <1>1, <3>0, <4>1
      <4> QED BY <2>2, <4>1, <4>2
    <3> QED BY <1>1, <3>1, <3>2, <3>3
  <2>6. Links(u, a, e)
    <3>1. u[1].at = a /\ u[Len(u)].to = e
      BY <2>2, <2>4
    <3>2. \A i \in 1..Len(u) - 1 : u[i].to = u[i + 1].at
      <4>1. \A i \in 1..m + n - 1 : u[i].to = u[i + 1].at
        BY <2>5
      <4>2. Len(u) = m + n /\ m \in Nat /\ n \in Nat
        BY <1>1, <2>4
      <4>3. ASSUME NEW i \in 1..Len(u) - 1 PROVE i \in 1..m + n - 1
        BY <4>2
      <4> QED BY <4>1, <4>3, Zenon
    <3> QED BY <2>3, <3>1, <3>2 DEF Links
  <2> QED BY <1>1, <2>6 DEF u
<1> QED BY <1>2, <1>3, <1>4

\* Nor does one lie outside.
Inside(s, a, b) == \A i \in 1..Len(s) : a <= s[i].at /\ s[i].to <= b
Chain(s, a, b)  == a \in Nat /\ b \in Nat /\ a <= b /\ Links(s, a, b) /\ Inside(s, a, b)

\* Likewise, with parts of whole blocks.
LEMMA Chains ==
  ASSUME NEW c, NEW s \in Seq(PartsOf(c)), NEW t \in Seq(PartsOf(c)), NEW a, NEW b, NEW e,
         Chain(s, a, b), Chain(t, b, e)
  PROVE  s \o t \in Seq(PartsOf(c)) /\ Chain(s \o t, a, e)
<1> DEFINE S == PartsOf(c)
           u == s \o t
           m == Len(s)
           n == Len(t)
<1>1. \A r \in S : r.at \in Nat /\ r.to \in Nat
  BY Covers DEF PartsOf, PartType
<1> HIDE DEF S
<1>2. s \in Seq(S) /\ t \in Seq(S) /\ u \in Seq(S) /\ Links(u, a, e)
  BY LinksJoin DEF Chain, S
<1>3. /\ Len(u) = m + n /\ m \in Nat /\ n \in Nat
      /\ \A i \in 1..m + n : u[i] = IF i <= m THEN s[i] ELSE t[i - m]
  BY <1>2, ConcatProperties
<1>4. a \in Nat /\ b \in Nat /\ e \in Nat /\ a <= b /\ b <= e
  BY DEF Chain
<1>5. /\ \A i \in 1..m : s[i] \in S /\ a <= s[i].at /\ s[i].to <= b
      /\ \A i \in 1..n : t[i] \in S /\ b <= t[i].at /\ t[i].to <= e
  BY <1>2, ElementOfSeq DEF Chain, Inside
<1> HIDE DEF u, m, n
<1>6. ASSUME NEW i \in 1..m + n PROVE a <= u[i].at /\ u[i].to <= e
  <2>1. CASE i <= m
    <3>1. i \in 1..m /\ u[i] = s[i]
      BY <1>3, <2>1
    <3>2. u[i].at \in Nat /\ u[i].to \in Nat /\ a <= u[i].at /\ u[i].to <= b
      BY <1>1, <1>5, <3>1
    <3> QED BY <1>4, <3>2
  <2>2. CASE ~(i <= m)
    <3>1. i - m \in 1..n /\ u[i] = t[i - m]
      BY <1>3, <2>2
    <3>2. u[i].at \in Nat /\ u[i].to \in Nat /\ b <= u[i].at /\ u[i].to <= e
      BY <1>1, <1>5, <3>1
    <3> QED BY <1>4, <3>2
  <2> QED BY <2>1, <2>2
<1>7. Inside(u, a, e)
  BY <1>3, <1>6 DEF Inside
<1>8. a <= e
  BY <1>4
<1> QED BY <1>2, <1>4, <1>7, <1>8 DEF Chain, S, u

\* The part from one multiple of Cover(l) to another; none if it is empty.
Piece(from, to, l, delta) == IF from = to THEN <<>> ELSE <<Region(from, from - delta, to - from, l)>>

\* __map_region_piece, spelled out.
LEMMA PieceIs ==
  ASSUME NEW l \in 1..3, NEW i \in Nat, NEW j \in Nat, i <= j, NEW d \in Nat, NEW c \in BOOLEAN,
         d <= i * Cover(l), j * Cover(l) <= 2 * KernPage, j * Cover(l) - d <= KernPage,
         c \/ d = 0 \/ d = KernPage,
         NEW from, NEW to, NEW delta, from = (i * Cover(l)) * PgSize,
         to = (j * Cover(l)) * PgSize, delta = d * PgSize
  PROVE  /\ Piece(from, to, l, delta) \in Seq(PartsOf(c))
         /\ Chain(Piece(from, to, l, delta), i * Cover(l), j * Cover(l))
<1> DEFINE r == Region(from, from - delta, to - from, l)
<1>0. i * Cover(l) \in Nat /\ j * Cover(l) \in Nat /\ i * Cover(l) <= j * Cover(l)
  <2> DEFINE k == Cover(l)
  <2>1. k \in Nat \ {0}
    BY Covers DEF Levels
  <2> HIDE DEF k
  <2>2. i * k \in Nat /\ j * k \in Nat /\ i * k <= j * k
    BY <2>1, Times
  <2> QED BY <2>2 DEF k
<1>1. CASE i = j
  <2>1. from = to
    BY <1>1
  <2>2. Piece(from, to, l, delta) = <<>>
    BY <2>1 DEF Piece
  <2>3. \A k \in 1..Len(<<>>) : FALSE
    OBVIOUS
  <2>4. <<>> \in Seq(PartsOf(c)) /\ Links(<<>>, i * Cover(l), j * Cover(l))
    BY <1>1 DEF Links
  <2>5. Inside(<<>>, i * Cover(l), j * Cover(l))
    BY <2>3 DEF Inside
  <2> QED BY <1>0, <2>2, <2>4, <2>5 DEF Chain
<1>2. CASE i < j
  <2>1. r \in PartsOf(c) /\ r.at = i * Cover(l) /\ r.to = j * Cover(l)
    BY <1>2, PieceGood
  <2>2. from # to
    <3>1. Cover(l) \in Nat \ {0} /\ PgSize \in Nat \ {0}
      BY Covers DEF Levels
    <3> DEFINE a == i * Cover(l)
               b == j * Cover(l)
    <3>2. a \in Nat /\ b \in Nat /\ a # b
      <4> DEFINE n == Cover(l)
      <4> HIDE DEF n
      <4>1. i * n \in Nat /\ j * n \in Nat /\ i * n # j * n
        BY <1>2, <3>1, Times DEF n
      <4> QED BY <4>1 DEF n
    <3>3. from = a * PgSize /\ to = b * PgSize
      OBVIOUS
    <3> HIDE DEF a, b
    <3> QED BY <3>1, <3>2, <3>3, Times
  <2> HIDE DEF r
  <2>3. Piece(from, to, l, delta) = <<r>>
    BY <2>2 DEF Piece, r
  <2>4. <<r>> \in Seq(PartsOf(c)) /\ <<r>> # <<>> /\ Len(<<r>>) = 1 /\ <<r>>[1] = r
    BY <2>1
  <2>5. Chain(<<r>>, i * Cover(l), j * Cover(l))
    <3>1. \A k \in 1..1 - 1 : FALSE
      OBVIOUS
    <3>2. Links(<<r>>, i * Cover(l), j * Cover(l))
      BY <2>1, <2>4, <3>1 DEF Links
    <3>3. Inside(<<r>>, i * Cover(l), j * Cover(l))
      <4>1. \A k \in 1..1 : k = 1
        OBVIOUS
      <4> QED BY <1>0, <2>1, <2>4, <4>1 DEF Inside
    <3> QED BY <1>0, <3>2, <3>3 DEF Chain
  <2> QED BY <2>3, <2>4, <2>5
<1> QED BY <1>1, <1>2

\* Regions, in pieces.
LEMMA RegionsAre ==
  ASSUME NEW v, NEW phy, NEW sz
  PROVE  LET d     == v - phy
             s1    == Align(v, Cover(2) * PgSize)
             s2    == Align(v, Cover(3) * PgSize)
             e2    == AlignDown(v + sz, Cover(3) * PgSize)
             e1    == LargeEnd(v, sz)
             first == AlignDown(v, PgSize)
             end   == Align(v + sz, PgSize)
         IN Regions(v, phy, sz) =
              IF e1 <= s1 THEN Piece(first, end, 1, d)
              ELSE Piece(first, s1, 1, d)
                     \o (IF e2 > s2 /\ page1gb
                         THEN Piece(s1, s2, 2, d) \o Piece(s2, e2, 3, d) \o Piece(e2, e1, 2, d)
                         ELSE Piece(s1, e1, 2, d))
                     \o Piece(e1, end, 1, d)
BY DEF Regions, Piece

\* arch_map_region: the parts follow each other from the first page to the last.
LEMMA RegionsGood ==
  ASSUME NEW vp \in Nat, NEW pp \in Nat, NEW d \in Nat, vp = pp + d, NEW sz \in Nat \ {0},
         NEW c \in BOOLEAN, c \/ d = 0 \/ d = KernPage,
         pp * PgSize + sz <= KernPage * PgSize, d <= KernPage,
         NEW v, NEW phy, v = vp * PgSize, phy = pp * PgSize
  PROVE  \E end \in Nat :
           /\ Align(v + sz, PgSize) = end * PgSize /\ v \div PgSize = vp
           /\ vp < end /\ end <= KernPage + d
           /\ Regions(v, phy, sz) \in Seq(PartsOf(c)) /\ Chain(Regions(v, phy, sz), vp, end)
<1> DEFINE P  == PgSize
           C2 == Cover(2)
           C3 == Cover(3)
           delta == v - phy
           S  == PartsOf(c)
           top == v + sz
<1>1. /\ P \in Nat \ {0} /\ C2 \in Nat \ {0} /\ C3 \in Nat \ {0} /\ C3 = E * C2 /\ E \in Nat \ {0}
      /\ KernPage \in Nat \ {0} /\ Cover(1) = 1
  <2>1. 2 \in Levels /\ 3 \in Levels /\ 2 \in 1..3 /\ 2 + 1 = 3
    BY DEF Levels
  <2> QED BY <2>1, Covers
<1>2. /\ v \in Nat /\ phy \in Nat /\ delta = d * P /\ top \in Nat /\ v < top
      /\ top <= (KernPage + d) * P
  <2> HIDE DEF P
  <2>1. v \in Nat /\ phy \in Nat /\ d * P \in Nat /\ vp * P = pp * P + d * P
        /\ (KernPage + d) * P = KernPage * P + d * P /\ KernPage * P \in Nat
    BY <1>1 DEF P
  <2> QED BY <1>1, <2>1 DEF P
<1> HIDE DEF delta, top
<1>3. PICK end \in Nat : Align(top, P) = end * P /\ top <= end * P /\ end * P < top + P
  BY <1>1, <1>2, AlignIs
<1>4. AlignDown(v, P) = v /\ v \div P = vp
  BY <1>1, AlignedIs
<1>5. vp < end /\ end <= KernPage + d
  <2> HIDE DEF P
  <2>1. end * P \in Nat /\ vp * P < end * P /\ end * P < (KernPage + d) * P + P
    <3>1. end * P \in Nat /\ (KernPage + d) * P \in Nat
      BY <1>1
    <3> QED BY <1>1, <1>2, <1>3, <3>1 DEF P
  <2>2. ~(end * P <= vp * P)
    <3>1. vp * P \in Nat
      BY <1>1
    <3> QED BY <2>1, <3>1
  <2>3. ~(end <= vp)
    BY <1>1, <2>2, Times
  <2>4. KernPage + d \in Nat
    BY <1>1
  <2>5. end <= KernPage + d
    BY <1>1, <2>1, <2>4, Times
  <2> QED BY <2>3, <2>5
<1> HIDE DEF P, C2, C3
<1>6. ASSUME NEW n \in {C2, C3}
      PROVE  n * P \in Nat \ {0} /\ \A i \in Nat : i * n \in Nat /\ i * (n * P) = (i * n) * P
  <2>1. n \in Nat \ {0}
    BY <1>1
  <2> QED BY <1>1, <2>1
<1>7. PICK s1 \in Nat : Align(v, C2 * P) = s1 * (C2 * P) /\ v <= s1 * (C2 * P) /\ s1 * (C2 * P) < v + C2 * P
  BY <1>2, <1>6, AlignIs
<1>8. PICK e1 \in Nat : AlignDown(top, C2 * P) = e1 * (C2 * P) /\ e1 * (C2 * P) <= top
                        /\ top < e1 * (C2 * P) + C2 * P
  BY <1>2, <1>6, AlignIs
<1>9. PICK s2 \in Nat : Align(v, C3 * P) = s2 * (C3 * P) /\ v <= s2 * (C3 * P)
  BY <1>2, <1>6, AlignIs
<1>10. PICK e2 \in Nat : AlignDown(top, C3 * P) = e2 * (C3 * P) /\ e2 * (C3 * P) <= top
  BY <1>2, <1>6, AlignIs
\* In multiples of the blocks of level 2, and in pages.
<1> DEFINE t2 == s2 * E
           f2 == e2 * E
<1>11. /\ t2 \in Nat /\ f2 \in Nat /\ s2 * (C3 * P) = t2 * (C2 * P) /\ e2 * (C3 * P) = f2 * (C2 * P)
       /\ t2 * C2 = s2 * C3 /\ f2 * C2 = e2 * C3
  <2>1. \A i \in Nat : i * E \in Nat /\ i * (C3 * P) = (i * E) * (C2 * P) /\ (i * E) * C2 = i * C3
    <3>1. \A i \in Nat : (i * E) * C2 = i * (E * C2)
      BY <1>1
    <3>2. \A i \in Nat : i * ((E * C2) * P) = (i * E) * (C2 * P)
      BY <1>1
    <3> QED BY <1>1, <3>1, <3>2
  <2> QED BY <2>1
<1> HIDE DEF t2, f2
<1>12. s1 <= t2 /\ f2 <= e1
  <2> DEFINE g == C2 * P
  <2>1. g \in Nat \ {0}
    BY <1>6
  <2>2. s1 * g < v + g /\ v <= t2 * g /\ f2 * g <= top /\ top < e1 * g + g
    BY <1>7, <1>8, <1>9, <1>10, <1>11
  <2> HIDE DEF g
  <2>3. s1 * g < t2 * g + g /\ f2 * g < e1 * g + g
    <3>1. s1 * g \in Nat /\ t2 * g \in Nat /\ f2 * g \in Nat /\ e1 * g \in Nat
      BY <1>11, <2>1
    <3> QED BY <1>2, <2>1, <2>2, <3>1
  <2> QED BY <1>11, <2>1, <2>3, Times
<1>13. /\ \A i \in Nat : v <= i * (C2 * P) => vp <= i * C2
       /\ \A i \in Nat : i * (C2 * P) <= top => i * C2 <= end
  <2>1. ASSUME NEW i \in Nat
        PROVE  /\ v <= i * (C2 * P) => vp <= i * C2
               /\ i * (C2 * P) <= top => i * C2 <= end
    <3> DEFINE m == i * C2
    <3>1. m \in Nat /\ i * (C2 * P) = m * P
      BY <1>6
    <3> HIDE DEF m
    <3>2. v = vp * P
      BY DEF P
    <3>3. vp * P <= m * P <=> vp <= m
      BY <1>1, <3>1, Times
    <3>4. m * P <= end * P <=> m <= end
      BY <1>1, <3>1, Times
    <3>5. m * P \in Nat /\ end * P \in Nat
      BY <1>1, <3>1
    <3>6. m * P <= top => m <= end
      BY <1>2, <1>3, <3>4, <3>5
    <3> QED BY <3>1, <3>2, <3>3, <3>6 DEF m
  <2> QED BY <2>1
<1>14. vp <= s1 * C2 /\ vp <= t2 * C2 /\ e1 * C2 <= end /\ f2 * C2 <= end
  BY <1>7, <1>8, <1>9, <1>10, <1>11, <1>13
<1> DEFINE From1(i, j) == Piece(i * P, j * P, 1, delta)
           From2(i, j) == Piece(i * (C2 * P), j * (C2 * P), 2, delta)
           From3(i, j) == Piece(i * (C3 * P), j * (C3 * P), 3, delta)
<1>15. ASSUME NEW i \in Nat, NEW j \in Nat, i <= j, vp <= i, j <= end
       PROVE  From1(i, j) \in Seq(S) /\ Chain(From1(i, j), i, j)
  <2>1. i * Cover(1) = i /\ j * Cover(1) = j
    BY <1>1
  <2>2. d <= i /\ j <= 2 * KernPage /\ j - d <= KernPage
    BY <1>1, <1>5, <1>15
  <2>3. 1 \in 1..3 /\ d <= i * Cover(1) /\ j * Cover(1) <= 2 * KernPage /\ j * Cover(1) - d <= KernPage
    BY <2>1, <2>2
  <2> DEFINE from == i * P
             to == j * P
  <2>4. from = (i * Cover(1)) * PgSize /\ to = (j * Cover(1)) * PgSize
    BY <2>1, Zenon DEF P
  <2> HIDE DEF from, to
  <2>5. /\ Piece(from, to, 1, delta) \in Seq(PartsOf(c))
        /\ Chain(Piece(from, to, 1, delta), i * Cover(1), j * Cover(1))
    BY <1>2, <1>15, <2>3, <2>4, PieceIs DEF P
  <2> QED BY <2>1, <2>5, Zenon DEF from, to
<1>16. ASSUME NEW i \in Nat, NEW j \in Nat, i <= j, vp <= i * C2, j * C2 <= end
       PROVE  From2(i, j) \in Seq(S) /\ Chain(From2(i, j), i * C2, j * C2)
  <2>1. i * C2 \in Nat /\ j * C2 \in Nat /\ i * (C2 * P) = (i * C2) * P /\ j * (C2 * P) = (j * C2) * P
    BY <1>6
  <2>2. d <= i * C2 /\ j * C2 <= 2 * KernPage /\ j * C2 - d <= KernPage
    BY <1>1, <1>5, <1>16, <2>1
  <2> QED BY <1>2, <1>16, <2>1, <2>2, PieceIs, SMTT(20) DEF P, C2
<1>17. ASSUME NEW i \in Nat, NEW j \in Nat, i <= j, vp <= i * C3, j * C3 <= end
       PROVE  From3(i, j) \in Seq(S) /\ Chain(From3(i, j), i * C3, j * C3)
  <2>1. i * C3 \in Nat /\ j * C3 \in Nat /\ i * (C3 * P) = (i * C3) * P /\ j * (C3 * P) = (j * C3) * P
    BY <1>6
  <2>2. d <= i * C3 /\ j * C3 <= 2 * KernPage /\ j * C3 - d <= KernPage
    BY <1>1, <1>5, <1>17, <2>1
  <2>3. 3 \in 1..3 /\ d <= i * Cover(3) /\ j * Cover(3) <= 2 * KernPage /\ j * Cover(3) - d <= KernPage
    BY <2>2 DEF C3
  <2> DEFINE from == i * (C3 * P)
             to == j * (C3 * P)
  <2>4. from = (i * Cover(3)) * PgSize /\ to = (j * Cover(3)) * PgSize
    BY <2>1, Zenon DEF P, C3
  <2> HIDE DEF from, to
  <2>5. /\ Piece(from, to, 3, delta) \in Seq(PartsOf(c))
        /\ Chain(Piece(from, to, 3, delta), i * Cover(3), j * Cover(3))
    BY <1>2, <1>17, <2>3, <2>4, PieceIs DEF P
  <2> QED BY <2>5, Zenon DEF from, to, C3
<1>18. Regions(v, phy, sz) =
         IF e1 * (C2 * P) <= s1 * (C2 * P) THEN From1(vp, end)
         ELSE Piece(v, s1 * (C2 * P), 1, delta)
                \o (IF e2 * (C3 * P) > s2 * (C3 * P) /\ page1gb
                    THEN Piece(s1 * (C2 * P), s2 * (C3 * P), 2, delta)
                           \o Piece(s2 * (C3 * P), e2 * (C3 * P), 3, delta)
                           \o Piece(e2 * (C3 * P), e1 * (C2 * P), 2, delta)
                    ELSE Piece(s1 * (C2 * P), e1 * (C2 * P), 2, delta))
                \o Piece(e1 * (C2 * P), end * P, 1, delta)
  <2> DEFINE a1 == s1 * (C2 * P)
             a2 == s2 * (C3 * P)
             b2 == e2 * (C3 * P)
             b1 == e1 * (C2 * P)
             z  == end * P
  <2>1. /\ v = AlignDown(v, PgSize) /\ z = Align(v + sz, PgSize)
        /\ a1 = Align(v, Cover(2) * PgSize) /\ b1 = LargeEnd(v, sz)
        /\ a2 = Align(v, Cover(3) * PgSize) /\ b2 = AlignDown(v + sz, Cover(3) * PgSize)
    BY <1>3, <1>4, <1>7, <1>8, <1>9, <1>10 DEF P, C2, C3, top, LargeEnd
  <2>2. From1(vp, end) = Piece(v, z, 1, delta)
    BY Zenon DEF From1, P
  <2> HIDE DEF a1, a2, b1, b2, z, From1
  <2>3. Regions(v, phy, sz) =
          IF b1 <= a1 THEN From1(vp, end)
          ELSE Piece(v, a1, 1, delta)
                 \o (IF b2 > a2 /\ page1gb
                     THEN Piece(a1, a2, 2, delta) \o Piece(a2, b2, 3, delta) \o Piece(b2, b1, 2, delta)
                     ELSE Piece(a1, b1, 2, delta))
                 \o Piece(b1, z, 1, delta)
    BY <2>1, <2>2, RegionsAre DEF delta
  <2> QED BY <2>3, Zenon DEF a1, a2, b1, b2, z
<1> HIDE DEF From1, From2, From3
<1>19. CASE e1 * (C2 * P) <= s1 * (C2 * P)
  <2>1. Regions(v, phy, sz) = From1(vp, end)
    BY <1>18, <1>19
  <2> QED BY <1>3, <1>4, <1>5, <1>15, <2>1 DEF P, top, S
<1>20. CASE ~(e1 * (C2 * P) <= s1 * (C2 * P))
  <2>1. s1 < e1
    <3>1. C2 * P \in Nat \ {0}
      BY <1>6
    <3> DEFINE g == C2 * P
    <3> HIDE DEF g
    <3>2. ~(e1 * g <= s1 * g)
      BY <1>20 DEF g
    <3>3. ~(e1 <= s1)
      BY <3>1, <3>2, Times DEF g
    <3> QED BY <3>3
  <2>2. s1 * C2 \in Nat /\ e1 * C2 \in Nat /\ s1 * C2 <= e1 * C2 /\ s1 * C2 <= end
    <3>1. s1 * C2 \in Nat /\ e1 * C2 \in Nat /\ s1 * C2 <= e1 * C2
      BY <1>1, <2>1, Times
    <3> DEFINE m == s1 * C2
               n == e1 * C2
    <3> HIDE DEF m, n
    <3>2. m \in Nat /\ n \in Nat /\ m <= n /\ n <= end
      BY <1>14, <3>1 DEF m, n
    <3>3. m <= end
      BY <3>2
    <3> QED BY <3>1, <3>3 DEF m
  <2> DEFINE first == From1(vp, s1 * C2)
             last  == From1(e1 * C2, end)
             large == From2(s1, e1)
             huge  == From2(s1, t2) \o From3(s2, e2) \o From2(f2, e1)
             middle == IF e2 * (C3 * P) > s2 * (C3 * P) /\ page1gb THEN huge ELSE large
  <2>3. first \in Seq(S) /\ Chain(first, vp, s1 * C2)
    BY <1>14, <1>15, <2>2
  <2>4. last \in Seq(S) /\ Chain(last, e1 * C2, end)
    <3> DEFINE m == s1 * C2
               n == e1 * C2
    <3> HIDE DEF m, n
    <3>1. m \in Nat /\ n \in Nat /\ vp <= m /\ m <= n /\ n <= end
      BY <1>14, <2>2 DEF m, n
    <3>2. vp <= n
      BY <3>1
    <3>3. From1(n, end) \in Seq(S) /\ Chain(From1(n, end), n, end)
      BY <1>15, <3>1, <3>2
    <3> QED BY <3>3 DEF n
  <2>5. large \in Seq(S) /\ Chain(large, s1 * C2, e1 * C2)
    BY <1>14, <1>16, <2>1
  <2>6. e2 * (C3 * P) > s2 * (C3 * P) => huge \in Seq(S) /\ Chain(huge, s1 * C2, e1 * C2)
    <3> SUFFICES ASSUME e2 * (C3 * P) > s2 * (C3 * P)
                 PROVE  huge \in Seq(S) /\ Chain(huge, s1 * C2, e1 * C2)
      OBVIOUS
    <3>1. s2 <= e2
      <4> DEFINE g == C3 * P
      <4>1. g \in Nat \ {0}
        BY <1>6
      <4> HIDE DEF g
      <4>2. s2 * g <= e2 * g
        <5>1. s2 * g \in Nat /\ e2 * g \in Nat
          BY <4>1
        <5> QED BY <5>1 DEF g
      <4> QED BY <4>1, <4>2, Times
    <3>2. t2 * C2 <= f2 * C2 /\ t2 * C2 <= end /\ vp <= f2 * C2
      <4>1. t2 * C2 <= f2 * C2
        BY <1>1, <1>11, <3>1, Times
      <4> DEFINE m == t2 * C2
                 n == f2 * C2
      <4>2. m \in Nat /\ n \in Nat
        BY <1>1, <1>11
      <4> HIDE DEF m, n
      <4>3. m <= n /\ n <= end /\ vp <= m
        BY <1>14, <4>1 DEF m, n
      <4>4. m <= end /\ vp <= n
        BY <4>2, <4>3
      <4> QED BY <4>1, <4>4 DEF m, n
    <3>3. From2(s1, t2) \in Seq(S) /\ Chain(From2(s1, t2), s1 * C2, t2 * C2)
      BY <1>11, <1>12, <1>14, <1>16, <3>2
    <3>4. From3(s2, e2) \in Seq(S) /\ Chain(From3(s2, e2), t2 * C2, f2 * C2)
      BY <1>11, <1>14, <1>17, <3>1
    <3>5. From2(f2, e1) \in Seq(S) /\ Chain(From2(f2, e1), f2 * C2, e1 * C2)
      BY <1>11, <1>12, <1>14, <1>16, <3>2
    <3>6. From2(s1, t2) \o From3(s2, e2) \in Seq(S) /\ Chain(From2(s1, t2) \o From3(s2, e2), s1 * C2, f2 * C2)
      BY <3>3, <3>4, Chains
    <3> QED BY <3>5, <3>6, Chains
  <2> HIDE DEF huge, large
  <2>7. middle \in Seq(S) /\ Chain(middle, s1 * C2, e1 * C2)
    BY <2>5, <2>6
  <2>8. Regions(v, phy, sz) = first \o middle \o last
    <3>1. /\ Piece(v, s1 * (C2 * P), 1, delta) = first
          /\ Piece(e1 * (C2 * P), end * P, 1, delta) = last
      <4>1. v = vp * P /\ s1 * (C2 * P) = (s1 * C2) * P /\ e1 * (C2 * P) = (e1 * C2) * P
        BY <1>6 DEF P
      <4> QED BY <4>1, Zenon DEF From1
    <3>2. /\ Piece(s1 * (C2 * P), e1 * (C2 * P), 2, delta) = large
          /\ Piece(s1 * (C2 * P), s2 * (C3 * P), 2, delta)
               \o Piece(s2 * (C3 * P), e2 * (C3 * P), 3, delta)
               \o Piece(e2 * (C3 * P), e1 * (C2 * P), 2, delta) = huge
      BY <1>11, Zenon DEF From2, From3, huge, large
    <3> HIDE DEF first, last
    <3> QED BY <1>18, <1>20, <3>1, <3>2, Zenon
  <2> HIDE DEF first, last, middle
  <2>9. first \o middle \in Seq(S) /\ Chain(first \o middle, vp, e1 * C2)
    BY <2>3, <2>7, Chains
  <2>10. first \o middle \o last \in Seq(S) /\ Chain(first \o middle \o last, vp, end)
    BY <2>4, <2>9, Chains
  <2> QED BY <1>3, <1>4, <1>5, <2>8, <2>10 DEF P, top, S
<1> QED BY <1>19, <1>20

-----------------------------------------------------------------------------
(* The invariant: a tree of tables, and a walk down the path of a page.    *)

Basic ==
  /\ DOMAIN tbl \subseteq RamStart..limit - 1 \cup {Pgd, Pud, Pmd}
  /\ phase \in {"boot", "kernel", "smp", "clear", "done"}
  /\ limit \in Limits /\ page1gb \in BOOLEAN
  /\ walk.frame \in DOMAIN tbl /\ walk.level \in Levels
  /\ kmaps \in 0..MaxKmaps
  /\ asked \subseteq Phys /\ removal \in BOOLEAN

\* pgdir_walk has come to its table by the path of the page it looks for.
WalkAt == ~Idle /\ hole = NoHole =>
            walk = Root \/ (/\ walk.level \in 1..3
                            /\ Look(tbl, Now.at, walk.level + 1) = Table(walk.frame))

\* Likewise, expand_page to the table it fills.
HoleAt == hole # NoHole =>
            /\ ~Idle /\ hole.frame \in DOMAIN tbl /\ hole.level \in 1..2
            /\ Look(tbl, Now.at, hole.level + 1) = Table(hole.frame)
            /\ hole.old = Page(Block(Now.at, hole.level + 1))
            /\ tbl[hole.frame] = Empty

Inv == /\ Basic /\ parts \in Seq(PartsOf(removal))
       /\ (\E lev, at : Tree(tbl, lev, at)) /\ Once(tbl)
       /\ WalkAt /\ HoleAt

\* A part starts with a block of its level.
LEMMA PartStarts ==
  ASSUME NEW c, NEW r \in PartsOf(c)
  PROVE  /\ r.at \in 0..2 * KernPage - 1 /\ r.level \in 1..3 /\ r.phys \in Phys
         /\ Block(r.at, r.level) = r.at % KernPage /\ Block(r.at, 1) = r.at % KernPage
         /\ c \/ r.phys = r.at % KernPage
<1>1. PICK m \in Nat, n \in Nat \ {0} : /\ r.at = m * Cover(r.level)
                                        /\ r.to = r.at + n * Cover(r.level)
  BY DEF PartsOf, Whole
<1>2. /\ r.level \in 1..3 /\ r.at \in Nat /\ r.to \in 0..2 * KernPage /\ r.phys \in Phys
      /\ c \/ r.phys = r.at % KernPage
  BY DEF PartsOf, PartType
<1> DEFINE k == Cover(r.level)
<1>3. k \in Nat \ {0} /\ Cover(1) = 1 /\ KernPage \in Nat
  BY <1>2, Covers DEF Levels
<1>4. r.at % k = 0 /\ n * k \in Nat \ {0}
  <2> HIDE DEF k
  <2>1. (m * k) % k = 0
    BY <1>3, AlignedIs
  <2>2. n * k \in Nat \ {0}
    BY <1>3
  <2> QED BY <1>1, <2>1, <2>2 DEF k
<1>5. r.at \in 0..2 * KernPage - 1
  <2> DEFINE z == n * k
  <2>1. z \in Nat \ {0} /\ r.to = r.at + z
    BY <1>1, <1>4
  <2> HIDE DEF z
  <2> QED BY <1>2, <1>3, <2>1
<1>6. r.at % 1 = 0
  BY <1>2
<1> HIDE DEF k
<1>7. r.at - 0 = r.at
  BY <1>2
<1> QED BY <1>2, <1>3, <1>4, <1>5, <1>6, <1>7 DEF Block, k

\* The part at hand is one of the parts.
LEMMA NowGood ==
  ASSUME parts \in Seq(PartsOf(removal)), ~Idle
  PROVE  Now \in PartsOf(removal) /\ Tail(parts) \in Seq(PartsOf(removal))
BY HeadTailProperties DEF Idle, Now

\* What the walk has found.
LEMMA WalkFound ==
  ASSUME Inv, NEW lev, NEW at, Tree(tbl, lev, at), ~Idle, hole = NoHole
  PROVE  /\ lev[walk.frame] = walk.level
         /\ walk.level < 4 => at[walk.frame] = Block(Now.at, walk.level + 1)
         /\ I \in Index
         /\ Spot(lev, at, walk.frame, I) = Block(Now.at, walk.level)
         /\ Look(tbl, Now.at, walk.level) = Entry
         /\ Finds(tbl, lev, at, Now.at, walk.level, Entry)
<1> DEFINE a == Now.at
<1>1. a \in 0..2 * KernPage - 1 /\ walk.frame \in DOMAIN tbl /\ walk.level \in Levels
  BY NowGood, PartStarts DEF Inv, Basic
<1> HIDE DEF a
<1>2. CASE walk = Root
  <2>1. walk.frame = Pgd /\ walk.level = 4 /\ lev[Pgd] = 4 /\ ~(walk.level < 4)
    BY <1>2 DEF Root, Tree
  <2>2. I \in Index
    BY <1>1, Blocks DEF I, a
  <2>3. /\ Spot(lev, at, walk.frame, Idx(a, 4)) = Block(a, 4)
        /\ Finds(tbl, lev, at, a, 4, tbl[walk.frame][Idx(a, 4)])
    BY <1>1, <2>1, EntryFound
  <2>4. Look(tbl, a, 4) = tbl[Pgd][Idx(a, 4)]
    BY Looks
  <2> QED BY <2>1, <2>2, <2>3, <2>4 DEF I, Entry, a
<1>3. CASE walk # Root
  <2>1. walk.level \in 1..3 /\ Look(tbl, a, walk.level + 1) = Table(walk.frame)
    BY <1>3 DEF Inv, WalkAt, a
  <2> DEFINE l == walk.level
  <2>2. l + 1 \in Levels /\ l \in Levels /\ (l + 1) - 1 = l /\ l < 4
    BY <2>1 DEF Levels
  <2>3. Finds(tbl, lev, at, a, l + 1, Table(walk.frame))
    BY <1>1, <2>1, <2>2, TreePath
  <2>4. lev[walk.frame] = l /\ at[walk.frame] = Block(a, l + 1)
    <3> DEFINE e == Table(walk.frame)
    <3>1. e # None /\ e # Page(Block(a, l + 1)) /\ e.at = walk.frame
      BY DEF None, Page, Table
    <3>2. Finds(tbl, lev, at, a, l + 1, e)
      BY <2>3
    <3> HIDE DEF e
    <3>3. lev[e.at] = (l + 1) - 1 /\ at[e.at] = Block(a, l + 1)
      BY <3>1, <3>2, Zenon DEF Finds
    <3> QED BY <2>2, <3>1, <3>3
  <2>5. I \in Index
    BY <1>1, Blocks DEF I, a
  <2>6. /\ Spot(lev, at, walk.frame, Idx(a, l)) = Block(a, l)
        /\ Finds(tbl, lev, at, a, l, tbl[walk.frame][Idx(a, l)])
    BY <1>1, <2>2, <2>4, EntryFound
  <2>7. Look(tbl, a, l) = tbl[walk.frame][Idx(a, l)]
    <3>1. Look(tbl, a, l) = Below(tbl, a, l, Table(walk.frame))
      BY <2>1, Looks
    <3> QED BY <3>1 DEF Below, Table
  <2> QED BY <2>4, <2>5, <2>6, <2>7 DEF I, Entry, a
<1> QED BY <1>2, <1>3

\* What boot.S leaves.
LEMMA InitInv == Init => Inv
<1> SUFFICES ASSUME Init PROVE Inv
  OBVIOUS
<1> DEFINE D == {Pgd, Pud, Pmd}
           lev == [f \in D |-> CASE f = Pgd -> 4 [] f = Pud -> 3 [] f = Pmd -> 2]
           at == [f \in D |-> 0]
           h == E \div 2
<1>1. /\ E \in Nat \ {0, 1} /\ KernPage \in Nat \ {0} /\ Pgd # Pud /\ Pgd # Pmd /\ Pud # Pmd
      /\ Cover(3) \in Nat \ {0} /\ Cover(4) \in Nat \ {0} /\ Cover(2) \in Nat \ {0}
  BY Covers DEF Pgd, Pud, Pmd, Levels
<1>2. DOMAIN tbl = D /\ \A f \in D : tbl[f] = [i \in Index |-> tbl[f][i]]
  BY DEF Init
<1>3. /\ \A i \in Index : tbl[Pgd][i] = IF i \in {0, h} THEN Table(Pud) ELSE None
      /\ \A i \in Index : tbl[Pud][i] = IF i = 0 THEN Table(Pmd) ELSE None
      /\ \A i \in Index : tbl[Pmd][i] = Page(i * Cover(2))
  BY <1>1 DEF Init
<1>4. /\ lev[Pgd] = 4 /\ lev[Pud] = 3 /\ lev[Pmd] = 2 /\ at[Pgd] = 0 /\ at[Pud] = 0 /\ at[Pmd] = 0
      /\ lev \in [D -> Levels] /\ at \in [D -> Phys]
  <2>1. lev[Pgd] = 4 /\ lev[Pud] = 3 /\ lev[Pmd] = 2 /\ at[Pgd] = 0 /\ at[Pud] = 0 /\ at[Pmd] = 0
    BY <1>1
  <2>2. lev = [f \in D |-> lev[f]] /\ at = [f \in D |-> at[f]]
    OBVIOUS
  <2>3. 0 \in Phys /\ 4 \in Levels /\ 3 \in Levels /\ 2 \in Levels
    BY <1>1 DEF Phys, Levels
  <2> HIDE DEF lev, at
  <2>4. \A f \in D : lev[f] \in Levels /\ at[f] \in Phys
    BY <2>1, <2>3
  <2> HIDE DEF D
  <2> QED BY <2>1, <2>2, <2>4
<1> HIDE DEF lev, at
<1>5. Spot(lev, at, Pgd, 0) = 0 /\ Spot(lev, at, Pgd, h) = 0 /\ Spot(lev, at, Pud, 0) = 0
  <2>1. h \in Nat /\ h * Cover(4) = KernPage
    BY <1>1 DEF KernPage
  <2>2. 0 % KernPage = 0 /\ KernPage % KernPage = 0
    <3>1. 0 \in 0..2 * KernPage - 1 /\ KernPage \in 0..2 * KernPage - 1
      BY <1>1
    <3> QED BY <1>1, <3>1, ModKern
  <2>3. 0 + 0 * Cover(4) = 0 /\ 0 + 0 * Cover(3) = 0 /\ 0 + h * Cover(4) = KernPage
    BY <1>1, <2>1
  <2> QED BY <1>4, <2>2, <2>3 DEF Spot
<1>6. \A i \in Index : Spot(lev, at, Pmd, i) = i * Cover(2)
  <2> SUFFICES ASSUME NEW i \in Index PROVE Spot(lev, at, Pmd, i) = i * Cover(2)
    OBVIOUS
  <2> DEFINE c == Cover(2)
             z == i * c
  <2>1. z \in Nat /\ z + c <= E * c /\ E * c = Cover(3) /\ Cover(3) <= KernPage
    <3>1. E * c = Cover(3) /\ Cover(4) = E * Cover(3) /\ 2 * KernPage = E * Cover(4)
      BY Covers
    <3>2. i \in Nat /\ i + 1 <= E /\ i + 1 \in Nat /\ E \in Nat /\ (i + 1) * c = i * c + c
      BY <1>1 DEF Index
    <3>3. i * c \in Nat /\ (i + 1) * c <= E * c
      BY <1>1, <3>2, Times
    <3>4. Cover(3) <= KernPage
      <4> DEFINE k == Cover(3)
                 m == Cover(4)
      <4>1. k \in Nat \ {0} /\ m = E * k /\ 2 * KernPage = E * m /\ m \in Nat \ {0}
        BY <1>1, <3>1
      <4> HIDE DEF k, m
      <4>2. 1 * k <= E * k /\ 2 * m <= E * m
        BY <1>1, <4>1, Times
      <4>3. k <= m /\ m <= KernPage
        BY <1>1, <4>1, <4>2
      <4> QED BY <1>1, <4>1, <4>3 DEF k
    <3> QED BY <3>1, <3>2, <3>3, <3>4
  <2>2. z \in 0..2 * KernPage - 1 /\ z < KernPage
    <3> HIDE DEF c, z
    <3>1. c \in Nat \ {0}
      BY <1>1 DEF c
    <3> QED BY <1>1, <2>1, <3>1
  <2>3. z % KernPage = z
    BY <2>2, ModKern
  <2>4. Spot(lev, at, Pmd, i) = (0 + z) % KernPage
    BY <1>4 DEF Spot
  <2> QED BY <2>2, <2>3, <2>4
<1>7. Tree(tbl, lev, at)
  <2>1. ASSUME NEW f \in D, NEW i \in Index PROVE EntryOK(tbl, lev, at, f, i, tbl[f][i])
    <3>1. CASE f = Pgd
      BY <1>1, <1>2, <1>3, <1>4, <1>5, <3>1 DEF EntryOK, TableEntry, Table
    <3>2. CASE f = Pud
      BY <1>1, <1>2, <1>3, <1>4, <1>5, <3>2 DEF EntryOK, TableEntry, Table
    <3>3. CASE f = Pmd
      BY <1>1, <1>2, <1>3, <1>4, <1>6, <3>3 DEF EntryOK, PageEntry
    <3> QED BY <3>1, <3>2, <3>3
  <2>2. \A f \in D : lev[f] < 4 => at[f] + Cover(lev[f] + 1) <= KernPage
    <3>1. 0 + Cover(4) <= KernPage /\ 0 + Cover(3) <= KernPage
      <4>1. Cover(4) = E * Cover(3) /\ 2 * KernPage = E * Cover(4)
        BY Covers
      <4> DEFINE k == Cover(3)
                 m == Cover(4)
      <4>2. k \in Nat \ {0} /\ m = E * k /\ 2 * KernPage = E * m /\ m \in Nat \ {0}
        BY <1>1, <4>1
      <4> HIDE DEF k, m
      <4>3. 1 * k <= E * k /\ 2 * m <= E * m
        BY <1>1, <4>2, Times
      <4>4. 0 + k <= KernPage /\ 0 + m <= KernPage
        BY <1>1, <4>2, <4>3
      <4> QED BY <4>4 DEF k, m
    <3> QED BY <1>4, <3>1
  <2>3. \A f \in D : lev[f] = 4 => f = Pgd
    BY <1>4
  <2> QED BY <1>2, <1>4, <2>1, <2>2, <2>3 DEF Tree
<1>8. Once(tbl)
  <2> SUFFICES ASSUME NEW f \in D, NEW g \in D, NEW i \in Index, NEW j \in Index,
                      tbl[f][i].kind = "table", tbl[g][j].kind = "table", tbl[f][i].at = tbl[g][j].at
               PROVE  (f = g /\ i = j) \/ (f = Pgd /\ g = Pgd)
    BY <1>2 DEF Once
  <2>1. None.kind # "table" /\ (\A p : Page(p).kind # "table") /\ Table(Pud).at = Pud /\ Table(Pmd).at = Pmd
    BY DEF None, Page, Table
  <2>2. /\ f = Pgd \/ (f = Pud /\ i = 0)
        /\ g = Pgd \/ (g = Pud /\ j = 0)
    BY <1>3, <2>1
  <2>3. (f = Pgd => tbl[f][i].at = Pud) /\ (g = Pgd => tbl[g][j].at = Pud)
    BY <1>3, <2>1
  <2>4. (f = Pud => tbl[f][i].at = Pmd) /\ (g = Pud => tbl[g][j].at = Pmd)
    BY <1>3, <2>1
  <2> QED BY <1>1, <2>2, <2>3, <2>4
<1>9. Basic
  <2>1. walk.frame = Pgd /\ walk.level = 4 /\ 0 \in 0..MaxKmaps
    BY BoundsAssumption DEF Init, Root
  <2>2. walk.frame \in DOMAIN tbl /\ walk.level \in Levels
    BY <1>2, <2>1 DEF Levels
  <2>3. DOMAIN tbl \subseteq RamStart..limit - 1 \cup {Pgd, Pud, Pmd}
    BY <1>2
  <2> QED BY <2>1, <2>2, <2>3 DEF Init, Basic
<1>10. parts \in Seq(PartsOf(removal)) /\ Idle /\ hole = NoHole
  <2>1. parts = <<>>
    BY DEF Init
  <2> QED BY <2>1 DEF Init, Idle
<1> QED BY <1>7, <1>8, <1>9, <1>10 DEF Inv, WalkAt, HoleAt

\* arch_map_region is called for sz bytes from page vp, with pages from pp on, d further
\* down; c says that they are to be cleared.
Called(vp, pp, d, sz, c) ==
  /\ vp \in Nat /\ pp \in Nat /\ d \in Nat /\ vp = pp + d /\ d <= KernPage
  /\ sz \in Nat \ {0} /\ pp * PgSize + sz <= KernPage * PgSize
  /\ c \in BOOLEAN /\ (c \/ d = 0 \/ d = KernPage)
  /\ MapRegion(vp * PgSize, pp * PgSize, sz, c)

\* The walk starts from the root.
LEMMA RegionBegun ==
  ASSUME Inv, Idle, phase' \in {"boot", "kernel", "smp", "clear", "done"}, kmaps' \in 0..MaxKmaps,
         NEW vp, NEW pp, NEW d, NEW sz, NEW c, Called(vp, pp, d, sz, c)
  PROVE  Inv'
<1> DEFINE v == vp * PgSize
           phy == pp * PgSize
<1>1. Regions(v, phy, sz) \in Seq(PartsOf(c))
  BY RegionsGood DEF Called
<1>2. /\ parts' = Regions(v, phy, sz) /\ walk' = Root /\ removal' = c /\ c \in BOOLEAN
      /\ tbl' = tbl /\ hole' = hole /\ limit' = limit /\ page1gb' = page1gb
      /\ asked' = {p % KernPage : p \in v \div PgSize..Align(v + sz, PgSize) \div PgSize - 1}
  BY DEF MapRegion, Called
<1>3. asked' \subseteq Phys
  <2>1. KernPage \in Nat \ {0}
    BY Covers
  <2>2. \A p \in Int : p % KernPage \in Phys
    BY <2>1 DEF Phys
  <2>3. v \div PgSize..Align(v + sz, PgSize) \div PgSize - 1 \subseteq Int
    <3> DEFINE x == v \div PgSize
               y == Align(v + sz, PgSize) \div PgSize - 1
    <3> HIDE DEF x, y
    <3>1. x..y \subseteq Int
      OBVIOUS
    <3> QED BY <3>1 DEF x, y
  <2> QED BY <1>2, <2>2, <2>3
<1> HIDE DEF v, phy
<1>4. Pgd \in DOMAIN tbl
  BY DEF Inv, Tree
<1>5. Basic'
  <2>1. walk'.frame = Pgd /\ walk'.level = 4
    BY <1>2 DEF Root
  <2> QED BY <1>2, <1>3, <1>4, <2>1 DEF Inv, Basic, Levels
<1>6. hole' = NoHole /\ walk' = Root
  BY <1>2 DEF Inv, HoleAt
<1>7. (\E lev, at : Tree(tbl', lev, at)) /\ Once(tbl')
  BY <1>2 DEF Inv
<1>8. parts' \in Seq(PartsOf(removal'))
  BY <1>1, <1>2
<1> QED BY <1>5, <1>6, <1>7, <1>8 DEF Inv, WalkAt, HoleAt

\* KERN_BASE is beyond the pages of a page table.
LEMMA KernIsFar ==
  /\ Cover(3) \in Nat \ {0} /\ Cover(4) \in Nat \ {0} /\ KernPage \in Nat \ {0}
  /\ E <= Cover(3) /\ Cover(3) <= Cover(4) /\ Cover(4) <= KernPage
<1> DEFINE k == Cover(3)
           m == Cover(4)
<1>1. E \in Nat \ {0, 1} /\ KernPage \in Nat \ {0} /\ k \in Nat \ {0} /\ m \in Nat \ {0}
      /\ k = E * E /\ m = E * k /\ 2 * KernPage = E * m
  <2>1. 3 \in Levels /\ 4 \in Levels /\ 3 \in 1..3 /\ 3 + 1 = 4
    BY DEF Levels
  <2> QED BY <2>1, Covers
<1> HIDE DEF k, m
<1>2. 1 * E <= E * E /\ 1 * k <= E * k /\ 2 * m <= E * m
  BY <1>1, Times
<1> QED BY <1>1, <1>2 DEF k, m

\* mem_init: the memory boot.S has not mapped.
LEMMA MapKernelPageCall ==
  ASSUME Inv, MapKernelPage, limit > Cover(3)
  PROVE  \E sz : /\ sz = (limit - Cover(3)) * PgSize
                 /\ Called(KernPage + Cover(3), Cover(3), KernPage, sz, FALSE)
<1> DEFINE k == Cover(3)
           size == limit - k
<1>1. k \in Nat \ {0} /\ KernPage \in Nat \ {0} /\ PgSize \in Nat \ {0}
      /\ limit \in Nat /\ limit <= KernPage /\ size \in Nat \ {0}
  <2>1. limit \in 1..KernPage
    BY LimitsAssumption DEF Inv, Basic
  <2>2. k \in Nat \ {0} /\ KernPage \in Nat \ {0} /\ PgSize \in Nat \ {0}
    BY KernIsFar, PgSizeAssumption
  <2>3. limit > k
    OBVIOUS
  <2> HIDE DEF k
  <2> QED BY <2>1, <2>2, <2>3
<1>2. MapRegion((KernPage + k) * PgSize, k * PgSize, size * PgSize, FALSE)
  BY DEF MapKernelPage
<1> HIDE DEF k
<1>3. k * PgSize + size * PgSize <= KernPage * PgSize /\ size * PgSize \in Nat \ {0}
  <2>1. limit * PgSize <= KernPage * PgSize
    BY <1>1, Times
  <2>2. k * PgSize + (limit - k) * PgSize = limit * PgSize
    BY <1>1
  <2>3. (limit - k) * PgSize \in Nat \ {0}
    <3> DEFINE n == limit - k
    <3>1. n \in Nat \ {0}
      BY <1>1
    <3> HIDE DEF n
    <3>2. n * PgSize \in Nat \ {0}
      BY <1>1, <3>1
    <3> QED BY <3>2 DEF n
  <2> QED BY <2>1, <2>2, <2>3
<1>4. Called(KernPage + k, k, KernPage, size * PgSize, FALSE)
  <2> DEFINE sz == size * PgSize
             vp == KernPage + k
             c == FALSE
  <2>1. sz \in Nat \ {0} /\ k * PgSize + sz <= KernPage * PgSize
    BY <1>3
  <2>2. MapRegion(vp * PgSize, k * PgSize, sz, c)
    BY <1>2
  <2>3. vp = k + KernPage /\ vp \in Nat /\ k \in Nat /\ KernPage \in Nat /\ c \in BOOLEAN
        /\ KernPage <= KernPage
    BY <1>1
  <2> HIDE DEF sz, vp, c
  <2> QED BY <2>1, <2>2, <2>3 DEF Called, sz, vp, c
<1> QED BY <1>4 DEF k

\* arch_map_kernel_page starts with good tables and good parts.
LEMMA MapKernelPageInv == Inv /\ MapKernelPage => Inv'
<1> SUFFICES ASSUME Inv, MapKernelPage PROVE Inv'
  OBVIOUS
<1>1. Idle /\ phase' = "kernel" /\ kmaps' = kmaps
  BY DEF MapKernelPage
<1>2. CASE limit > Cover(3)
  <2>1. \E sz : Called(KernPage + Cover(3), Cover(3), KernPage, sz, FALSE)
    BY <1>2, MapKernelPageCall
  <2>2. phase' \in {"boot", "kernel", "smp", "clear", "done"} /\ kmaps' \in 0..MaxKmaps
    BY <1>1 DEF Inv, Basic
  <2> QED BY <1>1, <2>1, <2>2, RegionBegun
<1>3. CASE ~(limit > Cover(3))
  <2>1. UNCHANGED <<tbl, hole, parts, walk, asked, removal, limit, page1gb, kmaps>>
    BY <1>1, <1>3 DEF MapKernelPage
  <2> QED BY <1>1, <2>1 DEF Inv, Basic, WalkAt, HoleAt, Idle, Now
<1> QED BY <1>2, <1>3

\* arch_kmap
LEMMA KmapCall ==
  ASSUME NEW k \in Kmaps, Kmap(k)
  PROVE  \E pp : Called(KernPage + pp, pp, KernPage, k.sz, FALSE)
<1>1. MapRegion(KernPage * PgSize + AlignDown(k.phy, PgSize), AlignDown(k.phy, PgSize), k.sz, FALSE)
  BY DEF Kmap
<1>2. /\ k.phy \in Nat /\ k.sz \in Nat \ {0} /\ k.phy + k.sz <= KernPage * PgSize
      /\ KernPage \in Nat \ {0} /\ PgSize \in Nat \ {0}
  BY KmapsAssumption, Covers
<1>3. PICK pp \in Nat : AlignDown(k.phy, PgSize) = pp * PgSize /\ pp * PgSize <= k.phy
  BY <1>2, AlignIs
<1> DEFINE vp == KernPage + pp
           sz == k.sz
<1>4. vp \in Nat /\ vp = pp + KernPage /\ KernPage * PgSize + pp * PgSize = vp * PgSize
  BY <1>2
<1>5. pp * PgSize + sz <= KernPage * PgSize
  <2>1. pp * PgSize \in Nat /\ KernPage * PgSize \in Nat
    BY <1>2
  <2> QED BY <1>2, <1>3, <2>1
<1>6. MapRegion(vp * PgSize, pp * PgSize, sz, FALSE) /\ sz \in Nat \ {0}
  BY <1>1, <1>2, <1>3, <1>4
<1>7. KernPage \in Nat /\ KernPage <= KernPage /\ FALSE \in BOOLEAN
  BY <1>2
<1> HIDE DEF vp, sz
<1>8. Called(vp, pp, KernPage, sz, FALSE)
  BY <1>4, <1>5, <1>6, <1>7 DEF Called
<1> QED BY <1>8 DEF vp, sz

\* So does arch_kmap.
LEMMA KmapInv == ASSUME Inv, NEW k \in Kmaps, Kmap(k) PROVE Inv'
<1>1. Idle /\ phase' = phase /\ kmaps' = kmaps + 1 /\ kmaps < MaxKmaps
  BY DEF Kmap
<1>2. phase' \in {"boot", "kernel", "smp", "clear", "done"} /\ kmaps' \in 0..MaxKmaps
  BY <1>1, BoundsAssumption DEF Inv, Basic
<1>3. \E pp : Called(KernPage + pp, pp, KernPage, k.sz, FALSE)
  BY KmapCall
<1> QED BY <1>1, <1>2, <1>3, RegionBegun

\* The page the other processors start in.
LEMMA TrampolineCall ==
  ASSUME NEW c \in BOOLEAN, NEW pp \in {0, MpPage}, c \/ pp = MpPage,
         MapRegion(MpPage * PgSize, pp * PgSize, 1, c)
  PROVE  Called(MpPage, pp, MpPage - pp, 1, c) /\ MpPage \in Nat /\ MpPage < KernPage
<1>1. MpPage \in Nat /\ MpPage < KernPage /\ KernPage \in Nat \ {0} /\ PgSize \in Nat \ {0}
  <2>1. MpPage \in 0..E - 1 /\ E \in Nat
    BY BoundsAssumption, Covers
  <2> QED BY <2>1, KernIsFar, PgSizeAssumption
<1> DEFINE d == MpPage - pp
           one == 1
<1>2. d \in Nat /\ pp \in Nat /\ MpPage = pp + d /\ d <= KernPage /\ (c \/ d = 0 \/ d = KernPage)
      /\ one \in Nat \ {0} /\ pp < KernPage
  BY <1>1
<1>3. pp * PgSize + one <= KernPage * PgSize
  <2>1. ~(KernPage * PgSize <= pp * PgSize) /\ pp * PgSize \in Nat /\ KernPage * PgSize \in Nat
    BY <1>1, <1>2, Times
  <2> QED BY <2>1
<1>4. MapRegion(MpPage * PgSize, pp * PgSize, one, c)
  OBVIOUS
<1> HIDE DEF d, one
<1>5. Called(MpPage, pp, d, one, c)
  BY <1>1, <1>2, <1>3, <1>4 DEF Called
<1> QED BY <1>1, <1>5 DEF d, one

\* What clearing the trampoline asks arch_map_region for.
LEMMA ClearTrampolineCall ==
  ASSUME ClearTrampoline
  PROVE  Called(MpPage, 0, MpPage, 1, TRUE) /\ MpPage \in Nat /\ MpPage < KernPage
<1>1. MapRegion(MpPage * PgSize, 0, 1, TRUE)
  BY DEF ClearTrampoline
<1>2. 0 * PgSize = 0 /\ MpPage \in Nat
  BY PgSizeAssumption, BoundsAssumption, Covers
<1> DEFINE z == 0
           c == TRUE
<1>3. MapRegion(MpPage * PgSize, z * PgSize, 1, c) /\ z \in {0, MpPage} /\ c \in BOOLEAN
      /\ (c \/ z = MpPage)
  BY <1>1, <1>2
<1>4. MpPage - z = MpPage
  BY <1>2
<1> HIDE DEF z, c
<1>5. Called(MpPage, z, MpPage - z, 1, c) /\ MpPage \in Nat /\ MpPage < KernPage
  BY <1>3, TrampolineCall
<1> QED BY <1>4, <1>5 DEF z, c

\* smp_init starts with good tables and good parts, both times.
LEMMA TrampolineInv == Inv /\ (MapTrampoline \/ ClearTrampoline) => Inv'
<1> SUFFICES ASSUME Inv, MapTrampoline \/ ClearTrampoline PROVE Inv'
  OBVIOUS
<1>1. Idle /\ phase' \in {"smp", "clear"} /\ kmaps' = kmaps
  BY DEF MapTrampoline, ClearTrampoline
<1>2. phase' \in {"boot", "kernel", "smp", "clear", "done"} /\ kmaps' \in 0..MaxKmaps
  BY <1>1 DEF Inv, Basic
<1>3. CASE MapTrampoline
  <2>1. Called(MpPage, MpPage, MpPage - MpPage, 1, FALSE)
    BY <1>3, TrampolineCall DEF MapTrampoline
  <2> QED BY <1>1, <1>2, <2>1, RegionBegun
<1>4. CASE ClearTrampoline
  BY <1>1, <1>2, <1>4, ClearTrampolineCall, RegionBegun
<1> QED BY <1>3, <1>4

\* A table in use whose entries become none, or pages, of the tables as they are.
LEMMA EntryChanged ==
  ASSUME NEW t, NEW lev, NEW at, Tree(t, lev, at), Once(t), NEW f \in DOMAIN t, NEW i \in Index,
         NEW e, e = None \/ PageEntry(lev, at, f, i, e)
  PROVE  LET u == [t EXCEPT ![f][i] = e]
         IN /\ DOMAIN u = DOMAIN t /\ u[f] = [t[f] EXCEPT ![i] = e] /\ u[f][i] = e
            /\ \A h \in DOMAIN t : h # f => u[h] = t[h]
            /\ \A j \in Index : j # i => u[f][j] = t[f][j]
            /\ Tree(u, lev, at) /\ Once(u)
<1> DEFINE u == [t EXCEPT ![f][i] = e]
           row == [t[f] EXCEPT ![i] = e]
<1>1. t[f] = [j \in Index |-> t[f][j]]
  BY DEF Tree
<1>2. DOMAIN u = DOMAIN t /\ u[f] = row /\ \A h \in DOMAIN t : h # f => u[h] = t[h]
  OBVIOUS
<1>3. row = [j \in Index |-> row[j]] /\ \A j \in Index : row[j] = IF j = i THEN e ELSE t[f][j]
  BY <1>1
<1> HIDE DEF u, row
<1>4. \A j \in Index : row[j] = t[f][j] \/ row[j] = None \/ PageEntry(lev, at, f, j, row[j])
  BY <1>3
<1>5. Tree(u, lev, at) /\ Once(u)
  BY <1>2, <1>3, <1>4, RowChanged
<1>6. u[f][i] = e /\ \A j \in Index : j # i => u[f][j] = t[f][j]
  BY <1>2, <1>3
<1> QED BY <1>2, <1>5, <1>6 DEF u, row

\* arch_clear_low_page cuts off a half: what remains is a tree.
LEMMA ClearLowPageInv == Inv /\ ClearLowPage => Inv'
<1> SUFFICES ASSUME Inv, ClearLowPage PROVE Inv'
  OBVIOUS
<1>1. /\ Idle /\ phase' = "done" /\ tbl' = [tbl EXCEPT ![Pgd][0] = None]
      /\ UNCHANGED <<hole, parts, walk, kmaps, asked, removal, limit, page1gb>>
  BY DEF ClearLowPage, machine
<1>2. PICK lev, at : Tree(tbl, lev, at)
  BY DEF Inv
<1>3. Pgd \in DOMAIN tbl /\ 0 \in Index
  BY <1>2, Covers DEF Tree, Index
<1>4. DOMAIN tbl' = DOMAIN tbl /\ Tree(tbl', lev, at) /\ Once(tbl')
  <2>1. Once(tbl)
    BY DEF Inv
  <2> QED BY <1>1, <1>2, <1>3, <2>1, EntryChanged
<1>5. Basic'
  BY <1>1, <1>4 DEF Inv, Basic
<1>6. Idle' /\ hole' = NoHole
  BY <1>1 DEF Idle, Inv, HoleAt
<1> QED BY <1>1, <1>4, <1>5, <1>6 DEF Inv, WalkAt, HoleAt

\* One level down: the walk stays on the path of its page.
LEMMA DescendInv == Inv /\ Descend => Inv'
<1> SUFFICES ASSUME Inv, Descend PROVE Inv'
  OBVIOUS
<1>1. /\ ~Idle /\ hole = NoHole /\ Entry.kind = "table"
      /\ walk' = [frame |-> Entry.at, level |-> walk.level - 1]
      /\ UNCHANGED <<tbl, hole, phase, parts, kmaps, asked, removal, limit, page1gb>>
  BY DEF Descend, machine
<1>2. PICK lev, at : Tree(tbl, lev, at)
  BY DEF Inv
<1>3. Look(tbl, Now.at, walk.level) = Entry /\ Finds(tbl, lev, at, Now.at, walk.level, Entry)
      /\ walk.level \in Levels
  BY <1>1, <1>2, WalkFound DEF Inv, Basic
<1>4. Entry = Table(Entry.at) /\ Entry.at \in DOMAIN tbl /\ walk.level > 1
  BY <1>1, <1>3 DEF Finds, None, Page
<1>5. walk'.frame = Entry.at /\ walk'.level = walk.level - 1 /\ walk.level - 1 \in 1..3
      /\ (walk.level - 1) + 1 = walk.level
  BY <1>1, <1>3, <1>4 DEF Levels
<1>6. Now' = Now /\ tbl' = tbl /\ hole' = hole
  BY <1>1 DEF Now
<1>7. Look(tbl', Now'.at, walk'.level + 1) = Table(walk'.frame) /\ walk'.level \in 1..3
  BY <1>3, <1>4, <1>5, <1>6
<1>8. Basic'
  BY <1>1, <1>4, <1>5 DEF Inv, Basic, Levels
<1> QED BY <1>1, <1>2, <1>7, <1>8 DEF Inv, WalkAt, HoleAt

\* A frame the allocators hand out.
LEMMA FramesFree == \A f \in Frames : f \in RamStart..limit - 1 /\ f \notin DOMAIN tbl
BY DEF Frames, FromBelow, FromAbove

\* The entry the walk has come to has become the table f, new and empty, in u.
IsWithTable(u, f) ==
  /\ DOMAIN u = DOMAIN tbl \cup {f} /\ u[f] = Empty
  /\ u[walk.frame] = [tbl[walk.frame] EXCEPT ![I] = Table(f)] /\ u[walk.frame][I] = Table(f)
  /\ \A h \in DOMAIN tbl : h # walk.frame => u[h] = tbl[h]

\* A fresh, empty table is hung at an entry: still a tree.
LEMMA LinkAdded ==
  ASSUME Inv, ~Idle, hole = NoHole, walk.level > 1, NEW f, f \notin DOMAIN tbl,
         NEW u, IsWithTable(u, f)
  PROVE  /\ (\E lev, at : Tree(u, lev, at)) /\ Once(u)
         /\ \A l \in Levels : l > walk.level => Look(u, Now.at, l) = Look(tbl, Now.at, l)
         /\ Look(u, Now.at, walk.level) = Table(f)
<1> DEFINE w == walk.frame
           m == walk.level
           a == Now.at
<1>1. PICK lev, at : Tree(tbl, lev, at)
  BY DEF Inv
<1>2. w \in DOMAIN tbl /\ lev[w] = m /\ I \in Index /\ m \in 1..4 /\ Once(tbl)
      /\ a \in 0..2 * KernPage - 1
  BY <1>1, WalkFound, NowGood, PartStarts DEF Inv, Basic, Levels
<1>3. /\ DOMAIN u = DOMAIN tbl \cup {f} /\ u[f] = Empty
      /\ u[w] = [tbl[w] EXCEPT ![I] = Table(f)] /\ u[w][I] = Table(f) /\ m > 1 /\ f \notin DOMAIN tbl
  BY DEF IsWithTable
<1>4. \A h \in DOMAIN tbl : h # w => u[h] = tbl[h]
  BY DEF IsWithTable
<1>5. walk = Root \/ (m \in 1..3 /\ Look(tbl, a, m + 1) = Table(w))
  BY DEF Inv, WalkAt
<1>6. /\ walk = Root => w = Pgd /\ m = 4
      /\ I = Idx(a, m)
  BY DEF Root, I
<1> HIDE DEF w, m, a
<1>7. (\E l, b : Tree(u, l, b)) /\ Once(u)
  <2>1. lev[w] > 1
    BY <1>2, <1>3
  <2> QED BY <1>1, <1>2, <1>3, <1>4, <2>1, TableAdded
<1>8. \A l \in Levels : l > m => Look(u, a, l) = Look(tbl, a, l)
  <2>1. ASSUME NEW h \in DOMAIN tbl, lev[h] > m PROVE u[h] = tbl[h]
    <3>1. h # w
      BY <1>2, <2>1
    <3> QED BY <1>4, <3>1
  <2>2. AgreeAbove(tbl, u, lev, m)
    BY <2>1 DEF AgreeAbove
  <2>3. m \in Levels
    BY <1>2 DEF Levels
  <2> QED BY <1>1, <1>2, <2>2, <2>3, LookAbove
<1>9. Look(u, a, m) = Table(f)
  <2>1. CASE walk = Root
    <3>1. Look(u, a, 4) = u[Pgd][Idx(a, 4)]
      BY Looks
    <3> QED BY <1>3, <1>6, <2>1, <3>1
  <2>2. CASE walk # Root
    <3>1. m \in 1..3 /\ Look(tbl, a, m + 1) = Table(w)
      BY <1>5, <2>2
    <3>2. m + 1 \in Levels /\ m + 1 > m
      BY <3>1 DEF Levels
    <3>3. Look(u, a, m + 1) = Table(w)
      BY <1>8, <3>1, <3>2
    <3>4. Look(u, a, m) = Below(u, a, m, Table(w))
      BY <3>1, <3>3, Looks
    <3>5. Below(u, a, m, Table(w)) = u[w][Idx(a, m)]
      BY DEF Below, Table
    <3> QED BY <1>3, <1>6, <3>4, <3>5
  <2> QED BY <2>1, <2>2
<1> QED BY <1>7, <1>8, <1>9 DEF a, m

\* What pgdir_walk and expand_page do to the tables.
LEMMA NewTableAdded ==
  ASSUME Inv, ~Idle, hole = NoHole, NEW f \in Frames
  PROVE  /\ f \in RamStart..limit - 1 /\ f \notin DOMAIN tbl
         /\ IsWithTable(WithTable(f), f)
<1> DEFINE w == walk.frame
           v == [tbl EXCEPT ![w][I] = Table(f)]
           u == WithTable(f)
<1>1. PICK lev, at : Tree(tbl, lev, at)
  BY DEF Inv
<1>2. f \in RamStart..limit - 1 /\ f \notin DOMAIN tbl
  BY FramesFree
<1>3. w \in DOMAIN tbl /\ I \in Index
  BY <1>1, WalkFound DEF Inv, Basic
<1>4. tbl[w] = [j \in Index |-> tbl[w][j]]
  BY <1>1, <1>3 DEF Tree
<1>5. DOMAIN v = DOMAIN tbl /\ v[w] = [tbl[w] EXCEPT ![I] = Table(f)]
      /\ \A h \in DOMAIN tbl : h # w => v[h] = tbl[h]
  BY <1>3
<1>6. u = [g \in DOMAIN tbl \cup {f} |-> IF g = f THEN Empty ELSE v[g]]
  BY DEF WithTable
<1> HIDE DEF v
<1>7. /\ DOMAIN u = DOMAIN tbl \cup {f} /\ u[f] = Empty /\ u[w] = v[w]
      /\ \A h \in DOMAIN tbl : h # w => u[h] = tbl[h]
  BY <1>2, <1>3, <1>5, <1>6
<1>8. u[w] = [tbl[w] EXCEPT ![I] = Table(f)] /\ u[w][I] = Table(f)
  BY <1>3, <1>4, <1>5, <1>7
<1> QED BY <1>2, <1>7, <1>8 DEF w, IsWithTable

\* A table for an entry that was none.
LEMMA NewTableInv == Inv /\ NewTable => Inv'
<1> SUFFICES ASSUME Inv, NewTable PROVE Inv'
  OBVIOUS
<1>1. PICK f \in Frames : tbl' = WithTable(f)
  BY DEF NewTable
<1>2. /\ ~Idle /\ hole = NoHole /\ walk.level \in Levels /\ walk.level # 1
      /\ UNCHANGED <<hole, phase, parts, walk, kmaps, asked, removal, limit, page1gb>>
  BY DEF NewTable, AtLevel, Inv, Basic, machine
<1>3. walk.level > 1
  BY <1>2 DEF Levels
<1> DEFINE u == tbl'
<1>4. f \in RamStart..limit - 1 /\ f \notin DOMAIN tbl /\ IsWithTable(u, f)
  BY <1>1, <1>2, NewTableAdded
<1>5. /\ (\E lev, at : Tree(u, lev, at)) /\ Once(u)
      /\ \A l \in Levels : l > walk.level => Look(u, Now.at, l) = Look(tbl, Now.at, l)
  BY <1>2, <1>3, <1>4, LinkAdded
<1>6. Now' = Now /\ walk' = walk /\ hole' = NoHole
  BY <1>2 DEF Now
<1>7. WalkAt'
  <2>1. CASE walk = Root
    BY <1>6, <2>1 DEF WalkAt, Root
  <2>2. CASE walk # Root
    <3>1. walk.level \in 1..3 /\ Look(tbl, Now.at, walk.level + 1) = Table(walk.frame)
      BY <1>2, <2>2 DEF Inv, WalkAt
    <3>2. walk.level + 1 \in Levels /\ walk.level + 1 > walk.level
      BY <3>1 DEF Levels
    <3>3. Look(u, Now.at, walk.level + 1) = Table(walk.frame)
      BY <1>5, <3>1, <3>2
    <3> QED BY <1>6, <3>1, <3>3 DEF WalkAt
  <2> QED BY <2>1, <2>2
<1>8. Basic'
  BY <1>2, <1>4 DEF Inv, Basic, IsWithTable
<1>9. parts' \in Seq(PartsOf(removal'))
  BY <1>2 DEF Inv
<1> QED BY <1>5, <1>6, <1>7, <1>8, <1>9 DEF Inv, HoleAt

\* A table for an entry that was a page.
LEMMA ExpandInv == Inv /\ Expand => Inv'
<1> SUFFICES ASSUME Inv, Expand PROVE Inv'
  OBVIOUS
<1>1. PICK f \in Frames : /\ tbl' = WithTable(f)
                          /\ hole' = [frame |-> f, level |-> walk.level - 1, old |-> Entry]
  BY DEF Expand
<1>2. /\ ~Idle /\ hole = NoHole /\ walk.level \in Levels /\ walk.level > 1 /\ Entry.kind = "page"
      /\ UNCHANGED <<phase, parts, walk, kmaps, asked, removal, limit, page1gb>>
  BY DEF Expand, Inv, Basic, machine
<1> DEFINE u == tbl'
<1>3. f \in RamStart..limit - 1 /\ f \notin DOMAIN tbl /\ IsWithTable(u, f)
  BY <1>1, <1>2, NewTableAdded
<1>4. /\ (\E lev, at : Tree(u, lev, at)) /\ Once(u)
      /\ Look(u, Now.at, walk.level) = Table(f)
  BY <1>2, <1>3, LinkAdded
<1>5. Now' = Now /\ walk' = walk /\ Idle' = Idle
  BY <1>2 DEF Now, Idle
<1>6. PICK lev, at : Tree(tbl, lev, at)
  BY DEF Inv
<1>7. Entry = Page(Block(Now.at, walk.level)) /\ walk.level < 4
  <2>1. Finds(tbl, lev, at, Now.at, walk.level, Entry)
    BY <1>2, <1>6, WalkFound
  <2> QED BY <1>2, <2>1 DEF Finds, None, Table
<1>8. walk.level - 1 \in 1..2 /\ (walk.level - 1) + 1 = walk.level
  BY <1>2, <1>7 DEF Levels
<1>9. hole'.frame = f /\ hole'.level = walk.level - 1 /\ hole'.old = Entry
  BY <1>1
<1>10. hole' # NoHole
  <2>1. NoHole.level = 0
    BY DEF NoHole
  <2> QED BY <1>8, <1>9, <2>1
<1>11. HoleAt'
  BY <1>2, <1>3, <1>4, <1>5, <1>7, <1>8, <1>9 DEF HoleAt, IsWithTable
<1>12. Basic'
  BY <1>2, <1>3 DEF Inv, Basic, IsWithTable
<1>13. parts' \in Seq(PartsOf(removal'))
  BY <1>2 DEF Inv
<1> QED BY <1>4, <1>10, <1>11, <1>12, <1>13 DEF Inv, WalkAt

\* What expand_page writes are the pages its table stands for.
LEMMA FilledGood ==
  ASSUME Inv, hole # NoHole, NEW lev, NEW at, Tree(tbl, lev, at)
  PROVE  /\ lev[hole.frame] = hole.level /\ at[hole.frame] = Block(Now.at, hole.level + 1)
         /\ Filled = [i \in Index |-> Filled[i]]
         /\ \A i \in Index : /\ PageEntry(lev, at, hole.frame, i, Filled[i])
                             /\ Filled[i] = Page(Block(Now.at, hole.level + 1) + i * Cover(hole.level))
<1> DEFINE f == hole.frame
           l == hole.level
           a == Now.at
           e == Table(f)
<1>1. /\ f \in DOMAIN tbl /\ l \in 1..2 /\ Look(tbl, a, l + 1) = Table(f)
      /\ hole.old = Page(Block(a, l + 1)) /\ ~Idle
  BY DEF Inv, HoleAt
<1>2. a \in 0..2 * KernPage - 1
  BY <1>1, NowGood, PartStarts DEF Inv
<1> HIDE DEF f, l, a, e
<1>3. l + 1 \in Levels /\ l < 4 /\ (l + 1) - 1 = l
  BY <1>1 DEF Levels
<1>4. lev[f] = l /\ at[f] = Block(a, l + 1)
  <2>1. Finds(tbl, lev, at, a, l + 1, e)
    BY <1>1, <1>2, <1>3, TreePath DEF e
  <2>2. e # None /\ e # Page(Block(a, l + 1)) /\ e.at = f
    BY DEF None, Page, Table, e
  <2>3. lev[e.at] = (l + 1) - 1 /\ at[e.at] = Block(a, l + 1)
    BY <2>1, <2>2, Zenon DEF Finds
  <2> QED BY <1>3, <2>2, <2>3
<1>5. Filled = [i \in Index |-> Page(Block(a, l + 1) + i * Cover(l))]
  <2>1. hole.old.kind = "page" /\ hole.old.at = Block(a, l + 1)
    BY <1>1 DEF Page
  <2> QED BY <2>1 DEF Filled, Part, l
<1>6. ASSUME NEW i \in Index
      PROVE  PageEntry(lev, at, f, i, Page(Block(a, l + 1) + i * Cover(l)))
  <2>1. Spot(lev, at, f, i) = at[f] + i * Cover(lev[f])
    BY <1>1, <1>3, <1>4, SpotFits
  <2> QED BY <1>3, <1>4, <2>1 DEF PageEntry
<1>7. \A i \in Index : Filled[i] = Page(Block(a, l + 1) + i * Cover(l))
  BY <1>5
<1> QED BY <1>4, <1>5, <1>6, <1>7 DEF f, l, a

\* expand_page fills the table with the pages of the block.
LEMMA FillInv == Inv /\ Fill => Inv'
<1> SUFFICES ASSUME Inv, Fill PROVE Inv'
  OBVIOUS
<1>1. /\ hole # NoHole /\ tbl' = [tbl EXCEPT ![hole.frame] = Filled] /\ hole' = NoHole
      /\ walk' = [frame |-> hole.frame, level |-> hole.level]
      /\ UNCHANGED <<phase, parts, kmaps, asked, removal, limit, page1gb>>
  BY DEF Fill, machine
<1>2. PICK lev, at : Tree(tbl, lev, at)
  BY DEF Inv
<1> DEFINE f == hole.frame
           l == hole.level
           a == Now.at
           u == tbl'
<1>3. /\ ~Idle /\ f \in DOMAIN tbl /\ l \in 1..2 /\ Look(tbl, a, l + 1) = Table(f)
      /\ a \in 0..2 * KernPage - 1
  BY <1>1, NowGood, PartStarts DEF Inv, HoleAt
<1>4. /\ lev[f] = l /\ Filled = [i \in Index |-> Filled[i]]
      /\ \A i \in Index : PageEntry(lev, at, f, i, Filled[i])
  BY <1>1, <1>2, FilledGood
<1>5. DOMAIN u = DOMAIN tbl /\ u[f] = Filled /\ \A h \in DOMAIN tbl : h # f => u[h] = tbl[h]
  BY <1>1, <1>3
<1>6. walk'.frame = f /\ walk'.level = l /\ Now'.at = a
  BY <1>1 DEF Now
<1> DEFINE row == Filled
<1>7. Once(tbl)
  BY DEF Inv
<1> HIDE DEF f, l, a, u, row
<1>8. Tree(u, lev, at) /\ Once(u)
  <2>1. row = [i \in Index |-> row[i]]
    BY <1>4 DEF row
  <2>2. \A i \in Index : row[i] = tbl[f][i] \/ row[i] = None \/ PageEntry(lev, at, f, i, row[i])
    BY <1>4 DEF row
  <2>3. u[f] = row
    BY <1>5 DEF row
  <2> QED BY <1>2, <1>3, <1>5, <1>7, <2>1, <2>2, <2>3, RowChanged
<1>9. Look(u, a, l + 1) = Table(f)
  <2>1. ASSUME NEW h \in DOMAIN tbl, lev[h] > l PROVE u[h] = tbl[h]
    <3>1. h # f
      BY <1>3, <1>4, <2>1
    <3> QED BY <1>5, <3>1
  <2>2. AgreeAbove(tbl, u, lev, l)
    BY <2>1 DEF AgreeAbove
  <2>3. l \in Levels /\ l + 1 \in Levels /\ l + 1 > l
    BY <1>3 DEF Levels
  <2>4. Look(u, a, l + 1) = Look(tbl, a, l + 1)
    BY <1>2, <1>3, <2>2, <2>3, LookAbove
  <2> QED BY <1>3, <2>4
<1>10. l \in 1..3 /\ l \in Levels
  BY <1>3 DEF Levels
<1>11. WalkAt'
  BY <1>6, <1>9, <1>10 DEF WalkAt, u
<1>12. Basic'
  BY <1>1, <1>3, <1>5, <1>6, <1>10 DEF Inv, Basic, u
<1>13. parts' \in Seq(PartsOf(removal'))
  BY <1>1 DEF Inv
<1>14. (\E lv, b : Tree(tbl', lv, b)) /\ Once(tbl')
  BY <1>8 DEF u
<1> QED BY <1>1, <1>11, <1>12, <1>13, <1>14 DEF Inv, HoleAt

\* The rest of a part, once its first page is done.
LEMMA PartGoesOn ==
  ASSUME NEW c \in BOOLEAN, NEW r \in PartsOf(c), r.at + Cover(r.level) < r.to
  PROVE  [r EXCEPT !.at = @ + Cover(r.level), !.phys = @ + Cover(r.level)] \in PartsOf(c)
<1> DEFINE k == Cover(r.level)
           s == [r EXCEPT !.at = @ + k, !.phys = @ + k]
<1>1. PICK m \in Nat, n \in Nat \ {0} : r.at = m * k /\ r.to = r.at + n * k
  BY DEF PartsOf, Whole
<1>2. /\ r.level \in 1..3 /\ r.at \in 0..2 * KernPage /\ r.to \in 0..2 * KernPage /\ r.phys \in Phys
      /\ r.size \in Nat \ {0} /\ r.phys + (r.to - r.at) <= KernPage
      /\ c \/ r.phys = r.at % KernPage
  BY DEF PartsOf, PartType
<1>3. k \in Nat \ {0} /\ KernPage \in Nat \ {0}
  BY <1>2, Covers DEF Levels
<1>4. s = [at |-> r.at + k, phys |-> r.phys + k, to |-> r.to, level |-> r.level, size |-> r.size]
  <2> HIDE DEF k
  <2>1. r \in PartType
    BY DEF PartsOf
  <2>2. r = [at |-> r.at, phys |-> r.phys, to |-> r.to, level |-> r.level, size |-> r.size]
    BY <2>1 DEF PartType
  <2> DEFINE a == r.at
             p == r.phys
             b == r.to
             l == r.level
             z == r.size
  <2>3. r = [at |-> a, phys |-> p, to |-> b, level |-> l, size |-> z]
    BY <2>2
  <2>4. s = [r EXCEPT !.at = a + k, !.phys = p + k]
    OBVIOUS
  <2> HIDE DEF s, a, p, b, l, z
  <2>5. s = [at |-> a + k, phys |-> p + k, to |-> b, level |-> l, size |-> z]
    BY <2>3, <2>4
  <2> QED BY <2>5 DEF a, p, b, l, z
<1>5. r.at + k < r.to
  OBVIOUS
<1> HIDE DEF k, s
<1>6. n - 1 \in Nat \ {0} /\ r.at + k = (m + 1) * k /\ r.to = (r.at + k) + (n - 1) * k
  <2>1. (m + 1) * k = m * k + k /\ (n - 1) * k = n * k - k /\ n * k \in Nat /\ m * k \in Nat
    BY <1>3
  <2>2. n # 1
    <3>1. 1 * k = k
      BY <1>3
    <3> QED BY <1>1, <1>2, <1>3, <1>5, <3>1
  <2> QED BY <1>1, <1>2, <1>3, <2>1, <2>2
<1>7. /\ r.at + k \in 0..2 * KernPage /\ r.phys + k \in Phys
      /\ (r.phys + k) + (r.to - (r.at + k)) <= KernPage
  BY <1>2, <1>3, <1>5 DEF Phys
<1>8. c \/ r.phys + k = (r.at + k) % KernPage
  <2> SUFFICES ASSUME ~c PROVE r.phys + k = (r.at + k) % KernPage
    OBVIOUS
  <2>1. r.phys = r.at % KernPage /\ r.at \in Nat /\ r.at + k < 2 * KernPage /\ r.phys + k < KernPage
    BY <1>2, <1>3, <1>5, <1>7 DEF Phys
  <2> QED BY <1>3, <2>1, SumModKern
<1>9. s \in PartType
  BY <1>2, <1>4, <1>7 DEF PartType
<1>10. Whole(s)
  <2>1. s.at = (m + 1) * Cover(s.level) /\ s.to = s.at + (n - 1) * Cover(s.level)
    BY <1>4, <1>6 DEF k
  <2> QED BY <1>6, <2>1 DEF Whole
<1>11. s \in PartsOf(c)
  BY <1>4, <1>7, <1>8, <1>9, <1>10 DEF PartsOf
<1> QED BY <1>11 DEF s, k

\* After the store the walk starts again, for the next page.
LEMMA NextPageGood ==
  ASSUME Inv, ~Idle, NextPage, removal' = removal
  PROVE  /\ parts' \in Seq(PartsOf(removal')) /\ walk' = Root
         /\ asked' \in {asked, {}}
<1> DEFINE S == PartsOf(removal)
           r == [Now EXCEPT !.at = @ + Cover(Now.level), !.phys = @ + Cover(Now.level)]
<1>1. Now \in S /\ Tail(parts) \in Seq(S) /\ removal \in BOOLEAN
  BY NowGood DEF Inv, Basic
<1>2. parts' = IF Now.at + Cover(Now.level) < Now.to THEN <<r>> \o Tail(parts) ELSE Tail(parts)
  BY DEF NextPage
<1>3. Now.at + Cover(Now.level) < Now.to => r \in S
  BY <1>1, PartGoesOn
<1> HIDE DEF r
<1>4. r \in S => <<r>> \o Tail(parts) \in Seq(S)
  <2> HIDE DEF S
  <2>1. r \in S => <<r>> \in Seq(S)
    OBVIOUS
  <2> QED BY <1>1, <2>1, ConcatProperties
<1> QED BY <1>1, <1>2, <1>3, <1>4 DEF NextPage

\* What __map_region stores.
LEMMA StoreGood ==
  ASSUME Inv, NEW lev, NEW at, Tree(tbl, lev, at), ~Idle, hole = NoHole, AtLevel
  PROVE  /\ Store = None \/ PageEntry(lev, at, walk.frame, I, Store)
         /\ walk.frame \in DOMAIN tbl /\ I \in Index /\ walk.frame # Pgd
         /\ walk.level < 4 /\ lev[walk.frame] = walk.level
<1>1. /\ lev[walk.frame] = walk.level /\ I \in Index
      /\ Spot(lev, at, walk.frame, I) = Block(Now.at, walk.level)
  BY WalkFound
<1>2. /\ Now.level \in 1..3 /\ Block(Now.at, Now.level) = Now.at % KernPage
      /\ Block(Now.at, 1) = Now.at % KernPage
      /\ removal \/ Now.phys = Now.at % KernPage
  BY NowGood, PartStarts DEF Inv
<1>3. walk.level = 1 \/ walk.level = Now.level
  BY DEF AtLevel
<1>4. walk.level < 4 /\ Block(Now.at, walk.level) = Now.at % KernPage
  <2>1. CASE walk.level = 1
    <3>1. walk.level < 4
      BY <2>1
    <3>2. Block(Now.at, walk.level) = Block(Now.at, 1)
      BY <2>1
    <3> QED BY <1>2, <3>1, <3>2
  <2>2. CASE walk.level = Now.level
    <3>1. Now.level < 4
      BY <1>2
    <3> QED BY <1>2, <2>2, <3>1, Zenon
  <2> QED BY <1>3, <2>1, <2>2
<1>5. walk.frame # Pgd
  BY <1>1, <1>4 DEF Tree
<1>6. walk.frame \in DOMAIN tbl
  BY DEF Inv, Basic
<1> QED BY <1>1, <1>2, <1>4, <1>5, <1>6 DEF Store, PageEntry

\* __map_region stores an entry.
LEMMA WriteInv == Inv /\ Write => Inv'
<1> SUFFICES ASSUME Inv, Write PROVE Inv'
  OBVIOUS
<1>1. /\ ~Idle /\ hole = NoHole /\ AtLevel /\ tbl' = [tbl EXCEPT ![walk.frame][I] = Store] /\ NextPage
      /\ UNCHANGED <<hole, phase, kmaps, removal, limit, page1gb>>
  BY DEF Write, machine
<1>2. PICK lev, at : Tree(tbl, lev, at)
  BY DEF Inv
<1>3. /\ Store = None \/ PageEntry(lev, at, walk.frame, I, Store)
      /\ walk.frame \in DOMAIN tbl /\ I \in Index
  BY <1>1, <1>2, StoreGood
<1>4. DOMAIN tbl' = DOMAIN tbl /\ Tree(tbl', lev, at) /\ Once(tbl')
  <2>1. Once(tbl)
    BY DEF Inv
  <2> QED BY <1>1, <1>2, <1>3, <2>1, EntryChanged
<1>5. parts' \in Seq(PartsOf(removal')) /\ walk' = Root /\ asked' \in {asked, {}}
  BY <1>1, NextPageGood
<1>6. Basic'
  <2>1. Pgd \in DOMAIN tbl' /\ walk'.frame = Pgd /\ walk'.level = 4
    BY <1>4, <1>5 DEF Tree, Root
  <2> QED BY <1>1, <1>4, <1>5, <2>1 DEF Inv, Basic, Levels
<1> QED BY <1>1, <1>4, <1>5, <1>6 DEF Inv, WalkAt, HoleAt

\* u differs from t in entry i of table w, or in tables t has not.
OneChanged(t, u, w, i) == /\ \A h \in DOMAIN t : h # w => u[h] = t[h]
                          /\ \A j \in Index : j # i => u[w][j] = t[w][j]

\* v has what __map_region stores at the entry the walk has come to.
IsStored(v) == /\ DOMAIN v = DOMAIN tbl /\ OneChanged(tbl, v, walk.frame, I)
               /\ v[walk.frame][I] = Store

\* What it stores keeps the tables a tree.
LEMMA Stored ==
  ASSUME Inv, NEW lev, NEW at, Tree(tbl, lev, at), ~Idle, hole = NoHole, AtLevel
  PROVE  LET v == [tbl EXCEPT ![walk.frame][I] = Store]
         IN IsStored(v) /\ Tree(v, lev, at) /\ Once(v)
<1>1. /\ Store = None \/ PageEntry(lev, at, walk.frame, I, Store)
      /\ walk.frame \in DOMAIN tbl /\ I \in Index
  BY StoreGood
<1>2. Once(tbl)
  BY DEF Inv
<1> QED BY <1>1, <1>2, EntryChanged DEF IsStored, OneChanged

\* Shrink: the table that hung there is dropped, and nothing points to it any more.
LEMMA Shrunk ==
  ASSUME Inv, NEW lev, NEW at, Tree(tbl, lev, at), Shrink
  PROVE  LET v == [tbl EXCEPT ![walk.frame][I] = Store]
             g == Entry.at
         IN /\ g \in DOMAIN v \ {Pgd} /\ lev[g] = walk.level - 1 /\ Entry = Table(g)
            /\ \A f \in DOMAIN v, i \in Index : v[f][i].kind = "table" => v[f][i].at # g
            /\ DOMAIN tbl' = DOMAIN v \ {g} /\ \A h \in DOMAIN tbl' : tbl'[h] = v[h]
<1> DEFINE w == walk.frame
           g == Entry.at
           v == [tbl EXCEPT ![w][I] = Store]
           u == tbl'
<1>1. /\ ~Idle /\ hole = NoHole /\ AtLevel /\ walk.level > 1 /\ Entry.kind = "table"
      /\ u = Restrict(v, DOMAIN v \ {g})
  BY DEF Shrink, FreeTable
<1>3. /\ Store = None \/ PageEntry(lev, at, w, I, Store)
      /\ w \in DOMAIN tbl /\ I \in Index /\ w # Pgd /\ lev[w] = walk.level
  BY <1>1, StoreGood
<1>4. g \in DOMAIN tbl \ {Pgd} /\ Entry = tbl[w][I] /\ lev[g] = walk.level - 1 /\ Entry = Table(g)
  <2>1. Finds(tbl, lev, at, Now.at, walk.level, Entry)
    BY <1>1, WalkFound
  <2> QED BY <1>1, <2>1 DEF Finds, None, Page, Entry
<1>5. Once(tbl)
  BY DEF Inv
<1>6. IsStored(v)
  BY <1>1, Stored
<1>7. DOMAIN u = DOMAIN v \ {g} /\ \A h \in DOMAIN u : u[h] = v[h]
  <2> HIDE DEF v
  <2> QED BY <1>1 DEF Restrict
<1>8. Store.kind # "table"
  BY <1>3 DEF PageEntry, None, Page
<1> HIDE DEF v, u, w, g
<1>9. ASSUME NEW f \in DOMAIN v, NEW i \in Index, v[f][i].kind = "table" PROVE v[f][i].at # g
  <2>1. ~(f = w /\ i = I)
    BY <1>6, <1>8, <1>9 DEF IsStored, w
  <2>2. v[f][i] = tbl[f][i]
    BY <1>6, <2>1 DEF IsStored, OneChanged, w
  <2>3. tbl[w][I].kind = "table" /\ tbl[w][I].at = g
    BY <1>1, <1>4 DEF g
  <2>4. f \in DOMAIN tbl
    BY <1>6 DEF IsStored
  <2> QED BY <1>3, <1>5, <1>9, <2>1, <2>2, <2>3, <2>4 DEF Once
<1>10. DOMAIN v = DOMAIN tbl
  BY <1>6 DEF IsStored
<1> QED BY <1>4, <1>7, <1>9, <1>10 DEF v, u, w, g

\* __map_region stores a page where a table hung.
LEMMA ShrinkInv == Inv /\ Shrink => Inv'
<1> SUFFICES ASSUME Inv, Shrink PROVE Inv'
  OBVIOUS
<1> DEFINE g == Entry.at
           v == [tbl EXCEPT ![walk.frame][I] = Store]
           u == tbl'
<1>1. /\ ~Idle /\ hole = NoHole /\ AtLevel /\ NextPage
      /\ UNCHANGED <<hole, phase, kmaps, removal, limit, page1gb>>
  BY DEF Shrink, machine
<1>2. PICK lev, at : Tree(tbl, lev, at)
  BY DEF Inv
<1>3. IsStored(v) /\ Tree(v, lev, at) /\ Once(v)
  BY <1>1, <1>2, Stored
<1>4. /\ g \in DOMAIN v \ {Pgd}
      /\ \A f \in DOMAIN v, i \in Index : v[f][i].kind = "table" => v[f][i].at # g
      /\ DOMAIN u = DOMAIN v \ {g} /\ \A h \in DOMAIN u : u[h] = v[h]
  BY <1>2, Shrunk
<1> HIDE DEF v, u, g
<1>5. (\E l, b : Tree(u, l, b)) /\ Once(u)
  BY <1>3, <1>4, TableDropped
<1>6. parts' \in Seq(PartsOf(removal')) /\ walk' = Root /\ asked' \in {asked, {}}
  BY <1>1, NextPageGood
<1>7. Basic'
  <2>1. Pgd \in DOMAIN tbl' /\ walk'.frame = Pgd /\ walk'.level = 4
    BY <1>5, <1>6 DEF Tree, Root, u
  <2>2. DOMAIN tbl' \subseteq DOMAIN tbl
    BY <1>3, <1>4 DEF IsStored, u
  <2> QED BY <1>1, <1>6, <2>1, <2>2 DEF Inv, Basic, Levels
<1> QED BY <1>1, <1>5, <1>6, <1>7 DEF Inv, WalkAt, HoleAt, u

\* Every step keeps the invariant.
LEMMA NextInv == Inv /\ [Next]_vars => Inv'
<1> SUFFICES ASSUME Inv, [Next]_vars PROVE Inv'
  OBVIOUS
<1>1. CASE UNCHANGED vars
  BY <1>1 DEF vars, Inv, Basic, WalkAt, HoleAt, Idle, Now
<1>2. CASE Walk
  BY <1>2, DescendInv, NewTableInv, ExpandInv, FillInv, WriteInv, ShrinkInv DEF Walk
<1> QED BY <1>1, <1>2, MapKernelPageInv, TrampolineInv, ClearLowPageInv, KmapInv DEF Next

\* The tables are a tree, in which the walk follows the path of its page.
THEOREM Invariant == Spec => []Inv
BY InitInv, NextInv, PTL DEF Spec

\* The invariant has the types.
LEMMA InvTypeOK == Inv => TypeOK
<1> SUFFICES ASSUME Inv PROVE TypeOK
  OBVIOUS
<1>1. PICK lev, at : Tree(tbl, lev, at)
  BY DEF Inv
<1>2. ASSUME NEW f \in DOMAIN tbl PROVE tbl[f] \in [Index -> Entries]
  <2>1. tbl[f] = [i \in Index |-> tbl[f][i]]
    BY <1>1 DEF Tree
  <2>2. ASSUME NEW i \in Index PROVE tbl[f][i] \in Entries
    <3> DEFINE e == tbl[f][i]
    <3>1. EntryOK(tbl, lev, at, f, i, e)
      BY <1>1 DEF Tree
    <3>2. Spot(lev, at, f, i) \in Phys /\ 0 \in Phys
      <4>1. KernPage \in Nat \ {0}
        BY Covers
      <4> QED BY <1>1, <4>1, SpotFits DEF Phys
    <3>3. DOMAIN tbl \ {Pgd} \subseteq RamStart..limit - 1 \cup {Pud, Pmd}
      BY DEF Inv, Basic
    <3> DEFINE T == RamStart..limit - 1 \cup {Pud, Pmd}
               s == Spot(lev, at, f, i)
    <3>8. Entries = [kind : {"none", "page"}, at : Phys] \cup [kind : {"table"}, at : T]
      BY DEF Entries
    <3>7. e = None \/ e = Page(s) \/ (e = Table(e.at) /\ e.at \in T)
      BY <3>1, <3>3 DEF EntryOK, PageEntry, TableEntry
    <3> HIDE DEF e, T, s
    <3>4. e = None => e \in Entries
      BY <3>2, <3>8 DEF None
    <3>5. e = Page(s) => e \in Entries
      BY <3>2, <3>8 DEF Page, s
    <3>6. ASSUME e = Table(e.at), e.at \in T PROVE e \in Entries
      <4> DEFINE h == e.at
      <4>1. e = [kind |-> "table", at |-> h] /\ h \in T
        BY <3>6 DEF Table
      <4> HIDE DEF h
      <4> QED BY <3>8, <4>1
    <3> QED BY <3>7, <3>4, <3>5, <3>6 DEF e
  <2> QED BY <2>1, <2>2
<1>3. parts \in Seq(PartType)
  <2>1. PartsOf(removal) \subseteq PartType
    BY DEF PartsOf
  <2>2. parts \in Seq(PartsOf(removal))
    BY DEF Inv
  <2> DEFINE S == PartsOf(removal)
             T == PartType
  <2> HIDE DEF S, T
  <2>3. S \subseteq T /\ parts \in Seq(S)
    BY <2>1, <2>2 DEF S, T
  <2>4. parts \in Seq(T)
    BY <2>3
  <2> QED BY <2>4 DEF T
<1> QED BY <1>2, <1>3 DEF Inv, Basic, HoleAt, TypeOK

\* Every variable has its type: the tables of arch/x86_64/mm.c hold entries, and lie in
\* pages below the memory limit.
THEOREM TypeCorrect == Spec => []TypeOK
BY Invariant, InvTypeOK, PTL

\* The invariant has what NothingElseMapped says.
LEMMA InvDirect == Inv => DirectOrNothing
<1> SUFFICES ASSUME Inv, NEW p \in Phys
             PROVE  /\ Lookup(tbl, KernPage + p) \in {None, Page(p)}
                    /\ Lookup(tbl, p) \in {None, Page(p)}
  BY DEF DirectOrNothing
<1>1. PICK lev, at : Tree(tbl, lev, at)
  BY DEF Inv
<1>2. KernPage \in Nat \ {0} /\ Cover(1) = 1 /\ p \in Nat /\ p < KernPage
  BY Covers DEF Phys
<1>3. ASSUME NEW a \in 0..2 * KernPage - 1, a % KernPage = p
      PROVE  Lookup(tbl, a) \in {None, Page(p)}
  <2>1. 1 \in Levels
    BY DEF Levels
  <2>2. Finds(tbl, lev, at, a, 1, Look(tbl, a, 1))
    BY <1>1, <2>1, TreePath
  <2>3. Block(a, 1) = p
    <3>1. a % 1 = 0 /\ a - 0 = a
      OBVIOUS
    <3> QED BY <1>2, <1>3, <3>1 DEF Block
  <2> QED BY <2>2, <2>3, LookupIs DEF Finds
<1>4. p \in 0..2 * KernPage - 1 /\ KernPage + p \in 0..2 * KernPage - 1
  BY <1>2
<1>5. p % KernPage = p /\ (KernPage + p) % KernPage = p
  BY <1>2, <1>4, ModKern
<1> QED BY <1>3, <1>4, <1>5

\* pgdir_walk and expand_page (arch/x86_64/mm.c): whatever regions are mapped, one over
\* the other, with pages of any sizes, both halves show the page of the same number, or
\* nothing.
THEOREM NothingElseMapped == Spec => []DirectOrNothing
BY Invariant, InvDirect, PTL

-----------------------------------------------------------------------------
(* What a change of one entry does to the pages that are found.            *)

\* Once a look-up is past the tables, it stays with the page, or with nothing.
LEMMA LookDown ==
  ASSUME NEW t, NEW a
  PROVE  \A l \in Levels, m \in Levels :
           m <= l => /\ Look(t, a, l).kind = "page" => Look(t, a, m).kind = "page"
                     /\ Look(t, a, l).kind = "none" => Look(t, a, m).kind = "none"
                     /\ Look(t, a, m).kind = "table" => Look(t, a, l).kind = "table"
<1> DEFINE K(l) == Look(t, a, l).kind
           Page1(l) == K(l + 1) = "page" => K(l) = "page"
           None1(l) == K(l + 1) = "none" => K(l) = "none"
           Else1(l) == K(l) = "table" => K(l + 1) = "table"
<1>1. ASSUME NEW l \in 1..3 PROVE Page1(l) /\ None1(l) /\ Else1(l)
  <2>1. Look(t, a, l) = Below(t, a, l, Look(t, a, l + 1))
    BY Looks
  <2>2. \A up : /\ up.kind = "page" => Below(t, a, l, up).kind = "page"
                /\ up.kind = "none" => Below(t, a, l, up).kind = "none"
                /\ Below(t, a, l, up).kind = "table" => up.kind = "table"
    BY DEF Below, Within, Page, None
  <2> QED BY <2>1, <2>2
<1> HIDE DEF K
<1>2. \A l \in 1..3 : Page1(l) /\ None1(l) /\ Else1(l)
  BY <1>1
<1>3. \A l \in Levels : l = 1 \/ l = 2 \/ l = 3 \/ l = 4
  BY DEF Levels
<1>4. /\ (K(4) = "page" => K(3) = "page") /\ (K(3) = "page" => K(2) = "page") /\ (K(2) = "page" => K(1) = "page")
      /\ (K(4) = "none" => K(3) = "none") /\ (K(3) = "none" => K(2) = "none") /\ (K(2) = "none" => K(1) = "none")
      /\ (K(1) = "table" => K(2) = "table") /\ (K(2) = "table" => K(3) = "table") /\ (K(3) = "table" => K(4) = "table")
  <2>1. 1 \in 1..3 /\ 2 \in 1..3 /\ 3 \in 1..3 /\ 1 + 1 = 2 /\ 2 + 1 = 3 /\ 3 + 1 = 4
    OBVIOUS
  <2> QED BY <1>2, <2>1
<1>5. \A l \in Levels, m \in Levels :
        m <= l => (K(l) = "page" => K(m) = "page") /\ (K(l) = "none" => K(m) = "none")
                  /\ (K(m) = "table" => K(l) = "table")
  <2> SUFFICES ASSUME NEW l \in Levels, NEW m \in Levels, m <= l
               PROVE  (K(l) = "page" => K(m) = "page") /\ (K(l) = "none" => K(m) = "none")
                      /\ (K(m) = "table" => K(l) = "table")
    OBVIOUS
  <2> QED BY <1>3, <1>4
<1> QED BY <1>5 DEF K

\* The table w is on the way to the page a.
OnPath(t, lev, a, w) == w = Pgd \/ Look(t, a, lev[w] + 1) = Table(w)

\* u has the entries of t on the way to a.
PathAgrees(t, u, lev, a) ==
  \A h \in DOMAIN t : OnPath(t, lev, a, h) => u[h][Idx(a, lev[h])] = t[h][Idx(a, lev[h])]

\* Walks that agree down to a level.
LEMMA LookAgrees ==
  ASSUME NEW t, NEW lev, NEW at, Tree(t, lev, at), NEW a \in 0..2 * KernPage - 1, NEW u,
         PathAgrees(t, u, lev, a)
  PROVE  \A l \in Levels : Look(u, a, l) = Look(t, a, l)
<1> DEFINE Same(l) == Look(u, a, l) = Look(t, a, l)
<1>1. Same(4)
  <2>1. Pgd \in DOMAIN t /\ lev[Pgd] = 4
    BY DEF Tree
  <2> QED BY <2>1, Looks DEF PathAgrees, OnPath
<1>2. ASSUME NEW l \in 1..3, Same(l + 1) PROVE Same(l)
  <2> DEFINE up == Look(t, a, l + 1)
  <2>1. l + 1 \in Levels /\ (l + 1) - 1 = l
    BY DEF Levels
  <2>2. Finds(t, lev, at, a, l + 1, up)
    BY <2>1, TreePath
  <2>3. Look(u, a, l) = Below(u, a, l, up) /\ Look(t, a, l) = Below(t, a, l, up)
    BY <1>2, Looks
  <2>4. up = Look(t, a, l + 1)
    OBVIOUS
  <2> HIDE DEF up
  <2>5. up.kind = "table" => up.at \in DOMAIN t /\ lev[up.at] = l /\ up = Table(up.at)
    BY <2>1, <2>2 DEF Finds, None, Page
  <2>6. up.kind = "table" => u[up.at][Idx(a, l)] = t[up.at][Idx(a, l)]
    <3> SUFFICES ASSUME up.kind = "table" PROVE u[up.at][Idx(a, l)] = t[up.at][Idx(a, l)]
      OBVIOUS
    <3>1. OnPath(t, lev, a, up.at)
      BY <2>4, <2>5 DEF OnPath
    <3> QED BY <2>5, <3>1 DEF PathAgrees
  <2> QED BY <2>3, <2>6 DEF Below
<1> HIDE DEF Same
<1>3. Same(3)
  BY <1>1, <1>2
<1>4. Same(2)
  BY <1>2, <1>3
<1>5. Same(1)
  BY <1>2, <1>4
<1>6. \A l \in Levels : l = 1 \/ l = 2 \/ l = 3 \/ l = 4
  BY DEF Levels
<1> QED BY <1>1, <1>3, <1>4, <1>5, <1>6 DEF Same

\* What is found at the level of a table on the way is its entry, and stands for the block.
LEMMA LookThrough ==
  ASSUME NEW t, NEW lev, NEW at, Tree(t, lev, at), NEW a \in 0..2 * KernPage - 1,
         NEW w \in DOMAIN t, OnPath(t, lev, a, w), NEW u, AgreeAbove(t, u, lev, lev[w])
  PROVE  /\ Look(u, a, lev[w]) = u[w][Idx(a, lev[w])]
         /\ \A l \in Levels : l > lev[w] => Look(u, a, l) = Look(t, a, l)
         /\ Spot(lev, at, w, Idx(a, lev[w])) = Block(a, lev[w])
<1> DEFINE k == lev[w]
<1>1. k \in Levels
  BY DEF Tree
<1>2. \A l \in Levels : l > k => Look(u, a, l) = Look(t, a, l)
  BY <1>1, LookAbove
<1>3. CASE w = Pgd
  <2>1. k = 4 /\ ~(k < 4)
    BY <1>3 DEF Tree
  <2>2. Look(u, a, 4) = u[Pgd][Idx(a, 4)]
    BY Looks
  <2>3. Spot(lev, at, w, Idx(a, k)) = Block(a, k)
    BY <1>1, <2>1, EntryFound
  <2> QED BY <1>2, <1>3, <2>1, <2>2, <2>3
<1>4. CASE w # Pgd
  <2>1. k \in 1..3 /\ k + 1 \in Levels /\ k + 1 > k /\ (k + 1) - 1 = k
    BY <1>1, <1>4 DEF Tree, Levels
  <2>2. Look(t, a, k + 1) = Table(w)
    BY <1>4 DEF OnPath
  <2>3. Look(u, a, k + 1) = Table(w)
    BY <1>2, <2>1, <2>2
  <2>4. Look(u, a, k) = Below(u, a, k, Table(w))
    BY <2>1, <2>3, Looks
  <2>5. Below(u, a, k, Table(w)) = u[w][Idx(a, k)]
    BY DEF Below, Table
  <2>6. Finds(t, lev, at, a, k + 1, Table(w))
    BY <2>1, <2>2, TreePath
  <2>7. at[w] = Block(a, k + 1)
    <3> DEFINE e == Table(w)
    <3>1. e # None /\ e # Page(Block(a, k + 1)) /\ e.at = w
      BY DEF None, Page, Table
    <3>2. Finds(t, lev, at, a, k + 1, e)
      BY <2>6
    <3> HIDE DEF e
    <3>3. at[e.at] = Block(a, k + 1)
      BY <3>1, <3>2, Zenon DEF Finds
    <3> QED BY <3>1, <3>3
  <2>8. Spot(lev, at, w, Idx(a, k)) = Block(a, k)
    BY <1>1, <2>7, EntryFound
  <2> QED BY <1>2, <2>4, <2>5, <2>8
<1> QED BY <1>3, <1>4

\* A page whose way leads through that entry.
Through(t, lev, a, w, i) == OnPath(t, lev, a, w) /\ Idx(a, lev[w]) = i

\* A change of one entry shows only on the ways that lead through it.
LEMMA EntryEffect ==
  ASSUME NEW t, NEW lev, NEW at, Tree(t, lev, at), NEW a \in 0..2 * KernPage - 1,
         NEW w \in DOMAIN t, NEW i \in Index, NEW u, OneChanged(t, u, w, i)
  PROVE  /\ ~Through(t, lev, a, w, i) => \A l \in Levels : Look(u, a, l) = Look(t, a, l)
         /\ Through(t, lev, a, w, i) =>
              /\ \A l \in Levels : l > lev[w] => Look(u, a, l) = Look(t, a, l)
              /\ Look(u, a, lev[w]) = u[w][i] /\ Look(t, a, lev[w]) = t[w][i]
              /\ Spot(lev, at, w, i) = Block(a, lev[w])
<1>1. ASSUME ~Through(t, lev, a, w, i) PROVE \A l \in Levels : Look(u, a, l) = Look(t, a, l)
  <2>1. ASSUME NEW h \in DOMAIN t, OnPath(t, lev, a, h)
        PROVE  u[h][Idx(a, lev[h])] = t[h][Idx(a, lev[h])]
    <3>1. CASE h # w
      BY <3>1 DEF OneChanged
    <3>2. CASE h = w
      <4>1. Idx(a, lev[w]) # i
        BY <1>1, <2>1, <3>2 DEF Through
      <4>2. Idx(a, lev[w]) \in Index
        BY Blocks DEF Tree
      <4> QED BY <3>2, <4>1, <4>2 DEF OneChanged
    <3> QED BY <3>1, <3>2
  <2>2. PathAgrees(t, u, lev, a)
    BY <2>1 DEF PathAgrees
  <2> QED BY <2>2, LookAgrees
<1>2. ASSUME Through(t, lev, a, w, i)
      PROVE  /\ \A l \in Levels : l > lev[w] => Look(u, a, l) = Look(t, a, l)
             /\ Look(u, a, lev[w]) = u[w][i] /\ Look(t, a, lev[w]) = t[w][i]
             /\ Spot(lev, at, w, i) = Block(a, lev[w])
  <2>1. OnPath(t, lev, a, w) /\ Idx(a, lev[w]) = i
    BY <1>2 DEF Through
  <2>2. AgreeAbove(t, t, lev, lev[w])
    BY DEF AgreeAbove
  <2>3. AgreeAbove(t, u, lev, lev[w])
    <3>1. ASSUME NEW h \in DOMAIN t, lev[h] > lev[w] PROVE u[h] = t[h]
      <4>1. h # w
        BY <3>1 DEF Tree, Levels
      <4> QED BY <4>1 DEF OneChanged
    <3> QED BY <3>1 DEF AgreeAbove
  <2>4. /\ Look(u, a, lev[w]) = u[w][Idx(a, lev[w])]
        /\ \A l \in Levels : l > lev[w] => Look(u, a, l) = Look(t, a, l)
        /\ Spot(lev, at, w, Idx(a, lev[w])) = Block(a, lev[w])
    BY <2>1, <2>3, LookThrough
  <2>5. Look(t, a, lev[w]) = t[w][Idx(a, lev[w])]
    BY <2>1, <2>2, LookThrough
  <2> QED BY <2>1, <2>4, <2>5
<1> QED BY <1>1, <1>2

\* A table on the way to a page hangs somewhere.
LEMMA LinkOf ==
  ASSUME NEW t, NEW lev, NEW at, Tree(t, lev, at), NEW a \in 0..2 * KernPage - 1,
         NEW l \in Levels, Look(t, a, l).kind = "table"
  PROVE  /\ \E f \in DOMAIN t, i \in Index : t[f][i] = Look(t, a, l) /\ lev[f] = l
         /\ l > 1 /\ Look(t, a, l) = Table(Look(t, a, l).at)
         /\ Look(t, a, l).at \in DOMAIN t \ {Pgd} /\ lev[Look(t, a, l).at] = l - 1
<1> DEFINE e == Look(t, a, l)
<1>1. Idx(a, l) \in Index
  BY Blocks
<1>2. CASE l = 4
  <2>1. e = t[Pgd][Idx(a, 4)] /\ Pgd \in DOMAIN t /\ lev[Pgd] = 4
    BY <1>2, Looks DEF Tree
  <2>2. Finds(t, lev, at, a, l, e)
    BY TreePath
  <2> HIDE DEF e
  <2>3. l > 1 /\ e = Table(e.at) /\ e.at \in DOMAIN t \ {Pgd} /\ lev[e.at] = l - 1
    <3>1. e.kind = "table"
      BY DEF e
    <3> QED BY <2>2, <3>1 DEF Finds, None, Page
  <2> QED BY <1>1, <1>2, <2>1, <2>3 DEF e
<1>3. CASE l # 4
  <2> DEFINE up == Look(t, a, l + 1)
  <2>1. l \in 1..3 /\ l + 1 \in Levels /\ (l + 1) - 1 = l
    BY <1>3 DEF Levels
  <2>2. e = Below(t, a, l, up)
    BY <2>1, Looks
  <2>3. Finds(t, lev, at, a, l + 1, up) /\ Finds(t, lev, at, a, l, e) /\ e.kind = "table"
    BY <2>1, TreePath
  <2> HIDE DEF e, up
  <2>4. up.kind = "table"
    BY <2>2, <2>3 DEF Below, Within, Page, None
  <2>5. up.at \in DOMAIN t /\ lev[up.at] = l
    BY <2>1, <2>3, <2>4 DEF Finds, None, Page
  <2>6. e = t[up.at][Idx(a, l)]
    BY <2>2, <2>4 DEF Below
  <2>7. l > 1 /\ e = Table(e.at) /\ e.at \in DOMAIN t \ {Pgd} /\ lev[e.at] = l - 1
    BY <2>3 DEF Finds, None, Page
  <2> QED BY <1>1, <2>5, <2>6, <2>7 DEF e
<1> QED BY <1>2, <1>3

\* The quotient and the remainder of a number written with both.
LEMMA Quotient ==
  ASSUME NEW n \in Nat \ {0}, NEW q \in Nat, NEW r \in 0..n - 1
  PROVE  (q * n + r) \div n = q /\ (q * n + r) % n = r
<1> DEFINE a == q * n + r
<1>1. a \in Nat /\ a = q * n + r
  <2>1. q * n \in Nat /\ r \in Nat
    OBVIOUS
  <2> QED BY <2>1
<1> HIDE DEF a
<1>2. a \div n = q /\ a % n = r
  BY <1>1, DivisionIs
<1> QED BY <1>2 DEF a

\* Pages with the same entries from a level up are looked up alike down to it.
LEMMA LookSame ==
  ASSUME NEW t, NEW a, NEW b, NEW l \in Levels,
         \A m \in Levels : m >= l => Idx(a, m) = Idx(b, m)
  PROVE  \A m \in Levels : m >= l => Look(t, a, m) = Look(t, b, m)
<1> DEFINE Same(m) == m >= l => Look(t, a, m) = Look(t, b, m)
<1>1. Same(4)
  <2>1. 4 \in Levels /\ 4 >= l
    BY DEF Levels
  <2> QED BY <2>1, Looks
<1>2. ASSUME NEW m \in 1..3, Same(m + 1) PROVE Same(m)
  <2> SUFFICES ASSUME m >= l PROVE Look(t, a, m) = Look(t, b, m)
    OBVIOUS
  <2>1. m \in Levels /\ m + 1 >= l
    BY DEF Levels
  <2>2. Idx(a, m) = Idx(b, m) /\ Look(t, a, m + 1) = Look(t, b, m + 1)
    BY <1>2, <2>1
  <2>3. Look(t, a, m) = Below(t, a, m, Look(t, a, m + 1))
        /\ Look(t, b, m) = Below(t, b, m, Look(t, b, m + 1))
    BY Looks
  <2> QED BY <2>2, <2>3 DEF Below
<1> HIDE DEF Same
<1>3. Same(3)
  BY <1>1, <1>2
<1>4. Same(2)
  BY <1>2, <1>3
<1>5. Same(1)
  BY <1>2, <1>4
<1>6. \A m \in Levels : m = 1 \/ m = 2 \/ m = 3 \/ m = 4
  BY DEF Levels
<1> QED BY <1>1, <1>3, <1>4, <1>5, <1>6 DEF Same

\* Pages of one block have the same entries from its level up.
LEMMA SameBlock ==
  ASSUME NEW a \in Nat, NEW b \in Nat, NEW l \in Levels, a \div Cover(l) = b \div Cover(l)
  PROVE  \A m \in Levels : m >= l => a \div Cover(m) = b \div Cover(m) /\ Idx(a, m) = Idx(b, m)
<1> DEFINE Q(m) == m >= l => a \div Cover(m) = b \div Cover(m)
<1>1. ASSUME NEW m \in 1..3, Q(m) PROVE Q(m + 1)
  <2>1. m \in Levels /\ m + 1 \in Levels /\ Cover(m + 1) = E * Cover(m) /\ Cover(m) \in Nat \ {0}
        /\ E \in Nat \ {0}
    BY Covers DEF Levels
  <2> DEFINE n == Cover(m)
  <2>2. n \in Nat \ {0}
    BY <2>1
  <2> HIDE DEF n
  <2>3. a \div (E * n) = (a \div n) \div E /\ b \div (E * n) = (b \div n) \div E
    BY <2>1, <2>2, NestedBlocks
  <2>4. a \div Cover(m + 1) = (a \div Cover(m)) \div E /\ b \div Cover(m + 1) = (b \div Cover(m)) \div E
    BY <2>1, <2>3 DEF n
  <2>5. CASE m >= l
    <3>1. a \div Cover(m) = b \div Cover(m)
      BY <1>1, <2>5
    <3> QED BY <2>4, <3>1
  <2>6. CASE ~(m >= l)
    <3>1. m + 1 >= l => m + 1 = l
      BY <2>1, <2>6 DEF Levels
    <3> QED BY <3>1
  <2> QED BY <2>5, <2>6
<1>2. Q(1)
  <2>1. 1 >= l => l = 1
    BY DEF Levels
  <2> QED BY <2>1
<1> HIDE DEF Q
<1>3. Q(2)
  <2>1. 1 \in 1..3 /\ 1 + 1 = 2
    OBVIOUS
  <2> QED BY <1>1, <1>2, <2>1
<1>4. Q(3)
  <2>1. 2 \in 1..3 /\ 2 + 1 = 3
    OBVIOUS
  <2> QED BY <1>1, <1>3, <2>1
<1>5. Q(4)
  <2>1. 3 \in 1..3 /\ 3 + 1 = 4
    OBVIOUS
  <2> QED BY <1>1, <1>4, <2>1
<1>6. \A m \in Levels : m = 1 \/ m = 2 \/ m = 3 \/ m = 4
  BY DEF Levels
<1>7. \A m \in Levels : Q(m)
  BY <1>2, <1>3, <1>4, <1>5, <1>6
<1> QED BY <1>7 DEF Q, Idx

\* The pages of a block that starts at a.
LEMMA PagesOfBlock ==
  ASSUME NEW l \in Levels, NEW k \in Nat, NEW a, a = k * Cover(l), NEW b \in a..a + Cover(l) - 1
  PROVE  a \in Nat /\ b \in Nat /\ b \div Cover(l) = a \div Cover(l)
<1> DEFINE n == Cover(l)
<1>1. n \in Nat \ {0}
  BY Covers
<1> HIDE DEF n
<1>2. a = k * n /\ b \in a..a + n - 1
  BY DEF n
<1>3. k * n \in Nat
  BY <1>1
<1> DEFINE c == k * n
           r == b - c
           z == 0
<1>4. a = c /\ c \in Nat /\ b \in Nat /\ r \in 0..n - 1 /\ b = k * n + r /\ a = k * n + z /\ z \in 0..n - 1
  <2> HIDE DEF r
  <2>1. a = c /\ c \in Nat /\ b \in c..c + n - 1
    BY <1>2, <1>3
  <2> HIDE DEF c
  <2>2. b \in Nat /\ b - c \in 0..n - 1 /\ b = c + (b - c) /\ a = c + 0 /\ 0 \in 0..n - 1
    BY <1>1, <2>1
  <2> QED BY <2>1, <2>2 DEF r, c
<1> HIDE DEF r, c, z
<1>5. b \div n = k
  BY <1>1, <1>4, DivisionIs, Zenon
<1>6. a \div n = k
  <2>1. a \in Nat /\ a = k * n + z /\ z \in 0..n - 1
    BY <1>4
  <2> QED BY <1>1, <2>1, DivisionIs, Zenon
<1> QED BY <1>4, <1>5, <1>6 DEF n

\* While the first entry of the kernel half is that of the low half, the halves are alike.
LEMMA HalvesAlike ==
  ASSUME NEW t, t[Pgd][0] = t[Pgd][E \div 2], NEW p \in 0..Cover(4) - 1
  PROVE  /\ \A l \in Levels : Look(t, KernPage + p, l) = Look(t, p, l)
         /\ Idx(p, 4) = 0 /\ Idx(KernPage + p, 4) = E \div 2
<1> DEFINE h == E \div 2
           a == KernPage + p
           Same(l) == Look(t, a, l) = Look(t, p, l)
<1>1. /\ E \in Nat \ {0, 1} /\ h \in Nat \ {0} /\ E = 2 * h /\ p \in Nat /\ KernPage \in Nat /\ a \in Nat
      /\ \A l \in Levels : Cover(l) \in Nat \ {0}
      /\ KernPage = h * Cover(4)
  <2>1. E % 2 = 0 /\ E \in Nat \ {0, 1}
    BY EAssumption
  <2>2. Cover(4) \in Nat \ {0}
    BY Covers DEF Levels
  <2>3. p \in Nat
    BY <2>2
  <2> QED BY <2>1, <2>3, Covers DEF KernPage
<1> HIDE DEF h
<1>2. p \div Cover(4) = 0 /\ a \div Cover(4) = h
  <2> DEFINE n == Cover(4)
             z == 0
  <2>1. n \in Nat \ {0}
    BY Covers DEF Levels
  <2> HIDE DEF n
  <2>2. p \in 0..n - 1 /\ a = h * n + p /\ p = z * n + p
    BY <1>1, <2>1 DEF n
  <2> HIDE DEF a
  <2>3. z \in Nat
    OBVIOUS
  <2> HIDE DEF z
  <2>4. p \div n = z
    BY <2>1, <2>2, <2>3, Quotient, Zenon
  <2>5. a \div n = h
    <3>1. a \in Nat
      BY <1>1 DEF a
    <3> QED BY <1>1, <2>1, <2>2, <3>1, DivisionIs, Zenon
  <2> QED BY <2>4, <2>5 DEF n, z, a
<1>3. Idx(p, 4) = 0 /\ Idx(a, 4) = h
  <2>1. 0 % E = 0 /\ h % E = h
    <3>1. h < E /\ h \in 0..E - 1
      BY <1>1
    <3>2. h = 0 * E + h /\ 0 = 0 * E + 0 /\ 0 \in 0..E - 1 /\ 0 \in Nat
      BY <1>1
    <3> DEFINE z == 0
    <3>3. h = z * E + h /\ z = z * E + z /\ z \in 0..E - 1 /\ z \in Nat /\ E \in Nat \ {0}
      BY <1>1, <3>2
    <3> HIDE DEF z
    <3>4. h % E = h
      BY <3>1, <3>3, Quotient, Zenon
    <3>5. z % E = z
      BY <3>3, Quotient, Zenon
    <3> QED BY <3>4, <3>5 DEF z
  <2> QED BY <1>2, <2>1 DEF Idx
<1>4. ASSUME NEW l \in 1..3 PROVE Idx(a, l) = Idx(p, l)
  <2>1. PICK m \in Nat : KernPage = (m * E) * Cover(l)
    <3>1. Cover(4) = E * Cover(3) /\ Cover(3) = E * Cover(2) /\ Cover(2) = E * Cover(1)
      <4>1. 1 \in 1..3 /\ 2 \in 1..3 /\ 3 \in 1..3 /\ 1 + 1 = 2 /\ 2 + 1 = 3 /\ 3 + 1 = 4
        OBVIOUS
      <4> QED BY <4>1, Covers
    <3> DEFINE c1 == Cover(1)
               c2 == Cover(2)
               c3 == Cover(3)
    <3>2. c1 \in Nat /\ c2 \in Nat /\ c3 \in Nat
      BY <1>1 DEF Levels
    <3>3. KernPage = h * (E * c3) /\ c3 = E * c2 /\ c2 = E * c1
      BY <1>1, <3>1
    <3> HIDE DEF c1, c2, c3
    <3>4. CASE l = 3
      <4>1. KernPage = (h * E) * c3
        BY <1>1, <3>2, <3>3
      <4> QED BY <1>1, <3>4, <4>1 DEF c3
    <3>5. CASE l = 2
      <4>1. h * E \in Nat
        BY <1>1
      <4>2. KernPage = (h * E) * c3 /\ c3 = E * c2
        BY <1>1, <3>2, <3>3
      <4> DEFINE g == h * E
      <4>3. g \in Nat /\ KernPage = g * (E * c2)
        BY <4>1, <4>2
      <4> HIDE DEF g
      <4>4. KernPage = (g * E) * c2
        BY <1>1, <3>2, <4>3
      <4> QED BY <3>5, <4>3, <4>4 DEF c2
    <3>6. CASE l = 1
      <4>1. h * E \in Nat
        BY <1>1
      <4>2. KernPage = (h * E) * c3 /\ c3 = E * c2
        BY <1>1, <3>2, <3>3
      <4> DEFINE g == h * E
      <4>3. g \in Nat /\ KernPage = g * (E * c2)
        BY <4>1, <4>2
      <4> HIDE DEF g
      <4> DEFINE k == g * E
      <4>4. k \in Nat /\ KernPage = k * c2
        BY <1>1, <3>2, <4>3
      <4> HIDE DEF k
      <4>5. KernPage = (k * E) * c1
        BY <1>1, <3>2, <3>3, <4>4
      <4> QED BY <3>6, <4>4, <4>5 DEF c1
    <3> QED BY <3>4, <3>5, <3>6
  <2> DEFINE n == Cover(l)
             q == p \div n
             r == p % n
             g == m * E
  <2>2. n \in Nat \ {0} /\ g \in Nat
    BY <1>1 DEF Levels
  <2>3. q \in Nat /\ r \in 0..n - 1 /\ p = q * n + r
    <3> HIDE DEF n
    <3> QED BY <1>1, <2>2, Division
  <2>4. KernPage = g * n
    BY <2>1
  <2> HIDE DEF n, q, r, g
  <2>5. a = (g + q) * n + r /\ g + q \in Nat
    <3>1. (g + q) * n = g * n + q * n
      BY <2>2, <2>3
    <3>2. g * n \in Nat /\ q * n \in Nat
      BY <2>2, <2>3
    <3> QED BY <2>2, <2>3, <2>4, <3>1, <3>2
  <2>6. a \div n = g + q
    <3> DEFINE s == g + q
    <3>1. s \in Nat /\ a = s * n + r /\ a \in Nat
      BY <1>1, <2>5
    <3> HIDE DEF s, a
    <3>2. a \div n = s
      BY <2>2, <2>3, <3>1, DivisionIs, Zenon
    <3> QED BY <3>2 DEF s
  <2>7. (g + q) % E = q % E
    <3> DEFINE u == q \div E
               v == q % E
    <3>1. u \in Nat /\ v \in 0..E - 1 /\ q = u * E + v
      BY <1>1, <2>3, Division, ZenonT(30)
    <3> HIDE DEF u, v
    <3>2. g + q = (m + u) * E + v /\ m + u \in Nat /\ g + q \in Nat
      <4>1. (m + u) * E = m * E + u * E /\ m * E \in Nat /\ u * E \in Nat
        BY <1>1, <3>1
      <4> QED BY <1>1, <2>2, <2>3, <3>1, <4>1 DEF g
    <3> DEFINE s == g + q
               w == m + u
    <3>3. s \in Nat /\ w \in Nat /\ s = w * E + v /\ E \in Nat \ {0}
      BY <1>1, <3>2
    <3> HIDE DEF s, w
    <3>4. s % E = v
      BY <3>1, <3>3, Quotient, Zenon
    <3> QED BY <3>4 DEF s, v
  <2> QED BY <2>6, <2>7 DEF Idx, n, q
<1> HIDE DEF a
<1>5. Same(4)
  <2>1. t[Pgd][Idx(a, 4)] = t[Pgd][Idx(p, 4)]
    BY <1>3 DEF h
  <2> QED BY <2>1, Looks
<1>6. ASSUME NEW l \in 1..3, Same(l + 1) PROVE Same(l)
  <2>1. Idx(a, l) = Idx(p, l) /\ Look(t, a, l + 1) = Look(t, p, l + 1)
    BY <1>4, <1>6
  <2>2. Look(t, a, l) = Below(t, a, l, Look(t, a, l + 1))
        /\ Look(t, p, l) = Below(t, p, l, Look(t, p, l + 1))
    BY Looks
  <2> QED BY <2>1, <2>2 DEF Below
<1> HIDE DEF Same
<1>7. Same(3)
  BY <1>5, <1>6
<1>8. Same(2)
  BY <1>6, <1>7
<1>9. Same(1)
  BY <1>6, <1>8
<1>10. \A l \in Levels : l = 1 \/ l = 2 \/ l = 3 \/ l = 4
  BY DEF Levels
<1>11. \A l \in Levels : Same(l)
  BY <1>5, <1>7, <1>8, <1>9, <1>10
<1> QED BY <1>3, <1>11 DEF Same, a, h

\* A table nothing points to any more is missed by nobody.
LEMMA LookDropped ==
  ASSUME NEW t, NEW lev, NEW at, Tree(t, lev, at), NEW g \in DOMAIN t \ {Pgd},
         \A f \in DOMAIN t, i \in Index : t[f][i] # Table(g),
         NEW u, \A h \in DOMAIN t : h # g => u[h] = t[h], NEW a \in 0..2 * KernPage - 1
  PROVE  \A l \in Levels : Look(u, a, l) = Look(t, a, l)
<1>1. ASSUME NEW h \in DOMAIN t, OnPath(t, lev, a, h)
      PROVE  u[h][Idx(a, lev[h])] = t[h][Idx(a, lev[h])]
  <2>1. CASE h = Pgd
    BY <2>1
  <2>2. CASE h # Pgd
    <3>1. Look(t, a, lev[h] + 1) = Table(h) /\ lev[h] + 1 \in Levels /\ Table(h).kind = "table"
      BY <1>1, <2>2 DEF OnPath, Tree, Levels, Table
    <3>2. \E f \in DOMAIN t, i \in Index : t[f][i] = Table(h)
      BY <3>1, LinkOf
    <3>3. h # g
      BY <3>2
    <3> QED BY <3>3
  <2> QED BY <2>1, <2>2
<1>2. PathAgrees(t, u, lev, a)
  BY <1>1 DEF PathAgrees
<1> QED BY <1>2, LookAgrees

\* A page of the direct mapping.
LEMMA MappedIs ==
  ASSUME NEW t
  PROVE  \A p : p \in Mapped(t) <=> p \in Phys /\ Look(t, KernPage + p, 1).kind = "page"
BY LookupIs DEF Mapped

\* A page of the direct mapping has its address in the upper half.
LEMMA KernHalf ==
  ASSUME NEW p \in Phys
  PROVE  KernPage + p \in 0..2 * KernPage - 1
BY Covers DEF Phys
-----------------------------------------------------------------------------
(* What a step does to the direct mapping.                                 *)

\* A page lies in its own block.
LEMMA OwnBlock ==
  ASSUME NEW p \in Phys, NEW l \in Levels
  PROVE  LET b == Block(KernPage + p, l)
         IN b \in Nat /\ b <= p /\ p < b + Cover(l) /\ b + Cover(l) <= KernPage
<1> DEFINE n == Cover(l)
           a == KernPage + p
           q == a \div n
           r == a % n
<1>1. /\ n \in Nat \ {0} /\ KernPage \in Nat \ {0} /\ p \in 0..KernPage - 1 /\ a \in 0..2 * KernPage - 1
      /\ a \in Nat
  BY Covers, KernHalf DEF Phys
<1>2. PICK k \in Nat : KernPage = k * n
  <2> DEFINE h == E \div 2
             c1 == Cover(1)
             c2 == Cover(2)
             c3 == Cover(3)
             c4 == Cover(4)
  <2>1. h \in Nat /\ E \in Nat /\ KernPage = h * c4
    BY EAssumption DEF KernPage
  <2>2. c4 = E * c3 /\ c3 = E * c2 /\ c2 = E * c1 /\ c1 \in Nat /\ c2 \in Nat /\ c3 \in Nat
    <3>1. 1 \in 1..3 /\ 2 \in 1..3 /\ 3 \in 1..3 /\ 1 + 1 = 2 /\ 2 + 1 = 3 /\ 3 + 1 = 4
      OBVIOUS
    <3> QED BY <3>1, Covers DEF Levels
  <2> HIDE DEF h, c1, c2, c3, c4
  <2>3. h * E \in Nat /\ KernPage = (h * E) * c3
    BY <2>1, <2>2
  <2> DEFINE i == h * E
  <2>4. i * E \in Nat /\ KernPage = (i * E) * c2
    <3>1. i \in Nat /\ KernPage = i * (E * c2)
      BY <2>2, <2>3
    <3> HIDE DEF i
    <3> QED BY <2>1, <2>2, <3>1
  <2> DEFINE j == i * E
  <2>5. j * E \in Nat /\ KernPage = (j * E) * c1
    <3>1. j \in Nat /\ KernPage = j * (E * c1)
      BY <2>2, <2>4
    <3> HIDE DEF i, j
    <3> QED BY <2>1, <2>2, <3>1
  <2> HIDE DEF i, j
  <2>6. l = 1 \/ l = 2 \/ l = 3 \/ l = 4
    BY DEF Levels
  <2>7. CASE l = 4
    BY <2>1, <2>7 DEF c4
  <2>8. CASE l = 3
    BY <2>3, <2>8 DEF c3, i
  <2>9. CASE l = 2
    BY <2>4, <2>9 DEF c2, j
  <2>10. CASE l = 1
    BY <2>5, <2>10 DEF c1
  <2> QED BY <2>6, <2>7, <2>8, <2>9, <2>10
<1> HIDE DEF n
<1>3. q \in Nat /\ r \in 0..n - 1 /\ a = q * n + r /\ a - r = q * n
  <2> HIDE DEF a
  <2> QED BY <1>1, Division
<1>4. KernPage <= q * n
  <2> HIDE DEF q, r
  <2>1. k * n < q * n + n /\ k \in Nat
    <3>1. q * n \in Nat /\ KernPage <= a
      BY <1>1, <1>3
    <3> QED BY <1>1, <1>2, <1>3, <3>1
  <2>2. k <= q
    BY <1>1, <1>3, <2>1, Times
  <2>3. k * n <= q * n
    BY <1>1, <1>3, <2>2, Times
  <2> QED BY <1>2, <2>3
<1> DEFINE s == q * n
<1>5. s \in Nat /\ a = s + r /\ KernPage <= s /\ a - r = s
  <2>1. q * n \in Nat
    BY <1>1, <1>3
  <2> QED BY <1>3, <1>4, <2>1
<1> HIDE DEF q, s
<1>6. s % KernPage = s - KernPage
  <2>1. s \in 0..2 * KernPage - 1
    <3> HIDE DEF a, r
    <3> QED BY <1>1, <1>3, <1>5
  <2> QED BY <1>1, <1>5, <2>1, ModKern
<1>7. Block(a, l) = s - KernPage
  BY <1>5, <1>6 DEF Block, n
<1>8. Block(a, l) + Cover(l) <= KernPage
  <2> HIDE DEF a
  <2> QED BY <1>1, Blocks
<1> HIDE DEF r
<1>9. s - KernPage \in Nat /\ s - KernPage <= p /\ p < (s - KernPage) + n
  BY <1>1, <1>3, <1>5 DEF a
<1> QED BY <1>7, <1>8, <1>9 DEF n, a

\* An entry that was none, or a page, becomes a table of such entries.
LEMMA LinkShows ==
  ASSUME Inv, NEW lev, NEW at, Tree(tbl, lev, at), ~Idle, hole = NoHole, walk.level > 1,
         NEW k \in {"none", "page"}, Entry.kind = k, NEW f, NEW u,
         OneChanged(tbl, u, walk.frame, I), u[walk.frame][I] = Table(f),
         \A i \in Index : u[f][i].kind = k
  PROVE  Mapped(u) = Mapped(tbl)
<1> DEFINE w == walk.frame
           n == walk.level
<1>1. w \in DOMAIN tbl /\ I \in Index /\ lev[w] = n /\ n \in 2..4 /\ Entry = tbl[w][I]
  BY WalkFound DEF Inv, Basic, Levels, Entry
<1> HIDE DEF w, n
<1>2. ASSUME NEW p \in Phys
      PROVE  Look(u, KernPage + p, 1).kind = "page" <=> Look(tbl, KernPage + p, 1).kind = "page"
  <2> DEFINE a == KernPage + p
  <2>1. a \in 0..2 * KernPage - 1
    BY KernHalf
  <2> HIDE DEF a
  <2>2. /\ ~Through(tbl, lev, a, w, I) => \A l \in Levels : Look(u, a, l) = Look(tbl, a, l)
        /\ Through(tbl, lev, a, w, I) => Look(u, a, n) = u[w][I] /\ Look(tbl, a, n) = tbl[w][I]
    BY <1>1, <2>1, EntryEffect DEF w
  <2>3. CASE ~Through(tbl, lev, a, w, I)
    <3>1. 1 \in Levels
      BY DEF Levels
    <3> QED BY <2>2, <2>3, <3>1 DEF a
  <2>4. CASE Through(tbl, lev, a, w, I)
    <3>1. Look(u, a, n) = Table(f) /\ Look(tbl, a, n).kind = k
      BY <1>1, <2>2, <2>4 DEF w
    <3> DEFINE m == n - 1
    <3>2. m \in 1..3 /\ m + 1 = n /\ 1 \in Levels /\ m \in Levels /\ n \in Levels /\ 1 <= m /\ 1 <= n
      BY <1>1 DEF Levels
    <3> HIDE DEF m
    <3>3. Look(u, a, m) = Below(u, a, m, Table(f))
      BY <3>1, <3>2, Looks
    <3>4. Look(u, a, m).kind = k
      <4>1. Idx(a, m) \in Index
        BY <2>1, <3>2, Blocks
      <4> QED BY <3>3, <4>1 DEF Below, Table
    <3>5. Look(u, a, 1).kind = k /\ Look(tbl, a, 1).kind = k
      BY <3>1, <3>2, <3>4, LookDown
    <3> QED BY <3>5 DEF a
  <2> QED BY <2>3, <2>4
<1>3. \A p : p \in Mapped(u) <=> p \in Mapped(tbl)
  BY <1>2, MappedIs
<1> QED BY <1>3

\* The table Shrink gives back is missed by nobody.
LEMMA ShrunkShows ==
  ASSUME Inv, NEW lev, NEW at, Tree(tbl, lev, at), Shrink, NEW a \in 0..2 * KernPage - 1
  PROVE  LET v == [tbl EXCEPT ![walk.frame][I] = Store]
         IN \A l \in Levels : Look(tbl', a, l) = Look(v, a, l)
<1> DEFINE v == [tbl EXCEPT ![walk.frame][I] = Store]
           g == Entry.at
<1>1. Tree(v, lev, at)
  BY Stored DEF Shrink
<1>2. /\ g \in DOMAIN v \ {Pgd}
      /\ \A f \in DOMAIN v, i \in Index : v[f][i].kind = "table" => v[f][i].at # g
      /\ DOMAIN tbl' = DOMAIN v \ {g} /\ \A h \in DOMAIN tbl' : tbl'[h] = v[h]
  BY Shrunk
<1> HIDE DEF v, g
<1>3. \A f \in DOMAIN v, i \in Index : v[f][i] # Table(g)
  BY <1>2 DEF Table
<1>4. \A h \in DOMAIN v : h # g => tbl'[h] = v[h]
  BY <1>2
<1> DEFINE u == tbl'
<1>5. \A h \in DOMAIN v : h # g => u[h] = v[h]
  BY <1>4
<1> HIDE DEF u
<1>6. \A l \in Levels : Look(u, a, l) = Look(v, a, l)
  BY <1>1, <1>2, <1>3, <1>5, LookDropped
<1> QED BY <1>6 DEF v, u

\* The store changes pages of the block the walk has come to only.
LEMMA StoreShows ==
  ASSUME Inv, NEW lev, NEW at, Tree(tbl, lev, at), ~Idle, hole = NoHole, AtLevel,
         NEW v, IsStored(v)
  PROVE  /\ ~removal => Mapped(tbl) \subseteq Mapped(v)
         /\ removal => Mapped(v) \subseteq Mapped(tbl)
         /\ \A p \in Phys : (p \in Mapped(v) <=> p \in Mapped(tbl))
              \/ (Block(Now.at, walk.level) <= p /\ p < Block(Now.at, walk.level) + Cover(walk.level))
<1> DEFINE w == walk.frame
           n == walk.level
           b == Block(Now.at, n)
           S(t, p) == Look(t, KernPage + p, 1).kind = "page"
<1>1. w \in DOMAIN tbl /\ I \in Index /\ lev[w] = n /\ n \in Levels /\ Spot(lev, at, w, I) = b
  BY WalkFound DEF Inv, Basic
<1>2. Store.kind = IF removal THEN "none" ELSE "page"
  BY DEF Store, None, Page
<1> HIDE DEF w, n, b
<1>3. ASSUME NEW p \in Phys
      PROVE  \/ S(v, p) <=> S(tbl, p)
             \/ /\ b <= p /\ p < b + Cover(n)
                /\ S(v, p) <=> ~removal
  <2> DEFINE a == KernPage + p
  <2>1. a \in 0..2 * KernPage - 1 /\ 1 \in Levels /\ 1 <= n
    BY <1>1, KernHalf DEF Levels
  <2>0. Block(a, n) <= p /\ p < Block(a, n) + Cover(n)
    BY <1>1, OwnBlock
  <2> HIDE DEF a
  <2>2. /\ ~Through(tbl, lev, a, w, I) => \A l \in Levels : Look(v, a, l) = Look(tbl, a, l)
        /\ Through(tbl, lev, a, w, I) => Look(v, a, n) = Store /\ b = Block(a, n)
    BY <1>1, <2>1, EntryEffect DEF IsStored, w
  <2>3. CASE ~Through(tbl, lev, a, w, I)
    BY <2>1, <2>2, <2>3 DEF a
  <2>4. CASE Through(tbl, lev, a, w, I)
    <3>1. Look(v, a, n).kind = IF removal THEN "none" ELSE "page"
      BY <1>2, <2>2, <2>4
    <3>2. Look(v, a, 1).kind = IF removal THEN "none" ELSE "page"
      BY <1>1, <2>1, <3>1, LookDown
    <3> QED BY <2>0, <2>2, <2>4, <3>2 DEF a
  <2> QED BY <2>3, <2>4
<1>4. \A t, p : p \in Mapped(t) <=> p \in Phys /\ S(t, p)
  BY MappedIs
<1> HIDE DEF S
<1> QED BY <1>3, <1>4 DEF b, n

\* What is shown for a page of the kernel half, or while the halves are alike of the low
\* half, is what the direct mapping shows.
Ranges == 0..Cover(4) - 1 \cup KernPage..2 * KernPage - 1

\* What the processor finds in those ranges is in the direct mapping.
LEMMA ShownIs ==
  ASSUME NEW t, t[Pgd][0] = t[Pgd][E \div 2], NEW q \in Ranges
  PROVE  /\ q \in 0..2 * KernPage - 1
         /\ q % KernPage \in Mapped(t) <=> Look(t, q, 1).kind = "page"
<1>1. /\ KernPage \in Nat \ {0} /\ Cover(4) \in Nat \ {0} /\ Cover(4) <= KernPage
  BY KernIsFar
<1>2. 1 \in Levels
  BY DEF Levels
<1>3. CASE q \in 0..Cover(4) - 1
  <2>1. q \in Phys /\ q < KernPage /\ q \in 0..2 * KernPage - 1
    BY <1>1, <1>3 DEF Phys
  <2>2. q % KernPage = q
    BY <2>1, ModKern
  <2>3. Look(t, KernPage + q, 1) = Look(t, q, 1)
    BY <1>2, <1>3, HalvesAlike
  <2> QED BY <2>1, <2>2, <2>3, MappedIs
<1>4. CASE q \in KernPage..2 * KernPage - 1
  <2>1. q \in 0..2 * KernPage - 1 /\ ~(q < KernPage) /\ q - KernPage \in Phys /\ KernPage + (q - KernPage) = q
    BY <1>1, <1>4 DEF Phys
  <2>2. q % KernPage = q - KernPage
    BY <2>1, ModKern
  <2> QED BY <2>1, <2>2, MappedIs
<1> QED BY <1>3, <1>4 DEF Ranges

\* The pages of the first block of a part.
LEMMA PartPages ==
  ASSUME NEW c, NEW r \in PartsOf(c), NEW q \in r.at..r.at + Cover(r.level) - 1
  PROVE  /\ q \in 0..2 * KernPage - 1 /\ r.at \in Nat /\ r.to \in Nat /\ r.at + Cover(r.level) <= r.to
         /\ r.level \in 1..3 /\ Cover(r.level) \in Nat \ {0}
         /\ q % KernPage \in Phys /\ q % KernPage = (r.at % KernPage) + (q - r.at)
         /\ r.at <= q
         /\ \A m \in Levels : m >= r.level => Idx(q, m) = Idx(r.at, m)
<1> DEFINE n == Cover(r.level)
           a == r.at
<1>1. PICK k \in Nat, j \in Nat \ {0} : a = k * n /\ r.to = a + j * n
  BY DEF PartsOf, Whole
<1>2. /\ r.level \in 1..3 /\ r.level \in Levels /\ r.to \in 0..2 * KernPage
      /\ a \in 0..2 * KernPage - 1 /\ n \in Nat \ {0} /\ KernPage \in Nat \ {0}
      /\ Block(a, r.level) = a % KernPage /\ Block(a, r.level) + n <= KernPage
  <2>1. r.level \in 1..3 /\ r.to \in 0..2 * KernPage
    BY DEF PartsOf, PartType
  <2>2. r.level \in Levels
    BY <2>1 DEF Levels
  <2>3. a \in 0..2 * KernPage - 1 /\ Block(a, r.level) = a % KernPage
    BY PartStarts
  <2> HIDE DEF a
  <2>4. Block(a, r.level) + n <= KernPage
    BY <2>2, <2>3, Blocks
  <2> QED BY <2>1, <2>2, <2>3, <2>4, Covers DEF a
<1>3. n <= j * n
  <2> HIDE DEF n
  <2>1. 1 * n <= j * n
    BY <1>2, Times
  <2> QED BY <1>2, <2>1
<1> DEFINE y == j * n
<1>4. y \in Nat
  <2> HIDE DEF n
  <2> QED BY <1>2
<1>5. q \in Nat /\ a \in Nat /\ q \div n = a \div n
  <2>1. a = k * Cover(r.level) /\ q \in a..a + Cover(r.level) - 1
    BY <1>1
  <2> HIDE DEF a
  <2> QED BY <1>2, <2>1, PagesOfBlock
<1>6. \A m \in Levels : m >= r.level => Idx(q, m) = Idx(a, m)
  <2> HIDE DEF a
  <2> QED BY <1>2, <1>5, SameBlock
<1>7. r.to = a + y /\ n <= y /\ q \in a..a + n - 1
  BY <1>1, <1>3
<1>8. a % KernPage \in Nat
  BY <1>2
<1> DEFINE i == q - a
<1> HIDE DEF n, y, a
<1>9. q \in 0..2 * KernPage - 1 /\ a + n <= r.to /\ a <= q /\ i \in 0..n - 1 /\ q = a + i
  BY <1>2, <1>4, <1>5, <1>7
<1> HIDE DEF i
<1>10. q % KernPage = (a % KernPage) + i
  <2>1. a + i < 2 * KernPage /\ (a % KernPage) + i < KernPage /\ i \in Nat /\ a \in Nat
    BY <1>2, <1>5, <1>8, <1>9
  <2> QED BY <1>9, <2>1, SumModKern
<1>11. q % KernPage \in Phys
  BY <1>2, <1>5 DEF Phys
<1> QED BY <1>2, <1>5, <1>6, <1>9, <1>10, <1>11 DEF n, a, i
-----------------------------------------------------------------------------
(* The request under way: what is asked for, what is done, what is left.   *)

\* While processors start, both halves begin with the pud of boot.S.
SharedPud == phase # "done" => tbl[Pgd][0] = Table(Pud) /\ tbl[Pgd][E \div 2] = Table(Pud)

\* The block at hand is in the direct mapping, all of it.
BlockShown == \A q \in Now.at..Now.at + Cover(Now.level) - 1 : q % KernPage \in Mapped(Settled)

\* How far down the walk is.  It gets below the level it looks for only by splitting a
\* page of that level, or of a higher one.
DownTo    == IF hole = NoHole THEN walk.level ELSE hole.level
DeepShown == ~Idle /\ DownTo < Now.level => BlockShown

\* The request is for the pages from f up to e, done up to the page at hand.
Request(f, e) ==
  /\ f \in Nat /\ e \in Nat /\ f <= Now.at
  /\ asked = {q % KernPage : q \in f..e - 1}
  /\ Links(parts, Now.at, e) /\ Inside(parts, f, e)
  /\ ~removal => \A q \in f..Now.at - 1 : q % KernPage \in Mapped(Settled)
  /\ phase \in {"kernel", "smp", "clear"}
  /\ phase = "kernel" => f >= KernPage
  /\ phase # "kernel" => f = MpPage /\ e = MpPage + 1
  /\ removal <=> phase = "clear"

AskInv == /\ SharedPud /\ DeepShown
          /\ Idle => asked = {}
          /\ ~Idle => \E f, e : Request(f, e)

\* The page at hand.
LEMMA RequestNow ==
  ASSUME Inv, ~Idle, NEW f, NEW e, Request(f, e)
  PROVE  /\ f <= Now.at /\ Now.at + Cover(Now.level) <= Now.to /\ Now.to <= e
         /\ Now.at \in Nat /\ Now.to \in Nat /\ f \in Nat /\ e \in Nat
         /\ Now.level \in 1..3 /\ Cover(Now.level) \in Nat \ {0}
         /\ phase # "kernel" => Now.at = MpPage /\ Now.level = 1 /\ Now.to = e /\ Cover(Now.level) = 1
         /\ \A q \in Now.at..Now.at + Cover(Now.level) - 1 :
              q \in Ranges /\ q % KernPage \in asked /\ q % KernPage \in Phys
<1> DEFINE n == Cover(Now.level)
           a == Now.at
<1>1. Now \in PartsOf(removal) /\ Now = parts[1] /\ 1 \in 1..Len(parts)
  BY NowGood, EmptySeq DEF Inv, Now, Idle
<1>2. f <= a /\ Now.to <= e /\ f \in Nat /\ e \in Nat
  BY <1>1 DEF Request, Inside
<1>3. a \in a..a + n - 1 /\ a \in Nat
  <2>1. a \in 0..2 * KernPage - 1 /\ Now.level \in 1..3
    BY <1>1, PartStarts
  <2>2. n \in Nat \ {0} /\ KernPage \in Nat
    BY <2>1, Covers DEF Levels
  <2> HIDE DEF a, n
  <2> QED BY <2>1, <2>2
<1>4. /\ a + n <= Now.to /\ Now.to \in Nat /\ n \in Nat \ {0} /\ Now.level \in 1..3
      /\ \A q \in a..a + n - 1 : q \in 0..2 * KernPage - 1 /\ q % KernPage \in Phys
  BY <1>1, <1>3, PartPages
<1>5. phase # "kernel" => a = MpPage /\ n = 1 /\ Now.to = e /\ Now.level = 1
  <2> SUFFICES ASSUME phase # "kernel" PROVE a = MpPage /\ n = 1 /\ Now.to = e /\ Now.level = 1
    OBVIOUS
  <2>1. f = MpPage /\ e = MpPage + 1
    BY DEF Request
  <2> HIDE DEF a, n
  <2>2. a = MpPage /\ n = 1 /\ Now.to = e
    BY <1>2, <1>3, <1>4, <2>1
  <2>3. Now.level = 1
    <3>1. Cover(2) = E /\ Cover(3) = E * E /\ E \in Nat \ {0, 1}
      BY Covers
    <3>2. E * E # 1
      <4>1. 1 * E <= E * E
        BY <3>1, Times
      <4> QED BY <3>1, <4>1
    <3> QED BY <1>4, <2>2, <3>1, <3>2 DEF n
  <2> QED BY <2>2, <2>3
<1>6. ASSUME NEW q \in a..a + n - 1 PROVE q \in Ranges /\ q % KernPage \in asked
  <2>1. asked = {x % KernPage : x \in f..e - 1}
    BY DEF Request
  <2>2. q \in f..e - 1 /\ q \in 0..2 * KernPage - 1 /\ a <= q
    <3>1. q \in 0..2 * KernPage - 1
      BY <1>4, <1>6
    <3> HIDE DEF a, n
    <3> QED BY <1>2, <1>3, <1>4, <1>6, <3>1
  <2>3. q \in Ranges
    <3>1. CASE phase = "kernel"
      <4>1. KernPage <= a /\ KernPage \in Nat
        BY <1>2, <1>3, <3>1, Covers DEF Request
      <4> HIDE DEF a
      <4> QED BY <1>3, <2>2, <4>1 DEF Ranges
    <3>2. CASE phase # "kernel"
      <4>1. q = MpPage /\ MpPage \in 0..E - 1 /\ E \in Nat
        <5> HIDE DEF a, n
        <5>1. q = MpPage
          BY <1>3, <1>5, <1>6, <3>2
        <5> QED BY <5>1, BoundsAssumption, Covers
      <4> QED BY <4>1, KernIsFar DEF Ranges
    <3> QED BY <3>1, <3>2
  <2> QED BY <2>1, <2>2, <2>3
<1> QED BY <1>2, <1>3, <1>4, <1>5, <1>6

\* A step that goes on with the walk.
LEMMA WalkGoesOn ==
  ASSUME Inv, AskInv, ~Idle, UNCHANGED <<parts, asked, removal, phase>>,
         tbl'[Pgd][0] = tbl[Pgd][0], tbl'[Pgd][E \div 2] = tbl[Pgd][E \div 2],
         Mapped(Settled)' = Mapped(Settled), DownTo' < Now.level => DownTo < Now.level \/ BlockShown
  PROVE  AskInv' /\ UNCHANGED <<Mapped(Settled), asked, removal>>
<1>1. PICK f, e : Request(f, e)
  BY DEF AskInv
<1>2. Now' = Now /\ ~Idle'
  BY DEF Now, Idle
<1>3. Request(f, e)'
  BY <1>1, <1>2 DEF Request, Links, Inside
<1>4. SharedPud'
  BY DEF AskInv, SharedPud
<1>5. DeepShown'
  BY <1>2 DEF AskInv, DeepShown, BlockShown
<1> QED BY <1>2, <1>3, <1>4, <1>5 DEF AskInv

\* pgdir_walk goes one level down: the mapping does not notice.
LEMMA DescendAsk ==
  ASSUME Inv, AskInv, Descend
  PROVE  AskInv' /\ UNCHANGED <<Mapped(Settled), asked, removal>>
<1>1. /\ ~Idle /\ hole = NoHole /\ ~AtLevel
      /\ walk'.level = walk.level - 1
      /\ UNCHANGED <<tbl, hole, phase, parts, asked, removal>>
  BY DEF Descend
<1>2. Mapped(Settled)' = Mapped(Settled)
  BY <1>1 DEF Settled, Mapped, Lookup
<1>3. DownTo' < Now.level => DownTo < Now.level
  <2>1. DownTo = walk.level /\ DownTo' = walk.level - 1
    BY <1>1 DEF DownTo
  <2>2. walk.level \in Nat /\ Now.level \in Nat
    BY <1>1, NowGood, PartStarts DEF Inv, Basic, Levels
  <2>3. walk.level # Now.level
    BY <1>1 DEF AtLevel
  <2> QED BY <2>1, <2>2, <2>3
<1> QED BY <1>1, <1>2, <1>3, WalkGoesOn

\* The entries of the pgd that stand for the halves are tables, and stay.
LEMMA LinksStay ==
  ASSUME Inv, AskInv, ~Idle, Entry.kind # "table", NEW u, OneChanged(tbl, u, walk.frame, I)
  PROVE  u[Pgd][0] = tbl[Pgd][0] /\ u[Pgd][E \div 2] = tbl[Pgd][E \div 2]
<1>1. SharedPud /\ phase # "done"
  BY DEF AskInv, Request
<1>2. tbl[Pgd][0].kind = "table" /\ tbl[Pgd][E \div 2].kind = "table"
  BY <1>1 DEF SharedPud, Table
<1>3. 0 \in Index /\ E \div 2 \in Index /\ Pgd \in DOMAIN tbl
  BY EAssumption DEF Index, Tree, Inv
<1>4. CASE walk.frame # Pgd
  BY <1>3, <1>4 DEF OneChanged
<1>5. CASE walk.frame = Pgd
  <2>1. I # 0 /\ I # E \div 2
    BY <1>2, <1>5 DEF Entry
  <2> QED BY <1>3, <1>5, <2>1 DEF OneChanged
<1> QED BY <1>4, <1>5

\* An empty table maps what no table mapped: nothing.
LEMMA NewTableAsk ==
  ASSUME Inv, AskInv, NewTable
  PROVE  AskInv' /\ UNCHANGED <<Mapped(Settled), asked, removal>>
<1>1. /\ ~Idle /\ hole = NoHole /\ Entry.kind = "none" /\ ~AtLevel
      /\ UNCHANGED <<hole, phase, parts, walk, asked, removal>>
  BY DEF NewTable
<1>2. PICK f \in Frames : tbl' = WithTable(f)
  BY DEF NewTable
<1>3. PICK lev, at : Tree(tbl, lev, at)
  BY DEF Inv
<1>4. IsWithTable(tbl', f) /\ f \notin DOMAIN tbl
  BY <1>1, <1>2, NewTableAdded
<1>5. walk.level > 1 /\ walk.frame \in DOMAIN tbl /\ I \in Index
  <2>1. walk.level \in Levels /\ walk.level # 1
    BY <1>1 DEF Inv, Basic, AtLevel
  <2> QED BY <1>1, <1>3, <2>1, WalkFound DEF Levels, Inv, Basic
<1>6. OneChanged(tbl, tbl', walk.frame, I)
  <2>1. tbl[walk.frame] = [i \in Index |-> tbl[walk.frame][i]]
    BY <1>3, <1>5 DEF Tree
  <2> QED BY <1>4, <1>5, <2>1 DEF IsWithTable, OneChanged
<1>7. \A i \in Index : tbl'[f][i].kind = "none"
  BY <1>4 DEF IsWithTable, Empty, None
<1>8. tbl'[walk.frame][I] = Table(f)
  BY <1>4 DEF IsWithTable
<1> DEFINE u == tbl'
           k == "none"
<1>9. Mapped(u) = Mapped(tbl)
  <2>1. Entry.kind = k /\ k \in {"none", "page"} /\ \A i \in Index : u[f][i].kind = k
    BY <1>1, <1>7
  <2>2. OneChanged(tbl, u, walk.frame, I) /\ u[walk.frame][I] = Table(f)
    BY <1>6, <1>8
  <2> HIDE DEF u, k
  <2> QED BY <1>1, <1>3, <1>5, <2>1, <2>2, LinkShows
<1>10. Mapped(Settled)' = Mapped(Settled)
  BY <1>1, <1>9 DEF Settled
<1>11. tbl'[Pgd][0] = tbl[Pgd][0] /\ tbl'[Pgd][E \div 2] = tbl[Pgd][E \div 2]
  BY <1>1, <1>6, LinksStay
<1>12. DownTo' = DownTo
  BY <1>1 DEF DownTo
<1> QED BY <1>1, <1>10, <1>11, <1>12, WalkGoesOn

\* A page where the part wants one, as large: its whole block is there.
LEMMA BlockThere ==
  ASSUME Inv, AskInv, ~Idle, hole = NoHole, walk.level = Now.level, Entry.kind = "page"
  PROVE  BlockShown
<1>1. PICK f, e : Request(f, e)
  BY DEF AskInv
<1>2. PICK lev, at : Tree(tbl, lev, at)
  BY DEF Inv
<1>3. Look(tbl, Now.at, Now.level).kind = "page"
  BY <1>2, WalkFound
<1>4. tbl[Pgd][0] = tbl[Pgd][E \div 2]
  BY <1>1 DEF AskInv, SharedPud, Request
<1>5. Now \in PartsOf(removal) /\ Now.level \in Levels /\ 1 \in Levels /\ 1 <= Now.level
  <2>1. Now.level \in 1..3
    BY <1>1, RequestNow
  <2> QED BY <2>1, NowGood DEF Inv, Levels
<1>6. ASSUME NEW q \in Now.at..Now.at + Cover(Now.level) - 1 PROVE q % KernPage \in Mapped(tbl)
  <2>1. q \in Ranges
    BY <1>1, <1>6, RequestNow
  <2>2. \A m \in Levels : m >= Now.level => Idx(q, m) = Idx(Now.at, m)
    BY <1>5, <1>6, PartPages
  <2> DEFINE a == Now.at
             l == Now.level
  <2>3. Look(tbl, q, l) = Look(tbl, a, l)
    <3>1. l \in Levels /\ l >= l /\ \A m \in Levels : m >= l => Idx(q, m) = Idx(a, m)
      BY <1>5, <2>2 DEF Levels
    <3> HIDE DEF a, l
    <3> QED BY <3>1, LookSame
  <2>4. Look(tbl, q, l).kind = "page"
    BY <1>3, <2>3
  <2>5. Look(tbl, q, 1).kind = "page"
    BY <1>5, <2>4, LookDown
  <2> QED BY <1>4, <2>1, <2>5, ShownIs
<1>7. Settled = tbl
  BY DEF Settled
<1> QED BY <1>6, <1>7 DEF BlockShown

\* expand_page takes a table: with the page in hand, all is as it was.
LEMMA ExpandAsk ==
  ASSUME Inv, AskInv, Expand
  PROVE  AskInv' /\ UNCHANGED <<Mapped(Settled), asked, removal>>
<1>1. /\ ~Idle /\ hole = NoHole /\ Entry.kind = "page" /\ walk.level > 1
      /\ UNCHANGED <<phase, parts, walk, asked, removal>>
  BY DEF Expand
<1>2. PICK f \in Frames : /\ tbl' = WithTable(f)
                          /\ hole' = [frame |-> f, level |-> walk.level - 1, old |-> Entry]
  BY DEF Expand
<1>3. PICK lev, at : Tree(tbl, lev, at)
  BY DEF Inv
<1>4. IsWithTable(tbl', f) /\ f \notin DOMAIN tbl
  BY <1>1, <1>2, NewTableAdded
<1>5. walk.frame \in DOMAIN tbl /\ I \in Index /\ walk.level \in Nat
  BY <1>1, <1>3, WalkFound DEF Inv, Basic, Levels
<1>6. OneChanged(tbl, tbl', walk.frame, I) /\ tbl'[walk.frame][I] = Table(f) /\ f \in DOMAIN tbl'
  <2>1. tbl[walk.frame] = [i \in Index |-> tbl[walk.frame][i]]
    BY <1>3, <1>5 DEF Tree
  <2> QED BY <1>4, <1>5, <2>1 DEF IsWithTable, OneChanged
<1>7. hole'.frame = f /\ hole'.level = walk.level - 1 /\ hole'.old = Entry /\ hole' # NoHole
  <2>1. walk.level - 1 # 0
    BY <1>1, <1>5
  <2> QED BY <1>2, <2>1 DEF NoHole
<1>8. \A i \in Index : Filled'[i].kind = "page"
  BY <1>1, <1>7 DEF Filled, Part, Page
<1>9. Settled' = [tbl' EXCEPT ![f] = Filled']
  BY <1>7 DEF Settled
<1> DEFINE u == Settled'
           k == "page"
<1>10. Mapped(u) = Mapped(tbl)
  <2>1. Entry.kind = k /\ k \in {"none", "page"} /\ \A i \in Index : u[f][i].kind = k
    BY <1>1, <1>6, <1>8, <1>9
  <2>2. OneChanged(tbl, u, walk.frame, I) /\ u[walk.frame][I] = Table(f)
    <3>1. f # walk.frame /\ \A h \in DOMAIN tbl : h # f
      BY <1>4, <1>5
    <3>2. \A h \in DOMAIN tbl : u[h] = tbl'[h]
      BY <1>4, <1>9, <3>1 DEF IsWithTable
    <3> HIDE DEF u
    <3> QED BY <1>5, <1>6, <3>2 DEF OneChanged
  <2> HIDE DEF u, k
  <2> QED BY <1>1, <1>3, <1>5, <2>1, <2>2, LinkShows
<1>11. Mapped(Settled)' = Mapped(Settled)
  <2>1. Settled = tbl
    BY <1>1 DEF Settled
  <2> QED BY <1>10, <2>1
<1>12. tbl'[Pgd][0] = tbl[Pgd][0] /\ tbl'[Pgd][E \div 2] = tbl[Pgd][E \div 2]
  <2> DEFINE v == tbl'
  <2>1. OneChanged(tbl, v, walk.frame, I) /\ Entry.kind # "table"
    BY <1>1, <1>6
  <2> HIDE DEF v
  <2>2. v[Pgd][0] = tbl[Pgd][0] /\ v[Pgd][E \div 2] = tbl[Pgd][E \div 2]
    BY <1>1, <2>1, LinksStay
  <2> QED BY <2>2 DEF v
<1>13. DownTo' < Now.level => DownTo < Now.level \/ BlockShown
  <2>1. DownTo = walk.level /\ DownTo' = walk.level - 1
    BY <1>1, <1>7 DEF DownTo
  <2>2. Now.level \in Nat
    BY <1>1, NowGood, PartStarts DEF Inv
  <2>3. walk.level = Now.level => BlockShown
    BY <1>1, BlockThere
  <2> QED BY <1>5, <2>1, <2>2, <2>3
<1> QED BY <1>1, <1>11, <1>12, <1>13, WalkGoesOn

\* expand_page fills it: all is as it was, and this without the page in hand.
LEMMA FillAsk ==
  ASSUME Inv, AskInv, Fill
  PROVE  AskInv' /\ UNCHANGED <<Mapped(Settled), asked, removal>>
<1>1. /\ hole # NoHole /\ tbl' = [tbl EXCEPT ![hole.frame] = Filled] /\ hole' = NoHole
      /\ walk' = [frame |-> hole.frame, level |-> hole.level]
      /\ UNCHANGED <<phase, parts, asked, removal>>
  BY DEF Fill
<1>2. PICK lev, at : Tree(tbl, lev, at)
  BY DEF Inv
<1>3. ~Idle
  BY <1>1 DEF Inv, HoleAt
<1>4. Settled' = tbl' /\ Settled = [tbl EXCEPT ![hole.frame] = Filled]
  BY <1>1 DEF Settled
<1>5. Mapped(Settled)' = Mapped(Settled)
  <2>1. Settled' = Settled
    BY <1>1, <1>4
  <2> QED BY <2>1 DEF Mapped, Lookup
<1>6. hole.frame # Pgd
  <2>1. lev[hole.frame] = hole.level /\ hole.level \in 1..2
    BY <1>1, <1>2, FilledGood DEF Inv, HoleAt
  <2> QED BY <1>2, <2>1 DEF Tree
<1>7. tbl'[Pgd][0] = tbl[Pgd][0] /\ tbl'[Pgd][E \div 2] = tbl[Pgd][E \div 2]
  BY <1>1, <1>6
<1>8. DownTo' = DownTo
  BY <1>1 DEF DownTo
<1> QED BY <1>1, <1>3, <1>5, <1>7, <1>8, WalkGoesOn

\* NextPage: the part at hand goes on with its next block, or the next part comes.
LEMMA NextParts ==
  ASSUME Inv, ~Idle, NextPage
  PROVE  LET n == Now.at + Cover(Now.level)
             m == Len(parts)
         IN /\ m \in Nat \ {0} /\ parts[1] = Now /\ parts' \in Seq(PartsOf(removal))
            /\ n < Now.to => /\ Len(parts') = m /\ \A i \in 2..m : parts'[i] = parts[i]
                             /\ parts'[1] = [Now EXCEPT !.at = @ + Cover(Now.level),
                                                        !.phys = @ + Cover(Now.level)]
                             /\ parts'[1].at = n /\ parts'[1].to = Now.to
                             /\ parts'[1].level = Now.level
            /\ ~(n < Now.to) => Len(parts') = m - 1 /\ \A i \in 1..m - 1 : parts'[i] = parts[i + 1]
<1> DEFINE S == PartsOf(removal)
           s == parts
           m == Len(s)
           r == [Now EXCEPT !.at = @ + Cover(Now.level), !.phys = @ + Cover(Now.level)]
           b == Now.at + Cover(Now.level)
           u == parts'
<1>1. /\ s \in Seq(S) /\ s # <<>> /\ Now = s[1] /\ m \in Nat \ {0} /\ Now \in S
  BY NowGood, EmptySeq, LenProperties DEF Inv, Now, Idle
<1>2. r.at = b /\ r.to = Now.to /\ r.level = Now.level
  <2>1. Now \in PartType
    BY <1>1 DEF PartsOf
  <2> QED BY <2>1 DEF PartType
<1>3. u = IF b < Now.to THEN <<r>> \o Tail(s) ELSE Tail(s)
  BY DEF NextPage
<1>4. /\ Len(Tail(s)) = m - 1 /\ \A i \in 1..m - 1 : Tail(s)[i] = s[i + 1]
      /\ Tail(s) \in Seq(S)
  BY <1>1, HeadTailProperties
<1>5. CASE b < Now.to
  <2>1. u = <<r>> \o Tail(s)
    BY <1>3, <1>5
  <2>2. r \in S
    BY <1>1, <1>5, PartGoesOn DEF Inv, Basic
  <2> HIDE DEF r, S, u, b
  <2>3. <<r>> \in Seq(S) /\ Len(<<r>>) = 1 /\ <<r>>[1] = r
    BY <2>2
  <2>4. Len(u) = m /\ u[1] = r /\ \A i \in 2..m : u[i] = s[i]
    <3>1. /\ Len(<<r>> \o Tail(s)) = 1 + (m - 1)
          /\ \A i \in 1..1 + (m - 1) : (<<r>> \o Tail(s))[i] = IF i <= 1 THEN <<r>>[i] ELSE Tail(s)[i - 1]
      BY <1>4, <2>3, ConcatProperties
    <3> DEFINE t == Tail(s)
               q == <<r>> \o t
    <3> HIDE DEF t, q
    <3>2. /\ Len(q) = 1 + (m - 1) /\ u = q
          /\ \A i \in 1..1 + (m - 1) : q[i] = IF i <= 1 THEN <<r>>[i] ELSE t[i - 1]
          /\ \A i \in 1..m - 1 : t[i] = s[i + 1]
      BY <1>4, <2>1, <3>1 DEF q, t
    <3> HIDE DEF m
    <3>3. Len(u) = m /\ u[1] = r
      BY <1>1, <2>3, <3>2
    <3>4. ASSUME NEW i \in 2..m PROVE u[i] = s[i]
      <4>1. i \in 1..1 + (m - 1) /\ ~(i <= 1) /\ i - 1 \in 1..m - 1 /\ (i - 1) + 1 = i
        BY <1>1
      <4> QED BY <3>2, <4>1
    <3> QED BY <3>3, <3>4
  <2>5. u \in Seq(S)
    BY <1>4, <2>1, <2>3, ConcatProperties
  <2> QED BY <1>1, <1>2, <1>5, <2>4, <2>5 DEF u, r, b, S
<1>6. CASE ~(b < Now.to)
  <2>1. u = Tail(s)
    BY <1>3, <1>6
  <2> QED BY <1>1, <1>4, <1>6, <2>1
<1> QED BY <1>5, <1>6

\* NextPage: the rest of the request, or its end.
LEMMA NextIs ==
  ASSUME Inv, ~Idle, NEW f, NEW e, Request(f, e), NextPage, removal' = removal
  PROVE  LET n == Now.at + Cover(Now.level)
         IN /\ parts' = <<>> => e = n /\ asked' = {}
            /\ parts' # <<>> => /\ Now'.at = n /\ asked' = asked
                                /\ Links(parts', n, e) /\ Inside(parts', f, e)
<1> DEFINE S == PartsOf(removal)
           s == parts
           m == Len(s)
           b == Now.at + Cover(Now.level)
<1>1. /\ s \in Seq(S) /\ s # <<>> /\ Now = s[1] /\ m \in Nat \ {0} /\ Now \in S
  BY NowGood, EmptySeq, LenProperties DEF Inv, Now, Idle
<1>2. /\ s[1].at = Now.at /\ s[m].to = e /\ \A i \in 1..m - 1 : s[i].to = s[i + 1].at
      /\ \A i \in 1..m : f <= s[i].at /\ s[i].to <= e
  BY <1>1 DEF Request, Links, Inside
<1>3. /\ f <= Now.at /\ b <= Now.to /\ Now.to <= e /\ Now.at \in Nat /\ b \in Nat /\ Now.to \in Nat
      /\ f \in Nat /\ e \in Nat /\ f <= b
  <2> DEFINE c == Cover(Now.level)
  <2>1. /\ f <= Now.at /\ Now.at + c <= Now.to /\ Now.to <= e /\ Now.at \in Nat /\ Now.to \in Nat
        /\ f \in Nat /\ e \in Nat /\ c \in Nat \ {0}
    BY RequestNow
  <2> HIDE DEF c
  <2> QED BY <2>1 DEF c
<1>4. asked' = IF parts' = <<>> THEN {} ELSE asked
  BY DEF NextPage
<1> DEFINE u == parts'
<1>7. u # <<>> => Now' = u[1]
  BY DEF Now
<1>8. CASE b < Now.to
  <2>4. Len(u) = m /\ u[1].at = b /\ u[1].to = Now.to /\ \A i \in 2..m : u[i] = s[i]
    BY <1>8, NextParts
  <2> HIDE DEF u, b
  <2> HIDE DEF m, s
  <2>5. u # <<>>
    BY <1>1, <2>4
  <2>6. Links(u, b, e)
    <3>1. u[1].at = b
      BY <1>4, <2>4
    <3>2. u[Len(u)].to = e
      <4>1. CASE m = 1
        BY <1>1, <1>2, <1>4, <2>4, <4>1
      <4>2. CASE m # 1
        <5>1. m \in 2..m
          BY <1>1, <4>2
        <5> QED BY <1>2, <2>4, <5>1
      <4> QED BY <4>1, <4>2
    <3>3. ASSUME NEW i \in 1..m - 1 PROVE u[i].to = u[i + 1].at
      <4>1. i + 1 \in 2..m /\ (i = 1 \/ i \in 2..m)
        BY <1>1
      <4>2. u[i + 1] = s[i + 1] /\ s[i].to = s[i + 1].at
        BY <1>2, <2>4, <4>1
      <4>3. u[i].to = s[i].to
        BY <1>1, <1>4, <2>4, <4>1
      <4> QED BY <4>2, <4>3
    <3> QED BY <2>4, <2>5, <3>1, <3>2, <3>3 DEF Links
  <2>7. Inside(u, f, e)
    <3>1. ASSUME NEW i \in 1..m PROVE f <= u[i].at /\ u[i].to <= e
      <4>1. CASE i = 1
        BY <1>3, <1>4, <2>4, <4>1
      <4>2. CASE i # 1
        <5>1. i \in 2..m
          BY <1>1, <4>2
        <5> QED BY <1>2, <2>4, <5>1
      <4> QED BY <4>1, <4>2
    <3> QED BY <2>4, <3>1 DEF Inside
  <2> QED BY <1>4, <1>4, <1>7, <2>4, <2>5, <2>6, <2>7 DEF u, b
<1>9. CASE ~(b < Now.to)
  <2>1. b = Now.to
    <3> HIDE DEF b
    <3> QED BY <1>3, <1>9
  <2>3. Len(u) = m - 1 /\ \A i \in 1..m - 1 : u[i] = s[i + 1]
    BY <1>9, NextParts
  <2>9. u \in Seq(S)
    BY NextParts
  <2> HIDE DEF u, b
  <2> HIDE DEF s, m, S
  <2>4. CASE m = 1
    <3>1. u = <<>>
      BY <1>1, <2>3, <2>4, <2>9, EmptySeq
    <3>2. e = b
      BY <1>1, <1>2, <2>1, <2>4
    <3> QED BY <1>4, <3>1, <3>2 DEF u, b
  <2>5. CASE m # 1
    <3>1. m - 1 \in Nat \ {0} /\ 1 \in 1..m - 1
      BY <1>1, <2>5
    <3>2. u # <<>>
      BY <2>3, <2>9, <3>1, EmptySeq
    <3>3. u[1].at = b
      BY <1>1, <1>2, <2>1, <2>3, <3>1
    <3>4. u[Len(u)].to = e
      <4>1. m - 1 \in 1..m - 1 /\ (m - 1) + 1 = m
        BY <1>1, <3>1
      <4> QED BY <1>2, <2>3, <4>1
    <3>5. ASSUME NEW i \in 1..(m - 1) - 1 PROVE u[i].to = u[i + 1].at
      <4>1. i \in 1..m - 1 /\ i + 1 \in 1..m - 1
        BY <3>1
      <4> QED BY <1>2, <2>3, <4>1
    <3>6. Links(u, b, e)
      BY <2>3, <3>2, <3>3, <3>4, <3>5 DEF Links
    <3>7. Inside(u, f, e)
      <4>1. ASSUME NEW i \in 1..m - 1 PROVE f <= u[i].at /\ u[i].to <= e
        <5>1. i + 1 \in 1..m
          BY <1>1, <3>1
        <5> QED BY <1>2, <2>3, <5>1
      <4> QED BY <2>3, <4>1 DEF Inside
    <3> QED BY <1>4, <1>7, <3>2, <3>3, <3>6, <3>7 DEF u, b
  <2> QED BY <2>4, <2>5
<1> QED BY <1>8, <1>9

\* The block at hand, once the entry is stored.
LEMMA BlockStored ==
  ASSUME Inv, AskInv, ~Idle, hole = NoHole, AtLevel, NEW v, IsStored(v)
  PROVE  \A q \in Now.at..Now.at + Cover(Now.level) - 1 :
           IF removal THEN q % KernPage \notin Mapped(v) ELSE q % KernPage \in Mapped(v)
<1>1. PICK f, e : Request(f, e)
  BY DEF AskInv
<1>2. PICK lev, at : Tree(tbl, lev, at)
  BY DEF Inv
<1> DEFINE a == Now.at
           l == Now.level
           w == walk.frame
<1>3. /\ Now \in PartsOf(removal) /\ l \in 1..3 /\ l \in Levels /\ 1 \in Levels /\ 1 <= l
      /\ walk.level \in Levels /\ walk.level \in {1, l}
      /\ phase # "kernel" => l = 1
      /\ a \in 0..2 * KernPage - 1
  <2>1. l \in 1..3 /\ (phase # "kernel" => l = 1)
    BY <1>1, RequestNow
  <2>2. Now \in PartsOf(removal)
    BY NowGood DEF Inv
  <2>3. a \in 0..2 * KernPage - 1
    BY <2>2, PartStarts
  <2> HIDE DEF a
  <2> QED BY <2>1, <2>2, <2>3 DEF Inv, Basic, Levels, AtLevel
<1>4. removal => phase # "kernel"
  BY <1>1 DEF Request
<1>5. w # Pgd /\ w \in DOMAIN tbl /\ I \in Index /\ lev[w] = walk.level /\ I = Idx(a, walk.level)
  BY <1>2, StoreGood DEF I
<1>6. v[Pgd][0] = v[Pgd][E \div 2]
  <2>1. tbl[Pgd][0] = tbl[Pgd][E \div 2]
    BY <1>1 DEF AskInv, SharedPud, Request
  <2>2. Pgd \in DOMAIN tbl
    BY <1>2 DEF Tree
  <2> QED BY <1>5, <2>1, <2>2 DEF IsStored, OneChanged
<1>7. CASE walk.level # l
  <2>1. walk.level < l /\ ~removal /\ DownTo = walk.level
    BY <1>3, <1>4, <1>7 DEF DownTo
  <2>2. BlockShown /\ Settled = tbl
    BY <2>1 DEF AskInv, DeepShown, Settled
  <2>3. Mapped(tbl) \subseteq Mapped(v)
    BY <1>2, <2>1, StoreShows
  <2> QED BY <2>1, <2>2, <2>3 DEF BlockShown
<1>8. CASE walk.level = l
  <2>1. Through(tbl, lev, a, w, I)
    <3>1. CASE walk = Root
      BY <1>5, <3>1 DEF Root, Through, OnPath
    <3>2. CASE walk # Root
      <4>1. Look(tbl, a, walk.level + 1) = Table(w)
        BY <3>2 DEF Inv, WalkAt
      <4> QED BY <1>5, <4>1 DEF Through, OnPath
    <3> QED BY <3>1, <3>2
  <2>2. Look(v, a, l) = Store
    <3> HIDE DEF a, w, l
    <3>1. OneChanged(tbl, v, w, I) /\ v[w][I] = Store
      BY DEF IsStored, w
    <3>2. Look(v, a, lev[w]) = v[w][I]
      BY <1>2, <1>3, <1>5, <2>1, <3>1, EntryEffect
    <3> QED BY <1>5, <1>8, <3>1, <3>2
  <2>3. Store.kind = IF removal THEN "none" ELSE "page"
    BY DEF Store, None, Page
  <2>4. ASSUME NEW q \in a..a + Cover(l) - 1
        PROVE  q % KernPage \in Phys /\ (q % KernPage \in Mapped(v) <=> ~removal)
    <3>1. q \in Ranges /\ q % KernPage \in Phys
      BY <1>1, <2>4, RequestNow
    <3>2. \A m \in Levels : m >= l => Idx(q, m) = Idx(a, m)
      BY <1>3, <2>4, PartPages
    <3>3. Look(v, q, l) = Look(v, a, l)
      <4>1. l \in Levels /\ l >= l /\ \A m \in Levels : m >= l => Idx(q, m) = Idx(a, m)
        BY <1>3, <3>2 DEF Levels
      <4> HIDE DEF a, l
      <4> QED BY <4>1, LookSame
    <3>4. Look(v, q, l).kind = IF removal THEN "none" ELSE "page"
      BY <2>2, <2>3, <3>3
    <3>5. Look(v, q, 1).kind = IF removal THEN "none" ELSE "page"
      <4> HIDE DEF l, a
      <4> QED BY <1>3, <3>4, LookDown
    <3>6. q % KernPage \in Mapped(v) <=> Look(v, q, 1).kind = "page"
      BY <1>6, <3>1, ShownIs
    <3> QED BY <3>1, <3>5, <3>6
  <2> QED BY <2>4
<1> QED BY <1>7, <1>8

\* The block the walk has come to, or the page of it, is asked for.
LEMMA BlockAsked ==
  ASSUME Inv, AskInv, ~Idle, hole = NoHole, AtLevel, NEW p \in Phys,
         Block(Now.at, walk.level) <= p, p < Block(Now.at, walk.level) + Cover(walk.level)
  PROVE  p \in asked
<1>1. PICK f, e : Request(f, e)
  BY DEF AskInv
<1> DEFINE a == Now.at
           b == a % KernPage
           n == Cover(Now.level)
           i == p - b
<1>2. /\ Now \in PartsOf(removal) /\ a \in Nat /\ n \in Nat \ {0} /\ b \in Nat
      /\ Block(a, Now.level) = b /\ Block(a, 1) = b /\ Cover(1) = 1
  <2>1. Now \in PartsOf(removal)
    BY NowGood DEF Inv
  <2>2. a \in Nat /\ n \in Nat \ {0}
    BY <1>1, RequestNow
  <2>3. b \in Nat
    <3>1. KernPage \in Nat \ {0}
      BY Covers
    <3> HIDE DEF a
    <3> QED BY <2>2, <3>1
  <2> QED BY <2>1, <2>2, <2>3, PartStarts, Covers
<1>3. b <= p /\ p < b + n
  <2>1. walk.level \in {1, Now.level}
    BY DEF AtLevel
  <2>2. CASE walk.level = Now.level
    <3>1. Block(Now.at, walk.level) = b /\ Cover(walk.level) = n
      BY <1>2, <2>2
    <3> HIDE DEF b, n
    <3> QED BY <3>1
  <2>3. CASE walk.level = 1
    <3>1. Block(Now.at, walk.level) = b /\ Cover(walk.level) = 1
      BY <1>2, <2>3
    <3> HIDE DEF b, n
    <3> QED BY <1>2, <3>1 DEF Phys
  <2> QED BY <2>1, <2>2, <2>3
<1> HIDE DEF a, b, n
<1>4. i \in 0..n - 1 /\ p = b + i /\ a + i \in a..a + n - 1 /\ (a + i) - a = i
  <2>1. p \in Nat
    BY DEF Phys
  <2> QED BY <1>2, <1>3, <2>1
<1> HIDE DEF i
<1> DEFINE q == a + i
<1>5. q \in Now.at..Now.at + Cover(Now.level) - 1
  BY <1>4 DEF a, n
<1>6. q % KernPage \in asked
  BY <1>1, <1>5, RequestNow
<1>7. q % KernPage = (Now.at % KernPage) + (q - Now.at)
  BY <1>2, <1>5, PartPages
<1>8. q % KernPage = p
  <2>1. q - Now.at = i
    BY <1>4 DEF a
  <2> QED BY <1>4, <1>7, <2>1 DEF a, b
<1> QED BY <1>6, <1>8

\* For the page q the request is done, in the tables t.
DoneIn(t, q) == IF removal THEN q % KernPage \notin Mapped(t) ELSE q % KernPage \in Mapped(t)

\* The pages asked for up to the end of the block at hand are done once it is stored.
LEMMA UpToNow ==
  ASSUME Inv, AskInv, ~Idle, hole = NoHole, AtLevel, NEW v, IsStored(v),
         NEW f, NEW e, Request(f, e)
  PROVE  \A q \in f..Now.at + Cover(Now.level) - 1 : DoneIn(v, q)
<1> DEFINE a == Now.at
           n == Cover(Now.level)
<1>1. /\ f \in Nat /\ a \in Nat /\ f <= a /\ n \in Nat \ {0}
      /\ removal => f = a
  <2>1. removal => phase # "kernel" /\ f = MpPage
    BY DEF Request
  <2> QED BY <2>1, RequestNow
<1>2. \A q \in a..a + n - 1 : DoneIn(v, q)
  BY BlockStored DEF DoneIn
<1>3. ~removal => \A q \in f..a - 1 : q % KernPage \in Mapped(v)
  <2>1. PICK lev, at : Tree(tbl, lev, at)
    BY DEF Inv
  <2>2. ~removal => Mapped(tbl) \subseteq Mapped(v)
    BY <2>1, StoreShows
  <2>3. Settled = tbl
    BY DEF Settled
  <2> QED BY <2>2, <2>3 DEF Request
<1> HIDE DEF a, n
<1>4. ASSUME NEW q \in f..a + n - 1
      PROVE  DoneIn(v, q)
  <2>1. CASE q < a
    <3>1. ~removal /\ q \in f..a - 1
      BY <1>1, <1>4, <2>1
    <3> QED BY <1>3, <3>1 DEF DoneIn
  <2>2. CASE ~(q < a)
    <3>1. q \in a..a + n - 1
      BY <1>1, <1>4, <2>2
    <3> QED BY <1>2, <3>1
  <2> QED BY <2>1, <2>2
<1> QED BY <1>4 DEF a, n

\* The store: a page more of the request is done, or all of it.
LEMMA StoreAsk ==
  ASSUME Inv, AskInv, ~Idle, hole = NoHole, AtLevel, NextPage, UNCHANGED <<hole, phase, removal>>,
         NEW v, IsStored(v), tbl'[Pgd] = v[Pgd], Mapped(tbl') = Mapped(v)
  PROVE  AskInv' /\ Promise!Advance
<1>1. PICK f, e : Request(f, e)
  BY DEF AskInv
<1>2. PICK lev, at : Tree(tbl, lev, at)
  BY DEF Inv
<1> DEFINE a == Now.at
           n == Cover(Now.level)
           b == a + n
           M == Mapped(tbl)
           N == Mapped(v)
<1>3. /\ f \in Nat /\ e \in Nat /\ a \in Nat /\ n \in Nat \ {0} /\ f <= a /\ b \in Nat /\ f <= b
  <2>1. f \in Nat /\ e \in Nat /\ a \in Nat /\ n \in Nat \ {0} /\ f <= a
    BY <1>1, RequestNow
  <2> HIDE DEF a, n
  <2> QED BY <2>1
<1>4. \A q \in f..b - 1 : DoneIn(v, q)
  <2>1. \A q \in f..Now.at + Cover(Now.level) - 1 : DoneIn(v, q)
    BY <1>1, UpToNow
  <2>2. Now.at + Cover(Now.level) - 1 = b - 1
    BY <1>3
  <2> HIDE DEF b
  <2> QED BY <2>1, <2>2
<1>5. /\ parts' = <<>> => e = b /\ asked' = {}
      /\ parts' # <<>> => Now'.at = b /\ asked' = asked /\ Links(parts', b, e) /\ Inside(parts', f, e)
  BY <1>1, NextIs
<1>6. /\ ~removal => M \subseteq N
      /\ removal => N \subseteq M
      /\ \A p \in Phys : (p \in N <=> p \in M) \/ p \in asked
  <2>1. ASSUME NEW p \in Phys,
               Block(Now.at, walk.level) <= p, p < Block(Now.at, walk.level) + Cover(walk.level)
        PROVE  p \in asked
    BY <2>1, BlockAsked
  <2> QED BY <1>2, <2>1, StoreShows
<1>7. M \subseteq Phys /\ N \subseteq Phys
  BY DEF Mapped
<1>8. Settled = tbl /\ Mapped(Settled)' = N
  <2>1. Settled = tbl /\ Settled' = tbl'
    BY DEF Settled
  <2> QED BY <2>1
<1>9. asked = {q % KernPage : q \in f..e - 1}
  BY <1>1 DEF Request
<1>10. walk' = Root /\ asked' \in {asked, {}} /\ parts' \in Seq(PartsOf(removal))
  BY NextPageGood
<1> HIDE DEF a, n, b, M, N
<1>11. parts' = <<>> => IF removal THEN asked \cap N = {} ELSE asked \subseteq N
  BY <1>4, <1>5, <1>9 DEF DoneIn, N
<1>12. Promise!Advance
  <2>1. asked' = {} => parts' = <<>> \/ asked = {}
    BY <1>5
  <2> DEFINE X == Mapped(Settled)
  <2>2. X = M /\ X' = N
    BY <1>8 DEF M
  <2> HIDE DEF X
  <2>3. IF removal THEN X' \subseteq X /\ X \ X' \subseteq asked ELSE X \subseteq X' /\ X' \ X \subseteq asked
    BY <1>6, <1>7, <2>2
  <2>4. asked' = {} => IF removal THEN asked \cap X' = {} ELSE asked \subseteq X'
    BY <1>11, <2>1, <2>2
  <2> QED BY <1>10, <2>3, <2>4 DEF Promise!Advance, X
<1>13. SharedPud'
  <2>1. walk.frame # Pgd /\ Pgd \in DOMAIN tbl
    BY <1>2, StoreGood DEF Tree
  <2>2. tbl'[Pgd] = tbl[Pgd]
    BY <2>1 DEF IsStored, OneChanged
  <2> QED BY <2>2 DEF AskInv, SharedPud
<1>14. Idle' => asked' = {}
  BY <1>5 DEF Idle
<1>15. ASSUME parts' # <<>> PROVE Request(f, e)' /\ ~(DownTo' < Now'.level)
  <2>1. Now'.at = b /\ asked' = asked /\ Links(parts', Now'.at, e) /\ Inside(parts', f, e)
    BY <1>5, <1>15
  <2>2. ~removal => \A q \in f..Now'.at - 1 : q % KernPage \in Mapped(Settled)'
    BY <1>4, <1>8, <2>1 DEF DoneIn, N
  <2>3. Request(f, e)'
    <3>1. f \in Nat /\ e \in Nat /\ f <= Now'.at
      BY <1>3, <2>1
    <3>2. asked' = {q % KernPage : q \in f..e - 1}
      BY <1>9, <2>1
    <3>3. /\ phase' \in {"kernel", "smp", "clear"}
          /\ phase' = "kernel" => f >= KernPage
          /\ phase' # "kernel" => f = MpPage /\ e = MpPage + 1
          /\ removal' <=> phase' = "clear"
      BY <1>1 DEF Request
    <3>4. Links(parts', Now'.at, e) /\ Inside(parts', f, e)
      BY <2>1
    <3>5. ~removal' => \A q \in f..Now'.at - 1 : q % KernPage \in Mapped(Settled)'
      BY <2>2
    <3> QED BY <3>1, <3>2, <3>3, <3>4, <3>5 DEF Request, Links, Inside
  <2>4. DownTo' = 4
    BY <1>10 DEF DownTo, Root
  <2>5. Now'.level \in 1..3
    <3>1. Now' \in PartsOf(removal)
      <4> DEFINE u == parts'
                 S == PartsOf(removal)
      <4>1. u \in Seq(S) /\ u # <<>> /\ Now' = Head(u)
        BY <1>10, <1>15 DEF Now
      <4> HIDE DEF u, S
      <4> QED BY <4>1, HeadTailProperties DEF S
    <3> QED BY <3>1 DEF PartsOf, PartType
  <2> QED BY <2>3, <2>4, <2>5
<1>16. AskInv'
  BY <1>13, <1>14, <1>15 DEF AskInv, DeepShown, Idle
<1> QED BY <1>12, <1>16

\* The store of an entry advances the request.
LEMMA WriteAsk ==
  ASSUME Inv, AskInv, Write
  PROVE  AskInv' /\ Promise!Advance
<1>1. /\ ~Idle /\ hole = NoHole /\ AtLevel /\ NextPage /\ UNCHANGED <<hole, phase, removal>>
      /\ tbl' = [tbl EXCEPT ![walk.frame][I] = Store]
  BY DEF Write
<1>2. PICK lev, at : Tree(tbl, lev, at)
  BY DEF Inv
<1> DEFINE v == [tbl EXCEPT ![walk.frame][I] = Store]
<1>3. IsStored(v)
  BY <1>1, <1>2, Stored
<1>4. tbl'[Pgd] = v[Pgd] /\ Mapped(tbl') = Mapped(v)
  BY <1>1
<1> HIDE DEF v
<1> QED BY <1>1, <1>3, <1>4, StoreAsk

\* So does the store of a page over a table.
LEMMA ShrinkAsk ==
  ASSUME Inv, AskInv, Shrink
  PROVE  AskInv' /\ Promise!Advance
<1>1. ~Idle /\ hole = NoHole /\ AtLevel /\ NextPage /\ UNCHANGED <<hole, phase, removal>>
  BY DEF Shrink
<1>2. PICK lev, at : Tree(tbl, lev, at)
  BY DEF Inv
<1> DEFINE v == [tbl EXCEPT ![walk.frame][I] = Store]
<1>3. IsStored(v) /\ Tree(v, lev, at)
  BY <1>1, <1>2, Stored
<1>4. /\ Entry.at \in DOMAIN v \ {Pgd}
      /\ DOMAIN tbl' = DOMAIN v \ {Entry.at} /\ \A h \in DOMAIN tbl' : tbl'[h] = v[h]
  BY <1>2, Shrunk
<1>5. \A a \in 0..2 * KernPage - 1, l \in Levels : Look(tbl', a, l) = Look(v, a, l)
  BY <1>2, ShrunkShows
<1> HIDE DEF v
<1>6. tbl'[Pgd] = v[Pgd]
  BY <1>3, <1>4 DEF Tree
<1> DEFINE u == tbl'
<1>7. Mapped(u) = Mapped(v)
  <2>1. \A p \in Phys : Look(u, KernPage + p, 1) = Look(v, KernPage + p, 1)
    BY <1>5, KernHalf DEF Levels
  <2> HIDE DEF u
  <2>2. \A p : p \in Mapped(u) <=> p \in Mapped(v)
    BY <2>1, MappedIs
  <2> QED BY <2>2
<1> QED BY <1>1, <1>3, <1>6, <1>7, StoreAsk

\* The pages a call asks for.
LEMMA CallAsks ==
  ASSUME NEW vp, NEW pp, NEW d, NEW sz, NEW c, Called(vp, pp, d, sz, c)
  PROVE  \E end \in Nat :
           /\ vp \in Nat /\ vp < end /\ asked' = {p % KernPage : p \in vp..end - 1}
           /\ removal' = c /\ walk' = Root /\ UNCHANGED <<tbl, hole>>
           /\ parts' \in Seq(PartsOf(c)) /\ Links(parts', vp, end) /\ Inside(parts', vp, end)
           /\ sz = 1 => end = vp + 1
<1> DEFINE v == vp * PgSize
           phy == pp * PgSize
<1>1. PICK end \in Nat :
        /\ Align(v + sz, PgSize) = end * PgSize /\ v \div PgSize = vp
        /\ vp < end /\ end <= KernPage + d
        /\ Regions(v, phy, sz) \in Seq(PartsOf(c)) /\ Chain(Regions(v, phy, sz), vp, end)
  BY RegionsGood DEF Called
<1>2. /\ parts' = Regions(v, phy, sz) /\ walk' = Root /\ removal' = c
      /\ tbl' = tbl /\ hole' = hole
      /\ asked' = {p % KernPage : p \in v \div PgSize..Align(v + sz, PgSize) \div PgSize - 1}
      /\ vp \in Nat /\ sz \in Nat \ {0} /\ PgSize \in Nat \ {0}
  BY PgSizeAssumption DEF MapRegion, Called
<1>3. (end * PgSize) \div PgSize = end
  BY <1>2, AlignedIs
<1>4. asked' = {p % KernPage : p \in vp..end - 1}
  BY <1>1, <1>2, <1>3
<1>5. sz = 1 => end = vp + 1
  <2> SUFFICES ASSUME sz = 1 PROVE end = vp + 1
    OBVIOUS
  <2>1. v \in Nat /\ v + sz \in Nat
    <3>1. vp * PgSize \in Nat
      BY <1>2
    <3> QED BY <1>2, <3>1
  <2> HIDE DEF v
  <2>2. PICK i \in Nat : Align(v + sz, PgSize) = i * PgSize /\ i * PgSize < (v + sz) + PgSize
    BY <1>2, <2>1, AlignIs
  <2>3. end * PgSize < (v + 1) + PgSize
    BY <1>1, <2>2
  <2>4. end * PgSize < (vp + 1) * PgSize + PgSize
    <3> DEFINE x == vp * PgSize
    <3>1. (vp + 1) * PgSize = x + PgSize /\ x \in Nat /\ v = x
      BY <1>2 DEF v
    <3> HIDE DEF x
    <3>2. (v + 1) + PgSize <= (x + PgSize) + PgSize
      BY <1>2, <3>1
    <3> QED
      <4> DEFINE y == end * PgSize
      <4>1. y \in Nat
        BY <1>2
      <4> HIDE DEF y
      <4>2. y < (v + 1) + PgSize
        BY <2>3 DEF y
      <4>3. y < (x + PgSize) + PgSize
        BY <1>2, <2>1, <3>1, <3>2, <4>1, <4>2
      <4> QED BY <3>1, <4>3 DEF y
  <2>5. end <= vp + 1
    <3>1. vp + 1 \in Nat
      BY <1>2
    <3> QED BY <1>2, <2>4, <3>1, Times
  <2> QED BY <1>1, <1>2, <2>5
<1> QED BY <1>1, <1>2, <1>4, <1>5 DEF Chain

\* A call of arch_map_region: a request begins.
LEMMA CallAsk ==
  ASSUME Inv, Inv', AskInv, Idle, NEW vp, NEW pp, NEW d, NEW sz, NEW c, Called(vp, pp, d, sz, c),
         phase # "done", phase' \in {"kernel", "smp", "clear"},
         phase' = "kernel" => d = KernPage,
         phase' # "kernel" => vp = MpPage /\ sz = 1,
         c <=> phase' = "clear"
  PROVE  AskInv' /\ Promise!Begin
<1>1. PICK end \in Nat :
           /\ vp \in Nat /\ vp < end /\ asked' = {p % KernPage : p \in vp..end - 1}
           /\ removal' = c /\ walk' = Root /\ UNCHANGED <<tbl, hole>>
           /\ parts' \in Seq(PartsOf(c)) /\ Links(parts', vp, end) /\ Inside(parts', vp, end)
           /\ sz = 1 => end = vp + 1
  BY CallAsks
<1>2. parts' # <<>>
  BY <1>1 DEF Links
<1>3. hole = NoHole
  BY DEF Inv, HoleAt
<1>4. Now'.at = vp /\ Now'.level \in 1..3
  <2> DEFINE u == parts'
             S == PartsOf(c)
  <2>1. u \in Seq(S) /\ u # <<>> /\ Now' = Head(u) /\ u[1].at = vp
    BY <1>1, <1>2 DEF Now, Links
  <2> HIDE DEF u, S
  <2>2. Head(u) \in S /\ Head(u) = u[1]
    BY <2>1, HeadTailProperties
  <2> QED BY <2>1, <2>2 DEF S, PartsOf, PartType
<1>5. SharedPud'
  BY <1>1 DEF AskInv, SharedPud
<1>6. DeepShown'
  <2>1. DownTo' = 4
    BY <1>1, <1>3 DEF DownTo, Root
  <2> QED BY <1>4, <2>1 DEF DeepShown
<1>7. Request(vp, end)'
  <2>1. vp \in Nat /\ end \in Nat /\ vp <= Now'.at
    BY <1>1, <1>4
  <2>2. Links(parts', Now'.at, end) /\ Inside(parts', vp, end)
    BY <1>1, <1>4
  <2>3. \A q \in vp..Now'.at - 1 : FALSE
    BY <1>1, <1>4
  <2>4. /\ phase' = "kernel" => vp >= KernPage
        /\ phase' # "kernel" => vp = MpPage /\ end = MpPage + 1
        /\ removal' <=> phase' = "clear"
    <3>1. d = KernPage => vp >= KernPage
      BY Covers DEF Called
    <3> QED BY <1>1, <3>1
  <2> QED BY <1>1, <2>1, <2>2, <2>3, <2>4 DEF Request, Links, Inside
<1>8. AskInv'
  BY <1>2, <1>5, <1>6, <1>7 DEF AskInv, Idle
<1>9. asked = {} /\ asked' \subseteq Phys
  BY DEF AskInv, Inv, Basic
<1>10. Mapped(Settled)' = Mapped(Settled)
  <2>1. Settled' = Settled
    BY <1>1, <1>3 DEF Settled
  <2> QED BY <2>1 DEF Mapped, Lookup
<1>11. c => asked' \subseteq {MpPage}
  <2> SUFFICES ASSUME c PROVE asked' \subseteq {MpPage}
    OBVIOUS
  <2>1. vp = MpPage /\ end = MpPage + 1 /\ MpPage \in Nat
    BY <1>1
  <2>2. \A p \in vp..end - 1 : p = MpPage
    BY <2>1
  <2>3. MpPage % KernPage = MpPage
    <3>1. MpPage \in 0..2 * KernPage - 1 /\ MpPage < KernPage
      <4>1. MpPage \in 0..E - 1 /\ E \in Nat /\ E <= KernPage /\ KernPage \in Nat
        BY BoundsAssumption, Covers, KernIsFar
      <4> QED BY <4>1
    <3> QED BY <3>1, ModKern
  <2> QED BY <1>1, <2>2, <2>3
<1>12. c \in BOOLEAN
  BY DEF Called
<1>13. Promise!Begin
  <2> DEFINE X == Mapped(Settled)
  <2>1. X' = X
    BY <1>10
  <2> HIDE DEF X
  <2>2. UNCHANGED X
    BY <2>1
  <2>3. \/ asked' \in SUBSET Phys /\ removal' = FALSE
        \/ asked' \in SUBSET {MpPage} /\ removal' = TRUE
    BY <1>1, <1>9, <1>11, <1>12
  <2> QED BY <1>9, <2>2, <2>3 DEF Promise!Begin, X
<1> QED BY <1>8, <1>13

\* What changes nothing of this.
LEMMA IdleAsk ==
  ASSUME Inv, AskInv, Idle, UNCHANGED <<hole, parts, walk, asked, removal>>,
         phase' # "done" => phase # "done" /\ tbl' = tbl, Mapped(tbl') = Mapped(tbl)
  PROVE  AskInv' /\ UNCHANGED <<Mapped(Settled), asked, removal>>
<1>1. hole = NoHole
  BY DEF Inv, HoleAt
<1>2. Mapped(Settled)' = Mapped(Settled)
  <2>1. Settled = tbl /\ Settled' = tbl'
    BY <1>1 DEF Settled
  <2> QED BY <2>1
<1>3. Idle' /\ SharedPud' /\ asked' = {}
  BY DEF Idle, AskInv, SharedPud
<1> QED BY <1>2, <1>3 DEF AskInv, DeepShown

\* arch_map_kernel_page begins a request, or asks for nothing.
LEMMA MapKernelPageAsk ==
  ASSUME Inv, Inv', AskInv, MapKernelPage
  PROVE  AskInv' /\ (Promise!Begin \/ UNCHANGED <<Mapped(Settled), asked, removal>>)
<1>1. Idle /\ phase = "boot" /\ phase' = "kernel"
  BY DEF MapKernelPage
<1>2. CASE limit > Cover(3)
  <2>1. PICK sz : Called(KernPage + Cover(3), Cover(3), KernPage, sz, FALSE)
    BY <1>2, MapKernelPageCall
  <2> DEFINE c == FALSE
  <2>2. Called(KernPage + Cover(3), Cover(3), KernPage, sz, c) /\ (c <=> phase' = "clear")
    BY <1>1, <2>1
  <2> HIDE DEF c
  <2> QED BY <1>1, <2>2, CallAsk
<1>3. CASE ~(limit > Cover(3))
  <2>1. UNCHANGED <<tbl, hole, parts, walk, asked, removal>>
    BY <1>3 DEF MapKernelPage
  <2> QED BY <1>1, <2>1, IdleAsk
<1> QED BY <1>2, <1>3

\* arch_kmap begins a request.
LEMMA KmapAsk ==
  ASSUME Inv, Inv', AskInv, NEW k \in Kmaps, Kmap(k)
  PROVE  AskInv' /\ Promise!Begin
<1>1. Idle /\ phase = "kernel" /\ phase' = "kernel"
  BY DEF Kmap
<1>2. PICK pp : Called(KernPage + pp, pp, KernPage, k.sz, FALSE)
  BY KmapCall
<1> DEFINE c == FALSE
<1>3. Called(KernPage + pp, pp, KernPage, k.sz, c) /\ (c <=> phase' = "clear")
  BY <1>1, <1>2
<1> HIDE DEF c
<1> QED BY <1>1, <1>3, CallAsk

\* smp_init begins a request, both times.
LEMMA TrampolineAsk ==
  ASSUME Inv, Inv', AskInv, MapTrampoline \/ ClearTrampoline
  PROVE  AskInv' /\ Promise!Begin
<1>1. CASE MapTrampoline
  <2>1. Idle /\ phase = "kernel" /\ phase' = "smp"
    BY <1>1 DEF MapTrampoline
  <2> DEFINE c == FALSE
             one == 1
  <2>2. Called(MpPage, MpPage, MpPage - MpPage, one, c) /\ (c <=> phase' = "clear") /\ one = 1
    BY <1>1, <2>1, TrampolineCall DEF MapTrampoline
  <2> HIDE DEF c, one
  <2> QED BY <2>1, <2>2, CallAsk
<1>2. CASE ClearTrampoline
  <2>1. Idle /\ phase = "smp" /\ phase' = "clear"
    BY <1>2 DEF ClearTrampoline
  <2> DEFINE c == TRUE
             one == 1
             z == 0
  <2>2. Called(MpPage, z, MpPage, one, c) /\ (c <=> phase' = "clear") /\ one = 1
    BY <1>2, <2>1, ClearTrampolineCall
  <2> HIDE DEF c, one, z
  <2> QED BY <2>1, <2>2, CallAsk
<1> QED BY <1>1, <1>2

\* An address of the upper half is looked up by an entry of the upper half of the pgd.
LEMMA HighEntry ==
  ASSUME NEW p \in Phys
  PROVE  Idx(KernPage + p, 4) # 0 /\ Idx(KernPage + p, 4) \in E \div 2..E - 1
<1> DEFINE a == KernPage + p
           c == Cover(4)
           h == E \div 2
           q == a \div c
           r == a % c
<1>1. /\ c \in Nat \ {0} /\ h \in Nat \ {0} /\ E = 2 * h /\ KernPage = h * c
      /\ a \in Nat /\ KernPage <= a /\ a < 2 * KernPage /\ KernPage \in Nat
  <2>1. KernPage \in Nat /\ c \in Nat \ {0} /\ E \in Nat \ {0, 1} /\ E % 2 = 0
    BY EAssumption, Covers DEF Levels
  <2> HIDE DEF c
  <2>2. KernPage = h * c
    BY DEF KernPage, c
  <2> QED BY <2>1, <2>2 DEF Phys
<1> HIDE DEF a, c, h
<1>2. q \in Nat /\ r \in 0..c - 1 /\ a = q * c + r
  BY <1>1, Division
<1> HIDE DEF q, r
<1>3. h * c < q * c + c /\ q * c < (2 * h) * c
  <2>1. q * c \in Nat /\ h * c \in Nat /\ (2 * h) * c = 2 * (h * c)
    BY <1>1, <1>2
  <2> QED BY <1>1, <1>2, <2>1
<1>4. h <= q
  BY <1>1, <1>2, <1>3, Times
<1>5. ~(2 * h <= q)
  <2> DEFINE k == 2 * h
  <2>1. k \in Nat /\ ~(k * c <= q * c)
    <3>1. k \in Nat
      BY <1>1
    <3> HIDE DEF k
    <3>2. q * c < k * c /\ q * c \in Nat /\ k * c \in Nat
      BY <1>1, <1>2, <1>3, <3>1 DEF k
    <3> QED BY <3>1, <3>2
  <2> HIDE DEF k
  <2>2. ~(k <= q)
    BY <1>1, <1>2, <2>1, Times
  <2> QED BY <2>2 DEF k
<1>6. q % E = q
  <2> DEFINE z == 0
  <2>1. z \in Nat /\ q \in 0..E - 1 /\ q = z * E + q /\ E \in Nat \ {0}
    BY <1>1, <1>2, <1>5
  <2> HIDE DEF z
  <2> QED BY <1>2, <2>1, DivisionIs
<1>7. Idx(a, 4) = q
  BY <1>6 DEF Idx, q, c
<1>8. q \in h..E - 1 /\ q # 0
  BY <1>1, <1>2, <1>4, <1>5
<1> QED BY <1>7, <1>8 DEF a, h

\* arch_clear_low_page leaves the upper half alone.
LEMMA ClearLowPageAsk ==
  ASSUME Inv, AskInv, ClearLowPage
  PROVE  AskInv' /\ UNCHANGED <<Mapped(Settled), asked, removal>>
<1>1. /\ Idle /\ phase' = "done" /\ tbl' = [tbl EXCEPT ![Pgd][0] = None]
      /\ UNCHANGED <<hole, parts, walk, asked, removal>>
  BY DEF ClearLowPage
<1>2. PICK lev, at : Tree(tbl, lev, at)
  BY DEF Inv
<1> DEFINE u == tbl'
           z == 0
<1>3. Pgd \in DOMAIN tbl /\ lev[Pgd] = 4 /\ z \in Index
  BY <1>2, Covers DEF Tree, Index
<1>4. OneChanged(tbl, u, Pgd, z)
  <2>1. tbl[Pgd] = [i \in Index |-> tbl[Pgd][i]]
    BY <1>2 DEF Tree
  <2> QED BY <1>1, <1>3, <2>1 DEF OneChanged
<1>5. ASSUME NEW p \in Phys PROVE Look(u, KernPage + p, 1) = Look(tbl, KernPage + p, 1)
  <2> DEFINE a == KernPage + p
  <2>1. a \in 0..2 * KernPage - 1
    BY KernHalf
  <2>2. Idx(a, 4) # 0
    BY HighEntry
  <2> HIDE DEF a, u, z
  <2>3. ~Through(tbl, lev, a, Pgd, z)
    BY <1>3, <2>2 DEF Through, z
  <2>4. \A l \in Levels : Look(u, a, l) = Look(tbl, a, l)
    BY <1>2, <1>3, <1>4, <2>1, <2>3, EntryEffect
  <2> QED BY <2>4 DEF a, Levels
<1>6. Mapped(u) = Mapped(tbl)
  <2> HIDE DEF u
  <2>1. \A p : p \in Mapped(u) <=> p \in Mapped(tbl)
    BY <1>5, MappedIs
  <2> QED BY <2>1
<1> QED BY <1>1, <1>6, IdleAsk

\* What boot.S has mapped.
LEMMA InitAsk == Init => AskInv /\ Promise!Init
<1> SUFFICES ASSUME Init PROVE AskInv /\ Promise!Init
  OBVIOUS
<1>1. Idle /\ hole = NoHole /\ asked = {} /\ removal = FALSE /\ phase = "boot" /\ Settled = tbl
  BY DEF Init, Idle, Settled
<1>2. Pgd # Pud /\ Pgd # Pmd /\ Pud # Pmd /\ E \in Nat \ {0, 1}
  BY Covers DEF Pgd, Pud, Pmd
<1> DEFINE h == E \div 2
<1>3. /\ \A i \in Index : tbl[Pgd][i] = IF i \in {0, h} THEN Table(Pud) ELSE None
      /\ \A i \in Index : tbl[Pud][i] = IF i = 0 THEN Table(Pmd) ELSE None
      /\ \A i \in Index : tbl[Pmd][i] = Page(i * Cover(2))
  BY <1>2 DEF Init
<1>4. 0 \in Index /\ h \in Index
  BY <1>2 DEF Index
<1>5. SharedPud
  BY <1>3, <1>4 DEF SharedPud
<1>6. AskInv
  BY <1>1, <1>5 DEF AskInv, DeepShown
<1>7. /\ Cover(3) \in Nat \ {0} /\ Cover(3) <= Cover(4) /\ Cover(4) <= KernPage /\ Cover(4) \in Nat
      /\ KernPage \in Nat \ {0} /\ h * Cover(4) = KernPage
  BY KernIsFar DEF KernPage
<1>8. ASSUME NEW p \in Phys PROVE p \in Mapped(tbl) <=> p < Cover(3)
  <2> DEFINE a == KernPage + p
             i == Idx(a, 3)
             c == Cover(3)
  <2>1. a \in 0..2 * KernPage - 1 /\ p \in Nat
    BY KernHalf DEF Phys
  <2>2. /\ i \in Nat /\ i \in Index /\ Idx(a, 4) \in Index /\ Idx(a, 2) \in Index
        /\ Block(a, 3) = Block(a, 4) + i * c
        /\ Block(a, 4) = (Idx(a, 4) * Cover(4)) % KernPage /\ Block(a, 4) \in Nat
    BY <2>1, Blocks DEF Levels, Index
  <2>3. Block(a, 3) <= p /\ p < Block(a, 3) + c
    BY OwnBlock DEF Levels
  <2>4. Idx(a, 4) # 0
    BY HighEntry
  <2> HIDE DEF a, i, c
  <2>5. Idx(a, 4) = h /\ i = 0 => p < c
    <3>1. KernPage % KernPage = 0
      <4>1. KernPage \in 0..2 * KernPage - 1
        BY <1>7
      <4> QED BY <1>7, <4>1, ModKern
    <3>2. 0 * c = 0 /\ c \in Nat
      BY <1>7 DEF c
    <3> QED BY <1>7, <2>1, <2>2, <2>3, <3>1, <3>2
  <2>6. p < c => Idx(a, 4) = h /\ i = 0
    <3> SUFFICES ASSUME p < c PROVE Idx(a, 4) = h /\ i = 0
      OBVIOUS
    <3>1. p \in 0..Cover(4) - 1 /\ tbl[Pgd][0] = tbl[Pgd][h]
      BY <1>3, <1>4, <1>7, <2>1 DEF c
    <3>2. Idx(a, 4) = h
      BY <3>1, HalvesAlike DEF a
    <3>3. ~(1 <= i)
      <4>1. 1 <= i => 1 * c <= i * c
        BY <1>7, <2>2, Times DEF c
      <4>2. i * c \in Nat /\ c \in Nat
        BY <1>7, <2>2 DEF c
      <4> QED BY <2>1, <2>2, <2>3, <4>1, <4>2
    <3> QED BY <2>2, <3>2, <3>3
  <2>7. Look(tbl, a, 1).kind = "page" <=> Idx(a, 4) = h /\ i = 0
    <3>1. Look(tbl, a, 4) = IF Idx(a, 4) = h THEN Table(Pud) ELSE None
      BY <1>3, <2>2, <2>4, Looks
    <3>2. /\ Look(tbl, a, 3) = Below(tbl, a, 3, Look(tbl, a, 4))
          /\ Look(tbl, a, 2) = Below(tbl, a, 2, Look(tbl, a, 3))
          /\ Look(tbl, a, 1) = Below(tbl, a, 1, Look(tbl, a, 2))
      <4>1. 3 \in 1..3 /\ 2 \in 1..3 /\ 1 \in 1..3 /\ 3 + 1 = 4 /\ 2 + 1 = 3 /\ 1 + 1 = 2
        OBVIOUS
      <4> QED BY <4>1, Looks
    <3>3. \A l : Below(tbl, a, l, None) = None
      BY DEF Below, Within, None
    <3>4. CASE Idx(a, 4) # h
      BY <3>1, <3>2, <3>3, <3>4 DEF None
    <3>5. CASE Idx(a, 4) = h /\ i # 0
      <4>1. Below(tbl, a, 3, Table(Pud)) = None
        BY <1>3, <2>2, <3>5 DEF Below, Table, i
      <4> QED BY <3>1, <3>2, <3>3, <3>5, <4>1 DEF None
    <3>6. CASE Idx(a, 4) = h /\ i = 0
      <4>1. Below(tbl, a, 3, Table(Pud)) = Table(Pmd)
        BY <1>3, <2>2, <3>6 DEF Below, Table, i
      <4>2. Below(tbl, a, 2, Table(Pmd)).kind = "page"
        <5> DEFINE j == Idx(a, 2)
        <5>1. Below(tbl, a, 2, Table(Pmd)) = tbl[Pmd][j]
          BY DEF Below, Table, j
        <5>2. j \in Index
          BY <2>2 DEF j
        <5> HIDE DEF j
        <5>3. tbl[Pmd][j].kind = "page"
          <6>1. tbl[Pmd][j] = Page(j * Cover(2))
            BY <1>3, <5>2, Zenon
          <6>2. \A x : Page(x).kind = "page"
            BY DEF Page
          <6> QED BY <6>1, <6>2
        <5> QED BY <5>1, <5>3
      <4>3. \A e : e.kind = "page" => Below(tbl, a, 1, e).kind = "page"
        BY DEF Below, Within, Page
      <4> QED BY <3>1, <3>2, <3>6, <4>1, <4>2, <4>3
    <3> QED BY <3>4, <3>5, <3>6
  <2>8. p \in Mapped(tbl) <=> Look(tbl, a, 1).kind = "page"
    BY MappedIs DEF a
  <2> QED BY <2>5, <2>6, <2>7, <2>8 DEF c
<1>9. Mapped(tbl) = BootPages
  <2>1. \A p : p \in Mapped(tbl) => p \in Phys
    BY MappedIs
  <2>2. \A p : p \in BootPages <=> p \in Phys /\ p < Cover(3)
    <3> DEFINE c == Cover(3)
    <3>1. c \in Nat \ {0} /\ c <= KernPage /\ KernPage \in Nat
      BY <1>7
    <3> HIDE DEF c
    <3>2. \A p : p \in 0..c - 1 <=> p \in 0..KernPage - 1 /\ p < c
      BY <3>1
    <3> QED BY <3>2 DEF BootPages, Phys, c
  <2> QED BY <1>8, <2>1, <2>2
<1> QED BY <1>1, <1>6, <1>9 DEF Promise!Init

\* Every step does what the direct mapping allows.
LEMMA StepAsk == Inv /\ Inv' /\ AskInv /\ [Next]_vars => AskInv' /\ [Promise!Next]_(Promise!vars)
<1> SUFFICES ASSUME Inv, Inv', AskInv, [Next]_vars
             PROVE  AskInv' /\ [Promise!Next]_(Promise!vars)
  OBVIOUS
<1> DEFINE Nothing == UNCHANGED <<Mapped(Settled), asked, removal>>
<1>1. CASE Descend \/ NewTable \/ Expand \/ Fill
  BY <1>1, DescendAsk, NewTableAsk, ExpandAsk, FillAsk DEF Promise!vars
<1>2. CASE Write \/ Shrink
  BY <1>2, WriteAsk, ShrinkAsk DEF Promise!Next
<1>3. CASE MapKernelPage
  BY <1>3, MapKernelPageAsk DEF Promise!Next, Promise!vars
<1>4. CASE MapTrampoline \/ ClearTrampoline
  BY <1>4, TrampolineAsk DEF Promise!Next
<1>5. CASE ClearLowPage
  BY <1>5, ClearLowPageAsk DEF Promise!vars
<1>6. ASSUME NEW k \in Kmaps, Kmap(k) PROVE AskInv' /\ [Promise!Next]_(Promise!vars)
  BY <1>6, KmapAsk DEF Promise!Next
<1>7. CASE UNCHANGED vars
  <2>1. Now' = Now /\ Idle' = Idle /\ DownTo' = DownTo /\ UNCHANGED <<parts, asked, removal, phase, tbl>>
    BY <1>7 DEF vars, Now, Idle, DownTo
  <2>2. Settled' = Settled
    BY <1>7 DEF vars, Settled, Filled
  <2>3. Mapped(Settled)' = Mapped(Settled)
    BY <2>2 DEF Mapped, Lookup
  <2>4. AskInv'
    BY <2>1, <2>3 DEF AskInv, SharedPud, DeepShown, BlockShown, Request, Links, Inside
  <2> QED BY <2>1, <2>3, <2>4 DEF Promise!vars
<1> QED BY <1>1, <1>2, <1>3, <1>4, <1>5, <1>6, <1>7 DEF Next, Walk

\* The tables implement the direct mapping of mem_layout.h, with whatever pgdir_walk,
\* expand_page and __map_region do on the way: what arch_map_region is asked for is there
\* when it returns (or gone, when it was to go), no page appears that was not asked for,
\* and none vanishes, not even while a large page is being split.
THEOREM DirectMapKept == Spec => DirectMapSpec
<1>1. Init => AskInv /\ Promise!Init
  BY InitAsk
<1>2. Inv /\ Inv' /\ AskInv /\ [Next]_vars => AskInv' /\ [Promise!Next]_(Promise!vars)
  BY StepAsk
<1> QED BY <1>1, <1>2, Invariant, PTL DEF Spec, DirectMapSpec, Promise!Spec

-----------------------------------------------------------------------------
(* Other processors run.                                                   *)

\* Once the trampoline is mapped, the table for its page is there until it is cleared:
\* nothing is left to split.
SplitInv == (phase = "smp" /\ Idle) \/ (phase = "clear" /\ ~Idle)
              => hole = NoHole /\ Look(tbl, MpPage, 2).kind = "table"

\* While the trampoline is cleared, the walk is on the way to its table.
LEMMA ClearingWalk ==
  ASSUME Inv, AskInv, SplitInv, ~Idle, phase = "clear"
  PROVE  /\ hole = NoHole /\ Now.at = MpPage /\ Now.level = 1
         /\ walk.level > 1 => Entry.kind = "table"
<1>1. PICK f, e : Request(f, e)
  BY DEF AskInv
<1>2. Now.at = MpPage /\ Now.level = 1
  BY <1>1, RequestNow
<1>3. hole = NoHole /\ Look(tbl, MpPage, 2).kind = "table"
  BY DEF SplitInv
<1>4. PICK lev, at : Tree(tbl, lev, at)
  BY DEF Inv
<1>5. Look(tbl, Now.at, walk.level) = Entry /\ walk.level \in Levels
  BY <1>3, <1>4, WalkFound DEF Inv, Basic
<1>6. walk.level > 1 => Look(tbl, MpPage, walk.level).kind = "table"
  <2>1. 2 \in Levels /\ (walk.level > 1 => 2 <= walk.level)
    BY <1>5 DEF Levels
  <2> QED BY <1>3, <1>5, <2>1, LookDown
<1> QED BY <1>2, <1>3, <1>5, <1>6

\* The entry of the trampoline's page is stored in a table, which stays.
LEMMA TableStays ==
  ASSUME Inv, AskInv, ~Idle, hole = NoHole, phase # "kernel", walk.level = 1, NEW u,
         OneChanged(tbl, u, walk.frame, I)
  PROVE  Look(u, MpPage, 2).kind = "table"
<1>1. PICK f, e : Request(f, e)
  BY DEF AskInv
<1>2. Now.at = MpPage
  BY <1>1, RequestNow
<1>3. PICK lev, at : Tree(tbl, lev, at)
  BY DEF Inv
<1>4. lev[walk.frame] = 1 /\ I \in Index /\ walk.frame \in DOMAIN tbl
  BY <1>3, WalkFound DEF Inv, Basic
<1>5. Look(tbl, MpPage, 2).kind = "table"
  <2>1. walk # Root
    BY DEF Root
  <2>2. Look(tbl, Now.at, 2) = Table(walk.frame)
    BY <2>1 DEF Inv, WalkAt
  <2> QED BY <1>2, <2>2 DEF Table
<1>6. MpPage \in 0..2 * KernPage - 1
  <2>1. Now \in PartsOf(removal)
    BY NowGood DEF Inv
  <2> QED BY <1>2, <2>1, PartStarts
<1>7. Look(u, MpPage, 2) = Look(tbl, MpPage, 2)
  <2>1. 2 \in Levels /\ 2 > lev[walk.frame]
    BY <1>4 DEF Levels
  <2> QED BY <1>3, <1>4, <1>6, <2>1, EntryEffect
<1> QED BY <1>5, <1>7

\* Before the other processors start nothing is said.
LEMMA InitSplit == Init => SplitInv
BY DEF Init, SplitInv, Idle

\* From then on every step keeps the table.
LEMMA SplitStep ==
  ASSUME Inv, Inv', AskInv, AskInv', SplitInv, [Next]_vars
  PROVE  SplitInv'
<1> SUFFICES ASSUME (phase' = "smp" /\ Idle') \/ (phase' = "clear" /\ ~Idle')
             PROVE  hole' = NoHole /\ Look(tbl', MpPage, 2).kind = "table"
  <2>1. MpPage' = MpPage /\ Look(tbl, MpPage, 2)' = Look(tbl', MpPage, 2)
    BY DEF Look, Below
  <2> QED BY <2>1 DEF SplitInv
<1>1. CASE MapKernelPage \/ ClearLowPage \/ \E k \in Kmaps : Kmap(k)
  BY <1>1 DEF MapKernelPage, ClearLowPage, Kmap
<1>2. CASE MapTrampoline
  <2>1. Idle /\ phase = "kernel" /\ phase' = "smp"
    BY <1>2 DEF MapTrampoline
  <2> DEFINE c == FALSE
  <2>2. MapRegion(MpPage * PgSize, MpPage * PgSize, 1, c) /\ c \in BOOLEAN
    BY <1>2 DEF MapTrampoline
  <2> HIDE DEF c
  <2>6. Called(MpPage, MpPage, MpPage - MpPage, 1, c)
    BY <2>2, TrampolineCall
  <2>3. PICK end \in Nat : MpPage \in Nat /\ MpPage < end /\ asked' = {p % KernPage : p \in MpPage..end - 1}
    BY <2>6, CallAsks
  <2>4. MpPage \in MpPage..end - 1
    BY <2>3
  <2>5. asked' # {}
    BY <2>3, <2>4
  <2> QED BY <2>1, <2>5 DEF AskInv
<1>3. CASE ClearTrampoline
  <2>1. Idle /\ phase = "smp" /\ UNCHANGED <<tbl, hole>>
    BY <1>3 DEF ClearTrampoline, MapRegion
  <2> QED BY <2>1 DEF SplitInv
<1>4. CASE Walk
  <2>1. ~Idle /\ phase' = phase
    BY <1>4 DEF Walk, Descend, NewTable, Expand, Fill, Write, Shrink, Inv, HoleAt
  <2>2. CASE Descend
    <3>1. UNCHANGED <<tbl, hole, parts>>
      BY <2>2 DEF Descend
    <3> QED BY <2>1, <3>1 DEF SplitInv, Idle
  <2>3. CASE NewTable \/ Expand \/ Fill
    <3>1. parts' = parts
      BY <2>3 DEF NewTable, Expand, Fill
    <3>2. phase = "clear"
      BY <2>1, <3>1 DEF Idle
    <3>3. hole = NoHole /\ (walk.level > 1 => Entry.kind = "table") /\ Now.level = 1
      BY <2>1, <3>2, ClearingWalk
    <3>4. walk.level # 1 => walk.level > 1
      BY DEF Inv, Basic, Levels
    <3> QED BY <2>3, <3>3, <3>4 DEF NewTable, Expand, Fill, AtLevel
  <2>4. CASE Write \/ Shrink
    <3>1. hole = NoHole /\ AtLevel /\ hole' = hole
      BY <2>4 DEF Write, Shrink
    <3>2. PICK f, e : Request(f, e)
      BY <2>1 DEF AskInv
    <3>3. Now.level = 1 /\ phase # "kernel"
      BY <2>1, <3>2, RequestNow
    <3>4. walk.level = 1
      BY <3>1, <3>3 DEF AtLevel
    <3>5. Write
      BY <2>4, <3>4 DEF Shrink
    <3>6. PICK lev, at : Tree(tbl, lev, at)
      BY DEF Inv
    <3>7. OneChanged(tbl, tbl', walk.frame, I)
      <4>1. tbl' = [tbl EXCEPT ![walk.frame][I] = Store]
        BY <3>5 DEF Write
      <4> QED BY <2>1, <3>1, <3>6, <4>1, Stored DEF IsStored
    <3> QED BY <2>1, <3>1, <3>3, <3>4, <3>7, TableStays
  <2> QED BY <1>4, <2>2, <2>3, <2>4 DEF Walk
<1>5. CASE UNCHANGED vars
  <2>1. UNCHANGED <<tbl, hole, phase, parts>>
    BY <1>5 DEF vars
  <2> QED BY <2>1 DEF SplitInv, Idle
<1> QED BY <1>1, <1>2, <1>3, <1>4, <1>5 DEF Next

\* No page but the trampoline's vanishes while others run.
LEMMA OthersKept ==
  ASSUME Inv, Inv', AskInv, SplitInv, [Next]_vars, OthersRun
  PROVE  (Mapped(tbl) \ {MpPage}) \subseteq Mapped(tbl')
<1>1. hole = NoHole
  <2>1. Idle => hole = NoHole
    BY DEF Inv, HoleAt
  <2>2. phase = "done" => Idle
    BY DEF AskInv, Request
  <2> QED BY <2>1, <2>2 DEF OthersRun, SplitInv
<1>2. CASE UNCHANGED tbl
  BY <1>2 DEF Mapped, Lookup
<1>3. CASE ClearLowPage
  <2>1. Mapped(Settled)' = Mapped(Settled) /\ hole' = hole
    BY <1>3, ClearLowPageAsk DEF ClearLowPage
  <2>2. Settled = tbl /\ Settled' = tbl'
    BY <1>1, <2>1 DEF Settled
  <2> QED BY <2>1, <2>2
<1>4. CASE Walk /\ ~UNCHANGED tbl
  <2>1. ~Idle /\ phase = "clear"
    <3>1. ~Idle
      BY <1>4 DEF Walk, Descend, NewTable, Expand, Fill, Write, Shrink, Inv, HoleAt
    <3>2. phase # "done"
      BY <3>1 DEF AskInv, Request
    <3> QED BY <3>1, <3>2 DEF OthersRun
  <2>2. Now.level = 1 /\ (walk.level > 1 => Entry.kind = "table") /\ Now.at = MpPage
    BY <2>1, ClearingWalk
  <2>3. ~(NewTable \/ Expand \/ Fill \/ Descend)
    <3>1. walk.level # 1 => walk.level > 1
      BY DEF Inv, Basic, Levels
    <3> QED BY <1>1, <1>4, <2>2, <3>1 DEF NewTable, Expand, Fill, Descend, AtLevel
  <2>4. Promise!Advance /\ hole' = hole
    BY <1>4, <2>3, WriteAsk, ShrinkAsk DEF Walk, Write, Shrink
  <2>5. Settled = tbl /\ Settled' = tbl'
    BY <1>1, <2>4 DEF Settled
  <2>6. PICK f, e : Request(f, e)
    BY <2>1 DEF AskInv
  <2>7. asked \subseteq {MpPage} /\ removal
    <3>1. asked = {q % KernPage : q \in MpPage..MpPage + 1 - 1} /\ removal
      BY <2>1, <2>6 DEF Request
    <3>2. MpPage \in Nat /\ MpPage % KernPage = MpPage
      <4>1. MpPage \in 0..2 * KernPage - 1 /\ MpPage < KernPage
        BY KernIsFar, BoundsAssumption, Covers
      <4> QED BY <4>1, ModKern
    <3>3. \A q \in MpPage..MpPage + 1 - 1 : q = MpPage
      BY <3>2
    <3> QED BY <3>1, <3>2, <3>3
  <2>8. Mapped(Settled) \ Mapped(Settled)' \subseteq asked
    BY <2>4, <2>7 DEF Promise!Advance
  <2>9. Mapped(Settled) = Mapped(tbl) /\ Mapped(Settled)' = Mapped(tbl')
    BY <2>5
  <2> QED BY <2>7, <2>8, <2>9
<1>5. ASSUME ~UNCHANGED tbl PROVE Walk \/ ClearLowPage
  BY <1>5 DEF vars, Next, MapKernelPage, MapTrampoline, ClearTrampoline, Kmap, MapRegion
<1> QED BY <1>2, <1>3, <1>4, <1>5

\* Once other processors may run, no page of the direct mapping vanishes from under
\* them, not even between the two steps of expand_page, but for the page they started in.
THEOREM OthersStayUndisturbed == Spec => OthersUndisturbed
<1>1. Init => AskInv /\ SplitInv
  BY InitAsk, InitSplit
<1>2. Inv /\ Inv' /\ AskInv /\ SplitInv /\ [Next]_vars => AskInv' /\ SplitInv'
  BY StepAsk, SplitStep
<1>3. Inv /\ Inv' /\ AskInv /\ SplitInv /\ [Next]_vars
        => [OthersRun => (Mapped(tbl) \ {MpPage}) \subseteq Mapped(tbl')]_vars
  BY OthersKept
<1> QED BY <1>1, <1>2, <1>3, Invariant, PTL DEF Spec, OthersUndisturbed

-----------------------------------------------------------------------------
(* Where the tables hang.                                                  *)

\* Every table but the first hangs somewhere.
Hung(t) == \A f \in DOMAIN t \ {Pgd} : \E g \in DOMAIN t, i \in Index : t[g][i] = Table(f)

\* The low half of the pgd has no table of its own, the upper half that of the boot code.
HalvesInv == /\ \A i \in Index : 0 < i /\ i < E \div 2 => tbl[Pgd][i] = None
             /\ phase = "done" => tbl[Pgd][0] = None
             /\ tbl[Pgd][E \div 2] = Table(Pud)

\* Only the first part has pages of level 3, and where they go there is nothing.
HugeInv == \A i \in 1..Len(parts) : parts[i].level = 3 =>
             i = 1 /\ \A q \in Now.at..Now.to - 1 : Look(tbl, q, 3).kind = "none"

\* What boot.S has not mapped.
BootInv == phase = "boot" =>
             \A q \in KernPage + Cover(3)..2 * KernPage - 1 : Look(tbl, q, 3).kind = "none"

HangInv == Hung(tbl) /\ HalvesInv /\ HugeInv /\ BootInv

\* A new table hangs where there was none, and all others where they hung.
LEMMA NewHangs ==
  ASSUME Hung(tbl), Entry.kind # "table", NEW u, OneChanged(tbl, u, walk.frame, I),
         walk.frame \in DOMAIN tbl, I \in Index,
         DOMAIN tbl \subseteq DOMAIN u, \A f \in DOMAIN u \ DOMAIN tbl : u[walk.frame][I] = Table(f)
  PROVE  Hung(u)
<1> SUFFICES ASSUME NEW f \in DOMAIN u \ {Pgd}
             PROVE  \E g \in DOMAIN u, i \in Index : u[g][i] = Table(f)
  BY DEF Hung
<1>1. CASE f \notin DOMAIN tbl
  BY <1>1
<1>2. CASE f \in DOMAIN tbl
  <2>1. PICK g \in DOMAIN tbl, i \in Index : tbl[g][i] = Table(f)
    BY <1>2 DEF Hung
  <2>2. ~(g = walk.frame /\ i = I)
    BY <2>1 DEF Entry, Table
  <2>3. u[g][i] = tbl[g][i]
    BY <2>1, <2>2 DEF OneChanged
  <2> QED BY <2>1, <2>3
<1> QED BY <1>1, <1>2

\* Nothing is hung in the low half of the pgd.
LEMMA HalvesStay ==
  ASSUME Inv, AskInv, ~Idle, hole = NoHole, Entry.kind # "table", HalvesInv,
         OneChanged(tbl, tbl', walk.frame, I), phase' = phase
  PROVE  HalvesInv'
<1>1. PICK lev, at : Tree(tbl, lev, at)
  BY DEF Inv
<1>2. Pgd \in DOMAIN tbl /\ E \in Nat \ {0, 1} /\ E % 2 = 0
  BY <1>1, EAssumption DEF Tree
<1> DEFINE h == E \div 2
<1>3. \A i \in Index : i <= h => tbl'[Pgd][i] = tbl[Pgd][i]
  <2>1. CASE walk.frame # Pgd
    BY <1>2, <2>1 DEF OneChanged
  <2>2. CASE walk.frame = Pgd
    <3>1. PICK f, e : Request(f, e)
      BY DEF AskInv
    <3>2. Now.at \in Now.at..Now.at + Cover(Now.level) - 1
      <4>1. Now.at \in Nat /\ Cover(Now.level) \in Nat \ {0}
        BY <3>1, RequestNow
      <4> DEFINE n == Cover(Now.level)
      <4> HIDE DEF n
      <4> QED BY <4>1 DEF n
    <3>3. Now.at \in Ranges
      BY <3>1, <3>2, RequestNow
    <3>4. walk.level = 4
      <4>1. lev[Pgd] = 4 /\ lev[walk.frame] = walk.level
        BY <1>1, WalkFound DEF Tree
      <4> QED BY <2>2, <4>1
    <3>5. tbl[Pgd][0].kind = "table" /\ tbl[Pgd][h].kind = "table"
      <4>1. SharedPud /\ phase # "done"
        BY <3>1 DEF AskInv, Request
      <4> QED BY <4>1 DEF SharedPud, Table
    <3>6. I # 0 /\ I # h
      BY <2>2, <3>5 DEF Entry
    <3>7. Now.at \notin 0..Cover(4) - 1
      <4> SUFFICES ASSUME Now.at \in 0..Cover(4) - 1 PROVE FALSE
        OBVIOUS
      <4>1. SharedPud /\ phase # "done"
        BY <3>1 DEF AskInv, Request
      <4>2. tbl[Pgd][0] = tbl[Pgd][h]
        BY <4>1 DEF SharedPud
      <4>3. Idx(Now.at, 4) = 0
        BY <4>2, HalvesAlike
      <4> QED BY <3>4, <3>6, <4>3 DEF I
    <3>8. I \in h..E - 1
      <4> DEFINE p == Now.at - KernPage
      <4>1. p \in Phys /\ KernPage + p = Now.at
        <5>1. Now.at \in KernPage..2 * KernPage - 1 /\ KernPage \in Nat
          BY <3>3, <3>7, Covers DEF Ranges
        <5> QED BY <5>1 DEF Phys
      <4> HIDE DEF p
      <4>2. Idx(KernPage + p, 4) \in h..E - 1
        BY <4>1, HighEntry
      <4> QED BY <3>4, <4>1, <4>2 DEF I
    <3>9. \A i \in Index : i <= h => i # I
      <4>1. h \in Nat
        BY <1>2
      <4> HIDE DEF h
      <4> QED BY <3>6, <3>8, <4>1 DEF Index
    <3> QED BY <2>2, <3>9 DEF OneChanged
  <2> QED BY <2>1, <2>2
<1>4. 0 \in Index /\ 0 <= h /\ h \in Index /\ h <= h /\ h \in Nat
  BY <1>2 DEF Index
<1>5. \A i \in Index : i < h => i <= h
  BY <1>4 DEF Index
<1> QED BY <1>3, <1>4, <1>5 DEF HalvesInv

\* No part, or only the first, is one of level 3.
NoHuge(s)    == \A i \in 1..Len(s) : s[i].level # 3
HugeFirst(s) == \A i \in 1..Len(s) : s[i].level = 3 => i = 1

\* Parts put after each other.
LEMMA HugeJoins ==
  ASSUME NEW S, NEW s \in Seq(S), NEW t \in Seq(S), NoHuge(t)
  PROVE  /\ s \o t \in Seq(S)
         /\ NoHuge(s) => NoHuge(s \o t)
         /\ HugeFirst(s) => HugeFirst(s \o t)
         /\ s = <<>> => s \o t = t
         /\ HugeFirst(t)
<1> DEFINE u == s \o t
           m == Len(s)
           n == Len(t)
<1>1. /\ u \in Seq(S) /\ Len(u) = m + n /\ m \in Nat /\ n \in Nat
      /\ \A i \in 1..m + n : u[i] = IF i <= m THEN s[i] ELSE t[i - m]
  BY ConcatProperties
<1>2. s = <<>> => u = t
  BY ConcatEmptySeq
<1> HIDE DEF u, m, n
<1>3. \A i \in 1..m + n : /\ i <= m => i \in 1..m /\ u[i] = s[i]
                          /\ ~(i <= m) => u[i].level # 3
  <2> SUFFICES ASSUME NEW i \in 1..m + n
               PROVE  (i <= m => i \in 1..m /\ u[i] = s[i]) /\ (~(i <= m) => u[i].level # 3)
    OBVIOUS
  <2>1. ~(i <= m) => i - m \in 1..n /\ u[i] = t[i - m]
    BY <1>1
  <2> QED BY <1>1, <2>1 DEF NoHuge, n
<1>4. (NoHuge(s) => NoHuge(u)) /\ (HugeFirst(s) => HugeFirst(u))
  BY <1>1, <1>3 DEF NoHuge, HugeFirst, m
<1> QED BY <1>1, <1>2, <1>4 DEF u, NoHuge, HugeFirst

\* A part, or none.
LEMMA HugePiece ==
  ASSUME NEW S, NEW from, NEW to, NEW l, NEW d, Region(from, from - d, to - from, l) \in S
  PROVE  /\ Piece(from, to, l, d) \in Seq(S)
         /\ l # 3 => NoHuge(Piece(from, to, l, d))
         /\ HugeFirst(Piece(from, to, l, d))
         /\ from = to => Piece(from, to, l, d) = <<>>
<1> DEFINE r == Region(from, from - d, to - from, l)
           s == Piece(from, to, l, d)
<1>1. r.level = l
  BY DEF Region
<1>2. s = IF from = to THEN <<>> ELSE <<r>>
  BY DEF Piece
<1>3. r \in S
  OBVIOUS
<1> HIDE DEF s, r
<1>4. <<>> \in Seq(S) /\ NoHuge(<<>>) /\ HugeFirst(<<>>)
  BY DEF NoHuge, HugeFirst
<1>5. <<r>> \in Seq(S) /\ (l # 3 => NoHuge(<<r>>)) /\ HugeFirst(<<r>>)
  <2>1. Len(<<r>>) = 1 /\ <<r>>[1] = r /\ \A i \in 1..1 : i = 1
    OBVIOUS
  <2>2. <<r>> \in Seq(S)
    BY <1>3
  <2> QED BY <1>1, <2>1, <2>2 DEF NoHuge, HugeFirst
<1> QED BY <1>2, <1>4, <1>5 DEF s

\* A region smaller than a page of level 3 has no such page; one that starts with such a
\* page has them first.
LEMMA RegionsHuge ==
  ASSUME NEW v \in Nat, NEW phy, NEW sz \in Nat
  PROVE  /\ sz < Cover(3) * PgSize => NoHuge(Regions(v, phy, sz))
         /\ (\E j \in Nat : v = j * (Cover(3) * PgSize)) => HugeFirst(Regions(v, phy, sz))
<1> DEFINE d     == v - phy
           s1    == Align(v, Cover(2) * PgSize)
           s2    == Align(v, Cover(3) * PgSize)
           e2    == AlignDown(v + sz, Cover(3) * PgSize)
           e1    == LargeEnd(v, sz)
           first == AlignDown(v, PgSize)
           end   == Align(v + sz, PgSize)
           R(from, to, l) == Region(from, from - d, to - from, l)
           S == {R(first, end, 1), R(first, s1, 1), R(s1, s2, 2), R(s2, e2, 3), R(e2, e1, 2),
                 R(s1, e1, 2), R(e1, end, 1)}
           q1 == Piece(first, end, 1, d)
           q2 == Piece(first, s1, 1, d)
           q3 == Piece(s1, s2, 2, d)
           q4 == Piece(s2, e2, 3, d)
           q5 == Piece(e2, e1, 2, d)
           q6 == Piece(s1, e1, 2, d)
           q7 == Piece(e1, end, 1, d)
<1>1. /\ q1 \in Seq(S) /\ q2 \in Seq(S) /\ q3 \in Seq(S) /\ q4 \in Seq(S) /\ q5 \in Seq(S)
      /\ q6 \in Seq(S) /\ q7 \in Seq(S)
      /\ NoHuge(q1) /\ NoHuge(q2) /\ NoHuge(q3) /\ NoHuge(q5) /\ NoHuge(q6) /\ NoHuge(q7)
      /\ HugeFirst(q4) /\ (first = s1 => q2 = <<>>) /\ (s1 = s2 => q3 = <<>>)
  <2>1. /\ R(first, end, 1) \in S /\ R(first, s1, 1) \in S /\ R(s1, s2, 2) \in S /\ R(s2, e2, 3) \in S
        /\ R(e2, e1, 2) \in S /\ R(s1, e1, 2) \in S /\ R(e1, end, 1) \in S
    OBVIOUS
  <2> HIDE DEF d, s1, s2, e2, e1, first, end, S
  <2> QED BY <2>1, HugePiece
<1>2. Regions(v, phy, sz) = IF e1 <= s1 THEN q1
                            ELSE q2 \o (IF e2 > s2 /\ page1gb THEN q3 \o q4 \o q5 ELSE q6) \o q7
  BY RegionsAre
<1>3. Cover(3) * PgSize \in Nat \ {0} /\ Cover(2) * PgSize \in Nat \ {0} /\ PgSize \in Nat \ {0}
      /\ Cover(3) * PgSize = E * (Cover(2) * PgSize) /\ Cover(3) * PgSize = Cover(3) * PgSize
      /\ Cover(3) \in Nat /\ E \in Nat
  <2>1. Cover(3) \in Nat \ {0} /\ Cover(2) \in Nat \ {0} /\ Cover(3) = E * Cover(2) /\ E \in Nat
    <3>1. 2 \in Levels /\ 3 \in Levels /\ 2 \in 1..3 /\ 2 + 1 = 3
      BY DEF Levels
    <3> QED BY <3>1, Covers
  <2> DEFINE a == Cover(2)
             b == Cover(3)
  <2>2. a \in Nat \ {0} /\ b \in Nat \ {0} /\ b = E * a /\ E \in Nat /\ PgSize \in Nat \ {0}
    BY <2>1, PgSizeAssumption
  <2> HIDE DEF a, b
  <2>3. b * PgSize \in Nat \ {0} /\ a * PgSize \in Nat \ {0} /\ (E * a) * PgSize = E * (a * PgSize)
    BY <2>2
  <2> QED BY <2>2, <2>3 DEF a, b
<1>4. sz < Cover(3) * PgSize => ~(e2 > s2)
  <2> DEFINE n == Cover(3) * PgSize
  <2> HIDE DEF n
  <2>1. n \in Nat \ {0} /\ v + sz \in Nat /\ s2 = Align(v, n) /\ e2 = AlignDown(v + sz, n)
    BY <1>3 DEF n
  <2> HIDE DEF s2, e2
  <2>2. PICK i \in Nat : s2 = i * n /\ v <= i * n
    BY <2>1, AlignIs
  <2>3. PICK j \in Nat : e2 = j * n /\ j * n <= v + sz
    BY <2>1, AlignIs
  <2> SUFFICES ASSUME sz < n PROVE ~(e2 > s2)
    BY DEF n
  <2>4. i * n \in Nat /\ j * n \in Nat
    BY <2>1
  <2>5. j * n < i * n + n
    BY <2>1, <2>2, <2>3, <2>4
  <2>6. j * n <= i * n
    BY <2>1, <2>5, Times
  <2> QED BY <2>2, <2>3, <2>4, <2>6
<1>5. (\E j \in Nat : v = j * (Cover(3) * PgSize)) => first = s1 /\ s1 = s2
  <2> SUFFICES ASSUME NEW j \in Nat, v = j * (Cover(3) * PgSize) PROVE first = s1 /\ s1 = s2
    OBVIOUS
  <2>1. s2 = v
    BY <1>3, AlignedIs
  <2>2. s1 = v
    <3> DEFINE n == Cover(2) * PgSize
               i == j * E
    <3>1. i \in Nat /\ n \in Nat \ {0}
      BY <1>3
    <3>2. v = i * n
      <4> HIDE DEF n
      <4>1. v = j * (E * n) /\ n \in Nat
        BY <1>3 DEF n
      <4> QED BY <1>3, <4>1
    <3> HIDE DEF i, n
    <3>3. Align(v, n) = v
      BY <3>1, <3>2, AlignedIs
    <3> QED BY <3>3 DEF n
  <2>3. first = v
    <3> DEFINE b == Cover(3)
               i == j * b
    <3>1. v = i * PgSize /\ i \in Nat
      <4>1. b \in Nat
        BY <1>3
      <4> HIDE DEF b
      <4>2. v = j * (b * PgSize)
        BY DEF b
      <4> QED BY <1>3, <4>1, <4>2
    <3> HIDE DEF i
    <3> QED BY <1>3, <3>1, AlignedIs
  <2> QED BY <2>1, <2>2, <2>3
<1> HIDE DEF d, s1, s2, e2, e1, first, end, S, q1, q2, q3, q4, q5, q6, q7
<1>6. ASSUME sz < Cover(3) * PgSize PROVE NoHuge(Regions(v, phy, sz))
  <2>1. Regions(v, phy, sz) = IF e1 <= s1 THEN q1 ELSE q2 \o q6 \o q7
    BY <1>2, <1>4, <1>6
  <2>2. q2 \o q6 \in Seq(S) /\ NoHuge(q2 \o q6)
    BY <1>1, HugeJoins
  <2>3. NoHuge(q2 \o q6 \o q7)
    BY <1>1, <2>2, HugeJoins
  <2> QED BY <1>1, <2>1, <2>3
<1>7. ASSUME \E j \in Nat : v = j * (Cover(3) * PgSize) PROVE HugeFirst(Regions(v, phy, sz))
  <2>1. q2 = <<>> /\ q3 = <<>>
    BY <1>1, <1>5, <1>7
  <2>2. q4 \o q5 \in Seq(S) /\ HugeFirst(q4 \o q5)
    BY <1>1, HugeJoins
  <2> DEFINE mid == IF e2 > s2 /\ page1gb THEN q3 \o q4 \o q5 ELSE q6
  <2>3. mid \in Seq(S) /\ HugeFirst(mid)
    <3>1. q3 \o q4 = q4
      BY <1>1, <2>1, ConcatEmptySeq
    <3>2. HugeFirst(q6)
      BY <1>1 DEF HugeFirst, NoHuge
    <3> QED BY <1>1, <2>2, <3>1, <3>2
  <2>4. Regions(v, phy, sz) = IF e1 <= s1 THEN q1 ELSE q2 \o mid \o q7
    BY <1>2
  <2> HIDE DEF mid
  <2>5. q2 \o mid = mid
    BY <2>1, <2>3, ConcatEmptySeq
  <2>6. HugeFirst(mid \o q7)
    BY <1>1, <2>3, HugeJoins
  <2>7. HugeFirst(q1)
    BY <1>1 DEF HugeFirst, NoHuge
  <2> QED BY <2>4, <2>5, <2>6, <2>7
<1> QED BY <1>6, <1>7

\* Where a page of level 3 goes, the walk finds nothing.
LEMMA HugeWalk ==
  ASSUME Inv, AskInv, HugeInv, ~Idle, Now.level = 3
  PROVE  /\ hole = NoHole /\ walk.level \in {3, 4} /\ (walk.level = 3 => Entry.kind = "none")
         /\ Entry.kind # "page" /\ Look(tbl, Now.at, 3).kind = "none"
         /\ Now.at >= KernPage
<1>1. parts[1] = Now /\ 1 \in 1..Len(parts)
  BY EmptySeq DEF Inv, Now, Idle
<1>2. PICK f, e : Request(f, e)
  BY DEF AskInv
<1>3. Now.at \in Now.at..Now.to - 1
  <2>1. /\ Now.at \in Nat /\ Now.to \in Nat /\ Cover(Now.level) \in Nat \ {0}
        /\ Now.at + Cover(Now.level) <= Now.to
    BY <1>2, RequestNow
  <2> DEFINE n == Cover(Now.level)
  <2> HIDE DEF n
  <2>2. n \in Nat \ {0} /\ Now.at + n <= Now.to
    BY <2>1 DEF n
  <2> QED BY <2>1, <2>2
<1>4. Look(tbl, Now.at, 3).kind = "none"
  BY <1>1, <1>3 DEF HugeInv
<1>5. \A l \in 2..3 : Look(tbl, Now.at, l).kind # "table"
  <2>1. \A l \in 2..3 : l \in Levels /\ l <= 3 /\ 3 \in Levels
    BY DEF Levels
  <2> QED BY <1>4, <2>1, LookDown
<1>6. hole = NoHole
  <2> SUFFICES ASSUME hole # NoHole PROVE FALSE
    OBVIOUS
  <2>1. hole.level + 1 \in 2..3 /\ Look(tbl, Now.at, hole.level + 1).kind = "table"
    BY DEF Inv, HoleAt, Table
  <2> QED BY <1>5, <2>1
<1>7. walk.level \in {3, 4}
  <2>1. CASE walk = Root
    BY <2>1 DEF Root
  <2>2. CASE walk # Root
    <3>1. walk.level \in 1..3 /\ Look(tbl, Now.at, walk.level + 1).kind = "table"
      BY <1>6, <2>2 DEF Inv, WalkAt, Table
    <3>2. ~(walk.level + 1 \in 2..3)
      BY <1>5, <3>1
    <3> QED BY <3>1, <3>2
  <2> QED BY <2>1, <2>2
<1>8. PICK lev, at : Tree(tbl, lev, at)
  BY DEF Inv
<1>9. Look(tbl, Now.at, walk.level) = Entry /\ Finds(tbl, lev, at, Now.at, walk.level, Entry)
  BY <1>6, <1>8, WalkFound
<1>10. walk.level = 4 => Entry.kind # "page"
  BY <1>9 DEF Finds, None, Table
<1>11. walk.level = 3 => Entry.kind = "none"
  BY <1>4, <1>9
<1>12. phase = "kernel"
  BY <1>2, RequestNow
<1>13. Now.at >= KernPage
  <2>1. f >= KernPage /\ f <= Now.at /\ f \in Nat /\ Now.at \in Nat
    BY <1>2, <1>12, RequestNow DEF Request
  <2> QED BY <2>1, Covers
<1> QED BY <1>4, <1>6, <1>7, <1>10, <1>11, <1>13

\* Stores of the pages of a part are in different entries.
LEMMA LaterBlock ==
  ASSUME Inv, ~Idle, Now.level = 3, Now.at >= KernPage,
         NEW q \in Now.at + Cover(3)..Now.to - 1
  PROVE  Block(q, 3) # Block(Now.at, 3) /\ q \in 0..2 * KernPage - 1
<1>1. Now \in PartsOf(removal)
  BY NowGood DEF Inv
<1>2. /\ Now.at \in 0..2 * KernPage - 1 /\ Block(Now.at, 3) = Now.at % KernPage
      /\ Now.to \in 0..2 * KernPage
  BY <1>1, PartStarts DEF PartsOf, PartType
<1>3. Cover(3) \in Nat \ {0} /\ KernPage \in Nat \ {0}
  BY KernIsFar
<1> DEFINE c == Cover(3)
           p == q - KernPage
           b == Block(KernPage + p, 3)
<1>4. c \in Nat \ {0} /\ q \in Now.at + c..Now.to - 1
  BY <1>3
<1> HIDE DEF c
<1>5. q \in 0..2 * KernPage - 1 /\ p \in Phys /\ KernPage + p = q /\ q >= Now.at + c
      /\ q \in Nat /\ p = q - KernPage
  BY <1>2, <1>3, <1>4 DEF Phys
<1> HIDE DEF p
<1>6. b \in Nat /\ p < b + c
  BY <1>5, OwnBlock DEF c, Levels
<1>7. Now.at % KernPage = Now.at - KernPage
  BY <1>2, <1>3, ModKern
<1>8. b # Now.at - KernPage
  <2> HIDE DEF b
  <2> QED BY <1>2, <1>3, <1>4, <1>5, <1>6
<1> QED BY <1>2, <1>5, <1>7, <1>8

\* What is said of the pages of level 3 holds if they go where nothing is.
LEMMA HugeKept ==
  ASSUME Inv, HugeInv, parts' = parts,
         ~Idle /\ Now.level = 3 => \A q \in Now.at..Now.to - 1 : Look(tbl', q, 3).kind = "none"
  PROVE  HugeInv'
<1>1. Now' = Now /\ \A q : Look(tbl, q, 3)' = Look(tbl', q, 3)
  BY DEF Now, Look, Below
<1>2. \A i \in 1..Len(parts) : parts[i].level = 3 => i = 1
  BY DEF HugeInv
<1>3. ASSUME NEW i \in 1..Len(parts), parts[i].level = 3
      PROVE  \A q \in Now.at..Now.to - 1 : Look(tbl', q, 3).kind = "none"
  <2>1. parts[i] = Now /\ ~Idle
    <3>1. i = 1
      BY <1>2, <1>3
    <3>2. parts # <<>>
      BY <1>3
    <3> QED BY <3>1, <3>2 DEF Now, Idle
  <2> QED BY <1>3, <2>1
<1> QED BY <1>1, <1>2, <1>3 DEF HugeInv

\* A new table has nothing in it.
LEMMA NewTableHuge ==
  ASSUME Inv, AskInv, HugeInv, NewTable
  PROVE  HugeInv'
<1>1. ~Idle /\ hole = NoHole /\ ~AtLevel /\ parts' = parts
  BY DEF NewTable
<1>2. PICK f \in Frames : tbl' = WithTable(f)
  BY DEF NewTable
<1> DEFINE u == tbl'
<1>3. IsWithTable(u, f)
  BY <1>1, <1>2, NewTableAdded
<1>4. ASSUME Now.level = 3, NEW q \in Now.at..Now.to - 1
      PROVE  Look(u, q, 3).kind = "none"
  <2>1. walk.level = 4
    BY <1>1, <1>4, HugeWalk DEF AtLevel
  <2>2. Look(tbl, q, 3).kind = "none"
    BY <1>1, <1>4 DEF HugeInv, Now, Idle, Inv
  <2>3. PICK lev, at : Tree(tbl, lev, at)
    BY DEF Inv
  <2>4. lev[walk.frame] = 4 /\ I \in Index /\ walk.frame \in DOMAIN tbl
    BY <1>1, <2>1, <2>3, WalkFound DEF Inv, Basic
  <2>5. q \in 0..2 * KernPage - 1
    <3>1. Now \in PartsOf(removal)
      BY <1>1, NowGood DEF Inv
    <3>2. Now.at \in Nat /\ Now.to \in 0..2 * KernPage /\ KernPage \in Nat
      BY <3>1, PartStarts, Covers DEF PartsOf, PartType
    <3> QED BY <1>4, <3>2
  <2> HIDE DEF u
  <2>6. OneChanged(tbl, u, walk.frame, I) /\ u[walk.frame][I] = Table(f) /\ u[f] = Empty
    BY <1>3, <2>4 DEF IsWithTable, OneChanged
  <2>7. CASE ~Through(tbl, lev, q, walk.frame, I)
    <3>1. Look(u, q, 3) = Look(tbl, q, 3)
      BY <2>3, <2>4, <2>5, <2>6, <2>7, EntryEffect DEF Levels
    <3> QED BY <2>2, <3>1
  <2>8. CASE Through(tbl, lev, q, walk.frame, I)
    <3>1. Look(u, q, lev[walk.frame]) = u[walk.frame][I]
      BY <2>3, <2>4, <2>5, <2>6, <2>8, EntryEffect
    <3>2. Look(u, q, 4) = Table(f)
      BY <2>4, <2>6, <3>1
    <3>3. Look(u, q, 3) = Below(u, q, 3, Table(f))
      <4>1. 3 \in 1..3 /\ 3 + 1 = 4
        OBVIOUS
      <4> QED BY <3>2, <4>1, Looks
    <3>4. Idx(q, 3) \in Index
      BY <2>5, Blocks DEF Levels
    <3>5. Below(u, q, 3, Table(f)) = None
      BY <2>6, <3>4 DEF Below, Table, Empty
    <3> QED BY <3>3, <3>5 DEF None
  <2> QED BY <2>7, <2>8
<1> HIDE DEF u
<1> QED BY <1>1, <1>4, HugeKept DEF u

\* A page of level 3 goes into an entry of its own.
LEMMA StoreHuge ==
  ASSUME Inv, AskInv, HugeInv, Write \/ Shrink
  PROVE  HugeInv'
<1>1. /\ ~Idle /\ hole = NoHole /\ AtLevel /\ NextPage
  BY DEF Write, Shrink
<1> DEFINE n == Now.at + Cover(Now.level)
           m == Len(parts)
           s == parts'
<1>2. /\ m \in Nat \ {0} /\ parts[1] = Now /\ s \in Seq(PartsOf(removal))
      /\ n < Now.to => /\ Len(s) = m /\ \A i \in 2..m : s[i] = parts[i]
                       /\ s[1].at = n /\ s[1].to = Now.to /\ s[1].level = Now.level
      /\ ~(n < Now.to) => Len(s) = m - 1 /\ \A i \in 1..m - 1 : s[i] = parts[i + 1]
  BY <1>1, NextParts
<1>3. \A i \in 2..m : parts[i].level # 3
  <2>1. \A i \in 2..m : i \in 1..m /\ i # 1
    BY <1>2
  <2> QED BY <2>1 DEF HugeInv
<1> HIDE DEF s, n, m
<1>4. CASE ~(n < Now.to)
  <2>1. \A i \in 1..m - 1 : i + 1 \in 2..m
    BY <1>2
  <2>2. \A i \in 1..Len(s) : s[i].level # 3
    BY <1>2, <1>3, <1>4, <2>1
  <2> QED BY <2>2 DEF HugeInv, s
<1>5. CASE n < Now.to /\ Now.level # 3
  <2>1. \A i \in 1..m : i = 1 \/ i \in 2..m
    BY <1>2
  <2>2. \A i \in 1..Len(s) : s[i].level # 3
    BY <1>2, <1>3, <1>5, <2>1
  <2> QED BY <2>2 DEF HugeInv, s
<1>6. CASE n < Now.to /\ Now.level = 3
  <2>1. walk.level = 3 /\ Entry.kind = "none" /\ Now.at >= KernPage
    BY <1>1, <1>6, HugeWalk DEF AtLevel
  <2>2. tbl' = [tbl EXCEPT ![walk.frame][I] = Store]
    BY <2>1 DEF Write, Shrink
  <2>3. PICK lev, at : Tree(tbl, lev, at)
    BY DEF Inv
  <2>4. /\ lev[walk.frame] = 3 /\ I \in Index /\ walk.frame \in DOMAIN tbl
        /\ Spot(lev, at, walk.frame, I) = Block(Now.at, 3)
    BY <1>1, <2>1, <2>3, WalkFound DEF Inv, Basic
  <2> DEFINE u == tbl'
  <2>5. OneChanged(tbl, u, walk.frame, I)
    BY <1>1, <2>2, <2>3, Stored DEF IsStored
  <2> HIDE DEF u
  <2>6. ASSUME NEW q \in n..Now.to - 1 PROVE Look(u, q, 3).kind = "none"
    <3>1. Block(q, 3) # Block(Now.at, 3) /\ q \in 0..2 * KernPage - 1
      <4>1. q \in Now.at + Cover(3)..Now.to - 1
        BY <1>6, <2>6 DEF n
      <4> QED BY <1>1, <1>6, <2>1, <4>1, LaterBlock
    <3>2. Through(tbl, lev, q, walk.frame, I) => Spot(lev, at, walk.frame, I) = Block(q, 3)
      <4>1. Through(tbl, lev, q, walk.frame, I)
              => Spot(lev, at, walk.frame, I) = Block(q, lev[walk.frame])
        BY <2>3, <2>4, <2>5, <3>1, EntryEffect
      <4> QED BY <2>4, <4>1
    <3>3. ~Through(tbl, lev, q, walk.frame, I)
      BY <2>4, <3>1, <3>2
    <3>4. Look(u, q, 3) = Look(tbl, q, 3)
      BY <2>3, <2>4, <2>5, <3>1, <3>3, EntryEffect DEF Levels
    <3>5. q \in Now.at..Now.to - 1
      <4>1. Now.at \in Nat /\ Cover(3) \in Nat /\ Now.to \in Nat
        <5>1. Now \in PartsOf(removal)
          BY <1>1, NowGood DEF Inv
        <5> QED BY <5>1, PartStarts, KernIsFar DEF PartsOf, PartType
      <4> DEFINE c == Cover(3)
      <4> HIDE DEF c
      <4>2. c \in Nat /\ q \in Now.at + c..Now.to - 1
        BY <1>6, <2>6, <4>1 DEF n, c
      <4> QED BY <4>1, <4>2
    <3>6. Look(tbl, q, 3).kind = "none"
      <4>1. 1 \in 1..Len(parts)
        BY <1>2 DEF m
      <4> QED BY <1>2, <1>6, <3>5, <4>1 DEF HugeInv
    <3> QED BY <3>4, <3>6
  <2>7. s[1] = Now' /\ Now'.at = n /\ Now'.to = Now.to
    <3>1. s[1] = Now'
      BY DEF s, Now
    <3> QED BY <1>2, <1>6, <3>1
  <2>8. \A i \in 1..m : s[i].level = 3 => i = 1
    <3>1. \A i \in 1..m : i = 1 \/ i \in 2..m
      BY <1>2
    <3> QED BY <1>2, <1>3, <1>6, <3>1
  <2>9. \A q : Look(tbl, q, 3)' = Look(u, q, 3)
    BY DEF Look, Below, u
  <2> QED BY <1>2, <1>6, <2>6, <2>7, <2>8, <2>9 DEF HugeInv, s
<1> QED BY <1>4, <1>5, <1>6

\* A call of arch_map_region.
LEMMA CallHuge ==
  ASSUME Inv, BootInv, Idle, NEW vp, NEW pp, NEW d, NEW sz, NEW c, Called(vp, pp, d, sz, c),
         \/ sz < Cover(3) * PgSize
         \/ vp = KernPage + Cover(3) /\ phase = "boot"
  PROVE  HugeInv'
<1> DEFINE s == parts'
           v == vp * PgSize
           phy == pp * PgSize
<1>1. /\ s = Regions(v, phy, sz) /\ v \in Nat /\ sz \in Nat /\ tbl' = tbl
      /\ vp = pp + d /\ pp \in Nat /\ d \in Nat /\ d <= KernPage
  BY PgSizeAssumption DEF Called, MapRegion
<1>2. PICK end \in Nat :
        /\ vp < end /\ end <= KernPage + d
        /\ s \in Seq(PartsOf(c)) /\ Chain(s, vp, end)
  <2>1. PICK end \in Nat :
           /\ Align(v + sz, PgSize) = end * PgSize /\ v \div PgSize = vp
           /\ vp < end /\ end <= KernPage + d
           /\ Regions(v, phy, sz) \in Seq(PartsOf(c)) /\ Chain(Regions(v, phy, sz), vp, end)
    BY RegionsGood DEF Called
  <2> QED BY <1>1, <2>1
<1>3. CASE sz < Cover(3) * PgSize
  <2>1. NoHuge(Regions(v, phy, sz))
    <3> HIDE DEF v, phy
    <3> QED BY <1>1, <1>3, RegionsHuge
  <2> QED BY <1>1, <2>1 DEF HugeInv, NoHuge, s
<1>4. CASE vp = KernPage + Cover(3) /\ phase = "boot"
  <2>1. HugeFirst(s)
    <3>1. \E j \in Nat : v = j * (Cover(3) * PgSize)
      <4>1. PICK k \in Nat : KernPage = k * Cover(3)
        <5>1. Cover(4) = E * Cover(3) /\ Cover(3) \in Nat /\ E \in Nat /\ E \div 2 \in Nat
          <6>1. 3 \in Levels /\ 3 \in 1..3 /\ 3 + 1 = 4
            BY DEF Levels
          <6> QED BY <6>1, EAssumption, Covers
        <5> DEFINE h == E \div 2
                   b == Cover(3)
                   k == h * E
        <5>2. KernPage = h * (E * b)
          BY <5>1 DEF KernPage
        <5>3. h \in Nat /\ b \in Nat /\ E \in Nat
          BY <5>1
        <5> HIDE DEF h, b
        <5>4. KernPage = k * b /\ k \in Nat
          BY <5>2, <5>3
        <5> QED BY <5>4 DEF b
      <4> DEFINE b == Cover(3)
      <4>2. b \in Nat /\ PgSize \in Nat /\ KernPage = k * b
        BY <4>1, KernIsFar, PgSizeAssumption
      <4>3. vp = KernPage + b
        BY <1>4
      <4> HIDE DEF b
      <4>4. (k * b + b) * PgSize = (k + 1) * (b * PgSize) /\ k + 1 \in Nat
        BY <4>1, <4>2
      <4> QED BY <4>2, <4>3, <4>4 DEF b
    <3> HIDE DEF v, phy
    <3> QED BY <1>1, <3>1, RegionsHuge
  <2>2. /\ s # <<>> => s[1] = Now' /\ s[1].at = vp
        /\ \A i \in 1..Len(s) : s[i].to <= end /\ s[i] \in PartsOf(c)
    <3>1. s # <<>> => s[1] = Now'
      BY DEF s, Now
    <3> HIDE DEF s
    <3>2. \A i \in 1..Len(s) : s[i] \in PartsOf(c)
      BY <1>2, ElementOfSeq
    <3> QED BY <1>2, <3>1, <3>2 DEF Chain, Links, Inside
  <2> HIDE DEF s
  <2>3. ASSUME NEW i \in 1..Len(s), s[i].level = 3, NEW q \in Now'.at..Now'.to - 1
        PROVE  Look(tbl, q, 3).kind = "none"
    <3>1. s # <<>> /\ i = 1
      BY <2>1, <2>3 DEF HugeFirst
    <3>2. Now'.at = vp /\ Now'.to <= end
      BY <2>2, <2>3, <3>1
    <3>3. Now'.to \in Nat
      <4>1. Now' \in PartsOf(c)
        BY <2>2, <2>3, <3>1
      <4> QED BY <4>1, Covers DEF PartsOf, PartType
    <3>4. Cover(3) \in Nat /\ KernPage \in Nat
      BY KernIsFar
    <3> DEFINE b == Cover(3)
    <3>5. q \in KernPage + b..2 * KernPage - 1
      <4>1. vp = KernPage + b /\ b \in Nat
        BY <1>4, <3>4
      <4> HIDE DEF b
      <4> QED BY <1>1, <1>2, <2>3, <3>2, <3>3, <3>4, <4>1
    <3> QED BY <1>4, <3>5 DEF BootInv
  <2>4. \A q : Look(tbl, q, 3)' = Look(tbl, q, 3)
    BY <1>1 DEF Look, Below
  <2> QED BY <2>1, <2>3, <2>4 DEF HugeInv, HugeFirst, s
<1> QED BY <1>3, <1>4

\* Every step keeps what is said of the pages of level 3.
LEMMA HugeStep ==
  ASSUME Inv, AskInv, HugeInv, BootInv, [Next]_vars
  PROVE  HugeInv' /\ BootInv'
<1>1. ASSUME phase' # "boot" PROVE BootInv'
  BY <1>1 DEF BootInv
<1>2. \A f, e : Request(f, e) => phase # "boot"
  BY DEF Request
<1>3. CASE Walk
  <2>1. ~Idle /\ phase' = phase
    BY <1>3 DEF Walk, Descend, NewTable, Expand, Fill, Write, Shrink, Inv, HoleAt
  <2>2. BootInv'
    BY <1>1, <1>2, <2>1 DEF AskInv
  <2>3. CASE Descend
    <3>1. parts' = parts /\ tbl' = tbl
      BY <2>3 DEF Descend
    <3>2. ~Idle /\ Now.level = 3 => \A q \in Now.at..Now.to - 1 : Look(tbl, q, 3).kind = "none"
      BY DEF HugeInv, Now, Idle, Inv
    <3> QED BY <2>2, <3>1, <3>2, HugeKept
  <2>4. CASE NewTable
    BY <2>2, <2>4, NewTableHuge
  <2>5. CASE Expand \/ Fill
    <3>1. parts' = parts
      BY <2>5 DEF Expand, Fill
    <3>2. Now.level # 3
      BY <2>1, <2>5, HugeWalk DEF Expand, Fill
    <3> QED BY <2>2, <3>1, <3>2, HugeKept
  <2>6. CASE Write \/ Shrink
    BY <2>2, <2>6, StoreHuge
  <2> QED BY <1>3, <2>3, <2>4, <2>5, <2>6 DEF Walk
<1>4. CASE MapKernelPage
  <2>1. Idle /\ phase = "boot" /\ phase' = "kernel"
    BY <1>4 DEF MapKernelPage
  <2>2. CASE limit > Cover(3)
    <3>1. PICK sz : Called(KernPage + Cover(3), Cover(3), KernPage, sz, FALSE)
      BY <1>4, <2>2, MapKernelPageCall
    <3> DEFINE vp == KernPage + Cover(3)
    <3>2. Called(vp, Cover(3), KernPage, sz, FALSE) /\ vp = KernPage + Cover(3)
      BY <3>1
    <3> HIDE DEF vp
    <3> QED BY <1>1, <2>1, <3>2, CallHuge
  <2>3. CASE ~(limit > Cover(3))
    <3>1. parts' = parts /\ tbl' = tbl
      BY <1>4, <2>3 DEF MapKernelPage
    <3> QED BY <1>1, <2>1, <3>1, HugeKept
  <2> QED BY <2>2, <2>3
<1>5. ASSUME NEW k \in Kmaps, Kmap(k) PROVE HugeInv' /\ BootInv'
  <2>1. Idle /\ phase' = "kernel"
    BY <1>5 DEF Kmap
  <2>2. PICK pp : Called(KernPage + pp, pp, KernPage, k.sz, FALSE)
    BY <1>5, KmapCall
  <2>3. k.sz < Cover(3) * PgSize
    BY KmapSizeAssumption
  <2> DEFINE vp == KernPage + pp
             n == k.sz
  <2>4. Called(vp, pp, KernPage, n, FALSE) /\ n < Cover(3) * PgSize
    BY <2>2, <2>3
  <2> HIDE DEF vp, n
  <2> QED BY <1>1, <2>1, <2>4, CallHuge
<1>6. CASE MapTrampoline \/ ClearTrampoline
  <2>1. Idle /\ phase' # "boot"
    BY <1>6 DEF MapTrampoline, ClearTrampoline
  <2> DEFINE one == 1
  <2>2. one < Cover(3) * PgSize
    <3>1. E <= Cover(3) /\ E \in Nat \ {0, 1} /\ Cover(3) \in Nat \ {0} /\ PgSize \in Nat \ {0}
      BY KernIsFar, EAssumption, PgSizeAssumption
    <3> DEFINE b == Cover(3)
    <3>2. b \in Nat \ {0} /\ 1 < b
      BY <3>1
    <3> HIDE DEF b
    <3>3. b * 1 <= b * PgSize
      <4>1. 1 * b <= PgSize * b
        BY <3>1, <3>2, Times
      <4> QED BY <3>1, <3>2, <4>1
    <3>4. b * PgSize \in Nat
      BY <3>1, <3>2
    <3> QED BY <3>2, <3>3, <3>4 DEF b
  <2>3. CASE MapTrampoline
    <3> DEFINE c == FALSE
    <3>1. Called(MpPage, MpPage, MpPage - MpPage, one, c)
      BY <2>3, TrampolineCall DEF MapTrampoline
    <3> HIDE DEF one, c
    <3> QED BY <1>1, <2>1, <2>2, <3>1, CallHuge
  <2>4. CASE ClearTrampoline
    <3> DEFINE c == TRUE
               z == 0
    <3>1. Called(MpPage, z, MpPage, one, c)
      BY <2>4, ClearTrampolineCall
    <3> HIDE DEF one, c, z
    <3> QED BY <1>1, <2>1, <2>2, <3>1, CallHuge
  <2> QED BY <1>6, <2>3, <2>4
<1>7. CASE ClearLowPage
  <2>1. Idle /\ phase' = "done" /\ parts' = parts
    BY <1>7 DEF ClearLowPage
  <2> QED BY <1>1, <2>1, HugeKept
<1>8. CASE UNCHANGED vars
  <2>1. UNCHANGED <<tbl, phase, parts>>
    BY <1>8 DEF vars
  <2> QED BY <2>1 DEF HugeInv, BootInv, Now, Look, Below
<1> QED BY <1>3, <1>4, <1>5, <1>6, <1>7, <1>8 DEF Next

\* What boot.S leaves to be mapped.
LEMMA InitHang == Init => HangInv
<1> SUFFICES ASSUME Init PROVE HangInv
  OBVIOUS
<1>1. parts = <<>> /\ phase = "boot" /\ hole = NoHole
  BY DEF Init
<1>2. Pgd # Pud /\ Pgd # Pmd /\ Pud # Pmd /\ E \in Nat \ {0, 1}
  BY Covers DEF Pgd, Pud, Pmd
<1> DEFINE h == E \div 2
<1>3. /\ \A i \in Index : tbl[Pgd][i] = IF i \in {0, h} THEN Table(Pud) ELSE None
      /\ \A i \in Index : tbl[Pud][i] = IF i = 0 THEN Table(Pmd) ELSE None
      /\ \A i \in Index : tbl[Pmd][i] = Page(i * Cover(2))
      /\ DOMAIN tbl = {Pgd, Pud, Pmd}
  BY <1>2 DEF Init
<1>4. 0 \in Index /\ h \in Index /\ h \in Nat
  BY <1>2 DEF Index
<1>5. Hung(tbl)
  BY <1>3, <1>4 DEF Hung
<1>6. HalvesInv
  <2>1. \A i \in Index : 0 < i /\ i < h => i \notin {0, h}
    BY <1>4 DEF Index
  <2> QED BY <1>1, <1>3, <1>4, <2>1 DEF HalvesInv
<1>7. HugeInv
  BY <1>1 DEF HugeInv
<1>8. BootInv
  <2> SUFFICES ASSUME NEW q \in KernPage + Cover(3)..2 * KernPage - 1
               PROVE  Look(tbl, q, 3).kind = "none"
    BY DEF BootInv
  <2> DEFINE p == q - KernPage
  <2>1. p \in Phys /\ ~(p < Cover(3)) /\ KernPage + p = q /\ q \in 0..2 * KernPage - 1
    <3> DEFINE c == Cover(3)
    <3>1. c \in Nat \ {0} /\ KernPage \in Nat \ {0}
      BY KernIsFar
    <3>2. q \in KernPage + c..2 * KernPage - 1
      OBVIOUS
    <3> HIDE DEF c
    <3>3. q \in Nat /\ q - KernPage \in 0..KernPage - 1 /\ ~(q - KernPage < c)
          /\ KernPage + (q - KernPage) = q /\ q \in 0..2 * KernPage - 1
      BY <3>1, <3>2
    <3> QED BY <3>3 DEF c, Phys
  <2> HIDE DEF p
  <2>2. Mapped(tbl) = BootPages
    BY <1>1, InitAsk DEF Promise!Init, Settled
  <2>3. p \notin Mapped(tbl)
    BY <2>1, <2>2, KernIsFar DEF BootPages
  <2>4. Look(tbl, q, 1).kind # "page"
    BY <2>1, <2>3, MappedIs
  <2>5. Look(tbl, q, 3).kind # "page" /\ Look(tbl, q, 2).kind # "page"
    BY <2>4, LookDown DEF Levels
  <2>6. Idx(q, 4) \in Index /\ Idx(q, 3) \in Index /\ Idx(q, 2) \in Index
    BY <2>1, Blocks DEF Levels
  <2>7. /\ Look(tbl, q, 4) = tbl[Pgd][Idx(q, 4)]
        /\ Look(tbl, q, 3) = Below(tbl, q, 3, Look(tbl, q, 4))
        /\ Look(tbl, q, 2) = Below(tbl, q, 2, Look(tbl, q, 3))
    <3>1. 3 \in 1..3 /\ 2 \in 1..3 /\ 3 + 1 = 4 /\ 2 + 1 = 3
      OBVIOUS
    <3> QED BY <3>1, Looks
  <2> DEFINE i4 == Idx(q, 4)
             i3 == Idx(q, 3)
             i2 == Idx(q, 2)
  <2>8. Look(tbl, q, 4) \in {Table(Pud), None}
    BY <1>3, <2>6, <2>7
  <2>9. Look(tbl, q, 3) \in {Table(Pmd), None}
    <3>1. Below(tbl, q, 3, None) = None
      BY DEF Below, Within, None
    <3>2. Below(tbl, q, 3, Table(Pud)) = tbl[Pud][i3]
      BY DEF Below, Table
    <3> HIDE DEF i3
    <3>3. tbl[Pud][i3] \in {Table(Pmd), None}
      BY <1>3, <2>6 DEF i3
    <3> QED BY <2>7, <2>8, <3>1, <3>2, <3>3
  <2>10. Look(tbl, q, 3) # Table(Pmd)
    <3> SUFFICES ASSUME Look(tbl, q, 3) = Table(Pmd) PROVE FALSE
      OBVIOUS
    <3>1. Below(tbl, q, 2, Table(Pmd)) = tbl[Pmd][i2]
      BY DEF Below, Table
    <3> HIDE DEF i2
    <3>2. tbl[Pmd][i2] = Page(i2 * Cover(2))
      BY <1>3, <2>6 DEF i2
    <3>3. \A x : Page(x).kind = "page"
      BY DEF Page
    <3> QED BY <2>5, <2>7, <3>1, <3>2, <3>3
  <2> QED BY <2>9, <2>10 DEF None
<1> QED BY <1>5, <1>6, <1>7, <1>8 DEF HangInv

\* Every step leaves every table hung.
LEMMA HangStep ==
  ASSUME Inv, AskInv, HangInv, [Next]_vars
  PROVE  Hung(tbl') /\ HalvesInv'
<1>1. Hung(tbl) /\ HalvesInv /\ HugeInv
  BY DEF HangInv
<1>2. PICK lev, at : Tree(tbl, lev, at)
  BY DEF Inv
<1>3. ASSUME tbl' = tbl, phase' = phase \/ phase' # "done" PROVE Hung(tbl') /\ HalvesInv'
  BY <1>1, <1>3 DEF HalvesInv
<1>4. /\ 0 \in Index /\ E \div 2 \in Index /\ 0 < E \div 2 /\ Pgd \in DOMAIN tbl
      /\ \A i \in Index : i < E \div 2 => i # E \div 2
  BY <1>2, EAssumption DEF Tree, Index
<1>5. CASE Descend \/ MapKernelPage \/ MapTrampoline \/ ClearTrampoline \/ \E k \in Kmaps : Kmap(k)
  BY <1>3, <1>5 DEF Descend, MapKernelPage, MapTrampoline, ClearTrampoline, Kmap, MapRegion
<1>6. CASE NewTable \/ Expand
  <2>1. ~Idle /\ hole = NoHole /\ Entry.kind # "table" /\ phase' = phase
    BY <1>6 DEF NewTable, Expand
  <2>2. PICK f \in Frames : tbl' = WithTable(f)
    BY <1>6 DEF NewTable, Expand
  <2> DEFINE u == tbl'
  <2>3. IsWithTable(u, f) /\ I \in Index /\ walk.frame \in DOMAIN tbl
    BY <1>2, <2>1, <2>2, NewTableAdded, WalkFound DEF Inv, Basic
  <2> HIDE DEF u
  <2>4. OneChanged(tbl, u, walk.frame, I)
    BY <2>3 DEF IsWithTable, OneChanged
  <2>5. DOMAIN tbl \subseteq DOMAIN u /\ \A g \in DOMAIN u \ DOMAIN tbl : u[walk.frame][I] = Table(g)
    BY <2>3 DEF IsWithTable
  <2>6. Hung(u)
    BY <1>1, <2>1, <2>3, <2>4, <2>5, NewHangs
  <2> QED BY <1>1, <2>1, <2>4, <2>6, HalvesStay DEF u
<1>7. CASE Fill
  <2>1. /\ hole # NoHole /\ tbl' = [tbl EXCEPT ![hole.frame] = Filled] /\ phase' = phase
        /\ tbl[hole.frame] = Empty
    BY <1>7 DEF Fill, Inv, HoleAt
  <2> DEFINE u == tbl'
             r == hole.frame
  <2>2. DOMAIN u = DOMAIN tbl /\ \A g \in DOMAIN tbl : g # r => u[g] = tbl[g]
    BY <2>1
  <2>3. \A i \in Index : tbl[r][i].kind = "none"
    BY <2>1 DEF Empty, None
  <2>4. Table(Pud).kind = "table" /\ \A g : Table(g).kind = "table"
    BY DEF Table
  <2> HIDE DEF u, r
  <2>5. r # Pgd
    BY <1>1, <1>4, <2>3, <2>4 DEF HalvesInv
  <2>6. Hung(u)
    BY <1>1, <2>2, <2>3, <2>4 DEF Hung
  <2>7. u[Pgd] = tbl[Pgd]
    BY <1>4, <2>2, <2>5
  <2> QED BY <1>1, <2>1, <2>6, <2>7 DEF HalvesInv, u
<1>8. CASE Write
  <2>1. /\ ~Idle /\ hole = NoHole /\ AtLevel /\ tbl' = [tbl EXCEPT ![walk.frame][I] = Store]
        /\ (walk.level = 1 \/ Entry.kind = "none") /\ phase' = phase
    BY <1>8 DEF Write
  <2> DEFINE u == tbl'
  <2>2. IsStored(u)
    BY <1>2, <2>1, Stored
  <2>3. Entry.kind # "table"
    <3>1. Finds(tbl, lev, at, Now.at, walk.level, Entry)
      BY <1>2, <2>1, WalkFound
    <3>2. walk.level = 1 => Entry.kind # "table"
      BY <3>1 DEF Finds, None, Page
    <3> QED BY <2>1, <3>2
  <2>4. I \in Index /\ walk.frame \in DOMAIN tbl
    BY <1>2, <2>1, WalkFound DEF Inv, Basic
  <2> HIDE DEF u
  <2>5. Hung(u)
    BY <1>1, <2>2, <2>3, <2>4, NewHangs DEF IsStored
  <2> QED BY <1>1, <2>1, <2>2, <2>3, <2>5, HalvesStay DEF IsStored, u
<1>9. CASE Shrink
  <2>1. /\ ~Idle /\ hole = NoHole /\ AtLevel /\ walk.level > 1 /\ Entry.kind = "table"
        /\ phase' = phase
    BY <1>9 DEF Shrink
  <2> DEFINE v == [tbl EXCEPT ![walk.frame][I] = Store]
             g == Entry.at
             w == walk.frame
  <2>2. /\ g \in DOMAIN v \ {Pgd} /\ lev[g] = walk.level - 1 /\ Entry = Table(g)
        /\ DOMAIN tbl' = DOMAIN v \ {g} /\ \A h \in DOMAIN tbl' : tbl'[h] = v[h]
    BY <1>2, <1>9, Shrunk
  <2>3. IsStored(v) /\ w # Pgd /\ w \in DOMAIN tbl /\ I \in Index
    BY <1>2, <2>1, Stored, StoreGood
  <2> HIDE DEF v, g
  <2>4. DOMAIN v = DOMAIN tbl /\ OneChanged(tbl, v, w, I)
    BY <2>3 DEF IsStored
  <2>5. lev[g] = 1
    <3>1. walk.level \in {2, 3} /\ walk.level = Now.level
      <4>1. Now.level \in 1..3
        BY <2>1, NowGood, PartStarts DEF Inv
      <4> QED BY <2>1, <4>1 DEF AtLevel
    <3>2. walk.level # 3
      BY <1>1, <2>1, <3>1, HugeWalk
    <3> QED BY <2>2, <3>1, <3>2
  <2>6. \A i \in Index : tbl[g][i].kind # "table"
    <3>1. \A i \in Index : EntryOK(tbl, lev, at, g, i, tbl[g][i])
      BY <1>2, <2>2, <2>4 DEF Tree
    <3>2. ~(lev[g] > 1)
      BY <2>5
    <3>3. \A x : \A i \in Index : EntryOK(tbl, lev, at, g, i, x) => x.kind # "table"
      BY <3>2 DEF EntryOK, PageEntry, TableEntry, None, Page
    <3> QED BY <3>1, <3>3
  <2>7. ASSUME NEW f \in DOMAIN tbl' \ {Pgd}
        PROVE  \E h \in DOMAIN tbl', i \in Index : tbl'[h][i] = Table(f)
    <3>1. f \in DOMAIN tbl \ {Pgd} /\ f # g
      BY <2>2, <2>4
    <3>2. PICK h \in DOMAIN tbl, i \in Index : tbl[h][i] = Table(f)
      BY <1>1, <3>1 DEF Hung
    <3>3. h # g
      BY <2>6, <3>2 DEF Table
    <3>4. ~(h = w /\ i = I)
      <4>1. tbl[w][I] = Table(g)
        BY <2>2 DEF Entry
      <4> QED BY <3>1, <3>2, <4>1 DEF Table
    <3>5. v[h][i] = tbl[h][i]
      BY <2>4, <3>2, <3>4 DEF OneChanged
    <3>6. h \in DOMAIN tbl' /\ tbl'[h][i] = Table(f)
      BY <2>2, <2>4, <3>2, <3>3, <3>5
    <3> QED BY <3>6
  <2>8. tbl'[Pgd] = tbl[Pgd]
    <3>1. v[Pgd] = tbl[Pgd]
      BY <1>4, <2>3, <2>4 DEF OneChanged
    <3>2. Pgd \in DOMAIN tbl'
      BY <1>4, <2>2, <2>4
    <3> QED BY <2>2, <3>1, <3>2
  <2>9. Hung(tbl')
    BY <2>7 DEF Hung
  <2> QED BY <1>1, <2>1, <2>8, <2>9 DEF HalvesInv
<1>10. CASE ClearLowPage
  <2>1. /\ phase = "clear" /\ tbl' = [tbl EXCEPT ![Pgd][0] = None]
    BY <1>10 DEF ClearLowPage
  <2> DEFINE u == tbl'
  <2>2. tbl[Pgd] = [i \in Index |-> tbl[Pgd][i]]
    BY <1>2 DEF Tree
  <2>3. /\ DOMAIN u = DOMAIN tbl /\ \A g \in DOMAIN tbl : g # Pgd => u[g] = tbl[g]
        /\ u[Pgd][0] = None /\ \A i \in Index : i # 0 => u[Pgd][i] = tbl[Pgd][i]
    <3>1. u[Pgd] = [tbl[Pgd] EXCEPT ![0] = None]
      BY <1>4, <2>1
    <3> QED BY <1>4, <2>1, <2>2, <3>1
  <2> HIDE DEF u
  <2>4. tbl[Pgd][0] = Table(Pud) /\ tbl[Pgd][E \div 2] = Table(Pud)
    BY <2>1 DEF AskInv, SharedPud
  <2>5. Hung(u)
    <3> SUFFICES ASSUME NEW f \in DOMAIN u \ {Pgd}
                 PROVE  \E g \in DOMAIN u, i \in Index : u[g][i] = Table(f)
      BY DEF Hung
    <3>1. PICK g \in DOMAIN tbl, i \in Index : tbl[g][i] = Table(f)
      BY <1>1, <2>3 DEF Hung
    <3>2. CASE g = Pgd /\ i = 0
      <4>1. u[Pgd][E \div 2] = Table(f)
        BY <1>4, <2>3, <2>4, <3>1, <3>2
      <4> QED BY <1>4, <2>3, <4>1
    <3>3. CASE ~(g = Pgd /\ i = 0)
      BY <2>3, <3>1, <3>3
    <3> QED BY <3>2, <3>3
  <2>6. HalvesInv'
    <3>1. \A i \in Index : 0 < i => i # 0
      BY DEF Index
    <3> QED BY <1>1, <1>4, <2>3, <3>1 DEF HalvesInv, u
  <2> QED BY <2>5, <2>6 DEF u
<1>11. CASE UNCHANGED vars
  BY <1>3, <1>11 DEF vars
<1> QED BY <1>5, <1>6, <1>7, <1>8, <1>9, <1>10, <1>11 DEF Next, Walk

\* The entries of the upper half of the pgd stand for different pages.
LEMMA UpperSpots ==
  ASSUME NEW t, NEW lev, NEW at, Tree(t, lev, at), NEW i \in Index, NEW j \in Index,
         E \div 2 <= i, E \div 2 <= j, Spot(lev, at, Pgd, i) = Spot(lev, at, Pgd, j)
  PROVE  i = j
<1> DEFINE h == E \div 2
           c == Cover(4)
<1>1. c \in Nat \ {0} /\ KernPage = h * c /\ E = 2 * h /\ h \in Nat \ {0} /\ KernPage \in Nat \ {0}
  BY KernIsFar, EAssumption DEF KernPage
<1>2. lev[Pgd] = 4 /\ at[Pgd] = 0
  BY DEF Tree
<1>3. Spot(lev, at, Pgd, i) = (0 + i * c) % KernPage /\ Spot(lev, at, Pgd, j) = (0 + j * c) % KernPage
  BY <1>2 DEF Spot
<1> HIDE DEF c, h
<1>4. i \in Nat /\ j \in Nat /\ h <= i /\ h <= j /\ i <= 2 * h - 1 /\ j <= 2 * h - 1
  BY <1>1 DEF Index, h
<1>5. ASSUME NEW k \in {i, j}
      PROVE  k * c \in Nat /\ k * c \in 0..2 * KernPage - 1 /\ (0 + k * c) % KernPage = k * c - KernPage
  <2>1. k \in Nat /\ h <= k /\ k <= 2 * h - 1 /\ 2 * h - 1 \in Nat
    BY <1>1, <1>4
  <2>2. k * c \in Nat /\ h * c <= k * c /\ k * c <= (2 * h - 1) * c
    BY <1>1, <2>1, Times
  <2>3. (2 * h - 1) * c = 2 * (h * c) - c
    BY <1>1
  <2> DEFINE x == k * c
  <2>4. x \in Nat /\ KernPage <= x /\ x <= 2 * KernPage - c
    BY <1>1, <2>2, <2>3
  <2> HIDE DEF x
  <2>5. x \in 0..2 * KernPage - 1 /\ ~(x < KernPage) /\ 0 + x = x
    BY <1>1, <2>4
  <2>6. x % KernPage = x - KernPage
    BY <2>5, ModKern
  <2> QED BY <2>4, <2>5, <2>6 DEF x
<1>6. i * c \in Nat /\ j * c \in Nat /\ (0 + i * c) % KernPage = i * c - KernPage
      /\ (0 + j * c) % KernPage = j * c - KernPage
  BY <1>5
<1>7. i * c = j * c
  <2> DEFINE x == i * c
             y == j * c
  <2>1. x \in Nat /\ y \in Nat /\ x - KernPage = y - KernPage
    BY <1>3, <1>6
  <2> HIDE DEF x, y
  <2>2. x = y
    BY <1>1, <2>1
  <2> QED BY <2>2 DEF x, y
<1> QED BY <1>1, <1>4, <1>7, Times

\* A table other than the pud both halves share hangs at one place, that pud at two.
LEMMA InvHangs ==
  ASSUME Inv, AskInv, HangInv
  PROVE  TablesHangOnce
<1> DEFINE h == E \div 2
           links == {l \in (DOMAIN tbl) \X Index : tbl[l[1]][l[2]].kind = "table"}
           To(f) == {l \in links : tbl[l[1]][l[2]].at = f}
<1>1. PICK lev, at : Tree(tbl, lev, at)
  BY DEF Inv
<1>2. Once(tbl) /\ Hung(tbl) /\ HalvesInv /\ SharedPud
  BY DEF Inv, HangInv, AskInv
<1>3. 0 \in Index /\ h \in Index /\ 0 < h /\ h \in Nat /\ Pgd \in DOMAIN tbl /\ 0 # h
  BY <1>1, EAssumption DEF Tree, Index
<1>4. \A x : Table(x).kind = "table" /\ Table(x).at = x
  BY DEF Table
<1>5. None.kind # "table"
  BY DEF None
<1>6. ASSUME NEW g \in DOMAIN tbl, NEW i \in Index, tbl[g][i].kind = "table"
      PROVE  /\ tbl[g][i].at \in DOMAIN tbl /\ tbl[g][i] = Table(tbl[g][i].at)
             /\ g = Pgd => at[tbl[g][i].at] = Spot(lev, at, g, i)
  <2>1. EntryOK(tbl, lev, at, g, i, tbl[g][i])
    BY <1>1 DEF Tree
  <2> DEFINE x == tbl[g][i]
  <2>2. x.kind = "table" /\ EntryOK(tbl, lev, at, g, i, x)
    BY <1>6, <2>1
  <2> HIDE DEF x
  <2>3. TableEntry(tbl, lev, at, g, i, x)
    BY <2>2 DEF EntryOK, PageEntry, None, Page
  <2> QED BY <2>3 DEF TableEntry, x
\* Two entries of the pgd for one table, of which none is the first.
<1>7. ASSUME NEW i \in Index, NEW j \in Index, i # 0, j # 0,
             tbl[Pgd][i].kind = "table", tbl[Pgd][j].kind = "table", tbl[Pgd][i].at = tbl[Pgd][j].at
      PROVE  i = j
  <2>1. \A k \in Index : k # 0 /\ ~(0 < k /\ k < h) => h <= k
    BY <1>3 DEF Index
  <2>2. h <= i /\ h <= j
    BY <1>2, <1>5, <1>7, <2>1 DEF HalvesInv
  <2>3. Spot(lev, at, Pgd, i) = Spot(lev, at, Pgd, j)
    BY <1>3, <1>6, <1>7
  <2> QED BY <1>1, <2>2, <2>3, UpperSpots
<1> HIDE DEF h
<1>8. ASSUME NEW f \in DOMAIN tbl \ {Pgd}
      PROVE  Cardinality(To(f)) = IF f = Pud /\ phase # "done" THEN 2 ELSE 1
  <2>1. PICK g \in DOMAIN tbl, i \in Index : tbl[g][i] = Table(f)
    BY <1>2 DEF Hung
  <2>2. <<g, i>> \in To(f)
    BY <1>4, <2>1
  <2>3. ASSUME NEW l \in To(f)
        PROVE  /\ l = <<l[1], l[2]>> /\ l[1] \in DOMAIN tbl /\ l[2] \in Index
               /\ tbl[l[1]][l[2]].kind = "table" /\ tbl[l[1]][l[2]].at = f
    OBVIOUS
  <2> HIDE DEF To
  <2>4. CASE f = Pud /\ phase # "done"
    <3>1. tbl[Pgd][0] = Table(f) /\ tbl[Pgd][h] = Table(f)
      BY <1>2, <2>4 DEF SharedPud, h
    <3>2. <<Pgd, 0>> \in To(f) /\ <<Pgd, h>> \in To(f)
      BY <1>3, <1>4, <3>1 DEF To
    <3>3. ASSUME NEW l \in To(f) PROVE l \in {<<Pgd, 0>>, <<Pgd, h>>}
      <4>1. /\ l = <<l[1], l[2]>> /\ l[1] \in DOMAIN tbl /\ l[2] \in Index
            /\ tbl[l[1]][l[2]].kind = "table" /\ tbl[l[1]][l[2]].at = f
        BY <2>3
      <4>2. l[1] = Pgd
        BY <1>2, <1>3, <1>4, <3>1, <4>1 DEF Once
      <4>3. l[2] = 0 \/ l[2] = h
        BY <1>3, <1>4, <1>7, <3>1, <4>1, <4>2
      <4> QED BY <4>1, <4>2, <4>3
    <3>4. To(f) = {<<Pgd, 0>>} \cup {<<Pgd, h>>}
      BY <3>2, <3>3
    <3>5. <<Pgd, h>> \notin {<<Pgd, 0>>}
      BY <1>3
    <3>6. Cardinality({<<Pgd, 0>>}) = 1 /\ IsFiniteSet({<<Pgd, 0>>})
      BY FS_Singleton
    <3>7. Cardinality(To(f)) = 1 + 1
      BY <3>4, <3>5, <3>6, FS_AddElement
    <3> QED BY <2>4, <3>7
  <2>5. CASE ~(f = Pud /\ phase # "done")
    <3>1. tbl[Pgd][0].kind = "table" => tbl[Pgd][0].at # f
      BY <1>2, <1>4, <1>5, <2>5 DEF SharedPud, HalvesInv
    <3>2. ASSUME NEW l \in To(f) PROVE l = <<g, i>>
      <4>1. /\ l = <<l[1], l[2]>> /\ l[1] \in DOMAIN tbl /\ l[2] \in Index
            /\ tbl[l[1]][l[2]].kind = "table" /\ tbl[l[1]][l[2]].at = f
        BY <2>3
      <4>2. tbl[g][i].kind = "table" /\ tbl[g][i].at = f
        BY <1>4, <2>1
      <4>3. (l[1] = g /\ l[2] = i) \/ (l[1] = Pgd /\ g = Pgd)
        BY <1>2, <4>1, <4>2 DEF Once
      <4>4. l[1] = Pgd /\ g = Pgd => l[2] # 0 /\ i # 0
        BY <3>1, <4>1, <4>2
      <4>5. l[1] = Pgd /\ g = Pgd => l[2] = i
        BY <1>7, <4>1, <4>2, <4>4
      <4> QED BY <4>1, <4>3, <4>5
    <3>3. To(f) = {<<g, i>>}
      BY <2>2, <3>2
    <3> QED BY <2>5, <3>3, FS_Singleton
  <2> QED BY <2>4, <2>5
<1>9. \A l \in links : tbl[l[1]][l[2]].at \in DOMAIN tbl
  BY <1>6
<1> QED BY <1>8, <1>9 DEF TablesHangOnce

\* Since drivers ask for less than a page of level 3 (KmapSizeAssumption): whatever is split,
\* mapped over or given back, every table in use hangs in the tree at one place, and the
\* pud both halves share at two until arch_clear_low_page.
THEOREM TablesStayHung == Spec => []TablesHangOnce
<1>1. Init => Inv /\ AskInv /\ HangInv
  BY InitInv, InitAsk, InitHang
<1>2. Inv /\ AskInv /\ HangInv /\ [Next]_vars => (Inv /\ AskInv /\ HangInv)'
  <2> SUFFICES ASSUME Inv, AskInv, HangInv, [Next]_vars PROVE Inv' /\ AskInv' /\ HangInv'
    OBVIOUS
  <2>1. Inv'
    BY NextInv
  <2>2. AskInv'
    BY <2>1, StepAsk
  <2>3. HugeInv' /\ BootInv'
    BY HugeStep DEF HangInv
  <2>4. Hung(tbl')
    BY HangStep
  <2>5. HalvesInv'
    BY HangStep
  <2>6. Hung(tbl)'
    BY <2>4 DEF Hung
  <2> QED BY <2>1, <2>2, <2>3, <2>5, <2>6 DEF HangInv
<1>3. Inv /\ AskInv /\ HangInv => TablesHangOnce
  BY InvHangs
<1> QED BY <1>1, <1>2, <1>3, PTL DEF Spec

-----------------------------------------------------------------------------
(* Where the tables are.                                                   *)

\* arch_map_kernel_page is under way.
First == phase = "kernel" /\ kmaps = 0 /\ ~Idle

\* Parts of small pages come last, and make less than a large page.
NoSmall(s)   == \A i \in 1..Len(s) : s[i].level # 1
SmallLast(s) == \A i \in 1..Len(s) : s[i].level = 1 => i = Len(s) /\ s[i].to - s[i].at < E

\* The tables a part may need before its pages make up for them.
Reserve(r) == IF r.level = 1 THEN 2 * (r.to - r.at) + 3 ELSE 2 * E + 1
\* The tables the walk may have taken since the last page was stored.
Taken == 4 - DownTo + (IF hole = NoHole /\ Entry.kind = "table" THEN 1 ELSE 0)

\* The tables take no more than the pages from RamStart up to k.
FewTables(t, k) == /\ k \in Nat /\ RamStart <= k
                   /\ DOMAIN t \subseteq {Pgd, Pud, Pmd} \cup RamStart..k - 1

\* The bitmap hands out the lowest page, so the tables stay behind the pages mapped.
FirstInv == First => /\ asked = Cover(3)..limit - 1
                     /\ SmallLast(parts)
                     /\ \E k : FewTables(tbl, k) /\ k + Reserve(Now) <= (Now.at - KernPage) + Taken

\* The memory is mapped, but for the trampoline.
RamInv == /\ (BootPages \ {MpPage}) \subseteq Mapped(Settled)
          /\ phase # "boot" /\ ~First => (Cover(3)..limit - 1) \subseteq Mapped(Settled)

\* So far only the boot code has made tables.
UnusedInv == phase = "boot" => kmaps = 0 /\ DOMAIN tbl = {Pgd, Pud, Pmd}

RamAll == RamInv /\ FirstInv /\ UnusedInv

\* What tables of four entries or more come to.
LEMMA Sizes ==
  /\ E \in Nat /\ E >= 4 /\ Cover(1) = 1 /\ Cover(2) = E /\ Cover(3) \in Nat /\ Cover(3) >= 3 * E + 4
  /\ KernPage \in Nat /\ Cover(3) <= KernPage /\ MpPage \in 0..E - 1 /\ RamStart = E + 3
  /\ Pgd = E /\ Pud = E + 1 /\ Pmd = E + 2
<1>1. /\ E \in Nat \ {0, 1} /\ Cover(1) = 1 /\ Cover(2) = E /\ Cover(3) = E * E
      /\ KernPage \in Nat /\ Cover(3) \in Nat /\ Cover(3) <= Cover(4) /\ Cover(4) <= KernPage
      /\ Cover(4) \in Nat
  BY EAssumption, Covers, KernIsFar
<1>2. 4 * E <= E * E
  BY <1>1, Times, TableSizeAssumption
<1>3. Cover(3) <= KernPage
  <2> DEFINE c == Cover(3)
             d == Cover(4)
  <2>1. c \in Nat /\ d \in Nat /\ c <= d /\ d <= KernPage
    BY <1>1
  <2> HIDE DEF c, d
  <2> QED BY <1>1, <2>1 DEF c
<1>4. Cover(3) >= 3 * E + 4
  <2> DEFINE c == Cover(3)
  <2>1. c \in Nat /\ 4 * E <= c
    BY <1>1, <1>2
  <2> HIDE DEF c
  <2>2. c >= 3 * E + 4
    BY <1>1, <2>1, TableSizeAssumption
  <2> QED BY <2>2 DEF c
<1> QED BY <1>1, <1>3, <1>4, BoundsAssumption, TableSizeAssumption DEF RamStart, Pgd, Pud, Pmd

\* The numbers of the step at hand.
LEMMA FirstNumbers ==
  ASSUME Inv, AskInv, ~Idle
  PROVE  /\ Now.at \in Nat /\ Now.to \in Nat /\ Now.level \in 1..3 /\ Cover(Now.level) \in Nat \ {0}
         /\ Now.at + Cover(Now.level) <= Now.to /\ Now.to <= 2 * KernPage /\ DownTo \in 1..4 /\ Taken \in 0..4
         /\ Now.to - Now.at \in Nat \ {0}
<1>1. PICK f, e : Request(f, e)
  BY DEF AskInv
<1>2. /\ Now.at \in Nat /\ Now.to \in Nat /\ Now.level \in 1..3 /\ Cover(Now.level) \in Nat \ {0}
      /\ Now.at + Cover(Now.level) <= Now.to
  BY <1>1, RequestNow
<1>3. Now.to <= 2 * KernPage
  BY NowGood, Covers DEF Inv, PartsOf, PartType
<1>4. DownTo \in 1..4
  BY DEF DownTo, Inv, Basic, Levels, HoleAt
<1>5. Taken \in 0..4
  BY <1>4 DEF Taken
<1>6. Now.to - Now.at \in Nat \ {0}
  <2> DEFINE c == Cover(Now.level)
  <2>1. c \in Nat \ {0} /\ Now.at + c <= Now.to
    BY <1>2
  <2> HIDE DEF c
  <2> QED BY <1>2, <2>1
<1> QED BY <1>2, <1>3, <1>4, <1>5, <1>6

\* Everything below the page at hand is mapped.
LEMMA FirstBehind ==
  ASSUME Inv, AskInv, RamInv, FirstInv, First, NEW p \in 0..(Now.at - KernPage) - 1, p # MpPage
  PROVE  p \in Mapped(Settled)
<1>1. PICK f, e : Request(f, e)
  BY DEF AskInv, First
<1>2. /\ f \in Nat /\ e \in Nat /\ KernPage <= f /\ f <= Now.at
      /\ asked = {q % KernPage : q \in f..e - 1} /\ Links(parts, Now.at, e)
      /\ \A q \in f..Now.at - 1 : q % KernPage \in Mapped(Settled)
      /\ asked = Cover(3)..limit - 1
  BY <1>1 DEF Request, FirstInv, First
<1>3. e <= 2 * KernPage
  <2>1. parts # <<>> /\ parts \in Seq(PartsOf(removal))
    BY DEF First, Idle, Inv
  <2>2. parts[Len(parts)].to = e
    BY <1>2, <2>1 DEF Links
  <2>3. Len(parts) \in 1..Len(parts)
    BY <2>1, EmptySeq, LenProperties
  <2>4. parts[Len(parts)] \in PartsOf(removal)
    BY <2>1, <2>3, ElementOfSeq
  <2> QED BY <2>2, <2>4, Covers DEF PartsOf, PartType
<1>4. /\ Now.at \in Nat /\ Now.to \in Nat /\ Now.at < Now.to /\ Now.to <= 2 * KernPage
  BY FirstNumbers DEF First
<1> DEFINE c == Cover(3)
<1>5. c \in Nat /\ KernPage \in Nat \ {0} /\ limit \in Nat
  BY Sizes, Covers, LimitsAssumption DEF Inv, Basic
<1>6. CASE p < c
  <2>1. p \in BootPages
    <3> HIDE DEF c
    <3>1. p \in 0..c - 1
      BY <1>2, <1>4, <1>5, <1>6
    <3> QED BY <3>1 DEF BootPages, c
  <2> QED BY <2>1 DEF RamInv
<1>7. CASE ~(p < c)
  <2> HIDE DEF c
  <2>1. asked = c..limit - 1
    BY <1>2 DEF c
  <2>2. c \in asked
    <3>1. Now.at % KernPage \in asked
      <4>1. Now.at \in Now.at..Now.at + Cover(Now.level) - 1
        <5>1. Now.at \in Nat /\ Cover(Now.level) \in Nat \ {0}
          BY FirstNumbers DEF First
        <5> DEFINE n == Cover(Now.level)
        <5> HIDE DEF n
        <5>2. n \in Nat \ {0}
          BY <5>1 DEF n
        <5>3. Now.at \in Now.at..Now.at + n - 1
          BY <5>1, <5>2
        <5> QED BY <5>3 DEF n
      <4> QED BY <1>1, <4>1, RequestNow DEF First
    <3> QED BY <1>5, <2>1, <3>1
  <2>3. PICK q \in f..e - 1 : c = q % KernPage
    BY <1>2, <2>2
  <2>4. q \in 0..2 * KernPage - 1 /\ ~(q < KernPage)
    BY <1>2, <1>3, <1>5
  <2>5. c = q - KernPage
    BY <2>3, <2>4, ModKern
  <2> DEFINE r == KernPage + p
  <2>6. r \in f..Now.at - 1 /\ r \in 0..2 * KernPage - 1 /\ ~(r < KernPage) /\ r - KernPage = p
    BY <1>2, <1>4, <1>5, <1>7, <2>4, <2>5
  <2>7. r % KernPage = p
    BY <2>6, ModKern
  <2> QED BY <1>2, <2>6, <2>7
<1> QED BY <1>6, <1>7

\* The tables are in the direct mapping.
LEMMA InvMapped ==
  ASSUME Inv, AskInv, RamAll
  PROVE  TablesMapped
<1> SUFFICES ASSUME NEW f \in DOMAIN tbl PROVE f \in Mapped(Settled)
  BY DEF TablesMapped
<1>1. /\ E \in Nat /\ E >= 4 /\ Cover(3) \in Nat /\ Cover(3) >= 3 * E + 4 /\ MpPage \in 0..E - 1
      /\ RamStart = E + 3 /\ Pgd = E /\ Pud = E + 1 /\ Pmd = E + 2 /\ KernPage \in Nat
  BY Sizes
<1>2. f \in RamStart..limit - 1 \cup {Pgd, Pud, Pmd} /\ limit \in Nat
  BY LimitsAssumption, Covers DEF Inv, Basic
<1> DEFINE c == Cover(3)
<1>3. c \in Nat /\ c >= 3 * E + 4 /\ \A p : p \in 0..c - 1 /\ p # MpPage => p \in Mapped(Settled)
  BY <1>1 DEF RamAll, RamInv, BootPages
<1> HIDE DEF c
<1>4. f \in Nat /\ f # MpPage /\ (f \in {Pgd, Pud, Pmd} => f \in 0..c - 1)
  BY <1>1, <1>2, <1>3
<1>5. CASE f \in {Pgd, Pud, Pmd} \/ phase = "boot"
  <2>1. f \in {Pgd, Pud, Pmd}
    BY <1>5 DEF RamAll, UnusedInv
  <2> QED BY <1>3, <1>4, <2>1
<1>6. CASE f \in RamStart..limit - 1 /\ phase # "boot" /\ ~First
  <2>1. f \in c..limit - 1 => f \in Mapped(Settled)
    BY <1>6 DEF RamAll, RamInv, c
  <2>2. f \in 0..c - 1 \/ f \in c..limit - 1
    BY <1>1, <1>2, <1>3, <1>6
  <2> QED BY <1>3, <1>4, <2>1, <2>2
<1>7. CASE f \notin {Pgd, Pud, Pmd} /\ First
  <2>1. PICK k : FewTables(tbl, k) /\ k + Reserve(Now) <= (Now.at - KernPage) + Taken
    BY <1>7 DEF RamAll, FirstInv
  <2>2. /\ Now.at \in Nat /\ Taken \in 0..4 /\ Now.to - Now.at \in Nat \ {0}
    BY <1>7, FirstNumbers DEF First
  <2>3. Reserve(Now) \in Nat /\ Reserve(Now) >= 5
    BY <1>1, <2>2 DEF Reserve
  <2>4. f \in RamStart..k - 1 /\ k \in Nat
    BY <1>7, <2>1 DEF FewTables
  <2> DEFINE n == Now.at - KernPage
             r == Reserve(Now)
             t == Taken
  <2>5. n \in Int /\ r \in Nat /\ r >= 5 /\ t \in 0..4 /\ k + r <= n + t
    BY <1>1, <2>1, <2>2, <2>3
  <2> HIDE DEF n, r, t
  <2>6. f \in 0..n - 1
    BY <1>1, <2>4, <2>5
  <2> QED BY <1>4, <1>7, <2>6, FirstBehind DEF RamAll, n
<1> QED BY <1>2, <1>5, <1>6, <1>7

\* Only the trampoline goes away, and a request that is over was met.
LEMMA MappedGrows ==
  ASSUME Inv, Inv', AskInv, [Next]_vars
  PROVE  /\ (Mapped(Settled) \ {MpPage}) \subseteq Mapped(Settled)'
         /\ AskInv' /\ limit' = limit
         /\ phase = "kernel" /\ asked' = {} => asked \subseteq Mapped(Settled)'
<1> DEFINE X == Mapped(Settled)
<1>1. AskInv' /\ [Promise!Next]_(Promise!vars)
  BY StepAsk
<1>2. removal /\ asked # {} => asked \subseteq {MpPage} /\ phase # "kernel"
  <2> SUFFICES ASSUME removal, asked # {} PROVE asked \subseteq {MpPage} /\ phase # "kernel"
    OBVIOUS
  <2>1. PICK f, e : Request(f, e)
    BY DEF AskInv
  <2>2. phase = "clear" /\ f = MpPage /\ e = MpPage + 1 /\ asked = {q % KernPage : q \in f..e - 1}
    BY <2>1 DEF Request
  <2>3. MpPage \in 0..E - 1 /\ E \in Nat /\ KernPage \in Nat /\ MpPage < KernPage
    BY BoundsAssumption, Covers, KernIsFar
  <2>4. MpPage \in 0..2 * KernPage - 1
    BY <2>3
  <2>5. MpPage % KernPage = MpPage
    BY <2>3, <2>4, ModKern
  <2>6. \A q \in f..e - 1 : q = MpPage
    BY <2>2, <2>3
  <2> QED BY <2>2, <2>5, <2>6
<1>3. limit' = limit
  BY DEF Next, vars, machine, MapKernelPage, MapTrampoline, ClearTrampoline, ClearLowPage, Kmap, MapRegion,
         Walk, Descend, NewTable, Expand, Fill, Write, Shrink
<1> HIDE DEF X
<1>4. (X \ {MpPage}) \subseteq X' /\ (phase = "kernel" /\ asked' = {} => asked \subseteq X')
  <2>1. CASE Promise!Begin
    BY <2>1 DEF Promise!Begin, X
  <2>2. CASE Promise!Advance
    BY <1>2, <2>2 DEF Promise!Advance, X
  <2>3. CASE UNCHANGED Promise!vars
    BY <2>3 DEF Promise!vars, X
  <2> QED BY <1>1, <2>1, <2>2, <2>3 DEF Promise!Next
<1> QED BY <1>1, <1>3, <1>4 DEF X

\* The bitmap's page is not beyond the tables.
LEMMA FrameLow ==
  ASSUME First, NEW k, FewTables(tbl, k), NEW f \in Frames, NEW u, DOMAIN u = DOMAIN tbl \cup {f}
  PROVE  FewTables(u, k + 1)
<1>1. /\ f \in RamStart..limit - 1 /\ f \notin DOMAIN tbl
      /\ \A q \in RamStart..f - 1 : q \in DOMAIN tbl
  BY DEF First, Frames, FromBelow
<1>2. RamStart \in Nat /\ Pgd < RamStart /\ Pud < RamStart /\ Pmd < RamStart
      /\ Pgd \in Nat /\ Pud \in Nat /\ Pmd \in Nat
  BY Covers DEF RamStart, Pgd, Pud, Pmd
<1>3. k \in Nat /\ RamStart <= k /\ DOMAIN tbl \subseteq {Pgd, Pud, Pmd} \cup RamStart..k - 1
  BY DEF FewTables
<1>4. ~(f > k)
  <2> SUFFICES ASSUME f > k PROVE FALSE
    OBVIOUS
  <2>1. k \in RamStart..f - 1
    BY <1>1, <1>2, <1>3
  <2>2. k \in {Pgd, Pud, Pmd} \cup RamStart..k - 1
    BY <1>1, <1>3, <2>1
  <2> QED BY <1>2, <1>3, <2>2
<1>5. f \in RamStart..(k + 1) - 1 /\ k + 1 \in Nat /\ RamStart <= k + 1
      /\ RamStart..k - 1 \subseteq RamStart..(k + 1) - 1
  BY <1>1, <1>2, <1>3, <1>4
<1> QED BY <1>3, <1>5 DEF FewTables

\* A turn of pgdir_walk takes at most one table.
LEMMA WalkFirst ==
  ASSUME Inv, AskInv, FirstInv, Descend \/ NewTable \/ Expand \/ Fill
  PROVE  FirstInv'
<1> SUFFICES ASSUME First' PROVE FirstInv'
  BY DEF FirstInv
<1>1. /\ ~Idle /\ UNCHANGED <<phase, parts, kmaps, asked, limit>> /\ Now' = Now
  BY DEF Descend, NewTable, Expand, Fill, Inv, HoleAt, machine, Now
<1>2. First
  BY <1>1 DEF First, Idle
<1>3. asked = Cover(3)..limit - 1 /\ SmallLast(parts)
  BY <1>2 DEF FirstInv
<1>4. PICK k : FewTables(tbl, k) /\ k + Reserve(Now) <= (Now.at - KernPage) + Taken
  BY <1>2 DEF FirstInv
<1>5. /\ Now.at \in Nat /\ DownTo \in 1..4 /\ Taken \in 0..4 /\ Now.to - Now.at \in Nat \ {0}
      /\ KernPage \in Nat /\ E \in Nat /\ k \in Nat
  BY <1>1, <1>4, FirstNumbers, Covers DEF FewTables
<1>6. Reserve(Now) \in Nat
  BY <1>5 DEF Reserve
<1> DEFINE r == Reserve(Now)
           t == Taken
           n == Now.at - KernPage
<1>7. r \in Nat /\ n \in Int /\ t \in 0..4 /\ k + r <= n + t /\ k \in Nat
  BY <1>4, <1>5, <1>6
<1>8. PICK m : FewTables(tbl', m) /\ m \in {k, k + 1} /\ t + (m - k) <= Taken' /\ Taken' \in Int
  <2>1. CASE Descend
    <3>1. hole = NoHole /\ hole' = hole /\ Entry.kind = "table" /\ walk'.level = walk.level - 1 /\ tbl' = tbl
      BY <2>1 DEF Descend
    <3>2. t = 4 - walk.level + 1 /\ Taken' \in {4 - walk'.level, 4 - walk'.level + 1} /\ walk.level \in 1..4
      BY <1>5, <3>1 DEF Taken, DownTo
    <3>3. t <= Taken' /\ Taken' \in Int
      BY <3>1, <3>2
    <3> HIDE DEF t
    <3>4. t + (k - k) <= Taken'
      BY <1>7, <3>3
    <3> QED BY <1>4, <3>1, <3>3, <3>4 DEF FewTables
  <2>2. CASE NewTable
    <3>1. hole = NoHole /\ hole' = hole /\ Entry.kind = "none" /\ walk' = walk
      BY <2>2 DEF NewTable
    <3>2. PICK f \in Frames : tbl' = WithTable(f)
      BY <2>2 DEF NewTable
    <3> DEFINE u == tbl'
    <3>3. IsWithTable(u, f)
      BY <1>1, <3>1, <3>2, NewTableAdded
    <3> HIDE DEF u
    <3>4. FewTables(u, k + 1)
      BY <1>2, <1>4, <3>3, FrameLow DEF IsWithTable
    <3>5. Entry'.kind = "table"
      <4>1. Entry' = u[walk.frame][I]
        BY <1>1, <3>1 DEF Entry, I, u
      <4> QED BY <3>3, <4>1 DEF IsWithTable, Table
    <3>6. t = 4 - walk.level + 0 /\ Taken' = 4 - walk.level + 1 /\ walk.level \in 1..4
      BY <1>5, <3>1, <3>5 DEF Taken, DownTo
    <3>7. t + ((k + 1) - k) <= Taken' /\ Taken' \in Int
      <4> HIDE DEF t
      <4> QED BY <1>7, <3>6
    <3> QED BY <3>4, <3>7 DEF u
  <2>3. CASE Expand
    <3>1. hole = NoHole /\ Entry.kind = "page" /\ walk' = walk
      BY <2>3 DEF Expand
    <3>2. PICK f \in Frames : tbl' = WithTable(f) /\ hole' = [frame |-> f, level |-> walk.level - 1, old |-> Entry]
      BY <2>3 DEF Expand
    <3> DEFINE u == tbl'
    <3>3. IsWithTable(u, f)
      BY <1>1, <3>1, <3>2, NewTableAdded
    <3> HIDE DEF u
    <3>4. FewTables(u, k + 1)
      BY <1>2, <1>4, <3>3, FrameLow DEF IsWithTable
    <3>5. hole' # NoHole /\ hole'.level = walk.level - 1
      <4>1. hole'.old.kind = "page" /\ NoHole.old.kind = "none"
        BY <3>1, <3>2 DEF NoHole, None
      <4> QED BY <3>2, <4>1
    <3>6. t = 4 - walk.level + 0 /\ Taken' = 4 - (walk.level - 1) + 0 /\ walk.level \in 1..4
      BY <1>5, <3>1, <3>5 DEF Taken, DownTo
    <3>7. t + ((k + 1) - k) <= Taken' /\ Taken' \in Int
      <4> HIDE DEF t
      <4> QED BY <1>7, <3>6
    <3> QED BY <3>4, <3>7 DEF u
  <2>4. CASE Fill
    <3>1. hole # NoHole /\ hole' = NoHole /\ walk'.level = hole.level /\ DOMAIN tbl' = DOMAIN tbl
      BY <2>4 DEF Fill
    <3>2. t = 4 - hole.level + 0 /\ Taken' \in {4 - hole.level, 4 - hole.level + 1} /\ hole.level \in 1..4
      BY <1>5, <3>1 DEF Taken, DownTo
    <3>3. t <= Taken' /\ Taken' \in Int
      BY <3>1, <3>2
    <3> HIDE DEF t
    <3>4. t + (k - k) <= Taken'
      BY <1>7, <3>3
    <3>5. FewTables(tbl', k)
      BY <1>4, <3>1 DEF FewTables
    <3> QED BY <3>3, <3>4, <3>5
  <2> QED BY <2>1, <2>2, <2>3, <2>4
<1> HIDE DEF r, t, n
<1>9. m + r <= n + Taken'
  <2> DEFINE w == Taken'
  <2>1. w \in Int /\ t + (m - k) <= w /\ m \in {k, k + 1}
    BY <1>8
  <2> HIDE DEF w
  <2>2. m = k => m + r <= n + w
    BY <1>7, <2>1
  <2>3. m = k + 1 => m + r <= n + w
    BY <1>7, <2>1
  <2>4. m + r <= n + w
    BY <2>1, <2>2, <2>3
  <2> QED BY <2>4 DEF w
<1>10. Reserve(Now)' = Reserve(Now)
  BY <1>1 DEF Reserve
<1>11. FewTables(tbl, m)' /\ m + Reserve(Now)' <= (Now'.at - KernPage) + Taken'
  <2>1. m + Reserve(Now) <= (Now.at - KernPage) + Taken'
    BY <1>9 DEF r, n
  <2>2. FewTables(tbl, m)'
    BY <1>8 DEF FewTables
  <2> QED BY <1>1, <1>10, <2>1, <2>2
<1>12. (asked = Cover(3)..limit - 1)' /\ SmallLast(parts)'
  BY <1>1, <1>3 DEF SmallLast
<1> QED BY <1>11, <1>12 DEF FirstInv

\* The parts that are left end as the parts did.
LEMMA SmallLastGoesOn ==
  ASSUME Inv, AskInv, ~Idle, SmallLast(parts), NextPage
  PROVE  /\ SmallLast(parts')
         /\ parts' # <<>> => /\ Now'.level \in 1..3 /\ Now'.at \in Nat /\ Now'.to \in Nat
                             /\ Now.level = 1 => Now'.level = 1 /\ Now'.to = Now.to
                             /\ Now'.level = 1 => Now'.to - Now'.at < E
<1> DEFINE n == Now.at + Cover(Now.level)
           m == Len(parts)
           s == parts'
<1>1. /\ m \in Nat \ {0} /\ parts[1] = Now /\ s \in Seq(PartsOf(removal))
      /\ n < Now.to => /\ Len(s) = m /\ \A i \in 2..m : s[i] = parts[i]
                       /\ s[1].at = n /\ s[1].to = Now.to /\ s[1].level = Now.level
      /\ ~(n < Now.to) => Len(s) = m - 1 /\ \A i \in 1..m - 1 : s[i] = parts[i + 1]
  BY NextParts
<1>2. Now.at \in Nat /\ Now.to \in Nat /\ E \in Nat /\ n \in Nat /\ Now.at <= n
  <2> DEFINE c == Cover(Now.level)
  <2>1. Now.at \in Nat /\ Now.to \in Nat /\ c \in Nat \ {0} /\ E \in Nat
    BY FirstNumbers, Covers
  <2> HIDE DEF c
  <2> QED BY <2>1 DEF c
<1>3. s # <<>> => Now' = s[1] /\ Now' \in PartsOf(removal) /\ 1 \in 1..Len(s)
  <2>1. s # <<>> => Now' = s[1]
    BY DEF Now
  <2> HIDE DEF s
  <2>2. s # <<>> => 1 \in 1..Len(s)
    BY <1>1, EmptySeq, LenProperties
  <2> QED BY <1>1, <2>1, <2>2, ElementOfSeq
<1>4. \A i \in 1..m : parts[i].level = 1 => i = m /\ parts[i].to - parts[i].at < E
  BY DEF SmallLast
<1>5. s # <<>> => Now'.level \in 1..3 /\ Now'.at \in Nat /\ Now'.to \in Nat
  BY <1>3, Covers DEF PartsOf, PartType
<1> HIDE DEF s, n, m
<1>6. CASE ~(n < Now.to)
  <2>1. \A i \in 1..m - 1 : i + 1 \in 1..m /\ (i + 1 = m => i = m - 1)
    BY <1>1
  <2>2. \A i \in 1..Len(s) : s[i].level = 1 => i = Len(s) /\ s[i].to - s[i].at < E
    BY <1>1, <1>4, <1>6, <2>1
  <2>3. Now.level = 1 => Len(s) = 0
    <3>1. 1 \in 1..m
      BY <1>1
    <3> QED BY <1>1, <1>4, <1>6, <3>1
  <2>4. Now.level = 1 => s = <<>>
    <3>1. s # <<>> => Len(s) # 0
      BY <1>1, EmptySeq
    <3> QED BY <2>3, <3>1
  <2> QED BY <1>3, <1>5, <2>2, <2>4 DEF SmallLast, s
<1>7. CASE n < Now.to
  <2>1. \A i \in 1..m : i = 1 \/ i \in 2..m
    BY <1>1
  <2>2. 1 \in 1..m
    BY <1>1
  <2>3. Now.level = 1 => 1 = m /\ Now.to - n < E
    <3>1. Now.level = 1 => 1 = m /\ Now.to - Now.at < E
      BY <1>1, <1>4, <2>2
    <3>2. Now.to - Now.at < E => Now.to - n < E
      BY <1>2
    <3> QED BY <3>1, <3>2
  <2>4. s[1].level = 1 => 1 = m /\ s[1].to - s[1].at < E
    BY <1>1, <1>7, <2>3
  <2>5. \A i \in 2..m : i \in 1..m
    BY <1>1
  <2>6. \A i \in 1..Len(s) : s[i].level = 1 => i = Len(s) /\ s[i].to - s[i].at < E
    BY <1>1, <1>4, <1>7, <2>1, <2>4, <2>5
  <2> QED BY <1>1, <1>3, <1>5, <1>7, <2>6 DEF SmallLast, s, n
<1> QED BY <1>6, <1>7

\* Storing a page makes up for the tables it took.
LEMMA StoreFirst ==
  ASSUME Inv, AskInv, FirstInv, Write \/ Shrink
  PROVE  FirstInv'
<1> SUFFICES ASSUME First' PROVE FirstInv'
  BY DEF FirstInv
<1> DEFINE c == Cover(Now.level)
<1>1. /\ ~Idle /\ hole = NoHole /\ AtLevel /\ NextPage /\ walk' = Root
      /\ UNCHANGED <<hole, phase, kmaps, limit, removal>>
  BY DEF Write, Shrink, NextPage, machine
<1>2. First /\ parts' # <<>>
  BY <1>1 DEF First, Idle
<1>3. asked = Cover(3)..limit - 1 /\ SmallLast(parts)
  BY <1>2 DEF FirstInv
<1>4. Now'.at = Now.at + c /\ asked' = asked
  <2>1. PICK f, e : Request(f, e)
    BY <1>1 DEF AskInv
  <2> QED BY <1>1, <1>2, <2>1, NextIs
<1>5. /\ SmallLast(parts') /\ Now'.level \in 1..3 /\ Now'.at \in Nat /\ Now'.to \in Nat
      /\ Now.level = 1 => Now'.level = 1 /\ Now'.to = Now.to
      /\ Now'.level = 1 => Now'.to - Now'.at < E
  BY <1>1, <1>2, <1>3, SmallLastGoesOn
<1>6. PICK lev, at : Tree(tbl, lev, at)
  BY DEF Inv
<1>7. DOMAIN tbl' \subseteq DOMAIN tbl
  <2>1. IsStored([tbl EXCEPT ![walk.frame][I] = Store])
    BY <1>1, <1>6, Stored
  <2>2. CASE Write
    BY <2>1, <2>2 DEF Write, IsStored
  <2>3. CASE Shrink
    BY <1>6, <2>1, <2>3, Shrunk DEF IsStored
  <2> QED BY <2>2, <2>3
<1>8. Taken <= 3 /\ Taken \in Nat
  <2>1. DownTo = walk.level /\ walk.level \in 1..4 /\ Taken \in 0..4
    BY <1>1, FirstNumbers DEF DownTo
  <2>2. walk.level = 1 => Entry.kind # "table"
    <3>1. Finds(tbl, lev, at, Now.at, walk.level, Entry)
      BY <1>1, <1>6, WalkFound
    <3> QED BY <3>1 DEF Finds, None, Page
  <2>3. walk.level = 4 => Entry.kind # "table"
    <3>1. Now.level # 4
      BY <1>1, FirstNumbers
    <3> QED BY <1>1, <3>1 DEF AtLevel
  <2>4. Taken = 4 - walk.level + (IF Entry.kind = "table" THEN 1 ELSE 0)
    BY <1>1, <2>1 DEF Taken
  <2>5. CASE Entry.kind = "table"
    BY <2>1, <2>2, <2>4, <2>5
  <2>6. CASE Entry.kind # "table"
    BY <2>1, <2>4, <2>6
  <2> QED BY <2>1, <2>5, <2>6
<1>9. Taken' \in Nat
  <2>1. DownTo' = 4
    BY <1>1 DEF DownTo, Root
  <2>2. Taken' \in {4 - 4, 4 - 4 + 1}
    BY <2>1 DEF Taken
  <2> QED BY <2>2
<1>10. PICK k : FewTables(tbl, k) /\ k + Reserve(Now) <= (Now.at - KernPage) + Taken
  BY <1>2 DEF FirstInv
<1>11. FewTables(tbl, k)' /\ k \in Nat
  BY <1>7, <1>10 DEF FewTables
<1>12. /\ Now.at \in Nat /\ Now.to \in Nat /\ c \in Nat \ {0} /\ E \in Nat /\ E >= 4 /\ KernPage \in Nat
       /\ Now.level = 1 => c = 1
       /\ Now.level # 1 => c >= 4
  <2>1. /\ Now.at \in Nat /\ Now.to \in Nat /\ c \in Nat \ {0} /\ Now.level \in {1, 2, 3}
    BY <1>1, FirstNumbers
  <2>2. /\ E \in Nat /\ E >= 4 /\ Cover(1) = 1 /\ Cover(2) = E /\ Cover(3) >= E /\ Cover(3) \in Nat
        /\ KernPage \in Nat
    BY Sizes, KernIsFar
  <2>3. Now.level = 3 => c >= 4
    <3> DEFINE b == Cover(3)
    <3>1. b \in Nat /\ b >= E /\ (Now.level = 3 => c = b)
      BY <2>2
    <3> HIDE DEF b, c
    <3> QED BY <2>1, <2>2, <3>1
  <2> QED BY <2>1, <2>2, <2>3
<1> HIDE DEF c
<1>13. Reserve(Now') <= Reserve(Now) + (c - 3) /\ Reserve(Now') \in Int /\ Reserve(Now) \in Int
  <2>1. CASE Now.level = 1
    <3>1. Reserve(Now) = 2 * (Now.to - Now.at) + 3 /\ Reserve(Now') = 2 * (Now.to - (Now.at + 1)) + 3
      BY <1>4, <1>5, <1>12, <2>1 DEF Reserve
    <3>2. Now.at + 1 <= Now.to
      BY <1>1, <1>12, <2>1, FirstNumbers DEF c
    <3> QED BY <1>12, <2>1, <3>1, <3>2
  <2>2. CASE Now.level # 1 /\ Now'.level = 1
    <3>1. Reserve(Now) = 2 * E + 1 /\ Reserve(Now') = 2 * (Now'.to - Now'.at) + 3
      BY <2>2 DEF Reserve
    <3>2. Now'.to - Now'.at \in Int
      BY <1>5
    <3> QED BY <1>5, <1>12, <2>2, <3>1, <3>2
  <2>3. CASE Now.level # 1 /\ Now'.level # 1
    <3>1. Reserve(Now) = 2 * E + 1 /\ Reserve(Now') = 2 * E + 1
      BY <2>3 DEF Reserve
    <3> QED BY <1>12, <2>3, <3>1
  <2> QED BY <2>1, <2>2, <2>3
<1>14. k + Reserve(Now') <= (Now'.at - KernPage) + Taken'
  <2> DEFINE r == Reserve(Now)
             q == Reserve(Now')
             t == Taken
             w == Taken'
             n == Now.at
  <2>1. /\ r \in Int /\ q \in Int /\ q <= r + (c - 3) /\ t \in Nat /\ t <= 3 /\ w \in Nat /\ n \in Nat
        /\ k + r <= (n - KernPage) + t /\ Now'.at = n + c /\ k \in Nat /\ KernPage \in Nat /\ c \in Nat
    BY <1>4, <1>8, <1>9, <1>10, <1>11, <1>12, <1>13
  <2> HIDE DEF r, q, t, w, n
  <2>2. k + q <= ((n + c) - KernPage) + w
    BY <2>1
  <2> QED BY <2>1, <2>2 DEF q, w
<1>15. Reserve(Now)' = Reserve(Now') /\ (asked = Cover(3)..limit - 1)' /\ SmallLast(parts)'
  BY <1>1, <1>3, <1>4, <1>5 DEF Reserve, SmallLast
<1> QED BY <1>11, <1>14, <1>15 DEF FirstInv

\* Parts put after parts of larger pages.
LEMMA SmallJoins ==
  ASSUME NEW S, NEW s \in Seq(S), NEW t \in Seq(S), NoSmall(s)
  PROVE  /\ s \o t \in Seq(S)
         /\ NoSmall(t) => NoSmall(s \o t)
         /\ SmallLast(t) => SmallLast(s \o t)
         /\ SmallLast(s)
<1> DEFINE u == s \o t
           m == Len(s)
           n == Len(t)
<1>1. /\ u \in Seq(S) /\ Len(u) = m + n /\ m \in Nat /\ n \in Nat
      /\ \A i \in 1..m + n : u[i] = IF i <= m THEN s[i] ELSE t[i - m]
  BY ConcatProperties
<1> HIDE DEF u, m, n
<1>2. ASSUME NEW i \in 1..m + n
      PROVE  /\ i <= m => u[i].level # 1
             /\ ~(i <= m) => i - m \in 1..n /\ u[i] = t[i - m] /\ (i - m = n => i = m + n)
  <2>1. i <= m => i \in 1..m /\ u[i] = s[i]
    BY <1>1
  <2>2. ~(i <= m) => i - m \in 1..n /\ u[i] = t[i - m] /\ (i - m = n => i = m + n)
    BY <1>1
  <2> QED BY <2>1, <2>2 DEF NoSmall, m
<1>3. NoSmall(t) => NoSmall(u)
  BY <1>1, <1>2 DEF NoSmall, n
<1>4. SmallLast(t) => SmallLast(u)
  BY <1>1, <1>2 DEF SmallLast, n
<1> QED BY <1>1, <1>3, <1>4 DEF NoSmall, SmallLast, u

\* A part of larger pages, or one of a few small ones.
LEMMA SmallPiece ==
  ASSUME NEW S, NEW from, NEW to, NEW l, NEW d, Region(from, from - d, to - from, l) \in S
  PROVE  /\ Piece(from, to, l, d) \in Seq(S)
         /\ l # 1 => NoSmall(Piece(from, to, l, d))
         /\ from = to => Piece(from, to, l, d) = <<>>
         /\ Region(from, from - d, to - from, l).to - Region(from, from - d, to - from, l).at < E
              => SmallLast(Piece(from, to, l, d))
<1> DEFINE r == Region(from, from - d, to - from, l)
           s == Piece(from, to, l, d)
<1>1. r.level = l /\ s = IF from = to THEN <<>> ELSE <<r>>
  BY DEF Region, Piece
<1>2. r \in S
  OBVIOUS
<1> HIDE DEF s, r
<1>3. <<>> \in Seq(S) /\ NoSmall(<<>>) /\ SmallLast(<<>>)
  BY DEF NoSmall, SmallLast
<1>4. <<r>> \in Seq(S) /\ Len(<<r>>) = 1 /\ <<r>>[1] = r /\ \A i \in 1..1 : i = 1
  BY <1>2
<1>5. (l # 1 => NoSmall(<<r>>)) /\ (r.to - r.at < E => SmallLast(<<r>>))
  BY <1>1, <1>4 DEF NoSmall, SmallLast
<1> QED BY <1>1, <1>3, <1>4, <1>5 DEF s, r

\* The small pages of a region are those between its ends, and fewer than a large page has.
LEMMA SmallRegion ==
  ASSUME NEW a \in Nat, NEW b \in Nat, NEW c \in Nat, a = c * E, b < a + E, NEW d, NEW from, NEW to,
         from = a * PgSize, to = b * PgSize
  PROVE  Region(from, from - d, to - from, 1).to - Region(from, from - d, to - from, 1).at < E
<1> DEFINE r == Region(from, from - d, to - from, 1)
<1>1. PgSize \in Nat \ {0} /\ E \in Nat /\ Cover(1) * PgSize = PgSize
  BY Covers
<1>2. from \in Nat /\ to \in Nat /\ from + (to - from) = to
  <2>1. from \in Nat /\ to \in Nat
    BY <1>1
  <2> QED BY <2>1
<1>3. r.at = AlignDown(from, PgSize) \div PgSize /\ r.to = Align(to, PgSize) \div PgSize
  BY <1>1, <1>2 DEF Region
<1>4. r.at = a /\ r.to = b
  BY <1>1, <1>3, AlignedIs
<1> QED BY <1>1, <1>4

\* A region that starts with a large page and ends with a small one has its small pages last.
LEMMA RegionsSmall ==
  ASSUME NEW v \in Nat, NEW phy, NEW sz \in Nat,
         NEW j \in Nat, v = j * (Cover(2) * PgSize), NEW b \in Nat, v + sz = b * PgSize
  PROVE  SmallLast(Regions(v, phy, sz))
<1> DEFINE d     == v - phy
           s1    == Align(v, Cover(2) * PgSize)
           s2    == Align(v, Cover(3) * PgSize)
           e2    == AlignDown(v + sz, Cover(3) * PgSize)
           e1    == LargeEnd(v, sz)
           first == AlignDown(v, PgSize)
           end   == Align(v + sz, PgSize)
           R(from, to, l) == Region(from, from - d, to - from, l)
           S == {R(first, end, 1), R(first, s1, 1), R(s1, s2, 2), R(s2, e2, 3), R(e2, e1, 2),
                 R(s1, e1, 2), R(e1, end, 1)}
           q1 == Piece(first, end, 1, d)
           q2 == Piece(first, s1, 1, d)
           q3 == Piece(s1, s2, 2, d)
           q4 == Piece(s2, e2, 3, d)
           q5 == Piece(e2, e1, 2, d)
           q6 == Piece(s1, e1, 2, d)
           q7 == Piece(e1, end, 1, d)
           L  == Cover(2) * PgSize
<1>1. /\ q1 \in Seq(S) /\ q2 \in Seq(S) /\ q3 \in Seq(S) /\ q4 \in Seq(S) /\ q5 \in Seq(S)
      /\ q6 \in Seq(S) /\ q7 \in Seq(S)
      /\ NoSmall(q3) /\ NoSmall(q4) /\ NoSmall(q5) /\ NoSmall(q6) /\ (first = s1 => q2 = <<>>)
      /\ R(first, end, 1).to - R(first, end, 1).at < E => SmallLast(q1)
      /\ R(e1, end, 1).to - R(e1, end, 1).at < E => SmallLast(q7)
  <2>1. /\ R(first, end, 1) \in S /\ R(first, s1, 1) \in S /\ R(s1, s2, 2) \in S /\ R(s2, e2, 3) \in S
        /\ R(e2, e1, 2) \in S /\ R(s1, e1, 2) \in S /\ R(e1, end, 1) \in S
    OBVIOUS
  <2> HIDE DEF d, s1, s2, e2, e1, first, end, S
  <2> QED BY <2>1, SmallPiece
<1>2. Regions(v, phy, sz) = IF e1 <= s1 THEN q1
                            ELSE q2 \o (IF e2 > s2 /\ page1gb THEN q3 \o q4 \o q5 ELSE q6) \o q7
  BY RegionsAre
<1>3. PgSize \in Nat \ {0} /\ E \in Nat \ {0} /\ L \in Nat \ {0} /\ L = E * PgSize
  <2>1. PgSize \in Nat \ {0} /\ E \in Nat \ {0} /\ L = E * PgSize
    BY Covers
  <2> HIDE DEF L
  <2> QED BY <2>1
<1> HIDE DEF L
<1>4. v = j * L /\ v = (j * E) * PgSize /\ j * E \in Nat
  <2>1. v = j * L
    BY DEF L
  <2> QED BY <1>3, <2>1
<1>5. s1 = v /\ first = v /\ end = b * PgSize
  <2>1. s1 = v
    BY <1>3, <1>4, AlignedIs DEF L
  <2>2. first = v
    <3> DEFINE i == j * E
    <3>1. i \in Nat /\ v = i * PgSize
      BY <1>4
    <3> HIDE DEF i
    <3> QED BY <1>3, <3>1, AlignedIs
  <2>3. end = b * PgSize
    <3>1. end = Align(b * PgSize, PgSize)
      OBVIOUS
    <3> QED BY <1>3, <3>1, AlignedIs
  <2> QED BY <2>1, <2>2, <2>3
<1>6. PICK i \in Nat : e1 = i * L /\ b * PgSize < i * L + L
  <2>1. e1 = AlignDown(b * PgSize, L) /\ b * PgSize \in Nat
    BY <1>3 DEF LargeEnd, L
  <2> HIDE DEF e1
  <2> QED BY <1>3, <2>1, AlignIs
<1>7. i * E \in Nat /\ e1 = (i * E) * PgSize /\ b < i * E + E
  <2>1. i * E \in Nat /\ (i * E) * PgSize = i * L
    BY <1>3
  <2> DEFINE n == i * E
             k == i * E + E
  <2>2. k \in Nat /\ k * PgSize = i * L + L
    BY <1>3, <2>1
  <2>3. b * PgSize < k * PgSize
    BY <1>6, <2>2
  <2> HIDE DEF k
  <2>4. b < k
    <3>1. ~(k * PgSize <= b * PgSize)
      <4>1. k * PgSize \in Nat /\ b * PgSize \in Nat
        BY <1>3, <2>2
      <4> DEFINE x == k * PgSize
                 y == b * PgSize
      <4>2. x \in Nat /\ y \in Nat /\ y < x
        BY <2>3, <4>1
      <4> HIDE DEF x, y
      <4>3. ~(x <= y)
        BY <4>2
      <4> QED BY <4>3 DEF x, y
    <3>2. ~(k <= b)
      BY <1>3, <2>2, <3>1, Times
    <3> QED BY <2>2, <3>2
  <2> QED BY <1>6, <2>1, <2>4 DEF k
<1> HIDE DEF s1, s2, e2, e1, first, end, S, q1, q2, q3, q4, q5, q6, q7
<1>8. SmallLast(q7)
  <2> DEFINE a == i * E
  <2>1. a \in Nat /\ a = i * E /\ b < a + E /\ e1 = a * PgSize
    BY <1>7
  <2> HIDE DEF a, d
  <2>2. Region(e1, e1 - d, end - e1, 1).to - Region(e1, e1 - d, end - e1, 1).at < E
    BY <1>5, <2>1, SmallRegion
  <2> QED BY <1>1, <2>2
<1>9. CASE e1 <= s1
  <2>1. b < j * E + E
    <3>1. i * L <= j * L
      BY <1>4, <1>5, <1>6, <1>9
    <3>2. i <= j
      BY <1>3, <3>1, Times
    <3>3. i * E <= j * E
      BY <1>3, <3>2, Times
    <3> DEFINE x == i * E
               y == j * E
    <3>4. x \in Nat /\ y \in Nat /\ x <= y /\ b < x + E
      BY <1>4, <1>7, <3>3
    <3> HIDE DEF x, y
    <3>5. b < y + E
      BY <1>3, <3>4
    <3> QED BY <3>5 DEF y
  <2> DEFINE a == j * E
  <2>2. a \in Nat /\ a = j * E /\ b < a + E /\ first = a * PgSize
    BY <1>4, <1>5, <2>1
  <2> HIDE DEF a, d
  <2>3. Region(first, first - d, end - first, 1).to - Region(first, first - d, end - first, 1).at < E
    BY <1>5, <2>2, SmallRegion
  <2> QED BY <1>1, <1>2, <1>9, <2>3
<1>10. CASE ~(e1 <= s1)
  <2> DEFINE mid == IF e2 > s2 /\ page1gb THEN q3 \o q4 \o q5 ELSE q6
  <2>1. mid \in Seq(S) /\ NoSmall(mid)
    <3>1. q3 \o q4 \in Seq(S) /\ NoSmall(q3 \o q4)
      BY <1>1, SmallJoins
    <3>2. q3 \o q4 \o q5 \in Seq(S) /\ NoSmall(q3 \o q4 \o q5)
      BY <1>1, <3>1, SmallJoins
    <3> QED BY <1>1, <3>2
  <2>2. Regions(v, phy, sz) = q2 \o mid \o q7
    BY <1>2, <1>10
  <2> HIDE DEF mid
  <2>3. q2 \o mid = mid
    BY <1>1, <1>5, <2>1, ConcatEmptySeq
  <2>4. SmallLast(mid \o q7)
    BY <1>1, <1>8, <2>1, SmallJoins
  <2> QED BY <2>2, <2>3, <2>4
<1> QED BY <1>9, <1>10

\* arch_map_kernel_page begins with the tables of the boot code only.
LEMMA MapKernelPageFirst ==
  ASSUME Inv, UnusedInv, MapKernelPage
  PROVE  /\ FirstInv'
         /\ First' => asked' = Cover(3)..limit - 1
         /\ ~First' => Cover(3)..limit - 1 = {}
<1> DEFINE c  == Cover(3)
           vp == KernPage + c
           v  == vp * PgSize
           b  == KernPage + limit
<1>1. Idle /\ phase = "boot" /\ phase' = "kernel" /\ limit' = limit /\ kmaps' = kmaps
  BY DEF MapKernelPage, MapRegion
<1>2. hole = NoHole /\ kmaps = 0 /\ DOMAIN tbl = {Pgd, Pud, Pmd}
  BY <1>1 DEF Inv, HoleAt, UnusedInv
<1>3. /\ c \in Nat \ {0} /\ c >= 3 * E + 4 /\ KernPage \in Nat \ {0} /\ limit \in 1..KernPage
      /\ E \in Nat /\ E >= 4 /\ RamStart = E + 3 /\ PgSize \in Nat \ {0}
  BY Sizes, KernIsFar, LimitsAssumption, PgSizeAssumption DEF Inv, Basic
<1>4. CASE ~(limit > c)
  <2>1. parts' = parts
    BY <1>4 DEF MapKernelPage
  <2>2. ~First'
    BY <1>1, <2>1 DEF First, Idle
  <2>3. c..limit - 1 = {}
    <3> HIDE DEF c
    <3> QED BY <1>3, <1>4
  <2> QED BY <2>2, <2>3 DEF FirstInv
<1>5. CASE limit > c
  <2>1. PICK sz : sz = (limit - c) * PgSize /\ Called(vp, c, KernPage, sz, FALSE)
    BY <1>5, MapKernelPageCall
  <2> DEFINE no == FALSE
  <2>2. Called(vp, c, KernPage, sz, no)
    BY <2>1
  <2> HIDE DEF no
  <2>3. PICK end \in Nat :
           /\ vp \in Nat /\ vp < end /\ asked' = {p % KernPage : p \in vp..end - 1}
           /\ walk' = Root /\ UNCHANGED <<tbl, hole>>
           /\ parts' \in Seq(PartsOf(no)) /\ Links(parts', vp, end)
    <3> HIDE DEF vp
    <3> QED BY <2>2, CallAsks
  <2>4. parts' = Regions(v, c * PgSize, sz) /\ asked' = {p % KernPage : p \in v \div PgSize..Align(v + sz, PgSize) \div PgSize - 1}
    BY <2>2 DEF Called, MapRegion
  <2>5. v \in Nat /\ sz \in Nat /\ v + sz = b * PgSize /\ b \in Nat
    <3> HIDE DEF c
    <3>1. limit - c \in Nat /\ vp \in Nat /\ b \in Nat
      BY <1>3, <1>5
    <3>2. (KernPage + c) * PgSize + (limit - c) * PgSize = (KernPage + limit) * PgSize
      BY <1>3
    <3> DEFINE n == limit - c
    <3>3. n \in Nat /\ sz = n * PgSize
      BY <2>1, <3>1
    <3> HIDE DEF n
    <3>4. sz \in Nat /\ v \in Nat
      BY <1>3, <3>1, <3>3
    <3> QED BY <2>1, <3>1, <3>2, <3>4
  <2>6. v \div PgSize = vp /\ Align(v + sz, PgSize) \div PgSize = b
    <3> HIDE DEF v, vp, b
    <3>1. vp \in Nat /\ v = vp * PgSize
      BY <2>3 DEF v
    <3> QED BY <1>3, <2>5, <3>1, AlignedIs
  <2>7. asked' = c..limit - 1
    <3>1. asked' = {p % KernPage : p \in vp..b - 1}
      BY <2>4, <2>6
    <3> HIDE DEF c
    <3>2. ASSUME NEW p \in vp..b - 1 PROVE p \in Nat /\ p % KernPage = p - KernPage
      <4>1. p \in 0..2 * KernPage - 1 /\ ~(p < KernPage)
        BY <1>3, <2>3
      <4> QED BY <4>1, ModKern
    <3>3. asked' = {p - KernPage : p \in vp..b - 1}
      BY <3>1, <3>2
    <3>4. ASSUME NEW q \in c..limit - 1 PROVE q \in {p - KernPage : p \in vp..b - 1}
      <4>1. KernPage + q \in vp..b - 1 /\ q = (KernPage + q) - KernPage
        BY <1>3
      <4> QED BY <4>1
    <3>5. \A p \in vp..b - 1 : p - KernPage \in c..limit - 1
      BY <1>3
    <3> QED BY <3>3, <3>4, <3>5
  <2>8. SmallLast(parts')
    <3> DEFINE h == E \div 2
               a == Cover(2)
               j == h * (E * E) + E
    <3>1. KernPage = h * (E * (E * a)) /\ c = E * a /\ h \in Nat /\ E \in Nat /\ a \in Nat
      <4>1. 2 \in 1..3 /\ 3 \in 1..3 /\ 2 \in Levels /\ 2 + 1 = 3 /\ 3 + 1 = 4
        BY DEF Levels
      <4>2. Cover(3) = E * Cover(2) /\ Cover(4) = E * Cover(3) /\ Cover(2) \in Nat
        BY <4>1, Covers
      <4>3. h \in Nat
        BY EAssumption
      <4> QED BY <1>3, <4>2, <4>3 DEF KernPage
    <3> HIDE DEF h, a
    <3>2. vp = j * a /\ j \in Nat
      BY <3>1
    <3>3. v = j * (a * PgSize)
      <4>1. v = (j * a) * PgSize
        BY <3>2
      <4> HIDE DEF j, v
      <4> QED BY <1>3, <3>1, <3>2, <4>1
    <3>4. v = j * (Cover(2) * PgSize)
      BY <3>3 DEF a
    <3> DEFINE phy == c * PgSize
    <3>5. parts' = Regions(v, phy, sz)
      BY <2>4
    <3> HIDE DEF v, b, j, phy
    <3> QED BY <2>5, <3>2, <3>4, <3>5, RegionsSmall
  <2>9. Now'.at = vp /\ Now'.to \in Nat /\ Now'.level \in 1..3 /\ (Now'.level = 1 => Now'.to - Now'.at < E)
    <3> DEFINE s == parts'
    <3>1. s # <<>>
      <4> SUFFICES ASSUME s = <<>> PROVE FALSE
        OBVIOUS
      <4>1. vp = end
        BY <2>3 DEF Links
      <4> QED BY <2>3, <4>1
    <3>2. Now' = s[1]
      BY <3>1 DEF Now
    <3>3. s \in Seq(PartsOf(no)) /\ s[1].at = vp /\ SmallLast(s)
      BY <2>3, <2>8, <3>1 DEF Links
    <3> HIDE DEF s, vp
    <3>4. 1 \in 1..Len(s) /\ s[1] \in PartsOf(no)
      BY <3>1, <3>3, EmptySeq, LenProperties, ElementOfSeq
    <3>5. s[1].to \in Nat /\ s[1].level \in 1..3
      BY <3>4, Covers DEF PartsOf, PartType
    <3>6. s[1].level = 1 => s[1].to - s[1].at < E
      BY <3>3, <3>4 DEF SmallLast
    <3> QED BY <3>2, <3>3, <3>5, <3>6
  <2>10. FewTables(tbl, RamStart)'
    BY <1>2, <1>3, <2>3 DEF FewTables, RamStart, Pgd, Pud, Pmd
  <2>11. Taken' \in Nat
    <3>1. DownTo' = 4
      BY <1>2, <2>3 DEF DownTo, Root
    <3>2. Taken' \in {4 - 4, 4 - 4 + 1}
      BY <3>1 DEF Taken
    <3> QED BY <3>2
  <2>12. RamStart + Reserve(Now') <= (Now'.at - KernPage) + Taken'
    <3> HIDE DEF c
    <3> DEFINE w == Taken'
               r == Reserve(Now')
    <3>1. r <= 2 * E + 1 /\ r \in Int
      <4>1. CASE Now'.level = 1
        <5>1. r = 2 * (Now'.to - Now'.at) + 3
          BY <4>1 DEF Reserve
        <5>2. Now'.at \in Nat
          BY <1>3, <2>9
        <5> HIDE DEF vp
        <5> QED BY <1>3, <2>9, <4>1, <5>1, <5>2
      <4>2. CASE Now'.level # 1
        BY <1>3, <4>2 DEF Reserve
      <4> QED BY <4>1, <4>2
    <3>2. w \in Nat /\ Now'.at - KernPage = c
      BY <1>3, <2>9, <2>11
    <3> HIDE DEF w, r, vp
    <3>3. RamStart + r <= c + w
      BY <1>3, <3>1, <3>2
    <3> QED BY <3>2, <3>3 DEF r, w
  <2>13. Reserve(Now)' = Reserve(Now') /\ RamStart' = RamStart
    BY DEF Reserve
  <2>14. First'
    <3>1. parts' # <<>>
      <4> SUFFICES ASSUME parts' = <<>> PROVE FALSE
        OBVIOUS
      <4>1. vp = end
        BY <2>3 DEF Links
      <4> QED BY <2>3, <4>1
    <3> QED BY <1>1, <1>2, <3>1 DEF First, Idle
  <2> QED BY <1>1, <2>7, <2>8, <2>10, <2>12, <2>13, <2>14 DEF FirstInv, SmallLast
<1> QED BY <1>4, <1>5

\* A call other than that of mem_init does not count as the first.
LEMMA OtherCalls ==
  ASSUME AskInv, AskInv', UNCHANGED limit,
         MapTrampoline \/ ClearTrampoline \/ ClearLowPage \/ (\E k \in Kmaps : Kmap(k)) \/ UNCHANGED vars,
         Inv, FirstInv
  PROVE  FirstInv' /\ (First' <=> First)
<1>1. CASE UNCHANGED vars
  <2>1. /\ UNCHANGED <<tbl, hole, phase, parts, walk, kmaps, asked, limit>> /\ Now' = Now
        /\ Entry' = Entry /\ First' = First
    BY <1>1 DEF vars, Now, Entry, I, First, Idle
  <2>2. Taken' = Taken /\ Reserve(Now)' = Reserve(Now)
    BY <2>1 DEF Taken, DownTo, Reserve
  <2> QED BY <2>1, <2>2 DEF FirstInv, FewTables, SmallLast
<1>2. CASE MapTrampoline \/ ClearTrampoline \/ ClearLowPage
  <2>1. Idle /\ phase' # "kernel"
    BY <1>2 DEF MapTrampoline, ClearTrampoline, ClearLowPage
  <2> QED BY <2>1 DEF First, FirstInv
<1>3. CASE \E k \in Kmaps : Kmap(k)
  <2>1. Idle /\ kmaps' = kmaps + 1 /\ kmaps \in Nat
    BY <1>3, BoundsAssumption DEF Kmap, Inv, Basic
  <2>2. kmaps' # 0
    BY <2>1
  <2> QED BY <2>1, <2>2 DEF First, FirstInv
<1> QED BY <1>1, <1>2, <1>3

\* A step keeps what is mapped, but the trampoline, and what mem_init maps.
LEMMA RamStep ==
  ASSUME Inv, Inv', AskInv, RamAll, [Next]_vars
  PROVE  RamAll'
<1>1. /\ (Mapped(Settled) \ {MpPage}) \subseteq Mapped(Settled)'
      /\ AskInv' /\ limit' = limit
      /\ phase = "kernel" /\ asked' = {} => asked \subseteq Mapped(Settled)'
  BY MappedGrows
<1> DEFINE c == Cover(3)
           X == Mapped(Settled)
<1>2. MpPage \notin c..limit - 1
  <2>1. c \in Nat /\ c >= 3 * E + 4 /\ E \in Nat /\ MpPage \in 0..E - 1
    BY Sizes
  <2> HIDE DEF c
  <2> QED BY <2>1
<1>3. Walk => ~Idle /\ phase' = phase /\ kmaps' = kmaps
  BY DEF Walk, Descend, NewTable, Expand, Fill, Write, Shrink, Inv, HoleAt
<1>4. FirstInv' /\ (MapKernelPage \/ (First' <=> First) \/ (First /\ ~First' /\ Idle'))
  <2>1. CASE MapKernelPage
    BY <2>1, MapKernelPageFirst DEF RamAll
  <2>2. CASE Walk
    <3>1. FirstInv'
      BY <2>2, WalkFirst, StoreFirst DEF Walk, RamAll
    <3>2. (First' <=> First) \/ (First /\ ~First' /\ Idle')
      BY <1>3, <2>2 DEF First
    <3> QED BY <3>1, <3>2
  <2>3. CASE ~MapKernelPage /\ ~Walk
    BY <1>1, <2>3, OtherCalls DEF Next, RamAll
  <2> QED BY <2>1, <2>2, <2>3
<1>5. UnusedInv'
  <2> SUFFICES ASSUME phase' = "boot" PROVE kmaps' = 0 /\ DOMAIN tbl' = {Pgd, Pud, Pmd}
    BY DEF UnusedInv, Pgd, Pud, Pmd
  <2>1. ~Walk
    <3>1. Walk => phase # "boot"
      BY <1>3 DEF AskInv, Request
    <3> QED BY <1>3, <3>1
  <2>2. UNCHANGED vars
    BY <2>1 DEF Next, MapKernelPage, MapTrampoline, ClearTrampoline, ClearLowPage, Kmap
  <2> QED BY <2>2 DEF vars, RamAll, UnusedInv
<1>6. (BootPages \ {MpPage})' \subseteq X'
  <2> HIDE DEF X
  <2>1. (BootPages \ {MpPage}) \subseteq X
    BY DEF RamAll, RamInv, X
  <2> QED BY <1>1, <2>1 DEF X, BootPages
<1>7. ASSUME phase' # "boot", ~First' PROVE (c..limit - 1) \subseteq X'
  <2>1. CASE MapKernelPage
    <3>1. c..limit - 1 = {}
      BY <1>7, <2>1, MapKernelPageFirst DEF RamAll
    <3> QED BY <3>1
  <2>2. CASE First /\ Idle'
    <3>1. asked = c..limit - 1 /\ phase = "kernel"
      BY <2>2 DEF RamAll, FirstInv, First
    <3>2. asked' = {}
      BY <1>1, <2>2 DEF AskInv
    <3> HIDE DEF c, X
    <3> QED BY <1>1, <3>1, <3>2 DEF X
  <2>3. CASE ~MapKernelPage /\ ~First
    <3>1. phase # "boot"
      <4>1. CASE Walk
        BY <1>3, <1>7, <4>1
      <4>2. CASE ~Walk
        BY <1>7, <2>3, <4>2 DEF Next, MapTrampoline, ClearTrampoline, ClearLowPage, Kmap, vars
      <4> QED BY <4>1, <4>2
    <3>2. c..limit - 1 \subseteq X
      BY <2>3, <3>1 DEF RamAll, RamInv
    <3> HIDE DEF c, X
    <3> QED BY <1>1, <1>2, <3>2 DEF X
  <2> QED BY <1>4, <1>7, <2>1, <2>2, <2>3
<1>8. RamInv'
  <2>1. (c..limit - 1)' = c..limit - 1
    BY <1>1
  <2> QED BY <1>6, <1>7, <2>1 DEF RamInv
<1> QED BY <1>4, <1>5, <1>8 DEF RamAll

\* What boot.S has mapped.
LEMMA InitRam == Init => RamAll
<1> SUFFICES ASSUME Init PROVE RamAll
  OBVIOUS
<1>1. phase = "boot" /\ kmaps = 0 /\ DOMAIN tbl = {Pgd, Pud, Pmd}
  BY DEF Init
<1>2. Mapped(Settled) = BootPages
  BY InitAsk DEF Promise!Init
<1> QED BY <1>1, <1>2 DEF RamAll, RamInv, FirstInv, UnusedInv, First

\* Since a table has four entries or more (TableSizeAssumption): the tables lie in memory that the direct mapping
\* shows, even those mem_init needs to map that memory, since the bitmap hands out the lowest
\* page; so kaddr of a table's frame is an address the code can use.
THEOREM TablesStayMapped == Spec => []TablesMapped
<1>1. Init => Inv /\ AskInv /\ RamAll
  BY InitInv, InitAsk, InitRam
<1>2. Inv /\ AskInv /\ RamAll /\ [Next]_vars => (Inv /\ AskInv /\ RamAll)'
  <2> SUFFICES ASSUME Inv, AskInv, RamAll, [Next]_vars PROVE Inv' /\ AskInv' /\ RamAll'
    OBVIOUS
  <2>1. Inv'
    BY NextInv
  <2>2. AskInv'
    BY <2>1, StepAsk
  <2>3. RamAll'
    BY <2>1, RamStep
  <2> QED BY <2>1, <2>2, <2>3
<1>3. Inv /\ AskInv /\ RamAll => TablesMapped
  BY InvMapped
<1> QED BY <1>1, <1>2, <1>3, PTL DEF Spec

\* The page tables are a direct mapping and nothing else, whole and within reach: what the
\* run checks, for every size.
THEOREM TablesStayRight == Spec => []TablesRight
<1>1. Spec => []DirectOrNothing
  BY NothingElseMapped
<1>2. Spec => []TablesHangOnce
  BY TablesStayHung
<1>3. Spec => []TablesMapped
  BY TablesStayMapped
<1>4. DirectOrNothing /\ TablesHangOnce /\ TablesMapped => TablesRight
  BY DEF TablesRight
<1> QED BY <1>1, <1>2, <1>3, <1>4, PTL

=============================================================================
