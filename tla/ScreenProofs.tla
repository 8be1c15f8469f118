----------------------------- MODULE ScreenProofs -----------------------------
(***************************************************************************)
(* Theorems about Screen, for any screen, any font and any characters: it  *)
(* implements Terminal.                                                    *)
(***************************************************************************)
EXTENDS Screen, FiniteSetTheorems, SequenceTheorems, TLAPS

-----------------------------------------------------------------------------
(* Least elements.                                                         *)

\* A set of natural numbers that is not empty has a least element: the intervals up to
\* its elements are well-founded by inclusion.
LEMMA MinIsLeast ==
  ASSUME NEW S \in SUBSET Nat, S # {}
  PROVE  Min(S) \in S /\ \A w \in S : Min(S) <= w
<1> DEFINE R == StrictSubsetOrdering(Nat)
           T == {0..v : v \in S}
<1>1. T \subseteq FiniteSubsetsOf(Nat)
  <2> SUFFICES ASSUME NEW v \in S PROVE 0..v \in FiniteSubsetsOf(Nat)
    OBVIOUS
  <2>1. v \in Int /\ 0 \in Int
    OBVIOUS
  <2>2. IsFiniteSet(0..v)
    BY <2>1, FS_Interval
  <2> QED BY <2>2 DEF FiniteSubsetsOf
<1>2. T # {}
  OBVIOUS
<1>3. IsWellFoundedOn(R, FiniteSubsetsOf(Nat))
  BY FS_StrictSubsetOrderingWellFounded
<1>4. PICK t \in T : \A u \in T : ~(<<u, t>> \in R)
  <2> HIDE DEF R, T
  <2> QED BY <1>1, <1>2, <1>3, WFMin
<1>5. PICK v \in S : t = 0..v
  OBVIOUS
<1>6. ASSUME NEW w \in S, w < v PROVE FALSE
  <2>1. 0..w \subseteq 0..v /\ 0..w # 0..v
    BY <1>6
  <2>2. <<0..w, 0..v>> \in R
    BY <2>1 DEF StrictSubsetOrdering
  <2> QED BY <1>4, <1>5, <2>2
<1>7. \A w \in S : v <= w
  BY <1>6
<1> QED BY <1>7 DEF Min

\* The lesser of two numbers.
LEMMA MinOfTwo ==
  ASSUME NEW a \in Nat, NEW b \in Nat
  PROVE  Min({a, b}) = IF a <= b THEN a ELSE b
<1>1. \A v \in {a, b} : (\A w \in {a, b} : v <= w) <=> v = IF a <= b THEN a ELSE b
  OBVIOUS
<1> QED BY <1>1 DEF Min

\* The greater of two numbers.
LEMMA MaxOfTwo ==
  ASSUME NEW a \in Nat, NEW b \in Nat
  PROVE  Max({a, b}) = IF a >= b THEN a ELSE b
<1>1. \A v \in {a, b} : (\A w \in {a, b} : v >= w) <=> v = IF a >= b THEN a ELSE b
  OBVIOUS
<1> QED BY <1>1 DEF Max

-----------------------------------------------------------------------------
(* What a frame shows, for any frame.                                      *)

\* Frame f shows the character c at a place, all of it.
Cell(f, row, col, c) == \A dx \in 0..FontW - 1, dy \in 0..FontH - 1 :
                          f[<<col * FontW + dx, row * FontH + dy>>] = Glyph(c, dx, dy)
ShownOn(f, row, col) == IF \E c \in Chars : Cell(f, row, col, c)
                        THEN CHOOSE c \in Chars : Cell(f, row, col, c) ELSE Blank
LineOn(f, row) ==
  LET end == Min({XLimit} \cup {col \in 0..XLimit - 1 : ShownOn(f, row, col) = Blank})
  IN [i \in 1..end |-> ShownOn(f, row, i - 1)]
\* The first n places of a row.
Places(f, row, n) == [i \in 1..n |-> ShownOn(f, row, i - 1)]
TextOn(f, k) ==
  LET rows == [r \in 1..Min({k + 1, YLimit}) |-> LineOn(f, r - 1)]
  IN IF k = YLimit THEN Append(Tail(rows), <<>>) ELSE rows

LEMMA TextIs == TextLines = TextOn(base, y) /\ TextLines' = TextOn(base', y')
BY Zenon DEF TextLines, TextOn, Line, LineOn, Shown, ShownOn, Cell

\* The places of the console lie on the screen.
LEMMA Limits ==
  /\ FontW \in Nat \ {0} /\ FontH \in Nat \ {0} /\ Width \in Nat /\ Height \in Nat
  /\ XLimit \in Nat \ {0} /\ XLimit * FontW <= Width
  /\ YLimit \in Nat \ {0} /\ YLimit * FontH <= Height
<1>1. ASSUME NEW w \in Nat, NEW f \in 1..w
      PROVE  w \div f \in Nat \ {0} /\ (w \div f) * f <= w
  <2>1. w \div f \in Nat /\ (w \div f) * f <= w /\ w < (w \div f) * f + f
    OBVIOUS
  <2>2. CASE w \div f = 0
    <3>1. (w \div f) * f = 0
      BY <2>2
    <3> QED BY <2>1, <3>1
  <2> QED BY <2>1, <2>2
<1> QED BY <1>1, SizeAssumption DEF XLimit, YLimit

\* Pixel d of place a, along one axis, where places are w pixels wide.
LEMMA PlacesApart ==
  ASSUME NEW w \in Nat \ {0}, NEW a \in Nat, NEW b \in Nat, NEW d \in 0..w - 1
  PROVE  /\ a * w + d \in Nat /\ a * w \in Nat
         /\ (b + 1) * w = b * w + w
         /\ a * w + d >= b * w <=> a >= b
         /\ a * w + d < b * w <=> a < b
         /\ a * w + d \in b * w..b * w + w - 1 <=> a = b
<1>1. a * w \in Nat /\ b * w \in Nat /\ (b + 1) * w = b * w + w
  OBVIOUS
<1>2. ASSUME a >= b PROVE a * w >= b * w
  <2>1. (a - b) * w >= 0
    BY <1>2
  <2>2. (a - b) * w = a * w - b * w
    OBVIOUS
  <2> QED BY <1>1, <2>1, <2>2
<1>3. ASSUME a < b PROVE a * w + w <= b * w
  <2>1. (b - a - 1) * w >= 0
    BY <1>3
  <2>2. (b - a - 1) * w = b * w - a * w - w
    OBVIOUS
  <2> QED BY <1>1, <2>1, <2>2
<1>4. ASSUME a > b PROVE b * w + w <= a * w
  <2>1. (a - b - 1) * w >= 0
    BY <1>4
  <2>2. (a - b - 1) * w = a * w - b * w - w
    OBVIOUS
  <2> QED BY <1>1, <2>1, <2>2
<1>5. a < b \/ a = b \/ a > b
  OBVIOUS
<1> DEFINE m == a * w
           n == b * w
<1> HIDE DEF m, n
<1>6. m \in Nat /\ n \in Nat /\ (a >= b => m >= n) /\ (a < b => m + w <= n) /\ (a > b => n + w <= m)
      /\ (a = b => m = n)
  BY <1>1, <1>2, <1>3, <1>4 DEF m, n
<1>7. /\ m + d \in Nat
      /\ m + d >= n <=> a >= b
      /\ m + d < n <=> a < b
      /\ m + d \in n..n + w - 1 <=> a = b
  BY <1>5, <1>6
<1> QED BY <1>1, <1>7 DEF m, n

\* The pixels of a place are on the screen.
LEMMA PlaceOnScreen ==
  ASSUME NEW row \in 0..YLimit - 1, NEW col \in 0..XLimit - 1,
         NEW dx \in 0..FontW - 1, NEW dy \in 0..FontH - 1
  PROVE  <<col * FontW + dx, row * FontH + dy>> \in Points
<1>1. ASSUME NEW w \in Nat \ {0}, NEW n \in Nat, NEW a \in 0..n - 1, NEW d \in 0..w - 1,
             NEW s \in Nat, n * w <= s
      PROVE  a * w + d \in 0..s - 1
  <2>1. a * w + d \in Nat /\ a * w + d < n * w
    BY PlacesApart
  <2> QED BY <1>1, <2>1
<1>2. col * FontW + dx \in 0..Width - 1
  BY <1>1, Limits
<1>3. row * FontH + dy \in 0..Height - 1
  BY <1>1, Limits
<1> QED BY <1>2, <1>3 DEF Points

\* What is there before anything is drawn.
Unlit == {Black} \cup Leftover

LEMMA ShownIf ==
  ASSUME NEW f, NEW row, NEW col, NEW c \in Chars, Cell(f, row, col, c)
  PROVE  ShownOn(f, row, col) = c
<1>1. 0 \in 0..FontW - 1 /\ 0 \in 0..FontH - 1
  BY Limits
<1>2. ASSUME NEW d \in Chars, Cell(f, row, col, d) PROVE d = c
  <2>1. Glyph(c, 0, 0) = Glyph(d, 0, 0)
    BY <1>1, <1>2 DEF Cell
  <2> QED BY <2>1 DEF Glyph
<1> QED BY <1>2 DEF ShownOn

LEMMA BlankIf ==
  ASSUME NEW f, NEW row, NEW col, f[<<col * FontW + 0, row * FontH + 0>>] \in Unlit
  PROVE  ShownOn(f, row, col) = Blank
<1>1. 0 \in 0..FontW - 1 /\ 0 \in 0..FontH - 1
  BY Limits
<1>2. ASSUME NEW d \in Chars, Cell(f, row, col, d) PROVE FALSE
  <2>1. f[<<col * FontW + 0, row * FontH + 0>>] = Glyph(d, 0, 0)
    BY <1>1, <1>2 DEF Cell
  <2>2. PICK l \in Leftovers \cup {"black"} : Glyph(d, 0, 0) = Glyph(l, 0, 0)
    BY <2>1 DEF Unlit, Black, Leftover
  <2> QED BY <2>2, CharsAssumption DEF Glyph
<1> QED BY <1>2 DEF ShownOn

LEMMA ShownType ==
  ASSUME NEW f, NEW row, NEW col PROVE ShownOn(f, row, col) \in Chars \cup {Blank}
BY DEF ShownOn

\* A place shows the same in two frames with the same pixels there.
LEMMA SameShown ==
  ASSUME NEW f, NEW g, NEW row, NEW up, NEW col,
         \A dx \in 0..FontW - 1, dy \in 0..FontH - 1 :
           f[<<col * FontW + dx, row * FontH + dy>>] = g[<<col * FontW + dx, up * FontH + dy>>]
  PROVE  ShownOn(f, row, col) = ShownOn(g, up, col)
<1>1. \A c : Cell(f, row, col, c) <=> Cell(g, up, col, c)
  BY DEF Cell
<1> QED BY <1>1, Zenon DEF ShownOn

\* Where a line ends.
LEMMA LineEnd ==
  ASSUME NEW f, NEW row
  PROVE  Min({XLimit} \cup {col \in 0..XLimit - 1 : ShownOn(f, row, col) = Blank}) \in 0..XLimit
<1> DEFINE E == {XLimit} \cup {col \in 0..XLimit - 1 : ShownOn(f, row, col) = Blank}
<1>1. E \in SUBSET (0..XLimit) /\ E \in SUBSET Nat /\ E # {}
  BY Limits
<1> HIDE DEF E
<1>2. Min(E) \in 0..XLimit
  BY <1>1, MinIsLeast
<1> QED BY <1>2 DEF E

LEMMA LineType == ASSUME NEW f, NEW row PROVE LineOn(f, row) \in Seq(Chars \cup {Blank})
<1> DEFINE n == Min({XLimit} \cup {col \in 0..XLimit - 1 : ShownOn(f, row, col) = Blank})
<1>1. n \in Nat
  BY LineEnd, Limits
<1>2. LineOn(f, row) = [i \in 1..n |-> ShownOn(f, row, i - 1)]
  BY DEF LineOn
<1> HIDE DEF n
<1>3. \A i \in 1..n : ShownOn(f, row, i - 1) \in Chars \cup {Blank}
  BY ShownType
<1> QED BY <1>1, <1>2, <1>3, IsASeq

\* Two rows with the same places are the same line.
LEMMA SameLine ==
  ASSUME NEW f, NEW g, NEW row, NEW up,
         \A col \in 0..XLimit - 1 : ShownOn(f, row, col) = ShownOn(g, up, col)
  PROVE  LineOn(f, row) = LineOn(g, up)
<1> DEFINE E(h, r) == {XLimit} \cup {col \in 0..XLimit - 1 : ShownOn(h, r, col) = Blank}
           n == Min(E(f, row))
<1>1. E(f, row) = E(g, up)
  OBVIOUS
<1>2. n \in 0..XLimit /\ XLimit \in Nat
  BY LineEnd, Limits
<1>3. LineOn(f, row) = [i \in 1..n |-> ShownOn(f, row, i - 1)]
  BY DEF LineOn
<1>4. LineOn(g, up) = [i \in 1..n |-> ShownOn(g, up, i - 1)]
  <2>1. LineOn(g, up) = [i \in 1..Min(E(g, up)) |-> ShownOn(g, up, i - 1)]
    BY DEF LineOn
  <2> HIDE DEF E
  <2> QED BY <1>1, <2>1
<1> HIDE DEF n, E
<1>5. \A i \in 1..n : i - 1 \in 0..XLimit - 1
  BY <1>2
<1> QED BY <1>3, <1>4, <1>5

\* A line of n characters, with nothing behind them.
LEMMA LineIs ==
  ASSUME NEW f, NEW row, NEW n \in 0..XLimit,
         \A col \in 0..n - 1 : ShownOn(f, row, col) # Blank,
         n = XLimit \/ ShownOn(f, row, n) = Blank
  PROVE  LineOn(f, row) = Places(f, row, n)
<1> DEFINE E == {XLimit} \cup {col \in 0..XLimit - 1 : ShownOn(f, row, col) = Blank}
<1>1. XLimit \in Nat /\ n \in Nat
  BY Limits
<1>2. n \in E /\ \A e \in E : n <= e
  BY <1>1
<1>3. E \subseteq Nat
  BY <1>1
<1>4. Min(E) = n
  <2> HIDE DEF E
  <2>1. \A e \in E : (\A d \in E : e <= d) => e = n
    <3> SUFFICES ASSUME NEW e \in E, \A d \in E : e <= d PROVE e = n
      OBVIOUS
    <3>1. e <= n /\ n <= e /\ e \in Nat
      BY <1>2, <1>3
    <3> QED BY <1>1, <3>1
  <2> QED BY <1>2, <2>1 DEF Min
<1>5. LineOn(f, row) = [i \in 1..Min(E) |-> ShownOn(f, row, i - 1)]
  BY DEF LineOn
<1> HIDE DEF E
<1> QED BY <1>4, <1>5 DEF Places

\* The same where the last place that shows something is known.
LEMMA LineWithNext ==
  ASSUME NEW f, NEW row, NEW m \in Nat, m + 1 <= XLimit,
         \A col \in 0..m : ShownOn(f, row, col) # Blank,
         m + 1 = XLimit \/ ShownOn(f, row, m + 1) = Blank
  PROVE  LineOn(f, row) = Places(f, row, m + 1)
<1>1. m + 1 \in 0..XLimit /\ m + 1 - 1 = m
  BY Limits
<1>2. \A col \in 0..m + 1 - 1 : ShownOn(f, row, col) # Blank
  BY <1>1, Zenon
<1> QED BY <1>1, <1>2, LineIs

-----------------------------------------------------------------------------
(* The lines of a frame.                                                   *)

\* A sequence with one element more, written down.
LEMMA AppendIs ==
  ASSUME NEW S, NEW s \in Seq(S), NEW e \in S, NEW n \in Nat, Len(s) = n
  PROVE  Append(s, e) = [i \in 1..n + 1 |-> IF i <= n THEN s[i] ELSE e]
<1> DEFINE t == Append(s, e)
<1>1. /\ t \in Seq(S) /\ Len(t) = n + 1 /\ t[n + 1] = e
      /\ \A i \in 1..n : t[i] = s[i]
  BY AppendProperties
<1> HIDE DEF t
<1>2. t = [i \in 1..n + 1 |-> t[i]]
  BY <1>1
<1>3. \A i \in 1..n + 1 : t[i] = IF i <= n THEN s[i] ELSE e
  BY <1>1
<1>4. t = [i \in 1..n + 1 |-> IF i <= n THEN s[i] ELSE e]
  BY <1>2, <1>3, Zenon
<1> QED BY <1>4 DEF t

\* With the cursor in a row, that row is the last line.
LEMMA TextAbove ==
  ASSUME NEW f, NEW k \in 0..YLimit - 1
  PROVE  TextOn(f, k) = [r \in 1..k + 1 |-> LineOn(f, r - 1)]
<1>1. YLimit \in Nat /\ k + 1 \in Nat /\ k + 1 <= YLimit /\ k # YLimit
  BY Limits
<1>2. Min({k + 1, YLimit}) = k + 1
  BY <1>1, MinOfTwo
<1> QED BY <1>1, <1>2 DEF TextOn

\* With the cursor below the last row, the first row is no longer a line.
LEMMA TextBelow ==
  ASSUME NEW f
  PROVE  TextOn(f, YLimit) = [r \in 1..YLimit |-> IF r < YLimit THEN LineOn(f, r) ELSE <<>>]
<1> DEFINE rows == [r \in 1..YLimit |-> LineOn(f, r - 1)]
           L == Chars \cup {Blank}
<1>1. YLimit \in Nat \ {0} /\ YLimit + 1 \in Nat
  BY Limits
<1>2. Min({YLimit + 1, YLimit}) = YLimit
  BY <1>1, MinOfTwo
<1>3. TextOn(f, YLimit) = Append(Tail(rows), <<>>)
  BY <1>2 DEF TextOn
<1>4. rows \in Seq(Seq(L)) /\ Len(rows) = YLimit /\ rows # <<>>
  <2>1. \A r \in 1..YLimit : LineOn(f, r - 1) \in Seq(L)
    BY LineType
  <2>2. rows \in Seq(Seq(L)) /\ Len(rows) = YLimit
    BY <1>1, <2>1, IsASeq
  <2> QED BY <1>1, <2>2
<1>5. /\ Tail(rows) \in Seq(Seq(L)) /\ Len(Tail(rows)) = YLimit - 1
      /\ \A r \in 1..YLimit - 1 : Tail(rows)[r] = LineOn(f, r)
  <2>1. Tail(rows) \in Seq(Seq(L)) /\ Len(Tail(rows)) = YLimit - 1
        /\ \A r \in 1..YLimit - 1 : Tail(rows)[r] = rows[r + 1]
    <3> HIDE DEF rows
    <3> QED BY <1>4, HeadTailProperties
  <2>2. ASSUME NEW r \in 1..YLimit - 1 PROVE rows[r + 1] = LineOn(f, r)
    <3>1. r + 1 \in 1..YLimit /\ r + 1 - 1 = r
      BY <1>1
    <3> QED BY <3>1
  <2> HIDE DEF rows
  <2> QED BY <2>1, <2>2
<1>6. <<>> \in Seq(L)
  OBVIOUS
<1> DEFINE t == Tail(rows)
<1>7. Append(t, <<>>) = [r \in 1..YLimit |-> IF r <= YLimit - 1 THEN t[r] ELSE <<>>]
  <2> DEFINE e == <<>>
             n == YLimit - 1
  <2>1. t \in Seq(Seq(L)) /\ Len(t) = n /\ n \in Nat /\ e \in Seq(L)
    BY <1>1, <1>5
  <2> HIDE DEF t, L, e, n
  <2>2. Append(t, e) = [r \in 1..n + 1 |-> IF r <= n THEN t[r] ELSE e]
    BY <2>1, AppendIs
  <2>3. n + 1 = YLimit
    BY <1>1 DEF n
  <2> QED BY <2>2, <2>3 DEF e, n
<1>8. \A r \in 1..YLimit : (IF r <= YLimit - 1 THEN t[r] ELSE <<>>)
                           = (IF r < YLimit THEN LineOn(f, r) ELSE <<>>)
  <2> HIDE DEF t
  <2> SUFFICES ASSUME NEW r \in 1..YLimit
               PROVE  (IF r <= YLimit - 1 THEN t[r] ELSE <<>>)
                      = (IF r < YLimit THEN LineOn(f, r) ELSE <<>>)
    OBVIOUS
  <2>1. CASE r < YLimit
    <3>1. r <= YLimit - 1 /\ r \in 1..YLimit - 1
      BY <1>1, <2>1
    <3> QED BY <1>5, <2>1, <3>1 DEF t
  <2>2. CASE ~(r < YLimit)
    <3>1. ~(r <= YLimit - 1)
      BY <1>1, <2>2
    <3> QED BY <2>2, <3>1
  <2> QED BY <2>1, <2>2
<1> HIDE DEF t
<1>9. Append(t, <<>>) = [r \in 1..YLimit |-> IF r < YLimit THEN LineOn(f, r) ELSE <<>>]
  BY <1>7, <1>8, Zenon
<1> QED BY <1>3, <1>9 DEF t

\* The operators of the libraries are the same in Terminal.
LEMMA SameOperators ==
  /\ \A S : Text!Max(S) = Max(S)
  /\ \A s : Text!Last(s) = s[Len(s)] /\ Text!Front(s) = SubSeq(s, 1, Len(s) - 1)
BY DEF Text!Max, Max, Text!Last, Text!Front

\* What Terminal keeps of a text that fits, and of one that is a line too long.
LEMMA Fitting ==
  ASSUME NEW S, NEW text \in Seq(S), Len(text) \in 1..YLimit
  PROVE  Text!OnScreen(text) = text
<1>1. YLimit \in Nat \ {0} /\ Len(text) \in Nat
  BY Limits
<1>2. Max({1, Len(text) - YLimit + 1}) = 1
  <2>1. \A v \in {1, Len(text) - YLimit + 1} :
           (\A w \in {1, Len(text) - YLimit + 1} : v >= w) <=> v = 1
    BY <1>1
  <2> QED BY <2>1 DEF Max
<1>3. SubSeq(text, 1, Len(text)) = text
  BY SubSeqFull
<1> QED BY <1>2, <1>3, SameOperators DEF Text!OnScreen

LEMMA Scrolling ==
  ASSUME NEW S, NEW text \in Seq(S), Len(text) = YLimit + 1
  PROVE  Text!OnScreen(text) = [r \in 1..YLimit |-> text[r + 1]]
<1>1. YLimit \in Nat \ {0}
  BY Limits
<1>2. Max({1, Len(text) - YLimit + 1}) = 2
  <2>1. Len(text) - YLimit + 1 = 2
    BY <1>1
  <2> QED BY <2>1, MaxOfTwo
<1>3. SubSeq(text, 2, YLimit + 1) = [r \in 1..YLimit |-> text[r + 1]]
  <2>1. /\ Len(SubSeq(text, 2, YLimit + 1)) = YLimit
        /\ SubSeq(text, 2, YLimit + 1) \in Seq(S)
        /\ \A i \in 1..YLimit : SubSeq(text, 2, YLimit + 1)[i] = text[i + 1]
    BY <1>1, SubSeqProperties
  <2> DEFINE u == SubSeq(text, 2, YLimit + 1)
  <2> HIDE DEF u
  <2>2. u = [r \in 1..YLimit |-> text[r + 1]]
    BY <2>1 DEF u
  <2> QED BY <2>2 DEF u
<1> QED BY <1>2, <1>3, SameOperators DEF Text!OnScreen

-----------------------------------------------------------------------------
(* The invariant.                                                          *)

\* Nothing is drawn in f below row k, nor in it from place c on.
Clear(f, k, c) ==
  \A p \in Points : p[2] >= (k + 1) * FontH \/ (p[2] >= k * FontH /\ p[1] >= c * FontW)
                      => f[p] \in Unlit

\* Nothing is drawn from the cursor on, on the margins neither: the scroll brings the
\* lower margin up.
ClearInv == Clear(base, y, x)

\* Left of the cursor the row is full; below the last row the cursor is at the left.
TextInv == /\ y < YLimit => \A col \in 0..x - 1 : ShownOn(base, y, col) # Blank
           /\ y = YLimit => x = 0

IInv == TypeOK /\ ClearInv /\ TextInv

\* From the cursor on the places show nothing.
LEMMA EmptyFrom ==
  ASSUME NEW f, NEW k \in Nat, NEW c \in Nat, Clear(f, k, c),
         NEW row \in 0..YLimit - 1, NEW col \in 0..XLimit - 1,
         row > k \/ (row = k /\ col >= c)
  PROVE  ShownOn(f, row, col) = Blank
<1> DEFINE p == <<col * FontW + 0, row * FontH + 0>>
<1>1. /\ FontW \in Nat \ {0} /\ FontH \in Nat \ {0} /\ row \in Nat /\ col \in Nat
      /\ 0 \in 0..FontW - 1 /\ 0 \in 0..FontH - 1 /\ k + 1 \in Nat
  BY Limits
<1>2. p \in Points
  BY <1>1, PlaceOnScreen
<1>3. row > k => row * FontH + 0 >= (k + 1) * FontH
  <2>1. row * FontH + 0 >= (k + 1) * FontH <=> row >= k + 1
    BY <1>1, PlacesApart
  <2> QED BY <1>1, <2>1
<1>4. row = k => row * FontH + 0 >= k * FontH
  BY <1>1, PlacesApart
<1>5. col >= c => col * FontW + 0 >= c * FontW
  BY <1>1, PlacesApart
<1>6. p[1] = col * FontW + 0 /\ p[2] = row * FontH + 0
  OBVIOUS
<1>7. f[p] \in Unlit
  <2> HIDE DEF p
  <2> QED BY <1>2, <1>3, <1>4, <1>5, <1>6 DEF Clear
<1> QED BY <1>7, BlankIf

\* The row of the cursor is the text before the cursor, rows below it are empty.
LEMMA LastLineIs ==
  ASSUME NEW f, NEW k \in 0..YLimit - 1, NEW c \in 0..XLimit - 1, Clear(f, k, c),
         \A col \in 0..c - 1 : ShownOn(f, k, col) # Blank
  PROVE  LineOn(f, k) = Places(f, k, c)
<1>1. ShownOn(f, k, c) = Blank
  BY Limits, EmptyFrom
<1> QED BY <1>1, Limits, LineIs

LEMMA LaterLineIs ==
  ASSUME NEW f, NEW k \in Nat, NEW c \in Nat, Clear(f, k, c),
         NEW row \in 0..YLimit - 1, row > k
  PROVE  LineOn(f, row) = <<>>
<1>1. 0 \in 0..XLimit - 1 /\ 0 \in 0..XLimit
  BY Limits
<1>2. ShownOn(f, row, 0) = Blank
  BY <1>1, EmptyFrom
<1>3. LineOn(f, row) = Places(f, row, 0)
  BY <1>1, <1>2, LineIs
<1> QED BY <1>3 DEF Places

\* A new line below row k: the first line goes if there is no row for it.
LEMMA NewRow ==
  ASSUME NEW f, NEW k \in 0..YLimit - 1, k + 1 < YLimit => LineOn(f, k + 1) = <<>>
  PROVE  Text!OnScreen(Append(TextOn(f, k), <<>>)) = TextOn(f, k + 1)
<1> DEFINE L == Seq(Chars \cup {Blank})
           rows == TextOn(f, k)
           e == <<>>
           n == k + 1
           text == Append(rows, e)
<1>1. YLimit \in Nat \ {0} /\ k \in Nat /\ n \in Nat /\ n <= YLimit /\ e \in L
  BY Limits
<1>2. rows = [r \in 1..n |-> LineOn(f, r - 1)]
  BY TextAbove
<1>3. rows \in Seq(L) /\ Len(rows) = n
  <2>1. \A r \in 1..n : LineOn(f, r - 1) \in L
    BY LineType
  <2> HIDE DEF n, rows, L
  <2>2. [r \in 1..n |-> LineOn(f, r - 1)] \in Seq(L)
    BY <1>1, <2>1, IsASeq
  <2> QED BY <1>1, <1>2, <2>2
<1> HIDE DEF L, rows, e, n
<1>4. text = [r \in 1..n + 1 |-> IF r <= n THEN rows[r] ELSE e]
  BY <1>1, <1>3, AppendIs
<1>5. text \in Seq(L) /\ Len(text) = n + 1
  BY <1>1, <1>3, AppendProperties
<1> HIDE DEF text
<1>6. CASE n < YLimit
  <2>1. Len(text) \in 1..YLimit
    BY <1>1, <1>5, <1>6
  <2>2. Text!OnScreen(text) = text
    BY <1>5, <2>1, Fitting
  <2>3. TextOn(f, n) = [r \in 1..n + 1 |-> LineOn(f, r - 1)]
    BY <1>1, <1>6, TextAbove
  <2>4. \A r \in 1..n + 1 : (IF r <= n THEN rows[r] ELSE e) = LineOn(f, r - 1)
    <3> SUFFICES ASSUME NEW r \in 1..n + 1
                 PROVE  (IF r <= n THEN rows[r] ELSE e) = LineOn(f, r - 1)
      OBVIOUS
    <3>1. CASE r <= n
      BY <1>1, <1>2, <3>1
    <3>2. CASE r = n + 1
      <4>1. r - 1 = k + 1 /\ ~(r <= n)
        BY <1>1, <3>2 DEF n
      <4>2. LineOn(f, r - 1) = e
        BY <1>6, <4>1 DEF n, e
      <4> QED BY <4>1, <4>2
    <3> QED BY <1>1, <3>1, <3>2
  <2>5. text = TextOn(f, n)
    BY <1>4, <2>3, <2>4, Zenon
  <2> QED BY <2>2, <2>5 DEF text, n, e, rows
<1>7. CASE n = YLimit
  <2>1. Text!OnScreen(text) = [r \in 1..YLimit |-> text[r + 1]]
    BY <1>5, <1>7, Scrolling
  <2>2. TextOn(f, n) = [r \in 1..YLimit |-> IF r < YLimit THEN LineOn(f, r) ELSE e]
    BY <1>7, TextBelow DEF e
  <2>3. \A r \in 1..YLimit : text[r + 1] = IF r < YLimit THEN LineOn(f, r) ELSE e
    <3> SUFFICES ASSUME NEW r \in 1..YLimit
                 PROVE  text[r + 1] = IF r < YLimit THEN LineOn(f, r) ELSE e
      OBVIOUS
    <3>1. text[r + 1] = IF r + 1 <= n THEN rows[r + 1] ELSE e
      BY <1>1, <1>4, <1>7
    <3>2. CASE r < YLimit
      <4>1. r + 1 <= n /\ r + 1 \in 1..n /\ r + 1 - 1 = r
        BY <1>1, <1>7, <3>2
      <4>2. rows[r + 1] = LineOn(f, r)
        BY <1>2, <4>1
      <4> QED BY <3>1, <3>2, <4>1, <4>2
    <3>3. CASE r = YLimit
      BY <1>1, <1>7, <3>1, <3>3
    <3> QED BY <1>1, <3>2, <3>3
  <2>4. Text!OnScreen(text) = TextOn(f, n)
    BY <2>1, <2>2, <2>3, Zenon
  <2> QED BY <2>4 DEF text, n, e, rows
<1> QED BY <1>1, <1>6, <1>7

-----------------------------------------------------------------------------
(* The steps.                                                              *)

\* What all steps need of the invariant.
LEMMA Facts ==
  ASSUME IInv
  PROVE  /\ x \in 0..XLimit - 1 /\ x \in Nat
         /\ y \in Nat /\ y <= YLimit /\ (~scroll => y \in 0..YLimit - 1)
         /\ base \in [Points -> Pixels] /\ buffer \in [Points -> Pixels] /\ scroll \in BOOLEAN
<1>1. XLimit \in Nat \ {0} /\ YLimit \in Nat \ {0}
  BY Limits
<1>2. /\ base \in [Points -> Pixels] /\ buffer \in [Points -> Pixels]
      /\ scroll \in BOOLEAN /\ x \in 0..XLimit - 1
      /\ y \in 0..IF scroll THEN YLimit ELSE YLimit - 1
  BY DEF IInv, TypeOK
<1> QED BY <1>1, <1>2

LEMMA InitHolds == Init => IInv /\ TextLines = << <<>> >>
<1> SUFFICES ASSUME Init PROVE IInv /\ TextLines = << <<>> >>
  OBVIOUS
<1>1. XLimit \in Nat \ {0} /\ YLimit \in Nat \ {0}
  BY Limits
<1>2. /\ x = 0 /\ y = 0 /\ scroll = FALSE
      /\ base \in [Points -> Leftover] /\ buffer = [p \in Points |-> Black]
  BY DEF Init
<1>3. TypeOK
  <2>1. Leftover \subseteq Pixels /\ Black \in Pixels
    BY DEF Pixels
  <2>2. base \in [Points -> Pixels] /\ buffer \in [Points -> Pixels]
    BY <1>2, <2>1
  <2>3. y \in 0..(IF scroll THEN YLimit ELSE YLimit - 1) /\ x \in 0..XLimit - 1
    BY <1>1, <1>2
  <2> QED BY <1>2, <2>2, <2>3 DEF TypeOK
<1>4. ClearInv
  BY <1>2 DEF ClearInv, Clear, Unlit
<1>5. TextInv
  BY <1>1, <1>2 DEF TextInv
<1>6. LineOn(base, 0) = <<>>
  <2>1. Clear(base, 0, 0)
    BY <1>2, <1>4 DEF ClearInv
  <2>2. 0 \in 0..YLimit - 1 /\ 0 \in 0..XLimit - 1
    BY <1>1
  <2>3. LineOn(base, 0) = Places(base, 0, 0)
    BY <2>1, <2>2, LastLineIs
  <2> QED BY <2>3 DEF Places
<1>7. TextLines = [r \in 1..1 |-> LineOn(base, r - 1)]
  <2>1. 0 \in 0..YLimit - 1 /\ 0 + 1 = 1
    BY <1>1
  <2> QED BY <1>2, <2>1, TextIs, TextAbove
<1>8. TextLines = << <<>> >>
  BY <1>6, <1>7
<1> QED BY <1>3, <1>4, <1>5, <1>8 DEF IInv

\* '\n': below the row of the cursor nothing is drawn.
LEMMA NewLineStep == ASSUME IInv, NewLine PROVE IInv' /\ Text!NewLine
<1>1. XLimit \in Nat \ {0} /\ YLimit \in Nat \ {0} /\ FontH \in Nat \ {0}
  BY Limits
<1>2. /\ x \in 0..XLimit - 1 /\ x \in Nat /\ y \in Nat /\ y \in 0..YLimit - 1
      /\ base \in [Points -> Pixels] /\ buffer \in [Points -> Pixels] /\ scroll \in BOOLEAN
  BY Facts DEF NewLine
<1>3. x' = 0 /\ y' = y + 1 /\ scroll' = TRUE /\ base' = base /\ buffer' = buffer
  BY <1>1 DEF NewLine, MoveTo, AtLineEnd
<1>4. TypeOK'
  BY <1>1, <1>2, <1>3 DEF TypeOK
<1>5. Clear(base, y, x)
  BY DEF IInv, ClearInv
<1>6. Clear(base, y + 1, 0)
  <2> SUFFICES ASSUME NEW p \in Points,
                      p[2] >= (y + 1 + 1) * FontH \/ p[2] >= (y + 1) * FontH
               PROVE  base[p] \in Unlit
    BY DEF Clear
  <2>1. p[2] \in Nat
    BY DEF Points
  <2>2. (y + 1) * FontH \in Nat /\ (y + 1 + 1) * FontH = (y + 1) * FontH + FontH
    BY <1>1, <1>2
  <2>3. p[2] >= (y + 1) * FontH
    BY <1>1, <2>1, <2>2
  <2> QED BY <1>5, <2>3 DEF Clear
<1>7. ClearInv' /\ TextInv'
  BY <1>3, <1>6 DEF ClearInv, TextInv
<1>8. y + 1 < YLimit => LineOn(base, y + 1) = <<>>
  <2> SUFFICES ASSUME y + 1 < YLimit PROVE LineOn(base, y + 1) = <<>>
    OBVIOUS
  <2>1. y + 1 \in 0..YLimit - 1 /\ y + 1 > y
    BY <1>1, <1>2
  <2> QED BY <1>2, <1>5, <2>1, LaterLineIs
<1>9. Text!OnScreen(Append(TextOn(base, y), <<>>)) = TextOn(base', y')
  BY <1>2, <1>3, <1>8, NewRow
<1>10. TextLines' = Text!OnScreen(Append(TextLines, <<>>))
  BY <1>9, TextIs
<1>11. Text!NewLine
  BY <1>10 DEF Text!NewLine
<1> QED BY <1>4, <1>7, <1>11 DEF IInv

\* The scroll: every row shows what the one below it showed.
LEMMA ScrollStep == ASSUME IInv, Scroll PROVE IInv' /\ TextLines' = TextLines
<1>1. XLimit \in Nat \ {0} /\ YLimit \in Nat \ {0} /\ FontH \in Nat \ {0} /\ FontW \in Nat \ {0}
      /\ Height \in Nat /\ Width \in Nat /\ YLimit * FontH <= Height
  BY Limits
<1>2. /\ x \in 0..XLimit - 1 /\ x \in Nat /\ y \in Nat /\ y <= YLimit
      /\ base \in [Points -> Pixels] /\ buffer \in [Points -> Pixels] /\ scroll \in BOOLEAN
  BY Facts
<1>3. scroll' = FALSE /\ x' = x
  BY DEF Scroll
<1>4. CASE y # YLimit /\ UNCHANGED <<y, base, buffer>>
  <2>1. TypeOK'
    <3>1. y' \in 0..(IF scroll' THEN YLimit ELSE YLimit - 1)
      BY <1>1, <1>2, <1>3, <1>4
    <3> QED BY <1>2, <1>3, <1>4, <3>1 DEF TypeOK
  <2>2. ClearInv' /\ TextInv'
    BY <1>3, <1>4 DEF IInv, ClearInv, TextInv
  <2>3. TextLines' = TextLines
    BY <1>4, TextIs
  <2> QED BY <2>1, <2>2, <2>3 DEF IInv
<1>5. CASE /\ y = YLimit /\ y' = y - 1
           /\ buffer' = Moved(FontH)
           /\ base' = Flushed(base, buffer', 0, Width, 0, Height)
  <2>1. x = 0
    BY <1>5 DEF IInv, TextInv
  <2> DEFINE Up(p) == <<p[1], p[2] + FontH>>
  <2>2. ASSUME NEW p \in Points
        PROVE  /\ p[1] \in 0..Width - 1 /\ p[2] \in 0..Height - 1
               /\ p[2] < Height - FontH => Up(p) \in Points
    <3>1. p[1] \in 0..Width - 1 /\ p[2] \in 0..Height - 1
      BY DEF Points
    <3>2. p[2] < Height - FontH => p[2] + FontH \in 0..Height - 1
      BY <1>1, <3>1
    <3> QED BY <3>1, <3>2 DEF Points
  <2>3. buffer' = [p \in Points |-> IF p[2] < Height - FontH THEN base[Up(p)] ELSE Black]
    BY <1>5 DEF Moved
  <2>4. base' = [p \in Points |-> IF p[2] < Height - FontH THEN base[Up(p)] ELSE Black]
    <3>1. base' = [p \in Points |-> IF p[1] \in 0..Width - 1 /\ p[2] \in 0..Height - 1
                                    THEN buffer'[p] ELSE base[p]]
      BY <1>5 DEF Flushed
    <3> HIDE DEF Up
    <3>2. \A p \in Points : (IF p[1] \in 0..Width - 1 /\ p[2] \in 0..Height - 1
                             THEN buffer'[p] ELSE base[p])
                            = IF p[2] < Height - FontH THEN base[Up(p)] ELSE Black
      BY <2>2, <2>3
    <3> QED BY <3>1, <3>2, Zenon
  <2>5. base' \in [Points -> Pixels] /\ buffer' \in [Points -> Pixels]
    <3>1. Black \in Pixels
      BY DEF Pixels
    <3> HIDE DEF Up
    <3>2. \A p \in Points : (IF p[2] < Height - FontH THEN base[Up(p)] ELSE Black) \in Pixels
      BY <1>2, <2>2, <3>1
    <3> QED BY <2>3, <2>4, <3>2
  <2>6. TypeOK'
    <3>1. y' \in 0..(IF scroll' THEN YLimit ELSE YLimit - 1)
      BY <1>1, <1>2, <1>3, <1>5
    <3> QED BY <1>2, <1>3, <2>5, <3>1 DEF TypeOK
  <2>7. ClearInv'
    <3>1. Clear(base, y, 0)
      BY <2>1 DEF IInv, ClearInv
    <3>2. Clear(base', y - 1, 0)
      <4> SUFFICES ASSUME NEW p \in Points,
                          p[2] >= (y - 1 + 1) * FontH \/ p[2] >= (y - 1) * FontH
                   PROVE  base'[p] \in Unlit
        BY DEF Clear
      <4>1. p[2] \in Nat /\ p[2] + FontH >= y * FontH
        <5>1. y * FontH = (y - 1) * FontH + FontH /\ (y - 1 + 1) * FontH = y * FontH
              /\ y * FontH \in Nat /\ (y - 1) * FontH \in Int
          BY <1>1, <1>2
        <5>2. p[2] \in Nat
          BY DEF Points
        <5> QED BY <1>1, <5>1, <5>2
      <4>2. CASE p[2] < Height - FontH
        <5>1. p[1] \in Nat /\ 0 * FontW = 0
          BY <1>1 DEF Points
        <5>2. Up(p) \in Points /\ Up(p)[2] >= y * FontH /\ Up(p)[1] >= 0 * FontW
          BY <2>2, <4>1, <4>2, <5>1
        <5>3. base[Up(p)] \in Unlit
          <6> HIDE DEF Up
          <6> QED BY <3>1, <5>2 DEF Clear
        <5> QED BY <2>4, <4>2, <5>3
      <4>3. CASE ~(p[2] < Height - FontH)
        BY <2>4, <4>3 DEF Unlit
      <4> QED BY <4>2, <4>3
    <3> QED BY <1>3, <1>5, <2>1, <3>2 DEF ClearInv
  <2>8. TextInv'
    BY <1>1, <1>3, <1>5, <2>1 DEF TextInv
  <2>9. ASSUME NEW r \in 0..YLimit - 2 PROVE LineOn(base', r) = LineOn(base, r + 1)
    <3>1. r \in 0..YLimit - 1 /\ r + 1 \in 0..YLimit - 1 /\ r \in Nat
      BY <1>1
    <3>2. ASSUME NEW col \in 0..XLimit - 1, NEW dx \in 0..FontW - 1, NEW dy \in 0..FontH - 1
          PROVE  base'[<<col * FontW + dx, r * FontH + dy>>]
                 = base[<<col * FontW + dx, (r + 1) * FontH + dy>>]
      <4> DEFINE a == col * FontW + dx
                 b == r * FontH + dy
                 d == (r + 1) * FontH + dy
      <4>1. <<a, b>> \in Points /\ <<a, d>> \in Points
        BY <3>1, PlaceOnScreen
      <4>2. (r + 1) * FontH = r * FontH + FontH /\ r * FontH \in Nat
        BY <1>1, <3>1
      <4>3. d = b + FontH /\ b \in Nat /\ d \in Nat
        BY <1>1, <4>2
      <4> HIDE DEF a, b, d
      <4>4. d <= Height - 1
        BY <4>1 DEF Points
      <4>5. b < Height - FontH
        BY <1>1, <4>3, <4>4
      <4>6. base'[<<a, b>>] = base[<<a, b + FontH>>]
        BY <2>4, <4>1, <4>5
      <4> QED BY <4>3, <4>6 DEF a, b, d
    <3>3. \A col \in 0..XLimit - 1 : ShownOn(base', r, col) = ShownOn(base, r + 1, col)
      BY <3>2, SameShown
    <3> QED BY <3>3, SameLine
  <2>10. LineOn(base', YLimit - 1) = <<>>
    <3>1. Clear(base', YLimit - 1, 0)
      BY <1>3, <1>5, <2>1, <2>7 DEF ClearInv
    <3>2. YLimit - 1 \in 0..YLimit - 1 /\ 0 \in 0..XLimit - 1
      BY <1>1
    <3>3. LineOn(base', YLimit - 1) = Places(base', YLimit - 1, 0)
      BY <3>1, <3>2, LastLineIs
    <3> QED BY <3>3 DEF Places
  <2>11. TextOn(base', YLimit - 1) = [r \in 1..YLimit |-> LineOn(base', r - 1)]
    <3>1. YLimit - 1 \in 0..YLimit - 1 /\ YLimit - 1 + 1 = YLimit
      BY <1>1
    <3> QED BY <3>1, TextAbove
  <2>12. TextOn(base, YLimit) = [r \in 1..YLimit |-> IF r < YLimit THEN LineOn(base, r) ELSE <<>>]
    BY TextBelow
  <2>13. \A r \in 1..YLimit : LineOn(base', r - 1) = IF r < YLimit THEN LineOn(base, r) ELSE <<>>
    <3> SUFFICES ASSUME NEW r \in 1..YLimit
                 PROVE  LineOn(base', r - 1) = IF r < YLimit THEN LineOn(base, r) ELSE <<>>
      OBVIOUS
    <3>1. CASE r < YLimit
      <4>1. r - 1 \in 0..YLimit - 2 /\ r - 1 + 1 = r
        BY <1>1, <3>1
      <4> QED BY <2>9, <3>1, <4>1
    <3>2. CASE r = YLimit
      BY <1>1, <2>10, <3>2
    <3> QED BY <1>1, <3>1, <3>2
  <2>14. TextOn(base', YLimit - 1) = TextOn(base, YLimit)
    BY <2>11, <2>12, <2>13, Zenon
  <2>15. TextLines' = TextLines
    BY <1>5, <2>14, TextIs
  <2> QED BY <2>6, <2>7, <2>8, <2>15 DEF IInv
<1> QED BY <1>4, <1>5 DEF Scroll

\* What a character changes: the pixels of its place.
LEMMA PutPixels ==
  ASSUME IInv, NEW c \in Chars, PutChar(c)
  PROVE  /\ base' = [p \in Points |->
                       IF p[1] \in x * FontW..x * FontW + FontW - 1
                            /\ p[2] \in y * FontH..y * FontH + FontH - 1
                       THEN Glyph(c, p[1] - x * FontW, p[2] - y * FontH) ELSE base[p]]
         /\ base' \in [Points -> Pixels] /\ buffer' \in [Points -> Pixels]
<1> DEFINE xs == x * FontW
           ys == y * FontH
           On(p) == p[1] \in xs..xs + FontW - 1 /\ p[2] \in ys..ys + FontH - 1
           New(p) == Glyph(c, p[1] - xs, p[2] - ys)
<1>1. /\ FontW \in Nat \ {0} /\ FontH \in Nat \ {0}
      /\ x \in Nat /\ y \in Nat /\ base \in [Points -> Pixels] /\ buffer \in [Points -> Pixels]
  BY Limits, Facts
<1>2. (x + 1) * FontW = xs + FontW /\ (y + 1) * FontH = ys + FontH /\ xs \in Nat /\ ys \in Nat
  BY <1>1
<1>3. buffer' = [p \in Points |-> IF On(p) THEN New(p) ELSE buffer[p]]
  BY DEF PutChar, Drawn
<1>4. base' = [p \in Points |-> IF On(p) THEN buffer'[p] ELSE base[p]]
  <2>1. base' = [p \in Points |-> IF p[1] \in xs..(x + 1) * FontW - 1
                                      /\ p[2] \in ys..(y + 1) * FontH - 1
                                  THEN buffer'[p] ELSE base[p]]
    BY DEF PutChar, Flushed
  <2>2. (x + 1) * FontW - 1 = xs + FontW - 1 /\ (y + 1) * FontH - 1 = ys + FontH - 1
    BY <1>1, <1>2
  <2> DEFINE right == (x + 1) * FontW - 1
             low   == (y + 1) * FontH - 1
  <2>3. right = xs + FontW - 1 /\ low = ys + FontH - 1
    BY <2>2
  <2>4. base' = [p \in Points |-> IF p[1] \in xs..right /\ p[2] \in ys..low
                                  THEN buffer'[p] ELSE base[p]]
    BY <2>1, Zenon
  <2> HIDE DEF right, low
  <2> QED BY <2>3, <2>4, Zenon
<1>5. base' = [p \in Points |-> IF On(p) THEN New(p) ELSE base[p]]
  <2> HIDE DEF On, New
  <2>1. \A p \in Points : (IF On(p) THEN buffer'[p] ELSE base[p])
                          = IF On(p) THEN New(p) ELSE base[p]
    BY <1>3
  <2> QED BY <1>4, <2>1, Zenon
<1>6. ASSUME NEW p \in Points, On(p) PROVE New(p) \in Pixels
  <2>1. p[1] \in Nat /\ p[2] \in Nat
    BY DEF Points
  <2>2. p[1] - xs \in 0..FontW - 1 /\ p[2] - ys \in 0..FontH - 1
    <3> HIDE DEF xs, ys
    <3> QED BY <1>1, <1>2, <1>6, <2>1
  <2> DEFINE dx == p[1] - xs
             dy == p[2] - ys
  <2> HIDE DEF dx, dy, xs, ys
  <2>3. Glyph(c, dx, dy) \in Pixels
    BY <2>2 DEF Pixels, dx, dy
  <2> QED BY <2>3 DEF dx, dy
<1>7. base' \in [Points -> Pixels] /\ buffer' \in [Points -> Pixels]
  <2> HIDE DEF On, New
  <2> QED BY <1>1, <1>3, <1>5, <1>6
<1> QED BY <1>5, <1>7

\* A character appears at its place and nowhere else.
LEMMA PutPlaces ==
  ASSUME IInv, NEW c \in Chars, PutChar(c)
  PROVE  /\ ShownOn(base', y, x) = c
         /\ \A row \in 0..YLimit - 1, col \in 0..XLimit - 1 :
              row # y \/ col # x => ShownOn(base', row, col) = ShownOn(base, row, col)
         /\ Clear(base', y, x + 1)
<1> DEFINE xs == x * FontW
           ys == y * FontH
           On(p) == p[1] \in xs..xs + FontW - 1 /\ p[2] \in ys..ys + FontH - 1
<1>1. /\ FontW \in Nat \ {0} /\ FontH \in Nat \ {0} /\ XLimit \in Nat /\ YLimit \in Nat
      /\ x \in Nat /\ y \in Nat /\ x \in 0..XLimit - 1 /\ y \in 0..YLimit - 1
      /\ xs \in Nat /\ ys \in Nat
  BY Limits, Facts DEF PutChar
<1>2. base' = [p \in Points |-> IF On(p) THEN Glyph(c, p[1] - xs, p[2] - ys) ELSE base[p]]
  BY PutPixels
<1>3. ShownOn(base', y, x) = c
  <2> SUFFICES ASSUME NEW dx \in 0..FontW - 1, NEW dy \in 0..FontH - 1
               PROVE  base'[<<xs + dx, ys + dy>>] = Glyph(c, dx, dy)
    BY ShownIf DEF Cell
  <2> DEFINE p == <<xs + dx, ys + dy>>
  <2>1. p \in Points
    BY <1>1, PlaceOnScreen
  <2>2. p[1] - xs = dx /\ p[2] - ys = dy /\ On(p)
    <3> HIDE DEF xs, ys
    <3> QED BY <1>1
  <2> HIDE DEF p, xs, ys, On
  <2>3. base'[p] = Glyph(c, dx, dy)
    BY <1>2, <2>1, <2>2
  <2> QED BY <2>3 DEF p
<1>4. ASSUME NEW row \in 0..YLimit - 1, NEW col \in 0..XLimit - 1, row # y \/ col # x
      PROVE  ShownOn(base', row, col) = ShownOn(base, row, col)
  <2>1. ASSUME NEW dx \in 0..FontW - 1, NEW dy \in 0..FontH - 1
        PROVE  base'[<<col * FontW + dx, row * FontH + dy>>]
               = base[<<col * FontW + dx, row * FontH + dy>>]
    <3> DEFINE p == <<col * FontW + dx, row * FontH + dy>>
    <3>1. p \in Points
      BY PlaceOnScreen
    <3>2. row \in Nat /\ col \in Nat
      BY <1>1
    <3>3. p[1] \in xs..xs + FontW - 1 <=> col = x
      BY <1>1, <3>2, PlacesApart
    <3>4. p[2] \in ys..ys + FontH - 1 <=> row = y
      BY <1>1, <3>2, PlacesApart
    <3>5. ~On(p)
      BY <1>4, <3>3, <3>4
    <3> HIDE DEF p, On
    <3>6. base'[p] = base[p]
      BY <1>2, <3>1, <3>5
    <3> QED BY <3>6 DEF p
  <2> QED BY <2>1, SameShown
<1>5. Clear(base', y, x + 1)
  <2> SUFFICES ASSUME NEW p \in Points,
                      p[2] >= (y + 1) * FontH \/ (p[2] >= ys /\ p[1] >= (x + 1) * FontW)
               PROVE  base'[p] \in Unlit
    BY DEF Clear
  <2>1. p[1] \in Nat /\ p[2] \in Nat
    BY DEF Points
  <2>2. (x + 1) * FontW = xs + FontW /\ (y + 1) * FontH = ys + FontH
    BY <1>1
  <2>3. ~On(p) /\ (p[2] >= (y + 1) * FontH \/ (p[2] >= ys /\ p[1] >= xs))
    <3> HIDE DEF xs, ys
    <3> QED BY <1>1, <2>1, <2>2
  <2>4. base[p] \in Unlit
    BY <2>3 DEF IInv, ClearInv, Clear
  <2> HIDE DEF On
  <2> QED BY <1>2, <2>3, <2>4
<1> QED BY <1>3, <1>4, <1>5

\* A character that is printed is the next of the last line; a full line is followed by
\* a new one.
LEMMA PutCharStep == ASSUME IInv, NEW c \in Chars, PutChar(c) PROVE IInv' /\ Text!Put(c)
<1>1. /\ XLimit \in Nat \ {0} /\ YLimit \in Nat \ {0} /\ FontH \in Nat \ {0}
      /\ x \in Nat /\ y \in Nat /\ x \in 0..XLimit - 1 /\ y \in 0..YLimit - 1
      /\ x + 1 \in 0..XLimit /\ x + 1 \in Nat
  BY Limits, Facts DEF PutChar
<1>2. /\ x' = IF x + 1 = XLimit THEN 0 ELSE x + 1
      /\ y' = IF x + 1 = XLimit THEN y + 1 ELSE y
      /\ scroll' = TRUE
  BY DEF PutChar, MoveTo, AtLineEnd
<1>3. base' \in [Points -> Pixels] /\ buffer' \in [Points -> Pixels]
  BY PutPixels
<1>4. /\ ShownOn(base', y, x) = c
      /\ \A row \in 0..YLimit - 1, col \in 0..XLimit - 1 :
            row # y \/ col # x => ShownOn(base', row, col) = ShownOn(base, row, col)
      /\ Clear(base', y, x + 1)
  BY PutPlaces
<1>5. \A col \in 0..x - 1 : ShownOn(base, y, col) # Blank
  BY <1>1 DEF IInv, TextInv
<1>6. \A col \in 0..x : ShownOn(base', y, col) # Blank
  <2> SUFFICES ASSUME NEW col \in 0..x PROVE ShownOn(base', y, col) # Blank
    OBVIOUS
  <2>1. CASE col = x
    BY <1>4, <2>1, CharsAssumption
  <2>2. CASE col # x
    <3>1. col \in 0..x - 1 /\ col \in 0..XLimit - 1
      BY <1>1, <2>2
    <3> QED BY <1>1, <1>4, <1>5, <2>2, <3>1
  <2> QED BY <2>1, <2>2
<1>7. TypeOK'
  <2>1. y' \in 0..(IF scroll' THEN YLimit ELSE YLimit - 1) /\ x' \in 0..XLimit - 1
    BY <1>1, <1>2
  <2> QED BY <1>2, <1>3, <2>1 DEF TypeOK
<1>8. x + 1 = XLimit => Clear(base', y + 1, 0)
  <2> SUFFICES ASSUME NEW p \in Points,
                      p[2] >= (y + 1 + 1) * FontH \/ p[2] >= (y + 1) * FontH
               PROVE  base'[p] \in Unlit
    BY DEF Clear
  <2>1. p[2] \in Nat
    BY DEF Points
  <2>2. (y + 1) * FontH \in Nat /\ (y + 1 + 1) * FontH = (y + 1) * FontH + FontH
    BY <1>1
  <2>3. p[2] >= (y + 1) * FontH
    BY <1>1, <2>1, <2>2
  <2> QED BY <1>4, <2>3 DEF Clear
<1>9. ClearInv' /\ TextInv'
  <2>1. CASE x + 1 = XLimit
    <3>1. x' = 0 /\ y' = y + 1
      BY <1>2, <2>1
    <3> QED BY <1>8, <2>1, <3>1 DEF ClearInv, TextInv
  <2>2. CASE x + 1 # XLimit
    <3>1. x' = x + 1 /\ y' = y /\ x + 1 - 1 = x
      BY <1>1, <1>2, <2>2
    <3>2. y # YLimit
      BY <1>1
    <3>3. Clear(base', y', x')
      BY <1>4, <3>1
    <3>4. \A col \in 0..x' - 1 : ShownOn(base', y', col) # Blank
      <4>1. x' - 1 = x
        BY <1>1, <3>1
      <4>2. \A col \in 0..x : ShownOn(base', y', col) # Blank
        BY <1>6, <3>1, Zenon
      <4> QED BY <4>1, <4>2, Zenon
    <3> QED BY <3>1, <3>2, <3>3, <3>4 DEF ClearInv, TextInv
  <2> QED BY <2>1, <2>2
<1> DEFINE L == Seq(Chars \cup {Blank})
           rows == TextOn(base, y)
           line == Append(LineOn(base, y), c)
<1>10. line = LineOn(base', y) /\ Len(line) = x + 1 /\ line \in L
  <2> DEFINE old == LineOn(base, y)
  <2>1. old = Places(base, y, x) /\ Len(old) = x
    <3>1. old = Places(base, y, x)
      BY <1>1, <1>5, LastLineIs DEF IInv, ClearInv
    <3> HIDE DEF old
    <3> QED BY <1>1, <3>1 DEF Places
  <2>2. old \in Seq(Chars \cup {Blank})
    BY LineType
  <2> HIDE DEF old
  <2>3. Append(old, c) = [i \in 1..x + 1 |-> IF i <= x THEN old[i] ELSE c]
    BY <1>1, <2>1, <2>2, AppendIs
  <2>4. LineOn(base', y) = Places(base', y, x + 1)
    <3>1. x + 1 = XLimit \/ ShownOn(base', y, x + 1) = Blank
      <4> SUFFICES ASSUME x + 1 # XLimit PROVE ShownOn(base', y, x + 1) = Blank
        OBVIOUS
      <4>1. x + 1 \in 0..XLimit - 1 /\ x + 1 >= x + 1
        BY <1>1
      <4> QED BY <1>1, <1>4, <4>1, EmptyFrom
    <3>2. x + 1 <= XLimit
      BY <1>1
    <3> QED BY <1>1, <1>6, <3>1, <3>2, LineWithNext
  <2>5. \A i \in 1..x + 1 : (IF i <= x THEN old[i] ELSE c) = ShownOn(base', y, i - 1)
    <3> SUFFICES ASSUME NEW i \in 1..x + 1
                 PROVE  (IF i <= x THEN old[i] ELSE c) = ShownOn(base', y, i - 1)
      OBVIOUS
    <3>1. CASE i <= x
      <4>1. i - 1 \in 0..XLimit - 1 /\ i - 1 # x /\ i \in 1..x
        BY <1>1, <3>1
      <4>2. ShownOn(base', y, i - 1) = ShownOn(base, y, i - 1)
        BY <1>1, <1>4, <4>1
      <4> QED BY <2>1, <3>1, <4>1, <4>2 DEF Places
    <3>2. CASE i = x + 1
      <4>1. i - 1 = x /\ ~(i <= x)
        BY <1>1, <3>2
      <4> QED BY <1>4, <4>1
    <3> QED BY <1>1, <3>1, <3>2
  <2>6. Append(old, c) = LineOn(base', y)
    BY <2>3, <2>4, <2>5, Zenon DEF Places
  <2>7. c \in Chars \cup {Blank}
    OBVIOUS
  <2>8. Len(Append(old, c)) = x + 1 /\ Append(old, c) \in Seq(Chars \cup {Blank})
    BY <1>1, <2>1, <2>2, <2>7, AppendProperties
  <2> QED BY <2>6, <2>8 DEF old
<1>11. rows \in Seq(L) /\ Len(rows) = y + 1 /\ \A r \in 1..y + 1 : rows[r] = LineOn(base, r - 1)
  <2>1. rows = [r \in 1..y + 1 |-> LineOn(base, r - 1)]
    BY <1>1, TextAbove
  <2>2. \A r \in 1..y + 1 : LineOn(base, r - 1) \in L
    BY LineType
  <2> HIDE DEF rows, L
  <2>3. [r \in 1..y + 1 |-> LineOn(base, r - 1)] \in Seq(L)
    BY <1>1, <2>2, IsASeq
  <2> QED BY <1>1, <2>1, <2>3
<1> HIDE DEF rows, line, L
<1> DEFINE front == SubSeq(rows, 1, y)
           text == Append(front, line)
<1>12. front \in Seq(L) /\ Len(front) = y /\ \A r \in 1..y : front[r] = LineOn(base, r - 1)
  <2>1. \A r \in 1..y : rows[r] \in L
    BY <1>1, <1>11
  <2>2. /\ front \in Seq(L) /\ Len(front) = IF 1 <= y THEN y - 1 + 1 ELSE 0
        /\ \A r \in 1..y - 1 + 1 : front[r] = rows[1 + r - 1]
    <3> HIDE DEF front
    <3> QED BY <1>1, <2>1, SubSeqProperties DEF front
  <2> HIDE DEF front
  <2>3. \A r \in 1..y : r \in 1..y - 1 + 1 /\ 1 + r - 1 = r /\ r \in 1..y + 1
    BY <1>1
  <2> QED BY <1>1, <1>11, <2>2, <2>3
<1> HIDE DEF front
<1>13. text = TextOn(base', y)
  <2>1. text = [r \in 1..y + 1 |-> IF r <= y THEN front[r] ELSE line]
    BY <1>1, <1>10, <1>12, AppendIs
  <2>2. TextOn(base', y) = [r \in 1..y + 1 |-> LineOn(base', r - 1)]
    BY <1>1, TextAbove
  <2>3. \A r \in 1..y + 1 : (IF r <= y THEN front[r] ELSE line) = LineOn(base', r - 1)
    <3> SUFFICES ASSUME NEW r \in 1..y + 1
                 PROVE  (IF r <= y THEN front[r] ELSE line) = LineOn(base', r - 1)
      OBVIOUS
    <3>1. CASE r <= y
      <4>1. r - 1 \in 0..YLimit - 1 /\ r - 1 # y /\ r \in 1..y
        BY <1>1, <3>1
      <4>2. \A col \in 0..XLimit - 1 : ShownOn(base, r - 1, col) = ShownOn(base', r - 1, col)
        BY <1>4, <4>1
      <4>3. LineOn(base, r - 1) = LineOn(base', r - 1)
        BY <4>2, SameLine
      <4> QED BY <1>12, <3>1, <4>1, <4>3
    <3>2. CASE r = y + 1
      <4>1. r - 1 = y /\ ~(r <= y)
        BY <1>1, <3>2
      <4> QED BY <1>10, <4>1
    <3> QED BY <1>1, <3>1, <3>2
  <2> QED BY <2>1, <2>2, <2>3, Zenon
<1>14. text \in Seq(L) /\ Len(text) = y + 1 /\ text = front \o <<line>>
  BY <1>10, <1>12, AppendProperties, AppendIsConcat
<1> HIDE DEF text
<1>15. TextLines' = Text!OnScreen(text \o IF Len(line) = XLimit THEN << <<>> >> ELSE <<>>)
  <2>1. CASE x + 1 = XLimit
    <3>1. y + 1 < YLimit => LineOn(base', y + 1) = <<>>
      <4> SUFFICES ASSUME y + 1 < YLimit PROVE LineOn(base', y + 1) = <<>>
        OBVIOUS
      <4>1. y + 1 \in 0..YLimit - 1 /\ y + 1 > y
        BY <1>1
      <4> QED BY <1>1, <1>4, <4>1, LaterLineIs
    <3>2. Text!OnScreen(Append(text, <<>>)) = TextOn(base', y + 1)
      BY <1>1, <1>13, <3>1, NewRow
    <3>3. Append(text, <<>>) = text \o << <<>> >>
      <4> DEFINE e == <<>>
      <4>1. e \in L
        BY DEF L
      <4> HIDE DEF e
      <4>2. Append(text, e) = text \o <<e>>
        BY <1>14, <4>1, AppendIsConcat
      <4> QED BY <4>2 DEF e
    <3>4. y' = y + 1 /\ Len(line) = XLimit
      BY <1>2, <1>10, <2>1
    <3>5. TextLines' = TextOn(base', y + 1)
      BY <3>4, TextIs
    <3> QED BY <3>2, <3>3, <3>4, <3>5
  <2>2. CASE x + 1 # XLimit
    <3>1. text \o <<>> = text
      BY <1>14, ConcatEmptySeq
    <3>2. Text!OnScreen(text) = text
      <4>1. Len(text) \in 1..YLimit
        BY <1>1, <1>14
      <4> QED BY <1>14, <4>1, Fitting
    <3>3. y' = y /\ Len(line) # XLimit
      BY <1>2, <1>10, <2>2
    <3>4. TextLines' = TextOn(base', y)
      BY <3>3, TextIs
    <3> QED BY <1>13, <3>1, <3>2, <3>3, <3>4
  <2> QED BY <2>1, <2>2
<1>16. Text!Front(TextLines) = front /\ Append(Text!Last(TextLines), c) = line
  <2>1. TextLines = rows
    BY TextIs DEF rows
  <2>2. y + 1 - 1 = y /\ y + 1 \in 1..y + 1 /\ Len(rows) - 1 = y
    BY <1>1, <1>11
  <2>3. Text!Last(rows) = rows[Len(rows)] /\ Text!Front(rows) = SubSeq(rows, 1, Len(rows) - 1)
    BY SameOperators
  <2>4. Text!Last(TextLines) = LineOn(base, y)
    <3>1. rows[y + 1] = LineOn(base, y)
      <4>1. rows[y + 1] = LineOn(base, y + 1 - 1)
        BY <1>11, <2>2
      <4> QED BY <2>2, <4>1, Zenon
    <3>2. Text!Last(rows) = rows[y + 1]
      BY <1>11, <2>3
    <3>3. Text!Last(TextLines) = Text!Last(rows)
      BY <2>1, Zenon
    <3> QED BY <3>1, <3>2, <3>3
  <2>5. Text!Front(TextLines) = front
    <3>1. Text!Front(rows) = SubSeq(rows, 1, y)
      BY <2>2, <2>3, Zenon
    <3>2. Text!Front(TextLines) = Text!Front(rows)
      BY <2>1, Zenon
    <3> QED BY <3>1, <3>2 DEF front
  <2> QED BY <2>4, <2>5 DEF line
<1>17. Text!Put(c)
  BY <1>14, <1>15, <1>16, Zenon DEF Text!Put
<1> QED BY <1>7, <1>9, <1>17 DEF IInv

\* Every step keeps the invariant and prints what Terminal says.
LEMMA NextStep == ASSUME IInv, [Next]_vars PROVE IInv' /\ [Text!Next]_TextLines
<1>1. CASE NewLine
  <2>1. IInv' /\ Text!NewLine
    BY <1>1, NewLineStep
  <2> QED BY <2>1 DEF Text!Next
<1>2. CASE Scroll
  BY <1>2, ScrollStep
<1>3. ASSUME NEW c \in Chars, PutChar(c) PROVE IInv' /\ [Text!Next]_TextLines
  <2>1. IInv' /\ Text!Put(c)
    BY <1>3, PutCharStep
  <2> QED BY <2>1 DEF Text!Next
<1>4. CASE UNCHANGED vars
  <2>1. UNCHANGED <<x, y, base, buffer, scroll>>
    BY <1>4 DEF vars
  <2>2. IInv'
    BY <2>1 DEF IInv, TypeOK, ClearInv, TextInv
  <2>3. TextLines' = TextLines
    BY <2>1, TextIs
  <2> QED BY <2>2, <2>3
<1> QED BY <1>1, <1>2, <1>3, <1>4 DEF Next

\* Each call prints what it is called with.
LEMMA CallsPrint == ASSUME IInv PROVE Prints
<1>1. NewLine => Text!NewLine
  BY NewLineStep
<1>2. Scroll => UNCHANGED TextLines
  BY ScrollStep
<1>3. ASSUME NEW c \in Chars, PutChar(c) PROVE Text!Put(c)
  BY <1>3, PutCharStep
<1> QED BY <1>1, <1>2, <1>3 DEF Prints

-----------------------------------------------------------------------------
(* The theorems.                                                           *)

\* Every variable has its type, and the cursor is on the screen but between the end of
\* the last line and the scroll.
THEOREM TypeCorrect == Spec => []TypeOK
<1>1. Init => IInv
  BY InitHolds
<1>2. IInv /\ [Next]_vars => IInv'
  BY NextStep
<1>3. IInv => TypeOK
  BY DEF IInv
<1> QED BY <1>1, <1>2, <1>3, PTL DEF Spec

\* The display shows the last lines of what was printed, on any screen and in any font:
\* the wrap and the scroll of console.c, and the rectangle and the two frames of video.c,
\* implement Terminal, and each call prints what it is called with.
THEOREM TextIsShown == Spec => TerminalSpec
<1>1. Init => IInv /\ Text!Init
  BY InitHolds DEF Text!Init
<1>2. IInv /\ [Next]_vars => IInv' /\ [Text!Next]_TextLines
  BY NextStep
<1>3. IInv => Prints
  BY CallsPrint
<1> QED BY <1>1, <1>2, <1>3, PTL DEF Spec, TerminalSpec, Text!Spec
=============================================================================
