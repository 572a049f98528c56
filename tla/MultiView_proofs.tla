-------------------------- MODULE MultiView_proofs --------------------------
(***************************************************************************)
(* For every layout and every sequence of drags: however the table is      *)
(* merged its cells cover the grid, the screen shows the table, and a      *)
(* merge does not lose a widget that plays.                                *)
(*                                                                         *)
(* The sweep of merge passes each cell once while its rectangle grows, so  *)
(* that a cell it passed can end up partly under the new one.  If that     *)
(* cell had the number the new one takes, the slots of it that stick out   *)
(* would belong to no cell.  That this does not happen is not a property   *)
(* of one merge: the first part is about the overlaps merges can leave.    *)
(***************************************************************************)
EXTENDS MultiView, FiniteSetTheorems, TLAPS

(* A set of natural numbers that is not empty has a least element. *)
LEMMA Least ==
  ASSUME NEW T \in SUBSET Nat, T # {}
  PROVE  \E x \in T : \A y \in T : x <= y
<1> DEFINE R == OpToRel(<, Nat)
<1>1. IsWellFoundedOn(R, Nat)
  BY NatLessThanWellFounded
<1>2. \A x, y \in Nat : x < y => <<x, y>> \in R
  BY DEF OpToRel
<1> HIDE DEF R
<1>3. PICK x \in T : \A y \in T : ~ (<<y, x>> \in R)
  BY <1>1, WFMin
<1>4. ASSUME NEW y \in T PROVE x <= y
  <2>1. x \in Nat /\ y \in Nat
    OBVIOUS
  <2>2. ~(y < x)
    BY <1>2, <1>3, <2>1
  <2>3. QED
    BY <2>1, <2>2
<1>5. QED
  BY <1>4

(* The same, from a number on: what holds at lo and is kept by every step  *)
(* up to hi holds between them.  B is the set of those where it does not.  *)
LEMMA NoneBad ==
  ASSUME NEW lo \in Nat, NEW hi \in Nat, NEW B \in SUBSET (lo .. hi),
         lo \notin B,
         \A n \in lo .. hi : n + 1 \in B => n \in B
  PROVE  B = {}
<1>1. SUFFICES ASSUME B # {} PROVE FALSE
  OBVIOUS
<1>2. B \in SUBSET Nat
  OBVIOUS
<1>3. PICK m \in B : \A y \in B : m <= y
  BY <1>1, <1>2, Least
<1>4. m - 1 \in lo .. hi /\ m - 1 + 1 = m /\ m \in Nat
  BY <1>3
<1>5. m - 1 \in B
  BY <1>4
<1>6. QED
  BY <1>3, <1>4, <1>5
-----------------------------------------------------------------------------
(* Numbers of slots: row by row.                                           *)
LEMMA TimesMonotone ==
  ASSUME NEW a \in Nat, NEW b \in Nat, NEW c \in Nat, a <= b
  PROVE  a * c <= b * c
<1>1. PICK d \in Nat : b = a + d
  <2>1. b - a \in Nat /\ b = a + (b - a)
    OBVIOUS
  <2>2. QED
    BY <2>1
<1>2. b * c = a * c + d * c /\ d * c \in Nat /\ a * c \in Nat
  BY <1>1
<1>3. QED
  BY <1>2

LEMMA IdOrder ==
  ASSUME NEW t, t.col \in Nat \ {0},
         NEW r \in Nat \ {0}, NEW q \in Nat \ {0},
         NEW c \in 1 .. t.col, NEW d \in 1 .. t.col
  PROVE  /\ IdAt(t, r, c) \in Nat
         /\ IdAt(t, r, c) < IdAt(t, q, d) <=> (r < q \/ (r = q /\ c < d))
         /\ IdAt(t, r, c) = IdAt(t, q, d) <=> (r = q /\ c = d)
<1> DEFINE k == t.col
<1>1. k \in Nat \ {0} /\ c \in 1..k /\ d \in 1..k
  OBVIOUS
<1>2. IdAt(t, r, c) = (r - 1) * k + c /\ IdAt(t, q, d) = (q - 1) * k + d
  BY DEF IdAt
<1> HIDE DEF k
<1>3. (r - 1) * k \in Nat /\ (q - 1) * k \in Nat
  BY <1>1
<1>4. ASSUME r < q PROVE (r - 1) * k + k <= (q - 1) * k
  <2>1. r \in Nat /\ q - 1 \in Nat /\ r <= q - 1
    BY <1>4
  <2>2. r * k <= (q - 1) * k
    BY <2>1, <1>1, TimesMonotone
  <2>3. r * k = (r - 1) * k + k
    BY <1>1
  <2>4. QED
    BY <2>2, <2>3
<1>5. ASSUME q < r PROVE (q - 1) * k + k <= (r - 1) * k
  <2>1. q \in Nat /\ r - 1 \in Nat /\ q <= r - 1
    BY <1>5
  <2>2. q * k <= (r - 1) * k
    BY <2>1, <1>1, TimesMonotone
  <2>3. q * k = (q - 1) * k + k
    BY <1>1
  <2>4. QED
    BY <2>2, <2>3
<1>6. r < q \/ r = q \/ q < r
  OBVIOUS
<1> DEFINE x == (r - 1) * k  y == (q - 1) * k
<1>7. /\ x \in Nat /\ y \in Nat /\ (r = q => x = y)
      /\ (r < q => x + k <= y) /\ (q < r => y + k <= x)
  BY <1>3, <1>4, <1>5
<1>8. IdAt(t, r, c) = x + c /\ IdAt(t, q, d) = y + d
  BY <1>2
<1> HIDE DEF x, y
<1>9. QED
  BY <1>1, <1>6, <1>7, <1>8

(* What is more than nothing and less than one times, is nothing.          *)
LEMMA OneQuotient ==
  ASSUME NEW k \in Nat \ {0}, NEW a \in Nat, NEW b \in Nat,
         NEW i \in 0 .. k - 1, NEW j \in 0 .. k - 1,
         a * k + i = b * k + j
  PROVE  a = b /\ i = j
<1>1. a * k \in Nat /\ b * k \in Nat
  OBVIOUS
<1>2. ASSUME a < b PROVE FALSE
  <2>1. a + 1 \in Nat /\ a + 1 <= b
    BY <1>2
  <2>2. (a + 1) * k <= b * k
    BY <2>1, TimesMonotone
  <2>3. (a + 1) * k = a * k + k
    OBVIOUS
  <2>4. QED
    BY <1>1, <2>2, <2>3
<1>3. ASSUME b < a PROVE FALSE
  <2>1. b + 1 \in Nat /\ b + 1 <= a
    BY <1>3
  <2>2. (b + 1) * k <= a * k
    BY <2>1, TimesMonotone
  <2>3. (b + 1) * k = b * k + k
    OBVIOUS
  <2>4. QED
    BY <1>1, <2>2, <2>3
<1>4. a = b
  BY <1>2, <1>3
<1>5. QED
  BY <1>1, <1>4

LEMMA DivisionOfIntegers == \A k, x \in Int : k > 0 => x = k * (x \div k) + (x % k)
  BY Z3T(60)

LEMMA QuotientIsNatural ==
  ASSUME NEW k \in Nat \ {0}, NEW x \in Nat, NEW q \in Int, NEW m \in 0 .. k - 1,
         x = k * q + m
  PROVE  q \in Nat /\ x = q * k + m
<1>1. k * q = q * k
  OBVIOUS
<1>2. q \in Nat
  <2>1. SUFFICES ASSUME q <= -1 PROVE FALSE
    OBVIOUS
  <2>2. PICK d \in Nat : q = -1 - d
    <3>1. -1 - q \in Nat /\ q = -1 - (-1 - q)
      BY <2>1
    <3>2. QED
      BY <3>1
  <2>3. k * q = -k - k * d /\ k * d \in Nat
    BY <2>2
  <2>4. QED
    BY <2>3
<1>3. QED
  BY <1>1, <1>2

LEMMA Division ==
  ASSUME NEW k \in Nat \ {0}, NEW x \in Nat
  PROVE  \E q \in Nat : \E m \in 0 .. k - 1 :
            x \div k = q /\ x % k = m /\ x = q * k + m
<1>1. PICK q \in Int : x \div k = q
  OBVIOUS
<1>2. PICK m \in 0 .. k - 1 : x % k = m
  OBVIOUS
<1>3. x = k * (x \div k) + (x % k)
  <2>1. k \in Int /\ x \in Int /\ k > 0
    OBVIOUS
  <2>2. QED
    BY <2>1, DivisionOfIntegers
<1>4. x = k * q + m
  BY <1>1, <1>2, <1>3
<1>5. q \in Nat /\ x = q * k + m
  BY <1>4, QuotientIsNatural
<1>6. QED
  BY <1>1, <1>2, <1>5

(* The row and the column of a number, and the number of a slot.           *)
LEMMA RowAndCol ==
  ASSUME NEW t, t.col \in Nat \ {0}, NEW r \in Nat \ {0}, NEW c \in 1 .. t.col
  PROVE  RowOf(IdAt(t, r, c), t.col) = r /\ ColOf(IdAt(t, r, c), t.col) = c
<1> DEFINE k == t.col
           x == (r - 1) * k + (c - 1)
<1>1. k \in Nat \ {0} /\ c - 1 \in 0 .. k - 1 /\ r - 1 \in Nat
  OBVIOUS
<1>2. (r - 1) * k \in Nat
  BY <1>1
<1>3. x \in Nat /\ IdAt(t, r, c) - 1 = x
  BY <1>1, <1>2 DEF IdAt
<1>4. x = (r - 1) * k + (c - 1)
  OBVIOUS
<1> HIDE DEF x
<1>5. PICK q \in Nat : \E m \in 0 .. k - 1 :
         x \div k = q /\ x % k = m /\ x = q * k + m
  BY <1>1, <1>3, Division
<1>6. PICK m \in 0 .. k - 1 : x \div k = q /\ x % k = m /\ x = q * k + m
  BY <1>5
<1>7. RowOf(IdAt(t, r, c), t.col) = q + 1 /\ ColOf(IdAt(t, r, c), t.col) = m + 1
  BY <1>3, <1>6 DEF RowOf, ColOf
<1>8. q * k + m = (r - 1) * k + (c - 1)
  BY <1>4, <1>6
<1> HIDE DEF k
<1>9. q = r - 1 /\ m = c - 1
  BY <1>1, <1>8, OneQuotient
<1>10. QED
  BY <1>7, <1>9

(* The slots of a grid have the numbers from 1 to the last.                *)
LEMMA IdInGrid ==
  ASSUME NEW t, t.row \in Nat, t.col \in Nat \ {0},
         NEW r \in 1 .. t.row, NEW c \in 1 .. t.col
  PROVE  IdAt(t, r, c) \in 1 .. t.row * t.col
<1> DEFINE k == t.col  m == t.row
<1>1. k \in Nat \ {0} /\ m \in Nat /\ c \in 1..k /\ r \in 1..m
  OBVIOUS
<1>2. IdAt(t, r, c) = (r - 1) * k + c
  BY DEF IdAt
<1> HIDE DEF k, m
<1>3. (r - 1) * k \in Nat /\ r * k = (r - 1) * k + k /\ m * k \in Nat
  BY <1>1
<1>4. r * k <= m * k
  BY <1>1, TimesMonotone
<1>5. IdAt(t, r, c) \in 1 .. m * k
  BY <1>1, <1>2, <1>3, <1>4
<1>6. QED
  BY <1>5 DEF m, k

LEMMA SlotOfId ==
  ASSUME NEW t, t.row \in Nat, t.col \in Nat \ {0},
         NEW n \in 1 .. t.row * t.col
  PROVE  /\ RowOf(n, t.col) \in 1 .. t.row
         /\ ColOf(n, t.col) \in 1 .. t.col
         /\ IdAt(t, RowOf(n, t.col), ColOf(n, t.col)) = n
<1> DEFINE k == t.col  m == t.row
<1>1. k \in Nat \ {0} /\ m \in Nat /\ m * k \in Nat /\ n - 1 \in Nat /\ n <= m * k /\ n \in Nat
  OBVIOUS
<1>2. PICK a \in Nat : \E b \in 0 .. k - 1 :
         (n - 1) \div k = a /\ (n - 1) % k = b /\ n - 1 = a * k + b
  BY <1>1, Division
<1>3. PICK b \in 0 .. k - 1 :
         (n - 1) \div k = a /\ (n - 1) % k = b /\ n - 1 = a * k + b
  BY <1>2
<1>4. RowOf(n, t.col) = a + 1 /\ ColOf(n, t.col) = b + 1
  BY <1>3 DEF RowOf, ColOf
<1>5. IdAt(t, a + 1, b + 1) = (a + 1 - 1) * k + (b + 1)
  BY DEF IdAt
<1> HIDE DEF k, m
<1>6. a * k \in Nat /\ a + 1 - 1 = a
  BY <1>1
<1>7. IdAt(t, a + 1, b + 1) = n
  BY <1>1, <1>3, <1>5, <1>6
<1>8. a < m
  <2>1. SUFFICES ASSUME m <= a PROVE FALSE
    BY <1>1
  <2>2. m * k <= a * k
    BY <1>1, <2>1, TimesMonotone
  <2>3. QED
    BY <1>1, <1>3, <1>6, <2>2
<1>9. a + 1 \in 1 .. m /\ b + 1 \in 1 .. k
  BY <1>1, <1>8
<1>10. QED
  BY <1>4, <1>7, <1>9 DEF k, m
-----------------------------------------------------------------------------
(* Rectangles.                                                             *)
Rects == [r1 : Nat, r2 : Nat, c1 : Nat, c2 : Nat]

Inside(a, b) == b.r1 <= a.r1 /\ a.r2 <= b.r2 /\ b.c1 <= a.c1 /\ a.c2 <= b.c2

InGrid(t, a) ==
  /\ a \in Rects
  /\ 1 <= a.r1 /\ a.r1 < a.r2 /\ a.r2 <= t.row + 1
  /\ 1 <= a.c1 /\ a.c1 < a.c2 /\ a.c2 <= t.col + 1

(* A table after init and any number of merges: its cells lie in the grid, *)
(* each with its number at its top left.                                   *)
Good(t) ==
  /\ t = [row |-> t.row, col |-> t.col, cells |-> t.cells]
  /\ t.row \in Nat \ {0} /\ t.col \in Nat \ {0}
  /\ t.cells = [n \in DOMAIN t.cells |-> t.cells[n]]
  /\ \A n \in DOMAIN t.cells :
       InGrid(t, t.cells[n]) /\ n = IdAt(t, t.cells[n].r1, t.cells[n].c1)

LEMMA CellFields ==
  ASSUME NEW a, NEW b, NEW c, NEW d
  PROVE  /\ Cell(a, b, c, d).r1 = a /\ Cell(a, b, c, d).r2 = b
         /\ Cell(a, b, c, d).c1 = c /\ Cell(a, b, c, d).c2 = d
         /\ a \in Nat /\ b \in Nat /\ c \in Nat /\ d \in Nat => Cell(a, b, c, d) \in Rects
  BY DEF Cell, Rects

LEMMA RectFields ==
  ASSUME NEW a \in Rects
  PROVE  a.r1 \in Nat /\ a.r2 \in Nat /\ a.c1 \in Nat /\ a.c2 \in Nat
  BY DEF Rects

LEMMA SameRect ==
  ASSUME NEW a \in Rects, NEW b \in Rects,
         a.r1 = b.r1, a.r2 = b.r2, a.c1 = b.c1, a.c2 = b.c2
  PROVE  a = b
  BY DEF Rects

LEMMA OverlapIs ==
  ASSUME NEW a \in Rects, NEW b \in Rects
  PROVE  Overlaps(a, b) <=> /\ a.r1 < a.r2 /\ b.r1 < b.r2 /\ a.c1 < a.c2 /\ b.c1 < b.c2
                            /\ a.r1 < b.r2 /\ b.r1 < a.r2 /\ a.c1 < b.c2 /\ b.c1 < a.c2
  BY RectFields DEF Overlaps, Smaller, Larger

LEMMA CombineIs ==
  ASSUME NEW a \in Rects, NEW b \in Rects
  PROVE  /\ Combine(a, b) \in Rects
         /\ Inside(a, Combine(a, b)) /\ Inside(b, Combine(a, b))
         /\ Combine(a, b).r1 \in {a.r1, b.r1} /\ Combine(a, b).r2 \in {a.r2, b.r2}
         /\ Combine(a, b).c1 \in {a.c1, b.c1} /\ Combine(a, b).c2 \in {a.c2, b.c2}
<1>1. /\ a.r1 \in Nat /\ a.r2 \in Nat /\ a.c1 \in Nat /\ a.c2 \in Nat
      /\ b.r1 \in Nat /\ b.r2 \in Nat /\ b.c1 \in Nat /\ b.c2 \in Nat
  BY RectFields
<1>2. QED
  BY <1>1, CellFields DEF Combine, Inside, Smaller, Larger

LEMMA InsideTransitive ==
  ASSUME NEW a \in Rects, NEW b \in Rects, NEW c \in Rects, Inside(a, b), Inside(b, c)
  PROVE  Inside(a, c)
  BY RectFields DEF Inside

LEMMA CombineInGrid ==
  ASSUME NEW t, t.row \in Nat, t.col \in Nat, NEW a, NEW b, InGrid(t, a), InGrid(t, b)
  PROVE  InGrid(t, Combine(a, b))
<1>1. a \in Rects /\ b \in Rects
  BY DEF InGrid
<1>2. QED
  BY <1>1, CombineIs, RectFields DEF InGrid, Inside
-----------------------------------------------------------------------------
(* The loop of merge, as a function and its steps.                         *)
Last(t) == t.row * t.col

Absorbed(t, f, n) == n \in DOMAIN t.cells /\ Overlaps(f[n - 1], t.cells[n])

IsSweep(t, f) ==
  /\ \A n \in 0 .. Last(t) : InGrid(t, f[n])
  /\ \A n \in 1 .. Last(t) :
       f[n] = IF Absorbed(t, f, n) THEN Combine(f[n - 1], t.cells[n]) ELSE f[n - 1]

SweepTo(t, lt, rb, m, f) ==
  f = [n \in 0 .. m |->
         IF n = 0 THEN Combine(t.cells[lt], t.cells[rb])
         ELSE IF n \in DOMAIN t.cells /\ Overlaps(f[n - 1], t.cells[n])
         THEN Combine(f[n - 1], t.cells[n])
         ELSE f[n - 1]]

LEMMA SweepExists ==
  ASSUME NEW t, NEW lt, NEW rb, NEW m \in Nat
  PROVE  \E f : SweepTo(t, lt, rb, m, f)
<1> DEFINE B == {n \in 0 .. m : ~ \E f : SweepTo(t, lt, rb, n, f)}
           next(g, n) == IF n \in DOMAIN t.cells /\ Overlaps(g, t.cells[n])
                         THEN Combine(g, t.cells[n]) ELSE g
<1>1. 0 \notin B
  <2> DEFINE f == [n \in 0 .. 0 |-> Combine(t.cells[lt], t.cells[rb])]
  <2>1. SweepTo(t, lt, rb, 0, f)
    BY DEF SweepTo
  <2>2. QED
    BY <2>1
<1>2. ASSUME NEW n \in 0 .. m, n + 1 \in B, n \notin B PROVE FALSE
  <2>1. PICK g : SweepTo(t, lt, rb, n, g)
    BY <1>2
  <2> DEFINE h == [i \in 0 .. n + 1 |-> IF i = n + 1 THEN next(g[n], n + 1) ELSE g[i]]
  <2>2. \A i \in 0 .. n : g[i] = IF i = 0 THEN Combine(t.cells[lt], t.cells[rb])
                                 ELSE next(g[i - 1], i)
    BY <2>1 DEF SweepTo
  <2> HIDE DEF next
  <2>3. \A i \in 0 .. n + 1 : h[i] = IF i = 0 THEN Combine(t.cells[lt], t.cells[rb])
                                     ELSE next(h[i - 1], i)
    <3> SUFFICES ASSUME NEW i \in 0 .. n + 1
                 PROVE  h[i] = IF i = 0 THEN Combine(t.cells[lt], t.cells[rb])
                               ELSE next(h[i - 1], i)
      OBVIOUS
    <3>1. CASE i = n + 1
      <4>1. i # 0 /\ i - 1 = n /\ n \in 0 .. n + 1 /\ n # n + 1
        BY <3>1
      <4>2. h[i - 1] = g[n] /\ h[i] = next(g[n], n + 1)
        BY <3>1, <4>1
      <4>3. QED
        BY <3>1, <4>1, <4>2
    <3>2. CASE i # n + 1
      <4>1. i \in 0 .. n /\ (i # 0 => i - 1 \in 0 .. n + 1 /\ i - 1 # n + 1)
        BY <3>2
      <4>2. QED
        BY <2>2, <3>2, <4>1
    <3>3. QED
      BY <3>1, <3>2
  <2>4. h = [i \in 0 .. n + 1 |-> IF i = 0 THEN Combine(t.cells[lt], t.cells[rb])
                                 ELSE next(h[i - 1], i)]
    BY <2>3
  <2>5. SweepTo(t, lt, rb, n + 1, h)
    BY <2>4 DEF SweepTo, next
  <2>6. QED
    BY <1>2, <2>5
<1>3. B = {}
  <2>1. B \in SUBSET (0 .. m) /\ 0 \in Nat
    OBVIOUS
  <2> HIDE DEF B
  <2>2. QED
    BY <1>1, <1>2, <2>1, NoneBad
<1>4. QED
  BY <1>3

LEMMA SweepIs ==
  ASSUME NEW t, NEW lt, NEW rb, Good(t), lt \in DOMAIN t.cells, rb \in DOMAIN t.cells
  PROVE  /\ IsSweep(t, Sweep(t, lt, rb))
         /\ Sweep(t, lt, rb)[0] = Combine(t.cells[lt], t.cells[rb])
<1>1. t.row * t.col \in Nat /\ t.row \in Nat /\ t.col \in Nat
  BY DEF Good
<1> DEFINE c == CHOOSE f : SweepTo(t, lt, rb, t.row * t.col, f)
<1>2. SweepTo(t, lt, rb, t.row * t.col, c)
  BY <1>1, SweepExists
<1>3. Sweep(t, lt, rb) = c
  BY DEF Sweep, SweepTo
<1> HIDE DEF c
<1> DEFINE T == t.row * t.col
<1>4. \A n \in 0 .. T : c[n] =
         IF n = 0 THEN Combine(t.cells[lt], t.cells[rb])
         ELSE IF n \in DOMAIN t.cells /\ Overlaps(c[n - 1], t.cells[n])
         THEN Combine(c[n - 1], t.cells[n])
         ELSE c[n - 1]
  BY <1>2 DEF SweepTo
<1>5. T \in Nat
  BY <1>1
<1>6. T = Last(t)
  BY DEF Last
<1> HIDE DEF T
<1>7. c[0] = Combine(t.cells[lt], t.cells[rb])
  BY <1>4, <1>5
<1>8. \A n \in 1 .. T :
        c[n] = IF Absorbed(t, c, n) THEN Combine(c[n - 1], t.cells[n]) ELSE c[n - 1]
  BY <1>4, <1>5 DEF Absorbed
<1> DEFINE B == {n \in 0 .. T : ~InGrid(t, c[n])}
<1>9. B = {}
  <2>1. \A n \in DOMAIN t.cells : InGrid(t, t.cells[n])
    BY DEF Good
  <2>2. InGrid(t, c[0])
    BY <1>1, <1>7, <2>1, CombineInGrid
  <2>3. ASSUME NEW n \in 0 .. T, n + 1 \in B, n \notin B PROVE FALSE
    <3>1. InGrid(t, c[n])
      BY <2>3
    <3>2. n + 1 \in 1 .. T /\ n + 1 - 1 = n /\ ~InGrid(t, c[n + 1])
      BY <2>3, <1>5
    <3>3. c[n + 1] = IF Absorbed(t, c, n + 1) THEN Combine(c[n], t.cells[n + 1]) ELSE c[n]
      BY <1>8, <3>2
    <3>4. CASE Absorbed(t, c, n + 1)
      <4>1. InGrid(t, t.cells[n + 1])
        BY <3>4, <2>1 DEF Absorbed
      <4>2. InGrid(t, c[n + 1])
        BY <1>1, <3>1, <3>3, <3>4, <4>1, CombineInGrid
      <4>3. QED
        BY <3>2, <4>2
    <3>5. CASE ~Absorbed(t, c, n + 1)
      BY <3>1, <3>2, <3>3, <3>5
    <3>6. QED
      BY <3>4, <3>5
  <2>4. B \in SUBSET (0 .. T) /\ 0 \in Nat /\ 0 \notin B
    BY <2>2
  <2> HIDE DEF B
  <2>5. QED
    BY <1>5, <2>3, <2>4, NoneBad
<1>10. QED
  BY <1>3, <1>6, <1>7, <1>8, <1>9 DEF IsSweep
-----------------------------------------------------------------------------
LEMMA LastIsNat ==
  ASSUME NEW t, Good(t)
  PROVE  Last(t) \in Nat /\ Last(t) \in Int
<1>1. t.row \in Nat /\ t.col \in Nat
  BY DEF Good
<1>2. QED
  BY <1>1 DEF Last

(* A cell's rectangle, as numbers.                                         *)
LEMMA GridFields ==
  ASSUME NEW t, Good(t), NEW a, InGrid(t, a)
  PROVE  /\ a \in Rects
         /\ a.r1 \in Nat \ {0} /\ a.r2 \in Nat /\ a.c1 \in 1 .. t.col /\ a.c2 \in Nat
         /\ a.r1 \in 1 .. t.row
         /\ a.r1 < a.r2 /\ a.r2 <= t.row + 1
         /\ a.c1 < a.c2 /\ a.c2 <= t.col + 1
         /\ t.row \in Nat \ {0} /\ t.col \in Nat \ {0}
<1>1. t.row \in Nat \ {0} /\ t.col \in Nat \ {0}
  BY DEF Good
<1>2. a \in Rects
  BY DEF InGrid
<1>3. a.r1 \in Nat /\ a.r2 \in Nat /\ a.c1 \in Nat /\ a.c2 \in Nat
  BY <1>2, RectFields
<1>4. QED
  BY <1>1, <1>2, <1>3 DEF InGrid

LEMMA CellInGrid ==
  ASSUME NEW t, Good(t), NEW n \in DOMAIN t.cells
  PROVE  /\ InGrid(t, t.cells[n])
         /\ n = IdAt(t, t.cells[n].r1, t.cells[n].c1)
         /\ n \in 1 .. Last(t) /\ n \in Nat
<1>1. InGrid(t, t.cells[n]) /\ n = IdAt(t, t.cells[n].r1, t.cells[n].c1)
  BY DEF Good
<1>2. /\ t.cells[n].r1 \in 1 .. t.row /\ t.cells[n].c1 \in 1 .. t.col
      /\ t.row \in Nat /\ t.col \in Nat \ {0}
  BY <1>1, GridFields
<1>3. n \in 1 .. Last(t)
  BY <1>1, <1>2, IdInGrid DEF Last
<1>4. QED
  BY <1>1, <1>3, LastIsNat

(* The order of the numbers is that of the top left slots.                 *)
LEMMA GridOrder ==
  ASSUME NEW t, Good(t), NEW a, InGrid(t, a), NEW b, InGrid(t, b)
  PROVE  /\ IdAt(t, a.r1, a.c1) \in Nat
         /\ IdAt(t, a.r1, a.c1) < IdAt(t, b.r1, b.c1) <=>
               (a.r1 < b.r1 \/ (a.r1 = b.r1 /\ a.c1 < b.c1))
         /\ IdAt(t, a.r1, a.c1) = IdAt(t, b.r1, b.c1) <=> (a.r1 = b.r1 /\ a.c1 = b.c1)
<1>1. /\ a.r1 \in Nat \ {0} /\ a.c1 \in 1 .. t.col
      /\ b.r1 \in Nat \ {0} /\ b.c1 \in 1 .. t.col
      /\ t.col \in Nat \ {0}
  BY GridFields
<1> DEFINE r == a.r1  c == a.c1  q == b.r1  d == b.c1
<1>2. /\ r \in Nat \ {0} /\ c \in 1 .. t.col
      /\ q \in Nat \ {0} /\ d \in 1 .. t.col
  BY <1>1
<1> HIDE DEF r, c, q, d
<1>3. /\ IdAt(t, r, c) \in Nat
      /\ IdAt(t, r, c) < IdAt(t, q, d) <=> (r < q \/ (r = q /\ c < d))
      /\ IdAt(t, r, c) = IdAt(t, q, d) <=> (r = q /\ c = d)
  BY <1>1, <1>2, IdOrder
<1>4. QED
  BY <1>3 DEF r, c, q, d

LEMMA CellOrder ==
  ASSUME NEW t, Good(t), NEW k \in DOMAIN t.cells, NEW m \in DOMAIN t.cells
  PROVE  k < m <=> (t.cells[k].r1 < t.cells[m].r1
                     \/ (t.cells[k].r1 = t.cells[m].r1 /\ t.cells[k].c1 < t.cells[m].c1))
  BY CellInGrid, GridOrder

(* One step of the sweep. *)
LEMMA SweepStep ==
  ASSUME NEW t, Good(t), NEW f, IsSweep(t, f), NEW n \in 1 .. Last(t)
  PROVE  /\ n - 1 \in 0 .. Last(t) /\ n \in 0 .. Last(t)
         /\ InGrid(t, f[n - 1]) /\ InGrid(t, f[n])
         /\ Inside(f[n - 1], f[n])
         /\ ~Absorbed(t, f, n) => f[n] = f[n - 1]
         /\ Absorbed(t, f, n) =>
              /\ n \in DOMAIN t.cells
              /\ Inside(t.cells[n], f[n])
              /\ f[n].r1 \in {f[n - 1].r1, t.cells[n].r1}
              /\ f[n].r2 \in {f[n - 1].r2, t.cells[n].r2}
              /\ f[n].c1 \in {f[n - 1].c1, t.cells[n].c1}
              /\ f[n].c2 \in {f[n - 1].c2, t.cells[n].c2}
              /\ /\ f[n - 1].r1 < t.cells[n].r2 /\ t.cells[n].r1 < f[n - 1].r2
                 /\ f[n - 1].c1 < t.cells[n].c2 /\ t.cells[n].c1 < f[n - 1].c2
<1>1. n - 1 \in 0 .. Last(t) /\ n \in 0 .. Last(t)
  BY LastIsNat
<1>2. InGrid(t, f[n - 1]) /\ InGrid(t, f[n])
  BY <1>1 DEF IsSweep
<1>3. f[n] = IF Absorbed(t, f, n) THEN Combine(f[n - 1], t.cells[n]) ELSE f[n - 1]
  BY DEF IsSweep
<1>4. f[n - 1] \in Rects
  BY <1>2 DEF InGrid
<1>5. CASE ~Absorbed(t, f, n)
  BY <1>1, <1>2, <1>3, <1>4, <1>5, RectFields DEF Inside
<1>6. CASE Absorbed(t, f, n)
  <2>1. n \in DOMAIN t.cells /\ Overlaps(f[n - 1], t.cells[n])
    BY <1>6 DEF Absorbed
  <2>2. t.cells[n] \in Rects
    BY <2>1, CellInGrid DEF InGrid
  <2>3. f[n] = Combine(f[n - 1], t.cells[n])
    BY <1>3, <1>6
  <2>4. /\ f[n - 1].r1 < t.cells[n].r2 /\ t.cells[n].r1 < f[n - 1].r2
        /\ f[n - 1].c1 < t.cells[n].c2 /\ t.cells[n].c1 < f[n - 1].c2
    BY <1>4, <2>1, <2>2, OverlapIs
  <2>5. /\ Inside(f[n - 1], f[n]) /\ Inside(t.cells[n], f[n])
        /\ f[n].r1 \in {f[n - 1].r1, t.cells[n].r1}
        /\ f[n].r2 \in {f[n - 1].r2, t.cells[n].r2}
        /\ f[n].c1 \in {f[n - 1].c1, t.cells[n].c1}
        /\ f[n].c2 \in {f[n - 1].c2, t.cells[n].c2}
    BY <1>4, <2>2, <2>3, CombineIs
  <2>6. QED
    BY <1>1, <1>2, <1>6, <2>1, <2>4, <2>5
<1>7. QED
  BY <1>5, <1>6

(* The rectangle only grows. *)
LEMMA Grows ==
  ASSUME NEW t, Good(t), NEW f, IsSweep(t, f),
         NEW i \in 0 .. Last(t), NEW j \in i .. Last(t)
  PROVE  Inside(f[i], f[j])
<1> DEFINE B == {n \in i .. Last(t) : ~Inside(f[i], f[n])}
<1>1. Last(t) \in Nat
  BY LastIsNat
<1>2. \A n \in 0 .. Last(t) : f[n] \in Rects
  BY DEF IsSweep, InGrid
<1>3. i \notin B
  BY <1>2, RectFields DEF Inside
<1>4. ASSUME NEW n \in i .. Last(t), n + 1 \in B, n \notin B PROVE FALSE
  <2>1. n + 1 \in 1 .. Last(t) /\ n + 1 - 1 = n /\ n \in 0 .. Last(t) /\ n + 1 \in 0 .. Last(t)
    BY <1>1, <1>4
  <2>2. Inside(f[i], f[n]) /\ ~Inside(f[i], f[n + 1])
    BY <1>4
  <2>3. Inside(f[n], f[n + 1])
    BY <2>1, SweepStep
  <2>4. QED
    BY <1>2, <2>1, <2>2, <2>3, InsideTransitive
<1>5. B = {}
  <2>1. B \in SUBSET (i .. Last(t)) /\ i \in Nat
    OBVIOUS
  <2> HIDE DEF B
  <2>2. QED
    BY <1>1, <1>3, <1>4, <2>1, NoneBad
<1>6. QED
  BY <1>5

(* What it absorbs is inside it from then on. *)
LEMMA AbsorbedInside ==
  ASSUME NEW t, Good(t), NEW f, IsSweep(t, f),
         NEW n \in 1 .. Last(t), NEW j \in n .. Last(t), Absorbed(t, f, n)
  PROVE  Inside(t.cells[n], f[j])
<1>1. n \in DOMAIN t.cells /\ Inside(t.cells[n], f[n]) /\ n \in 0 .. Last(t)
  BY SweepStep
<1>2. Inside(f[n], f[j])
  BY <1>1, Grows
<1>3. t.cells[n] \in Rects /\ f[n] \in Rects /\ f[j] \in Rects
  <2>1. j \in 0 .. Last(t)
    BY LastIsNat
  <2>2. QED
    BY <1>1, <2>1, CellInGrid DEF IsSweep, InGrid
<1>4. QED
  BY <1>1, <1>2, <1>3, InsideTransitive
-----------------------------------------------------------------------------
(* Two cells that do not overlap are one above the other or side by side.  *)
LEMMA Apart ==
  ASSUME NEW t, Good(t), NEW a, InGrid(t, a), NEW b, InGrid(t, b)
  PROVE  Overlaps(a, b) <=> ~(\/ a.r2 <= b.r1 \/ b.r2 <= a.r1
                              \/ a.c2 <= b.c1 \/ b.c2 <= a.c1)
<1>1. /\ a \in Rects /\ b \in Rects
      /\ a.r1 \in Nat /\ a.r2 \in Nat /\ a.c1 \in Nat /\ a.c2 \in Nat
      /\ b.r1 \in Nat /\ b.r2 \in Nat /\ b.c1 \in Nat /\ b.c2 \in Nat
      /\ a.r1 < a.r2 /\ a.c1 < a.c2 /\ b.r1 < b.r2 /\ b.c1 < b.c2
  BY GridFields
<1>2. QED
  BY <1>1, OverlapIs

LEMMA SweepPlaces ==
  ASSUME NEW t, Good(t), NEW f, IsSweep(t, f), NEW n \in DOMAIN t.cells
  PROVE  /\ n \in 1 .. Last(t) /\ n \in Nat /\ n \in 0 .. Last(t) /\ n - 1 \in 0 .. Last(t)
         /\ Last(t) \in Nat /\ Last(t) \in 0 .. Last(t)
         /\ InGrid(t, t.cells[n]) /\ InGrid(t, f[n - 1]) /\ InGrid(t, f[n])
         /\ InGrid(t, f[Last(t)])
         /\ Inside(f[n - 1], f[Last(t)]) /\ Inside(f[n], f[Last(t)])
         /\ Inside(f[0], f[n - 1])
<1>1. n \in 1 .. Last(t) /\ n \in Nat /\ InGrid(t, t.cells[n]) /\ Last(t) \in Nat
  BY CellInGrid, LastIsNat
<1>2. /\ n \in 0 .. Last(t) /\ n - 1 \in 0 .. Last(t) /\ Last(t) \in 0 .. Last(t)
      /\ Last(t) \in n .. Last(t) /\ Last(t) \in n - 1 .. Last(t)
      /\ 0 \in 0 .. Last(t) /\ n - 1 \in 0 .. Last(t)
  BY <1>1
<1>3. QED
  BY <1>1, <1>2, Grows DEF IsSweep

(* The first place at which the rectangle has its top row.                 *)
IsFirst(t, f, u) ==
  /\ u \in 0 .. Last(t)
  /\ f[u].r1 = f[Last(t)].r1
  /\ \A n \in 0 .. Last(t) : f[n].r1 = f[Last(t)].r1 => u <= n

LEMMA FirstExists ==
  ASSUME NEW t, Good(t), NEW f, IsSweep(t, f)
  PROVE  \E u : IsFirst(t, f, u)
<1> DEFINE S == {n \in 0 .. Last(t) : f[n].r1 = f[Last(t)].r1}
<1>1. Last(t) \in S
  BY LastIsNat
<1>2. S \in SUBSET Nat /\ S # {}
  BY <1>1
<1>3. PICK u \in S : \A n \in S : u <= n
  BY <1>2, Least
<1>4. QED
  BY <1>3 DEF IsFirst

(* Before that place it is lower, at and after it it is there.             *)
LEMMA FirstDivides ==
  ASSUME NEW t, Good(t), NEW f, IsSweep(t, f), NEW u, IsFirst(t, f, u),
         NEW n \in 0 .. Last(t)
  PROVE  /\ u <= n => f[n].r1 = f[Last(t)].r1
         /\ n < u => f[Last(t)].r1 < f[n].r1
<1>1. Last(t) \in Nat /\ u \in 0 .. Last(t) /\ Last(t) \in n .. Last(t) /\ Last(t) \in 0 .. Last(t)
  BY LastIsNat DEF IsFirst
<1>2. /\ f[n].r1 \in Nat /\ f[u].r1 \in Nat /\ f[Last(t)].r1 \in Nat
  BY <1>1, GridFields DEF IsSweep
<1>3. f[Last(t)].r1 <= f[n].r1
  BY <1>1, Grows DEF Inside
<1>4. f[u].r1 = f[Last(t)].r1
  BY DEF IsFirst
<1>5. ASSUME u <= n PROVE f[n].r1 <= f[u].r1
  <2>1. n \in u .. Last(t)
    BY <1>1, <1>5
  <2>2. QED
    BY <1>1, <2>1, Grows DEF Inside
<1>6. ASSUME n < u PROVE f[n].r1 # f[Last(t)].r1
  BY <1>1, <1>6 DEF IsFirst
<1>7. QED
  BY <1>2, <1>3, <1>4, <1>5, <1>6

(* If it was lower when it passed a cell of that row, it reaches the row   *)
(* by another cell of the row, which it meets as it was.                   *)
LEMMA FirstReach ==
  ASSUME NEW t, Good(t), NEW f, IsSweep(t, f), NEW u, IsFirst(t, f, u),
         NEW k \in DOMAIN t.cells, t.cells[k].r1 = f[Last(t)].r1, k < u
  PROVE  /\ u \in DOMAIN t.cells /\ Absorbed(t, f, u)
         /\ t.cells[u].r1 = f[Last(t)].r1
         /\ Overlaps(f[k - 1], t.cells[u])
<1> DEFINE R == f[Last(t)].r1
<1>1. /\ k \in 1 .. Last(t) /\ k - 1 \in 0 .. Last(t) /\ Last(t) \in Nat /\ k \in Nat
      /\ u \in 1 .. Last(t) /\ u - 1 \in 0 .. Last(t) /\ u \in Nat /\ u \in 0 .. Last(t)
  BY SweepPlaces DEF IsFirst
<1>2. \A n \in 0 .. Last(t) : f[n].r1 \in Nat
  BY GridFields DEF IsSweep
<1>3. f[u].r1 = R /\ R < f[u - 1].r1 /\ R \in Nat
  BY <1>1, <1>2, FirstDivides
<1>4. Absorbed(t, f, u)
  BY <1>1, <1>2, <1>3, SweepStep
<1>5. u \in DOMAIN t.cells /\ f[u].r1 \in {f[u - 1].r1, t.cells[u].r1}
  BY <1>1, <1>4, SweepStep
<1>6. t.cells[u].r1 = R
  BY <1>1, <1>2, <1>3, <1>5
<1> DEFINE B == {n \in k - 1 .. u - 1 : f[n] # f[k - 1]}
<1>7. B = {}
  <2>1. k - 1 \notin B
    OBVIOUS
  <2>2. ASSUME NEW n \in k - 1 .. u - 1, n + 1 \in B, n \notin B PROVE FALSE
    <3>1. /\ n + 1 \in 1 .. Last(t) /\ n + 1 - 1 = n /\ n + 1 < u /\ n + 1 \in 0 .. Last(t)
          /\ k <= n + 1
      <4>1. n + 1 \in k - 1 .. u - 1
        BY <2>2
      <4>2. QED
        BY <1>1, <4>1
    <3>2. f[n] = f[k - 1] /\ f[n + 1] # f[k - 1]
      BY <2>2
    <3>3. Absorbed(t, f, n + 1)
      BY <3>1, <3>2, SweepStep
    <3>4. n + 1 \in DOMAIN t.cells /\ Inside(t.cells[n + 1], f[n + 1])
      BY <3>1, <3>3, SweepStep
    <3>5. t.cells[n + 1].r1 = R
      <4>1. n + 1 < u => ~(t.cells[u].r1 < t.cells[n + 1].r1)
        BY <1>1, <1>5, <3>1, <3>4, CellOrder, CellInGrid, GridFields
      <4>2. k <= n + 1 => ~(t.cells[n + 1].r1 < t.cells[k].r1)
        <5>1. CASE k = n + 1
          BY <5>1, <3>4, CellInGrid, GridFields
        <5>2. CASE k # n + 1
          <6>1. k < n + 1
            BY <1>1, <3>1, <5>2
          <6>2. /\ t.cells[k].r1 \in Nat /\ t.cells[n + 1].r1 \in Nat
            BY <3>4, CellInGrid, GridFields
          <6>3. QED
            BY <6>1, <6>2, <3>4, CellOrder
        <5>3. QED
          BY <5>1, <5>2
      <4>3. t.cells[n + 1].r1 \in Nat
        BY <3>4, CellInGrid, GridFields
      <4>4. QED
        BY <1>3, <1>6, <3>1, <4>1, <4>2, <4>3
    <3>6. f[n + 1].r1 <= R
      BY <3>4, <3>5 DEF Inside
    <3>7. R < f[n + 1].r1
      BY <3>1, FirstDivides
    <3>8. QED
      BY <1>2, <1>3, <3>1, <3>6, <3>7
  <2>3. B \in SUBSET (k - 1 .. u - 1) /\ k - 1 \in Nat /\ u - 1 \in Nat
    BY <1>1
  <2> HIDE DEF B
  <2>4. QED
    BY <2>1, <2>2, <2>3, NoneBad
<1>8. f[u - 1] = f[k - 1]
  <2>1. u - 1 \in k - 1 .. u - 1
    BY <1>1
  <2>2. QED
    BY <1>7, <2>1
<1>9. QED
  BY <1>4, <1>5, <1>6, <1>8 DEF Absorbed

(* A rectangle above a cell it passes stays as it is.                      *)
LEMMA AboveStays ==
  ASSUME NEW t, Good(t), NEW f, IsSweep(t, f), NEW m \in DOMAIN t.cells,
         f[m - 1].r2 <= t.cells[m].r1
  PROVE  f[Last(t)] = f[m - 1]
<1>1. /\ m \in 1 .. Last(t) /\ m - 1 \in 0 .. Last(t) /\ Last(t) \in Nat /\ m \in Nat
      /\ InGrid(t, f[m - 1]) /\ InGrid(t, t.cells[m])
  BY SweepPlaces
<1>2. f[m - 1].r2 \in Nat /\ t.cells[m].r1 \in Nat
  BY <1>1, GridFields
<1> DEFINE B == {n \in m - 1 .. Last(t) : f[n] # f[m - 1]}
<1>3. B = {}
  <2>1. m - 1 \notin B
    OBVIOUS
  <2>2. ASSUME NEW n \in m - 1 .. Last(t), n + 1 \in B, n \notin B PROVE FALSE
    <3>1. n + 1 \in 1 .. Last(t) /\ n + 1 - 1 = n /\ m <= n + 1 /\ n \in 0 .. Last(t)
      BY <1>1, <2>2
    <3>2. f[n] = f[m - 1] /\ f[n + 1] # f[m - 1]
      BY <2>2
    <3>3. Absorbed(t, f, n + 1)
      BY <3>1, <3>2, SweepStep
    <3>4. n + 1 \in DOMAIN t.cells /\ t.cells[n + 1].r1 < f[n].r2
      BY <3>1, <3>3, SweepStep
    <3>5. t.cells[n + 1].r1 \in Nat
      BY <3>4, CellInGrid, GridFields
    <3>6. t.cells[m].r1 <= t.cells[n + 1].r1
      <4>1. CASE m = n + 1
        BY <4>1, <1>2
      <4>2. CASE m # n + 1
        <5>1. m < n + 1
          BY <1>1, <3>1, <4>2
        <5>2. QED
          BY <5>1, <1>2, <3>4, <3>5, CellOrder
      <4>3. QED
        BY <4>1, <4>2
    <3>7. QED
      BY <1>2, <3>2, <3>4, <3>5, <3>6
  <2>3. B \in SUBSET (m - 1 .. Last(t)) /\ m - 1 \in Nat
    BY <1>1
  <2> HIDE DEF B
  <2>4. QED
    BY <1>1, <2>1, <2>2, <2>3, NoneBad
<1>4. Last(t) \in m - 1 .. Last(t)
  BY <1>1
<1>5. QED
  BY <1>3, <1>4
-----------------------------------------------------------------------------
(* How cells may overlap after any number of merges.  Through each cell    *)
(* there is a column that no later cell takes from it, but one that        *)
(* reaches below it ...                                                    *)
HasSlot(a, s) == a.c1 <= s /\ s < a.c2

IsFree(t, k, s) ==
  /\ s \in Nat /\ HasSlot(t.cells[k], s)
  /\ \A m \in DOMAIN t.cells :
       /\ k < m /\ Overlaps(t.cells[k], t.cells[m])
       /\ t.cells[m].r2 <= t.cells[k].r2
       => ~HasSlot(t.cells[m], s)

FreeColumn(t) == \A k \in DOMAIN t.cells : \E s \in Nat : IsFree(t, k, s)

(* ... and one that starts in the same row and reaches below it, reaches   *)
(* beyond its right as well.                                               *)
ReachesRight(t) ==
  \A k, m \in DOMAIN t.cells :
    /\ k < m /\ t.cells[k].r1 = t.cells[m].r1
    /\ Overlaps(t.cells[k], t.cells[m])
    /\ t.cells[k].r2 < t.cells[m].r2
    => t.cells[k].c2 < t.cells[m].c2

(* A rectangle that passes a cell beside it and does not come to reach     *)
(* below it or above it, does not cross the cell's free column.            *)
LEMMA OneSide ==
  ASSUME NEW t, Good(t), NEW f, IsSweep(t, f), NEW k \in DOMAIN t.cells,
         NEW s, IsFree(t, k, s),
         ~Overlaps(f[k - 1], t.cells[k]),
         t.cells[k].r1 <= f[Last(t)].r1,
         f[Last(t)].r2 <= t.cells[k].r2
  PROVE  ~HasSlot(f[Last(t)], s)
<1> DEFINE T == Last(t)  K == t.cells[k]
<1>1. /\ k \in 1 .. T /\ k - 1 \in 0 .. T /\ T \in Nat /\ k \in Nat /\ T \in 0 .. T
      /\ InGrid(t, f[k - 1]) /\ InGrid(t, K)
  BY SweepPlaces
<1>2. \A n \in 0 .. T : InGrid(t, f[n])
  BY DEF IsSweep
<1>3. s \in Nat /\ K.c1 <= s /\ s < K.c2
  BY DEF IsFree, HasSlot
<1>4. ASSUME NEW n \in 0 .. T PROVE K.r1 <= f[n].r1 /\ f[n].r2 <= K.r2
  <2>1. Inside(f[n], f[T])
    <3>1. T \in n .. T
      BY <1>1
    <3>2. QED
      BY <3>1, Grows
  <2>2. /\ f[n].r1 \in Nat /\ f[n].r2 \in Nat /\ f[T].r1 \in Nat /\ f[T].r2 \in Nat
        /\ K.r1 \in Nat /\ K.r2 \in Nat
    BY <1>1, <1>2, GridFields
  <2>3. QED
    BY <2>1, <2>2 DEF Inside
<1> DEFINE B == {n \in k - 1 .. T : ~(s < f[n].c1 \/ f[n].c2 <= s)}
<1>5. k - 1 \notin B
  <2>1. /\ K.r1 <= f[k - 1].r1 /\ f[k - 1].r2 <= K.r2
    BY <1>1, <1>4
  <2>2. \/ f[k - 1].r2 <= K.r1 \/ K.r2 <= f[k - 1].r1
        \/ f[k - 1].c2 <= K.c1 \/ K.c2 <= f[k - 1].c1
    BY <1>1, Apart
  <2>3. QED
    BY <1>1, <1>3, <2>1, <2>2, GridFields
<1>6. ASSUME NEW n \in k - 1 .. T, n + 1 \in B, n \notin B PROVE FALSE
  <2>1. n + 1 \in 1 .. T /\ n + 1 - 1 = n /\ n \in 0 .. T /\ n + 1 \in 0 .. T /\ k <= n + 1
    BY <1>1, <1>6
  <2>2. (s < f[n].c1 \/ f[n].c2 <= s) /\ ~(s < f[n + 1].c1 \/ f[n + 1].c2 <= s)
    BY <1>6
  <2>3. Absorbed(t, f, n + 1)
    BY <2>1, <2>2, SweepStep
  <2> DEFINE M == t.cells[n + 1]
  <2>4. /\ n + 1 \in DOMAIN t.cells
        /\ Inside(M, f[n + 1])
        /\ f[n + 1].c1 \in {f[n].c1, M.c1} /\ f[n + 1].c2 \in {f[n].c2, M.c2}
        /\ f[n].c1 < M.c2 /\ M.c1 < f[n].c2
    BY <2>1, <2>3, SweepStep
  <2>5. k # n + 1
    BY <2>1, <2>3 DEF Absorbed
  <2>6. k < n + 1
    BY <1>1, <2>1, <2>5
  <2>7. InGrid(t, M)
    BY <2>4, CellInGrid
  <2>8. /\ M.r1 \in Nat /\ M.r2 \in Nat /\ M.c1 \in Nat /\ M.c2 \in Nat
        /\ M.r1 < M.r2 /\ M.c1 < M.c2
    BY <2>7, GridFields
  <2>9. /\ K.r1 \in Nat /\ K.r2 \in Nat /\ K.c1 \in Nat /\ K.c2 \in Nat
        /\ f[n].c1 \in Nat /\ f[n].c2 \in Nat /\ f[n].c1 < f[n].c2
        /\ f[n + 1].r1 \in Nat /\ f[n + 1].r2 \in Nat
    BY <1>1, <1>2, <2>1, GridFields
  <2>10. K.r1 <= M.r1
    BY <2>4, <2>6, <2>8, <2>9, CellOrder
  <2>11. M.r2 <= K.r2
    BY <1>4, <2>1, <2>4, <2>8, <2>9 DEF Inside
  <2>12. ~HasSlot(M, s)
    <3>1. CASE Overlaps(K, M)
      BY <2>4, <2>6, <2>11, <3>1 DEF IsFree
    <3>2. CASE ~Overlaps(K, M)
      <4>1. K.r2 <= M.r1 \/ M.r2 <= K.r1 \/ K.c2 <= M.c1 \/ M.c2 <= K.c1
        BY <1>1, <2>7, <3>2, Apart
      <4>2. K.c2 <= M.c1 \/ M.c2 <= K.c1
        BY <2>8, <2>9, <2>10, <2>11, <4>1
      <4>3. QED
        BY <1>3, <2>8, <2>9, <4>2 DEF HasSlot
    <3>3. QED
      BY <3>1, <3>2
  <2>13. s < M.c1 \/ M.c2 <= s
    BY <1>3, <2>8, <2>12 DEF HasSlot
  <2> HIDE DEF M, K
  <2>14. QED
    BY <1>3, <2>2, <2>4, <2>8, <2>9, <2>13
<1>7. B = {}
  <2>1. B \in SUBSET (k - 1 .. T) /\ k - 1 \in Nat
    BY <1>1
  <2> HIDE DEF B
  <2>2. QED
    BY <1>1, <1>5, <1>6, <2>1, NoneBad
<1>8. T \in k - 1 .. T
  BY <1>1
<1>9. s < f[T].c1 \/ f[T].c2 <= s
  BY <1>7, <1>8
<1>10. f[T].c1 \in Nat /\ f[T].c2 \in Nat
  BY <1>1, <1>2, GridFields
<1>11. QED
  BY <1>3, <1>9, <1>10 DEF HasSlot

(* The cell that has the number of the new one lies inside of it.          *)
LEMMA ReplacedInside ==
  ASSUME NEW t, Good(t), FreeColumn(t), ReachesRight(t), NEW f, IsSweep(t, f),
         NEW k \in DOMAIN t.cells, k = IdAt(t, f[Last(t)].r1, f[Last(t)].c1)
  PROVE  Inside(t.cells[k], f[Last(t)])
<1> DEFINE T == Last(t)  K == t.cells[k]  N == f[T]  Q == f[k - 1]
<1>1. /\ k \in 1 .. T /\ k - 1 \in 0 .. T /\ T \in Nat /\ k \in Nat /\ T \in 0 .. T
      /\ k \in 0 .. T /\ T \in k .. T
      /\ InGrid(t, Q) /\ InGrid(t, K) /\ InGrid(t, N) /\ Inside(Q, N)
  BY SweepPlaces
<1>2. /\ K.r1 \in Nat /\ K.r2 \in Nat /\ K.c1 \in Nat /\ K.c2 \in Nat /\ K.r1 < K.r2 /\ K.c1 < K.c2
      /\ Q.r1 \in Nat /\ Q.r2 \in Nat /\ Q.c1 \in Nat /\ Q.c2 \in Nat /\ Q.r1 < Q.r2 /\ Q.c1 < Q.c2
      /\ N.r1 \in Nat /\ N.r2 \in Nat /\ N.c1 \in Nat /\ N.c2 \in Nat
  <2>0. InGrid(t, K) /\ InGrid(t, Q) /\ InGrid(t, N)
    BY <1>1
  <2>1. /\ K.r1 \in Nat /\ K.r2 \in Nat /\ K.c1 \in Nat /\ K.c2 \in Nat
        /\ K.r1 < K.r2 /\ K.c1 < K.c2
    BY <2>0, GridFields
  <2>2. /\ Q.r1 \in Nat /\ Q.r2 \in Nat /\ Q.c1 \in Nat /\ Q.c2 \in Nat
        /\ Q.r1 < Q.r2 /\ Q.c1 < Q.c2
    BY <2>0, GridFields
  <2>3. N.r1 \in Nat /\ N.r2 \in Nat /\ N.c1 \in Nat /\ N.c2 \in Nat
    BY <2>0, GridFields
  <2>4. QED
    BY <2>1, <2>2, <2>3
<1>3. K.r1 = N.r1 /\ K.c1 = N.c1
  <2>1. IdAt(t, K.r1, K.c1) = IdAt(t, N.r1, N.c1)
    BY DEF Good
  <2>2. QED
    BY <1>1, <2>1, GridOrder
<1>4. /\ N.r1 <= Q.r1 /\ Q.r2 <= N.r2 /\ N.c1 <= Q.c1 /\ Q.c2 <= N.c2
  BY <1>1 DEF Inside
<1>5. SUFFICES ASSUME ~Absorbed(t, f, k) PROVE K.r2 <= N.r2 /\ K.c2 <= N.c2
  <2>1. CASE Absorbed(t, f, k)
    BY <1>1, <2>1, AbsorbedInside
  <2>2. CASE ~Absorbed(t, f, k)
    BY <1>2, <1>3, <1>5, <2>2 DEF Inside
  <2>3. QED
    BY <2>1, <2>2
<1>6. ~Overlaps(Q, K)
  BY <1>5 DEF Absorbed
<1>7. Q.r2 <= K.r1 \/ K.r2 <= Q.r1 \/ Q.c2 <= K.c1 \/ K.c2 <= Q.c1
  BY <1>1, <1>6, Apart
<1>8. K.r2 <= Q.r1 \/ K.c2 <= Q.c1
  BY <1>2, <1>3, <1>4, <1>7
<1>9. CASE K.c2 <= Q.c1
  <2>1. K.c2 <= N.c2
    BY <1>2, <1>4, <1>9
  <2>2. K.r2 <= N.r2
    <3>1. SUFFICES ASSUME N.r2 < K.r2 PROVE FALSE
      BY <1>2
    <3>2. PICK s \in Nat : IsFree(t, k, s)
      BY DEF FreeColumn
    <3>3. ~HasSlot(N, s)
      BY <1>2, <1>3, <1>6, <3>1, <3>2, OneSide
    <3>4. K.c1 <= s /\ s < K.c2
      BY <3>2 DEF IsFree, HasSlot
    <3>5. QED
      BY <1>2, <1>3, <2>1, <3>3, <3>4 DEF HasSlot
  <2>3. QED
    BY <2>1, <2>2
<1>10. CASE K.r2 <= Q.r1
  <2>1. K.r2 <= N.r2
    BY <1>2, <1>4, <1>10
  <2>2. PICK u : IsFirst(t, f, u)
    BY FirstExists
  <2>3. f[k] = f[k - 1]
    BY <1>1, <1>5, SweepStep
  <2>4. k < u
    <3>1. u \in Nat
      BY <2>2 DEF IsFirst
    <3>2. u <= k => f[k].r1 = N.r1
      BY <1>1, <2>2, FirstDivides
    <3>3. f[k].r1 # N.r1
      BY <1>2, <1>3, <1>10, <2>3
    <3>4. QED
      BY <1>1, <3>1, <3>2, <3>3
  <2>5. /\ u \in DOMAIN t.cells /\ Absorbed(t, f, u) /\ t.cells[u].r1 = N.r1
        /\ Overlaps(Q, t.cells[u])
    BY <1>3, <2>2, <2>4, FirstReach
  <2> DEFINE U == t.cells[u]
  <2>6. InGrid(t, U) /\ u \in 1 .. T /\ T \in u .. T
    BY <2>5, SweepPlaces, <1>1
  <2>7. /\ U.r1 \in Nat /\ U.r2 \in Nat /\ U.c1 \in Nat /\ U.c2 \in Nat /\ U.r1 < U.r2 /\ U.c1 < U.c2
    BY <2>6, GridFields
  <2>8. U.c2 <= N.c2
    BY <2>5, <2>6, AbsorbedInside DEF Inside
  <2>9. Q.r1 < U.r2
    <3>1. InGrid(t, Q) /\ Overlaps(Q, U)
      BY <1>1, <2>5
    <3>2. ~(U.r2 <= Q.r1)
      BY <2>6, <3>1, Apart
    <3>3. QED
      BY <1>2, <2>7, <3>2
  <2>10. K.r2 < U.r2
    BY <1>2, <1>10, <2>7, <2>9
  <2>11. K.c1 < U.c1
    BY <1>2, <1>3, <2>4, <2>5, <2>7, CellOrder
  <2>12. K.c2 <= U.c2
    <3>1. CASE Overlaps(K, U)
      BY <1>2, <1>3, <2>4, <2>5, <2>7, <2>10, <3>1 DEF ReachesRight
    <3>2. CASE ~Overlaps(K, U)
      <4>1. K.r2 <= U.r1 \/ U.r2 <= K.r1 \/ K.c2 <= U.c1 \/ U.c2 <= K.c1
        BY <1>1, <2>6, <3>2, Apart
      <4>2. QED
        BY <1>2, <1>3, <2>5, <2>7, <2>10, <2>11, <4>1
    <3>3. QED
      BY <3>1, <3>2
  <2>13. QED
    BY <1>2, <2>1, <2>7, <2>8, <2>12
<1>11. QED
  BY <1>8, <1>9, <1>10
-----------------------------------------------------------------------------
(* What merge makes of a table: the cells that the sweep f left, and the   *)
(* rectangle it ended with.                                                *)
NewId(t, f) == IdAt(t, f[Last(t)].r1, f[Last(t)].c1)

IsMerge(t, f, u) ==
  /\ u = [row |-> u.row, col |-> u.col, cells |-> u.cells]
  /\ u.row = t.row /\ u.col = t.col
  /\ u.cells = [n \in DOMAIN u.cells |-> u.cells[n]]
  /\ DOMAIN u.cells = {n \in DOMAIN t.cells : ~Absorbed(t, f, n)} \cup {NewId(t, f)}
  /\ u.cells[NewId(t, f)] = f[Last(t)]
  /\ \A n \in DOMAIN u.cells : n # NewId(t, f) => u.cells[n] = t.cells[n]

LEMMA MergeIs ==
  ASSUME NEW t, Good(t), NEW lt \in DOMAIN t.cells, NEW rb \in DOMAIN t.cells
  PROVE  /\ IsSweep(t, Sweep(t, lt, rb))
         /\ IsMerge(t, Sweep(t, lt, rb), Merge(t, lt, rb))
         /\ Merged(t, lt, rb) = Sweep(t, lt, rb)[Last(t)]
<1> DEFINE f == Sweep(t, lt, rb)  N == f[Last(t)]  id == NewId(t, f)
           D == {n \in DOMAIN t.cells : ~Absorbed(t, f, n)}
           c == [n \in D \cup {id} |-> IF n = id THEN N ELSE t.cells[n]]
           u == Merge(t, lt, rb)
<1>1. Merged(t, lt, rb) = N
  BY DEF Merged, Last
<1>2. id = IdAt(t, N.r1, N.c1)
  BY DEF NewId
<1>3. D = {n \in DOMAIN t.cells : ~Overlaps(f[n - 1], t.cells[n])}
  BY DEF Absorbed
<1>4. u = [t EXCEPT !.cells = c]
  BY <1>1, <1>2, <1>3 DEF Merge
<1>5. t = [row |-> t.row, col |-> t.col, cells |-> t.cells]
  BY DEF Good
<1>6. DOMAIN c = D \cup {id} /\ c[id] = N /\ \A n \in D : n # id => c[n] = t.cells[n]
  OBVIOUS
<1>7. c = [n \in DOMAIN c |-> c[n]]
  OBVIOUS
<1> HIDE DEF c, u
<1>8. u = [row |-> t.row, col |-> t.col, cells |-> c]
  BY <1>4, <1>5
<1>9. u.row = t.row /\ u.col = t.col /\ u.cells = c
  BY <1>8
<1>10. IsMerge(t, f, u)
  BY <1>6, <1>7, <1>8, <1>9 DEF IsMerge
<1>11. QED
  BY <1>1, <1>10, SweepIs DEF u

LEMMA MergeGood ==
  ASSUME NEW t, Good(t), NEW f, IsSweep(t, f), NEW u, IsMerge(t, f, u)
  PROVE  Good(u)
<1>1. u.row = t.row /\ u.col = t.col /\ t.row \in Nat \ {0} /\ t.col \in Nat \ {0}
  BY DEF IsMerge, Good
<1>2. \A a, r, c : (InGrid(u, a) <=> InGrid(t, a)) /\ IdAt(u, r, c) = IdAt(t, r, c)
  BY <1>1 DEF InGrid, IdAt
<1>3. ASSUME NEW n \in DOMAIN u.cells
      PROVE  InGrid(u, u.cells[n]) /\ n = IdAt(u, u.cells[n].r1, u.cells[n].c1)
  <2>1. CASE n = NewId(t, f)
    <3>1. u.cells[n] = f[Last(t)]
      BY <2>1 DEF IsMerge
    <3>2. InGrid(t, f[Last(t)])
      BY LastIsNat DEF IsSweep
    <3>3. n = IdAt(t, f[Last(t)].r1, f[Last(t)].c1)
      BY <2>1 DEF NewId
    <3>4. QED
      BY <1>2, <3>1, <3>2, <3>3
  <2>2. CASE n # NewId(t, f)
    <3>1. n \in DOMAIN t.cells /\ u.cells[n] = t.cells[n]
      BY <2>2 DEF IsMerge
    <3>2. QED
      BY <1>2, <3>1, CellInGrid
  <2>3. QED
    BY <2>1, <2>2
<1>4. QED
  BY <1>1, <1>3 DEF Good, IsMerge

(* The cells of the new table: the new one, and others that the sweep      *)
(* passed.                                                                 *)
LEMMA MergedCells ==
  ASSUME NEW t, Good(t), NEW f, IsSweep(t, f), NEW u, IsMerge(t, f, u),
         NEW n \in DOMAIN u.cells
  PROVE  /\ n = NewId(t, f) => u.cells[n] = f[Last(t)]
         /\ n # NewId(t, f) => /\ n \in DOMAIN t.cells /\ u.cells[n] = t.cells[n]
                               /\ ~Absorbed(t, f, n)
                               /\ ~Overlaps(f[n - 1], t.cells[n])
  BY DEF IsMerge, Absorbed

LEMMA MergeFreeColumn ==
  ASSUME NEW t, Good(t), FreeColumn(t), ReachesRight(t),
         NEW f, IsSweep(t, f), NEW u, IsMerge(t, f, u)
  PROVE  FreeColumn(u)
<1> DEFINE T == Last(t)  N == f[T]  id == NewId(t, f)
<1>1. Good(u)
  BY MergeGood
<1>2. /\ T \in Nat /\ T \in 0 .. T /\ InGrid(t, N) /\ id \in DOMAIN u.cells /\ u.cells[id] = N
      /\ 0 \in 0 .. T /\ InGrid(t, f[0]) /\ T \in 0 .. T
  BY LastIsNat DEF IsSweep, IsMerge
<1>3. /\ N.r1 \in Nat /\ N.r2 \in Nat /\ N.c1 \in Nat /\ N.c2 \in Nat /\ N.r1 < N.r2 /\ N.c1 < N.c2
  BY <1>2, GridFields
<1>4. ASSUME NEW k \in DOMAIN u.cells, k # id PROVE \E s \in Nat : IsFree(u, k, s)
  <2>1. /\ k \in DOMAIN t.cells /\ u.cells[k] = t.cells[k]
        /\ ~Overlaps(f[k - 1], t.cells[k])
    BY <1>4, MergedCells
  <2>2. PICK s \in Nat : IsFree(t, k, s)
    BY <2>1 DEF FreeColumn
  <2>3. ASSUME NEW m \in DOMAIN u.cells, k < m, Overlaps(u.cells[k], u.cells[m]),
               u.cells[m].r2 <= u.cells[k].r2
        PROVE  ~HasSlot(u.cells[m], s)
    <3>1. CASE m = id
      <4>1. u.cells[m] = N
        BY <1>2, <3>1
      <4>2. t.cells[k].r1 <= N.r1
        BY <1>1, <1>2, <2>1, <2>3, <4>1, CellOrder, CellInGrid, GridFields
      <4>3. QED
        BY <2>1, <2>2, <2>3, <4>1, <4>2, OneSide
    <3>2. CASE m # id
      <4>1. m \in DOMAIN t.cells /\ u.cells[m] = t.cells[m]
        BY <3>2, MergedCells
      <4>2. QED
        BY <2>1, <2>2, <2>3, <4>1 DEF IsFree
    <3>3. QED
      BY <3>1, <3>2
  <2>4. HasSlot(u.cells[k], s)
    BY <2>1, <2>2 DEF IsFree
  <2>5. QED
    BY <2>3, <2>4 DEF IsFree
<1>5. \E s \in Nat : IsFree(u, id, s)
  <2>1. PICK v : IsFirst(t, f, v)
    BY FirstExists
  <2>2. v \in 0 .. T /\ f[v].r1 = N.r1
    BY <2>1 DEF IsFirst
  <2>3. CASE v = 0
    <3> DEFINE s == f[0].c1
    <3>1. Inside(f[0], N)
      BY <1>2, Grows
    <3>2. s \in Nat /\ HasSlot(N, s)
      BY <1>2, <1>3, <3>1, GridFields DEF HasSlot, Inside
    <3>3. ASSUME NEW m \in DOMAIN u.cells, id < m, Overlaps(u.cells[id], u.cells[m]),
                 HasSlot(u.cells[m], s)
          PROVE  FALSE
      <4>1. /\ m \in DOMAIN t.cells /\ u.cells[m] = t.cells[m] /\ ~Overlaps(f[m - 1], t.cells[m])
        <5>1. id \in Nat
          BY <1>1, <1>2, CellInGrid
        <5>2. m # id
          BY <3>3, <5>1
        <5>3. QED
          BY <5>2, MergedCells
      <4> DEFINE M == t.cells[m]  Q == f[m - 1]
      <4>2. InGrid(t, M) /\ InGrid(t, Q) /\ Inside(f[0], Q) /\ m - 1 \in 0 .. T
        BY <4>1, SweepPlaces
      <4>3. /\ M.r1 \in Nat /\ M.r2 \in Nat /\ M.c1 \in Nat /\ M.c2 \in Nat /\ M.r1 < M.r2 /\ M.c1 < M.c2
            /\ Q.r1 \in Nat /\ Q.r2 \in Nat /\ Q.c1 \in Nat /\ Q.c2 \in Nat /\ Q.r1 < Q.r2 /\ Q.c1 < Q.c2
            /\ f[0].r1 \in Nat /\ f[0].r2 \in Nat /\ f[0].c1 \in Nat /\ f[0].c2 \in Nat
            /\ f[0].c1 < f[0].c2
        BY <1>2, <4>2, GridFields
      <4>4. N.r1 <= M.r1
        BY <1>1, <1>2, <1>3, <3>3, <4>1, <4>3, CellOrder
      <4>5. Q.r1 <= N.r1 /\ Q.c1 <= s /\ s < Q.c2
        BY <2>2, <2>3, <4>2, <4>3 DEF Inside
      <4>6. M.c1 <= s /\ s < M.c2
        BY <3>3, <4>1 DEF HasSlot
      <4>7. Q.r2 <= M.r1 \/ M.r2 <= Q.r1 \/ Q.c2 <= M.c1 \/ M.c2 <= Q.c1
        BY <4>1, <4>2, Apart
      <4> HIDE DEF s
      <4>8. Q.r2 <= M.r1
        BY <1>3, <3>2, <4>3, <4>4, <4>5, <4>6, <4>7
      <4>9. N = Q
        BY <4>1, <4>8, AboveStays
      <4>10. ~Overlaps(N, M)
        BY <1>2, <4>2, <4>8, <4>9, Apart
      <4>11. QED
        BY <1>2, <3>3, <4>1, <4>10
    <3> HIDE DEF s
    <3>4. IsFree(u, id, s)
      BY <1>2, <3>2, <3>3 DEF IsFree
    <3>5. QED
      BY <3>2, <3>4
  <2>4. CASE v # 0
    <3>1. v \in 1 .. T /\ v - 1 \in 0 .. T /\ v - 1 < v /\ v \in Nat
      BY <2>2, <2>4, <1>2
    <3>2. N.r1 < f[v - 1].r1
      BY <2>1, <3>1, FirstDivides
    <3>3. Absorbed(t, f, v)
      BY <1>3, <2>2, <3>1, <3>2, SweepStep
    <3> DEFINE V == t.cells[v]  s == V.c2 - 1
    <3>4. v \in DOMAIN t.cells /\ f[v].r1 \in {f[v - 1].r1, V.r1}
      BY <3>1, <3>3, SweepStep
    <3>5. V.r1 = N.r1
      BY <1>3, <2>2, <3>2, <3>4
    <3>6. InGrid(t, V) /\ Inside(V, N)
      <4>1. T \in v .. T
        BY <1>2, <3>1
      <4>2. QED
        BY <3>1, <3>3, <3>4, <4>1, CellInGrid, AbsorbedInside
    <3>7. /\ V.r1 \in Nat /\ V.r2 \in Nat /\ V.c1 \in Nat /\ V.c2 \in Nat /\ V.r1 < V.r2 /\ V.c1 < V.c2
      BY <3>6, GridFields
    <3>8. s \in Nat /\ HasSlot(N, s) /\ V.c1 <= s /\ s < V.c2
      BY <1>3, <3>6, <3>7 DEF HasSlot, Inside
    <3>9. ASSUME NEW m \in DOMAIN u.cells, id < m, Overlaps(u.cells[id], u.cells[m]),
                 HasSlot(u.cells[m], s)
          PROVE  FALSE
      <4>1. /\ m \in DOMAIN t.cells /\ u.cells[m] = t.cells[m]
            /\ ~Overlaps(f[m - 1], t.cells[m]) /\ ~Absorbed(t, f, m)
        <5>1. id \in Nat
          BY <1>1, <1>2, CellInGrid
        <5>2. m # id
          BY <3>9, <5>1
        <5>3. QED
          BY <5>2, MergedCells
      <4> DEFINE M == t.cells[m]  Q == f[m - 1]
      <4>2. InGrid(t, M) /\ InGrid(t, Q) /\ m - 1 \in 0 .. T /\ m \in Nat
        BY <4>1, SweepPlaces
      <4>3. /\ M.r1 \in Nat /\ M.r2 \in Nat /\ M.c1 \in Nat /\ M.c2 \in Nat /\ M.r1 < M.r2 /\ M.c1 < M.c2
            /\ Q.r1 \in Nat /\ Q.r2 \in Nat /\ Q.c1 \in Nat /\ Q.c2 \in Nat /\ Q.r1 < Q.r2 /\ Q.c1 < Q.c2
        BY <4>2, GridFields
      <4>4. N.r1 <= M.r1
        BY <1>1, <1>2, <1>3, <3>9, <4>1, <4>3, CellOrder
      <4>5. M.c1 <= s /\ s < M.c2
        BY <3>9, <4>1 DEF HasSlot
      <4>6. Q.r2 <= M.r1 \/ M.r2 <= Q.r1 \/ Q.c2 <= M.c1 \/ M.c2 <= Q.c1
        BY <4>1, <4>2, Apart
      <4>7. m # v
        BY <3>3, <4>1
      <4>8. CASE v < m
        <5>1. Q.r1 = N.r1
          <6>1. v <= m - 1
            BY <3>1, <4>2, <4>8
          <6>2. QED
            BY <2>1, <4>2, <6>1, FirstDivides
        <5>2. Q.c1 <= V.c1 /\ V.c2 <= Q.c2
          <6>1. m - 1 \in v .. T
            BY <3>1, <4>2, <4>8
          <6>2. QED
            BY <3>1, <3>3, <6>1, AbsorbedInside DEF Inside
        <5>3. Q.r2 <= M.r1
          BY <1>3, <3>7, <3>8, <4>3, <4>4, <4>5, <4>6, <5>1, <5>2
        <5>4. N = Q
          BY <4>1, <5>3, AboveStays
        <5>5. ~Overlaps(N, M)
          BY <1>2, <4>2, <5>3, <5>4, Apart
        <5>6. QED
          BY <1>2, <3>9, <4>1, <5>5
      <4>9. CASE m < v
        <5>1. M.r1 = N.r1
          BY <1>3, <3>4, <3>5, <4>1, <4>3, <4>4, <4>9, CellOrder
        <5>2. Overlaps(Q, V)
          BY <2>1, <4>1, <4>9, <5>1, FirstReach
        <5>3. M.c1 < V.c1
          BY <3>4, <3>5, <3>7, <4>1, <4>3, <4>9, <5>1, CellOrder
        <5>4. N.r1 < Q.r1
          <6>1. m - 1 < v
            BY <3>1, <4>2, <4>9
          <6>2. QED
            BY <2>1, <4>2, <6>1, FirstDivides
        <5>5. ~(Q.r2 <= V.r1 \/ V.r2 <= Q.r1 \/ Q.c2 <= V.c1 \/ V.c2 <= Q.c1)
          BY <3>6, <4>2, <5>2, Apart
        <5>6. M.r2 < V.r2
          BY <1>3, <3>7, <3>8, <4>3, <4>5, <4>6, <5>1, <5>3, <5>4, <5>5
        <5>7. Overlaps(M, V)
          BY <1>3, <3>5, <3>6, <3>7, <3>8, <4>2, <4>3, <4>5, <5>1, <5>3, Apart
        <5>8. M.c2 < V.c2
          BY <3>4, <3>5, <4>1, <4>9, <5>1, <5>6, <5>7 DEF ReachesRight
        <5>9. QED
          BY <3>7, <4>3, <4>5, <5>8
      <4>10. QED
        BY <3>1, <4>2, <4>7, <4>8, <4>9
    <3> HIDE DEF s
    <3>10. IsFree(u, id, s)
      BY <1>2, <3>8, <3>9 DEF IsFree
    <3>11. QED
      BY <3>8, <3>10
  <2>5. QED
    BY <2>3, <2>4
<1>6. QED
  BY <1>4, <1>5 DEF FreeColumn
-----------------------------------------------------------------------------
LEMMA MergeReachesRight ==
  ASSUME NEW t, Good(t), FreeColumn(t), ReachesRight(t),
         NEW f, IsSweep(t, f), NEW u, IsMerge(t, f, u)
  PROVE  ReachesRight(u)
<1> DEFINE T == Last(t)  N == f[T]  id == NewId(t, f)
<1>1. Good(u)
  BY MergeGood
<1>2. /\ T \in Nat /\ T \in 0 .. T /\ InGrid(t, N) /\ id \in DOMAIN u.cells /\ u.cells[id] = N
  BY LastIsNat DEF IsSweep, IsMerge
<1>3. /\ N.r1 \in Nat /\ N.r2 \in Nat /\ N.c1 \in Nat /\ N.c2 \in Nat /\ N.r1 < N.r2 /\ N.c1 < N.c2
  BY <1>2, GridFields
<1>4. id \in Nat /\ \A n \in DOMAIN u.cells : n \in Nat
  BY <1>1, <1>2, CellInGrid
<1> SUFFICES ASSUME NEW k \in DOMAIN u.cells, NEW m \in DOMAIN u.cells, k < m,
                    u.cells[k].r1 = u.cells[m].r1, Overlaps(u.cells[k], u.cells[m]),
                    u.cells[k].r2 < u.cells[m].r2
             PROVE  u.cells[k].c2 < u.cells[m].c2
  BY DEF ReachesRight
<1>5. CASE k # id /\ m # id
  <2>1. /\ k \in DOMAIN t.cells /\ u.cells[k] = t.cells[k]
        /\ m \in DOMAIN t.cells /\ u.cells[m] = t.cells[m]
    BY <1>5, MergedCells
  <2>2. QED
    BY <2>1 DEF ReachesRight
<1>6. CASE k = id
  <2>1. m # id
    BY <1>4, <1>6
  <2>2. /\ m \in DOMAIN t.cells /\ u.cells[m] = t.cells[m] /\ ~Overlaps(f[m - 1], t.cells[m])
    BY <2>1, MergedCells
  <2> DEFINE M == t.cells[m]
  <2>3. InGrid(t, M)
    BY <2>2, CellInGrid
  <2>4. /\ M.r1 \in Nat /\ M.r2 \in Nat /\ M.c1 \in Nat /\ M.c2 \in Nat
    BY <2>3, GridFields
  <2>5. M.r1 = N.r1 /\ N.r2 < M.r2
    BY <1>2, <1>6, <2>2
  <2>6. PICK s \in Nat : IsFree(t, m, s)
    BY <2>2 DEF FreeColumn
  <2>7. ~HasSlot(N, s)
    BY <1>3, <2>2, <2>4, <2>5, <2>6, OneSide
  <2>8. M.c1 <= s /\ s < M.c2
    BY <2>6 DEF IsFree, HasSlot
  <2>9. N.c1 < M.c1
    BY <1>1, <1>2, <1>3, <1>6, <2>2, <2>4, <2>5, CellOrder
  <2>10. N.c2 < M.c2
    BY <1>3, <2>4, <2>7, <2>8, <2>9 DEF HasSlot
  <2>11. QED
    BY <1>2, <1>6, <2>2, <2>10
<1>7. CASE m = id
  <2>1. k # id
    BY <1>4, <1>7
  <2>2. /\ k \in DOMAIN t.cells /\ u.cells[k] = t.cells[k] /\ ~Overlaps(f[k - 1], t.cells[k])
        /\ ~Absorbed(t, f, k)
    BY <2>1, MergedCells
  <2> DEFINE K == t.cells[k]  Q == f[k - 1]
  <2>3. /\ InGrid(t, K) /\ InGrid(t, Q) /\ Inside(Q, N) /\ k \in 1 .. T /\ k \in 0 .. T
        /\ T \in k .. T
    BY <2>2, SweepPlaces
  <2>4. /\ K.r1 \in Nat /\ K.r2 \in Nat /\ K.c1 \in Nat /\ K.c2 \in Nat /\ K.r1 < K.r2 /\ K.c1 < K.c2
        /\ Q.r1 \in Nat /\ Q.r2 \in Nat /\ Q.c1 \in Nat /\ Q.c2 \in Nat /\ Q.r1 < Q.r2 /\ Q.c1 < Q.c2
    BY <2>3, GridFields
  <2>5. K.r1 = N.r1 /\ K.r2 < N.r2
    BY <1>2, <1>7, <2>2
  <2>6. K.c1 < N.c1
    BY <1>1, <1>2, <1>3, <1>7, <2>2, <2>4, <2>5, CellOrder
  <2>7. N.r1 <= Q.r1 /\ Q.r2 <= N.r2 /\ N.c1 <= Q.c1 /\ Q.c2 <= N.c2
    BY <2>3 DEF Inside
  <2>8. Q.r2 <= K.r1 \/ K.r2 <= Q.r1 \/ Q.c2 <= K.c1 \/ K.c2 <= Q.c1
    BY <2>2, <2>3, Apart
  <2>9. K.r2 <= Q.r1 \/ K.c2 <= Q.c1
    BY <1>3, <2>4, <2>5, <2>6, <2>7, <2>8
  <2>10. CASE K.c2 <= Q.c1
    <3>1. K.c2 < N.c2
      BY <1>3, <2>4, <2>7, <2>10
    <3>2. QED
      BY <1>2, <1>7, <2>2, <3>1
  <2>11. CASE K.r2 <= Q.r1
    <3>1. PICK v : IsFirst(t, f, v)
      BY FirstExists
    <3>2. f[k] = f[k - 1]
      BY <2>2, <2>3, SweepStep
    <3>3. k < v
      <4>1. v \in Nat /\ k \in Nat
        BY <2>3, <3>1 DEF IsFirst
      <4>2. v <= k => f[k].r1 = N.r1
        BY <2>3, <3>1, FirstDivides
      <4>3. QED
        BY <1>3, <2>4, <2>5, <2>11, <3>2, <4>1, <4>2
    <3>4. /\ v \in DOMAIN t.cells /\ Absorbed(t, f, v) /\ t.cells[v].r1 = N.r1
          /\ Overlaps(Q, t.cells[v])
      BY <2>2, <2>5, <3>1, <3>3, FirstReach
    <3> DEFINE V == t.cells[v]
    <3>5. InGrid(t, V) /\ v \in 1 .. T /\ T \in v .. T
      BY <3>4, SweepPlaces
    <3>6. /\ V.r1 \in Nat /\ V.r2 \in Nat /\ V.c1 \in Nat /\ V.c2 \in Nat /\ V.r1 < V.r2 /\ V.c1 < V.c2
      BY <3>5, GridFields
    <3>7. V.c2 <= N.c2
      BY <3>4, <3>5, AbsorbedInside DEF Inside
    <3>8. Q.r1 < V.r2
      BY <2>3, <2>4, <3>4, <3>5, <3>6, Apart
    <3>9. K.r2 < V.r2
      BY <2>4, <2>11, <3>6, <3>8
    <3>10. K.c1 < V.c1
      BY <2>2, <2>4, <2>5, <3>3, <3>4, <3>6, CellOrder
    <3>11. K.c2 < V.c2
      <4>1. CASE Overlaps(K, V)
        BY <2>2, <2>5, <3>3, <3>4, <3>9, <4>1 DEF ReachesRight
      <4>2. CASE ~Overlaps(K, V)
        <5>1. K.r2 <= V.r1 \/ V.r2 <= K.r1 \/ K.c2 <= V.c1 \/ V.c2 <= K.c1
          BY <2>3, <3>5, <4>2, Apart
        <5>2. QED
          BY <2>4, <2>5, <3>4, <3>6, <3>9, <3>10, <5>1
      <4>3. QED
        BY <4>1, <4>2
    <3>12. K.c2 < N.c2
      BY <1>3, <2>4, <3>6, <3>7, <3>11
    <3>13. QED
      BY <1>2, <1>7, <2>2, <3>12
  <2>12. QED
    BY <2>9, <2>10, <2>11
<1>8. QED
  BY <1>5, <1>6, <1>7

(* No slot is left without a cell.                                         *)
Covered(t) ==
  \A slot \in (1 .. t.row) \X (1 .. t.col) :
    \E id \in DOMAIN t.cells : slot \in SlotsOf(t.cells[id])

LEMMA SlotIn ==
  ASSUME NEW a \in Rects, NEW r \in Int, NEW c \in Int
  PROVE  <<r, c>> \in SlotsOf(a) <=> a.r1 <= r /\ r < a.r2 /\ a.c1 <= c /\ c < a.c2
<1>1. a.r1 \in Nat /\ a.r2 \in Nat /\ a.c1 \in Nat /\ a.c2 \in Nat
  BY RectFields
<1>2. QED
  BY <1>1 DEF SlotsOf

LEMMA SlotInside ==
  ASSUME NEW a \in Rects, NEW b \in Rects, Inside(a, b), NEW r \in Int, NEW c \in Int,
         <<r, c>> \in SlotsOf(a)
  PROVE  <<r, c>> \in SlotsOf(b)
  BY SlotIn, RectFields DEF Inside

LEMMA MergeCovers ==
  ASSUME NEW t, Good(t), FreeColumn(t), ReachesRight(t), Covered(t),
         NEW f, IsSweep(t, f), NEW u, IsMerge(t, f, u)
  PROVE  Covered(u)
<1> DEFINE T == Last(t)  N == f[T]  id == NewId(t, f)
<1>1. u.row = t.row /\ u.col = t.col /\ id \in DOMAIN u.cells /\ u.cells[id] = N
  BY DEF IsMerge
<1>2. T \in Nat /\ N \in Rects
  BY LastIsNat DEF IsSweep, InGrid
<1> SUFFICES ASSUME NEW r \in 1 .. t.row, NEW c \in 1 .. t.col
             PROVE  \E n \in DOMAIN u.cells : <<r, c>> \in SlotsOf(u.cells[n])
  BY <1>1 DEF Covered
<1>3. PICK k \in DOMAIN t.cells : <<r, c>> \in SlotsOf(t.cells[k])
  BY DEF Covered
<1>4. t.cells[k] \in Rects /\ k \in 1 .. T /\ T \in k .. T
  BY <1>2, CellInGrid DEF InGrid
<1>5. CASE Absorbed(t, f, k)
  <2>1. Inside(t.cells[k], N)
    BY <1>4, <1>5, AbsorbedInside
  <2>2. QED
    BY <1>1, <1>2, <1>3, <1>4, <2>1, SlotInside
<1>6. CASE k = id
  <2>1. Inside(t.cells[k], N)
    BY <1>6, ReplacedInside DEF NewId
  <2>2. QED
    BY <1>1, <1>2, <1>3, <1>4, <2>1, SlotInside
<1>7. CASE ~Absorbed(t, f, k) /\ k # id
  <2>1. k \in DOMAIN u.cells /\ u.cells[k] = t.cells[k]
    BY <1>7 DEF IsMerge
  <2>2. QED
    BY <1>3, <2>1
<1>8. QED
  BY <1>5, <1>6, <1>7
-----------------------------------------------------------------------------
(* All of it together, kept by merge and true of a new table.              *)
Sound(t) == Good(t) /\ FreeColumn(t) /\ ReachesRight(t) /\ Covered(t)

LEMMA MergeSound ==
  ASSUME NEW t, Sound(t), NEW lt \in DOMAIN t.cells, NEW rb \in DOMAIN t.cells
  PROVE  Sound(Merge(t, lt, rb))
<1>1. Good(t) /\ FreeColumn(t) /\ ReachesRight(t) /\ Covered(t)
  BY DEF Sound
<1>2. /\ IsSweep(t, Sweep(t, lt, rb))
      /\ IsMerge(t, Sweep(t, lt, rb), Merge(t, lt, rb))
  BY <1>1, MergeIs
<1>3. QED
  BY <1>1, <1>2, MergeGood, MergeFreeColumn, MergeReachesRight, MergeCovers DEF Sound

LEMMA NewTableSound ==
  ASSUME NEW row \in Nat \ {0}, NEW col \in Nat \ {0}
  PROVE  /\ Sound(NewTable(row, col))
         /\ NewTable(row, col).row = row /\ NewTable(row, col).col = col
         /\ DOMAIN NewTable(row, col).cells = 1 .. row * col
<1> DEFINE t == NewTable(row, col)
           c(n) == Cell(RowOf(n, col), RowOf(n, col) + 1, ColOf(n, col), ColOf(n, col) + 1)
<1>1. /\ t.row = row /\ t.col = col
      /\ t.cells = [n \in 1 .. row * col |-> c(n)]
      /\ t = [row |-> t.row, col |-> t.col, cells |-> t.cells]
  BY DEF NewTable
<1> HIDE DEF t
<1>2. \A n \in 1 .. row * col :
        /\ RowOf(n, col) \in 1 .. row /\ ColOf(n, col) \in 1 .. col
        /\ IdAt(t, RowOf(n, col), ColOf(n, col)) = n
  BY <1>1, SlotOfId
<1>3. /\ DOMAIN t.cells = 1 .. row * col
      /\ \A n \in DOMAIN t.cells : t.cells[n] = c(n)
      /\ t.cells = [n \in DOMAIN t.cells |-> t.cells[n]]
  BY <1>1
<1>4. ASSUME NEW n \in DOMAIN t.cells
      PROVE  /\ t.cells[n] \in Rects
             /\ t.cells[n].r1 = RowOf(n, col) /\ t.cells[n].r2 = RowOf(n, col) + 1
             /\ t.cells[n].c1 = ColOf(n, col) /\ t.cells[n].c2 = ColOf(n, col) + 1
             /\ RowOf(n, col) \in 1 .. row /\ ColOf(n, col) \in 1 .. col
             /\ IdAt(t, RowOf(n, col), ColOf(n, col)) = n
  <2> DEFINE a == RowOf(n, col)  b == ColOf(n, col)
  <2>1. a \in 1 .. row /\ b \in 1 .. col /\ IdAt(t, a, b) = n
    BY <1>2, <1>3
  <2>2. t.cells[n] = Cell(a, a + 1, b, b + 1)
    BY <1>3
  <2> HIDE DEF a, b
  <2>3. a \in Nat /\ a + 1 \in Nat /\ b \in Nat /\ b + 1 \in Nat
    BY <2>1
  <2>4. /\ t.cells[n] \in Rects
        /\ t.cells[n].r1 = a /\ t.cells[n].r2 = a + 1
        /\ t.cells[n].c1 = b /\ t.cells[n].c2 = b + 1
    BY <2>2, <2>3, CellFields
  <2>5. QED
    BY <2>1, <2>4 DEF a, b
<1> HIDE DEF c
<1>5. Good(t)
  <2>1. ASSUME NEW n \in DOMAIN t.cells PROVE InGrid(t, t.cells[n])
    BY <1>1, <1>4 DEF InGrid
  <2>2. QED
    BY <1>1, <1>3, <1>4, <2>1 DEF Good
<1>6. ASSUME NEW n \in DOMAIN t.cells, NEW m \in DOMAIN t.cells,
             Overlaps(t.cells[n], t.cells[m])
      PROVE  n = m
  <2>1. RowOf(n, col) = RowOf(m, col) /\ ColOf(n, col) = ColOf(m, col)
    BY <1>4, <1>6, OverlapIs
  <2>2. QED
    BY <1>4, <2>1
<1>7. \A n \in DOMAIN t.cells : n \in Nat
  BY <1>3
<1>8. FreeColumn(t)
  <2> SUFFICES ASSUME NEW k \in DOMAIN t.cells PROVE \E s \in Nat : IsFree(t, k, s)
    BY DEF FreeColumn
  <2>1. ColOf(k, col) \in Nat /\ HasSlot(t.cells[k], ColOf(k, col))
    BY <1>4 DEF HasSlot
  <2>2. IsFree(t, k, ColOf(k, col))
    BY <1>6, <1>7, <2>1 DEF IsFree
  <2>3. QED
    BY <2>1, <2>2
<1>9. ReachesRight(t)
  BY <1>6, <1>7 DEF ReachesRight
<1>10. Covered(t)
  <2> SUFFICES ASSUME NEW r \in 1 .. row, NEW d \in 1 .. col
               PROVE  \E n \in DOMAIN t.cells : <<r, d>> \in SlotsOf(t.cells[n])
    BY <1>1 DEF Covered
  <2> DEFINE n == IdAt(t, r, d)
  <2>1. n \in DOMAIN t.cells
    BY <1>1, <1>3, IdInGrid
  <2>2. RowOf(n, col) = r /\ ColOf(n, col) = d
    BY <1>1, RowAndCol
  <2>3. <<r, d>> \in SlotsOf(t.cells[n])
    BY <1>4, <2>1, <2>2, SlotIn
  <2>4. QED
    BY <2>1, <2>3
<1>11. QED
  BY <1>1, <1>3, <1>5, <1>8, <1>9, <1>10 DEF Sound, t
-----------------------------------------------------------------------------
(* The screen.  Numbers of widgets are a permutation.                      *)
IsPerm(ids) ==
  /\ ids \in [Views -> Views]
  /\ IsInjective(ids)
  /\ \A n \in Views : \E w \in Views : ids[w] = n

LEMMA SwapPerm ==
  ASSUME NEW ids, IsPerm(ids), NEW x \in Views, NEW y \in Views
  PROVE  /\ IsPerm(Swap(ids, x, y))
         /\ Swap(ids, x, y)[x] = ids[y] /\ Swap(ids, x, y)[y] = ids[x]
         /\ \A w \in Views : w # x /\ w # y => Swap(ids, x, y)[w] = ids[w]
<1> DEFINE s == Swap(ids, x, y)
<1>1. ids \in [Views -> Views] /\ \A a, b \in Views : ids[a] = ids[b] => a = b
  BY DEF IsPerm, IsInjective
<1>2. /\ s \in [Views -> Views] /\ s[x] = ids[y] /\ s[y] = ids[x]
      /\ \A w \in Views : w # x /\ w # y => s[w] = ids[w]
  BY <1>1 DEF Swap
<1> HIDE DEF s
<1>3. \A a, b \in Views : s[a] = s[b] => a = b
  BY <1>1, <1>2
<1>4. ASSUME NEW n \in Views PROVE \E w \in Views : s[w] = n
  <2>1. PICK w \in Views : ids[w] = n
    BY DEF IsPerm
  <2>2. CASE w = x
    BY <1>2, <2>1, <2>2
  <2>3. CASE w = y
    BY <1>2, <2>1, <2>3
  <2>4. CASE w # x /\ w # y
    BY <1>2, <2>1, <2>4
  <2>5. QED
    BY <2>2, <2>3, <2>4
<1>5. IsPerm(s)
  BY <1>2, <1>3, <1>4 DEF IsPerm, IsInjective
<1>6. QED
  BY <1>2, <1>5 DEF s

Many(S) == \E a, b \in S : a # b

LEMMA ManyIs ==
  ASSUME NEW S, IsFiniteSet(S)
  PROVE  Cardinality(S) > 1 <=> Many(S)
<1>1. CASE S = {}
  BY <1>1, FS_EmptySet DEF Many
<1>2. CASE S # {}
  <2>1. PICK a \in S : TRUE
    BY <1>2
  <2>2. Cardinality(S) \in Nat /\ Cardinality(S) # 0
    BY <1>2, FS_CardinalityType, FS_EmptySet
  <2>3. Cardinality(S) = 1 <=> \E x : S = {x}
    BY FS_Singleton
  <2>4. (\E x : S = {x}) <=> ~Many(S)
    <3>1. ASSUME NEW x, S = {x} PROVE ~Many(S)
      BY <3>1 DEF Many
    <3>2. ASSUME ~Many(S) PROVE S = {a}
      BY <2>1, <3>2 DEF Many
    <3>3. QED
      BY <3>1, <3>2
  <2>5. QED
    BY <2>2, <2>3, <2>4
<1>3. QED
  BY <1>1, <1>2

(* A table that the widgets suffice for.                                   *)
Fits(t) == Sound(t) /\ t.row * t.col <= NumViews

LEMMA FitsViews ==
  ASSUME NEW t, Fits(t)
  PROVE  /\ DOMAIN t.cells \subseteq 1 .. t.row * t.col
         /\ DOMAIN t.cells \subseteq Views
         /\ IsFiniteSet(DOMAIN t.cells) /\ DOMAIN t.cells # {}
         /\ TableOK(t)
<1>1. Good(t) /\ Covered(t) /\ NumViews \in Nat
  BY ViewAssumption DEF Fits, Sound
<1>2. /\ t.row \in Nat \ {0} /\ t.col \in Nat \ {0} /\ t.row * t.col \in Nat
      /\ t.row * t.col <= NumViews
  BY <1>1, LastIsNat DEF Good, Last, Fits
<1>3. \A n \in DOMAIN t.cells : n \in 1 .. t.row * t.col /\ t.cells[n] \in Rects
  BY <1>1, CellInGrid DEF Last, InGrid
<1> DEFINE T == t.row * t.col
<1>4. DOMAIN t.cells \subseteq 1 .. T /\ T \in Nat /\ T <= NumViews
  BY <1>2, <1>3
<1> HIDE DEF T
<1>5. DOMAIN t.cells \subseteq Views
  BY <1>1, <1>4 DEF Views
<1>6. IsFiniteSet(DOMAIN t.cells)
  <2>1. IsFiniteSet(1 .. T)
    BY <1>4, FS_Interval
  <2>2. QED
    BY <1>4, <2>1, FS_Subset
<1>7. DOMAIN t.cells # {}
  <2>1. <<1, 1>> \in (1 .. t.row) \X (1 .. t.col)
    BY <1>2
  <2>2. PICK n \in DOMAIN t.cells : <<1, 1>> \in SlotsOf(t.cells[n])
    BY <1>1, <2>1 DEF Covered
  <2>3. QED
    BY <2>2
<1>8. TableOK(t)
  BY <1>2, <1>3 DEF TableOK, Rects
<1>9. QED
  BY <1>4, <1>5, <1>6, <1>7, <1>8 DEF T

(* What updateUI shows.                                                    *)
LEMMA LaidIs ==
  ASSUME NEW t, Fits(t), NEW ids, IsPerm(ids)
  PROVE  /\ DOMAIN Laid(t, ids) = {w \in Views : ids[w] \in DOMAIN t.cells}
         /\ Laid(t, ids) = [w \in DOMAIN Laid(t, ids) |-> Laid(t, ids)[w]]
         /\ \A w \in DOMAIN Laid(t, ids) :
              Laid(t, ids)[w] = t.cells[ids[w]] /\ Laid(t, ids)[w] \in Rects
         /\ DOMAIN Laid(t, ids) # {}
         /\ Cardinality(DOMAIN Laid(t, ids)) = 1 => ~Many(DOMAIN t.cells)
<1> DEFINE L == Laid(t, ids)
<1>1. Good(t) /\ Covered(t)
  BY DEF Fits, Sound
<1>2. /\ DOMAIN L = {w \in Views : ids[w] \in DOMAIN t.cells}
      /\ \A w \in DOMAIN L : L[w] = Place(t, ids[w])
      /\ L = [w \in DOMAIN L |-> L[w]]
  BY DEF Laid
<1>3. ASSUME NEW n \in DOMAIN t.cells PROVE Place(t, n) = t.cells[n] /\ t.cells[n] \in Rects
  <2> DEFINE a == t.cells[n]
  <2>1. InGrid(t, a) /\ n = IdAt(t, a.r1, a.c1)
    BY <1>1, CellInGrid
  <2>2. /\ a \in Rects /\ a.r1 \in Nat \ {0} /\ a.c1 \in 1 .. t.col /\ t.col \in Nat \ {0}
        /\ a.r2 \in Nat /\ a.c2 \in Nat
    BY <1>1, <2>1, GridFields
  <2>3. RowOf(n, t.col) = a.r1 /\ ColOf(n, t.col) = a.c1
    BY <2>1, <2>2, RowAndCol
  <2>4. Place(t, n) = Cell(a.r1, a.r1 + (a.r2 - a.r1), a.c1, a.c1 + (a.c2 - a.c1))
    BY <2>3 DEF Place
  <2>5. a.r1 + (a.r2 - a.r1) = a.r2 /\ a.c1 + (a.c2 - a.c1) = a.c2
    BY <2>2
  <2>6. a = Cell(a.r1, a.r2, a.c1, a.c2)
    BY <2>2 DEF Rects, Cell
  <2>7. QED
    BY <2>2, <2>4, <2>5, <2>6
<1> HIDE DEF L
<1>4. \A w \in DOMAIN L : L[w] = t.cells[ids[w]] /\ L[w] \in Rects
  BY <1>2, <1>3
<1>5. \A n \in DOMAIN t.cells : \E w \in DOMAIN L : ids[w] = n
  BY <1>2, FitsViews DEF IsPerm
<1>6. DOMAIN L # {}
  BY <1>5, FitsViews
<1>7. ASSUME Cardinality(DOMAIN L) = 1 PROVE ~Many(DOMAIN t.cells)
  <2>1. IsFiniteSet(DOMAIN L)
    <3>1. IsFiniteSet(Views)
      BY ViewAssumption, FS_Interval DEF Views
    <3>2. DOMAIN L \in SUBSET Views
      BY <1>2
    <3>3. QED
      BY <3>1, <3>2, FS_Subset
  <2>2. PICK x : DOMAIN L = {x}
    BY <1>7, <2>1, FS_Singleton
  <2>3. QED
    BY <1>5, <2>2 DEF Many
<1>8. QED
  BY <1>2, <1>4, <1>6, <1>7 DEF L

LEMMA NewTableFits ==
  ASSUME NEW layout \in Layouts
  PROVE  /\ Fits(NewTable(layout[1], layout[2]))
         /\ LET t == NewTable(layout[1], layout[2])
            IN  DOMAIN t.cells = 1 .. t.row * t.col
<1>1. layout[1] \in Nat \ {0} /\ layout[2] \in Nat \ {0} /\ layout[1] * layout[2] <= NumViews
  BY ViewAssumption
<1> DEFINE a == layout[1]  b == layout[2]
<1>2. a \in Nat \ {0} /\ b \in Nat \ {0} /\ a * b <= NumViews
  BY <1>1
<1> HIDE DEF a, b
<1>3. /\ Sound(NewTable(a, b))
      /\ NewTable(a, b).row = a /\ NewTable(a, b).col = b
      /\ DOMAIN NewTable(a, b).cells = 1 .. a * b
  BY <1>2, NewTableSound
<1>4. QED
  BY <1>2, <1>3 DEF Fits, a, b

LEMMA MergeFits ==
  ASSUME NEW t, Fits(t), NEW lt \in DOMAIN t.cells, NEW rb \in DOMAIN t.cells
  PROVE  Fits(Merge(t, lt, rb))
<1>1. Good(t)
  BY DEF Fits, Sound
<1>2. Merge(t, lt, rb).row = t.row /\ Merge(t, lt, rb).col = t.col
  BY <1>1, MergeIs DEF IsMerge
<1>3. Sound(Merge(t, lt, rb))
  BY MergeSound DEF Fits
<1>4. QED
  BY <1>2, <1>3 DEF Fits

(* A single cell is as large as the table.                                 *)
LEMMA SingleCell ==
  ASSUME NEW t, Fits(t), ~Many(DOMAIN t.cells), NEW n \in DOMAIN t.cells
  PROVE  t.cells[n] = Cell(1, t.row + 1, 1, t.col + 1)
<1> DEFINE a == t.cells[n]
<1>1. Good(t) /\ Covered(t)
  BY DEF Fits, Sound
<1>2. InGrid(t, a)
  BY <1>1, CellInGrid
<1>3. /\ a \in Rects /\ a.r1 \in Nat \ {0} /\ a.r2 \in Nat /\ a.c1 \in 1 .. t.col /\ a.c2 \in Nat
      /\ a.r2 <= t.row + 1 /\ a.c2 <= t.col + 1
      /\ t.row \in Nat \ {0} /\ t.col \in Nat \ {0}
  BY <1>1, <1>2, GridFields
<1>4. \A slot \in (1 .. t.row) \X (1 .. t.col) : slot \in SlotsOf(a)
  BY <1>1 DEF Covered, Many
<1>5. <<1, 1>> \in SlotsOf(a) /\ <<t.row, t.col>> \in SlotsOf(a)
  <2>1. <<1, 1>> \in (1 .. t.row) \X (1 .. t.col) /\ <<t.row, t.col>> \in (1 .. t.row) \X (1 .. t.col)
    BY <1>3
  <2>2. QED
    BY <1>4, <2>1
<1>6. /\ a.r1 <= 1 /\ a.c1 <= 1 /\ t.row < a.r2 /\ t.col < a.c2
  BY <1>3, <1>5, SlotIn
<1>7. a.r1 = 1 /\ a.c1 = 1 /\ a.r2 = t.row + 1 /\ a.c2 = t.col + 1
  BY <1>3, <1>6
<1>8. Cell(1, t.row + 1, 1, t.col + 1) \in Rects
  BY <1>3, CellFields
<1>9. QED
  BY <1>3, <1>7, <1>8, CellFields, SameRect
-----------------------------------------------------------------------------
(* The inductive invariant.  The screen shows the table, or one widget on  *)
(* all of it.  The layout saved last is one that can be shown, unless none *)
(* was saved; then the table is still the first one, which a double click  *)
(* cannot leave without saving it.                                         *)
Whole(t) == Cell(1, t.row + 1, 1, t.col + 1)

One == bStretch /\ Many(DOMAIN table.cells)

Shown ==
  /\ One => /\ \E w \in Views : Visible = {w} /\ area[w] = Whole(table)
            /\ prev_table = table
  /\ ~One => /\ Visible = {w \in Views : playerid[w] \in DOMAIN table.cells}
             /\ \A w \in Visible : area[w] = table.cells[playerid[w]]

ScreenInv ==
  /\ Fits(table)
  /\ prev_table # NoTable => Fits(prev_table)
  /\ prev_table = NoTable => DOMAIN table.cells = 1 .. table.row * table.col
  /\ IsPerm(playerid)
  /\ bStretch \in BOOLEAN
  /\ area = [w \in Visible |-> area[w]]
  /\ Visible \subseteq Views /\ Visible # {}
  /\ \A w \in Visible : area[w] \in Rects
  /\ playing \subseteq Views
  /\ action \in {"STRETCH", "EXCHANGE", "MERGE"}
  /\ Shown

LEMMA NoTableFits == ~Fits(NoTable) /\ TableOK(NoTable)
<1>1. NoTable.row = 0 /\ NoTable.col = 0 /\ DOMAIN NoTable.cells = {}
  BY DEF NoTable
<1>2. ~Fits(NoTable)
  BY <1>1 DEF Fits, Sound, Good
<1>3. 0 * 0 = 0 /\ NumViews \in Nat
  BY ViewAssumption
<1>4. TableOK(NoTable)
  BY <1>1, <1>3 DEF TableOK
<1>5. QED
  BY <1>2, <1>4

LEMMA ScreenInit == Init => ScreenInv
<1> SUFFICES ASSUME Init PROVE ScreenInv
  OBVIOUS
<1>1. PICK layout \in Layouts : table = NewTable(layout[1], layout[2])
  BY DEF Init
<1>2. Fits(table) /\ DOMAIN table.cells = 1 .. table.row * table.col
  BY <1>1, NewTableFits
<1>3. IsPerm(playerid)
  <2>1. playerid = [w \in Views |-> w]
    BY DEF Init
  <2>2. QED
    BY <2>1 DEF IsPerm, IsInjective
<1>4. area = Laid(table, playerid) /\ bStretch = FALSE /\ prev_table = NoTable
      /\ playing = {} /\ action \in {"STRETCH", "EXCHANGE", "MERGE"}
  BY DEF Init
<1> DEFINE L == Laid(table, playerid)
<1>a. /\ DOMAIN L = {w \in Views : playerid[w] \in DOMAIN table.cells}
      /\ L = [w \in DOMAIN L |-> L[w]]
      /\ \A w \in DOMAIN L : L[w] = table.cells[playerid[w]] /\ L[w] \in Rects
      /\ DOMAIN L # {}
  BY <1>2, <1>3, LaidIs
<1>b. area = L
  BY <1>4
<1> HIDE DEF L
<1>5. /\ area = [w \in Visible |-> area[w]]
      /\ Visible = {w \in Views : playerid[w] \in DOMAIN table.cells}
      /\ \A w \in Visible : area[w] = table.cells[playerid[w]] /\ area[w] \in Rects
      /\ Visible # {}
  BY <1>a, <1>b DEF Visible
<1>6. Shown
  BY <1>4, <1>5 DEF Shown, One
<1>7. QED
  BY <1>2, <1>3, <1>4, <1>5, <1>6 DEF ScreenInv

(* After updateUI, and after restoreLayout, the screen shows the table.    *)
LEMMA Relaid ==
  ASSUME Fits(table'), IsPerm(playerid'),
         area' = Laid(table', playerid'),
         bStretch' = (Cardinality(DOMAIN Laid(table', playerid')) = 1) \/ bStretch' = FALSE,
         prev_table' # NoTable => Fits(prev_table'),
         prev_table' = NoTable => DOMAIN (table'.cells) = 1 .. table'.row * table'.col,
         playing' \subseteq Views,
         action' \in {"STRETCH", "EXCHANGE", "MERGE"}
  PROVE  ScreenInv'
<1> DEFINE L == Laid(table', playerid')
<1>a. /\ DOMAIN L = {w \in Views : playerid'[w] \in DOMAIN (table'.cells)}
      /\ L = [w \in DOMAIN L |-> L[w]]
      /\ \A w \in DOMAIN L : L[w] = table'.cells[playerid'[w]] /\ L[w] \in Rects
      /\ DOMAIN L # {}
      /\ Cardinality(DOMAIN L) = 1 => ~Many(DOMAIN (table'.cells))
  BY LaidIs
<1>b. area' = L /\ (bStretch' = (Cardinality(DOMAIN L) = 1) \/ bStretch' = FALSE)
  OBVIOUS
<1> HIDE DEF L
<1>1. /\ DOMAIN (area') = {w \in Views : playerid'[w] \in DOMAIN (table'.cells)}
      /\ area' = [w \in DOMAIN (area') |-> area'[w]]
      /\ \A w \in DOMAIN (area') : area'[w] = table'.cells[playerid'[w]] /\ area'[w] \in Rects
      /\ DOMAIN (area') # {}
  BY <1>a, <1>b
<1>2. bStretch' \in BOOLEAN /\ (bStretch' => ~Many(DOMAIN (table'.cells)))
  BY <1>a, <1>b
<1>3. ~One'
  BY <1>2 DEF One
<1>4. Shown'
  BY <1>1, <1>3 DEF Shown, Visible
<1>5. QED
  BY <1>1, <1>2, <1>4 DEF ScreenInv, Visible

LEMMA ScreenSetLayout == ScreenInv /\ SetLayout => ScreenInv'
<1> SUFFICES ASSUME ScreenInv, SetLayout PROVE ScreenInv'
  OBVIOUS
<1>1. PICK layout \in Layouts :
        /\ table' = NewTable(layout[1], layout[2])
        /\ prev_table' = table
        /\ UpdateUI(table', playerid)
        /\ UNCHANGED <<playerid, playing, action>>
  BY DEF SetLayout
<1>2. Fits(table')
  BY <1>1, NewTableFits
<1>3. Fits(prev_table') /\ prev_table' # NoTable
  BY <1>1, NoTableFits DEF ScreenInv
<1>4. playerid' = playerid /\ playing' = playing /\ action' = action
  BY <1>1
<1>5. /\ area' = Laid(table', playerid')
      /\ bStretch' = (Cardinality(DOMAIN Laid(table', playerid')) = 1)
  BY <1>1, <1>4 DEF UpdateUI
<1>6. QED
  BY <1>2, <1>3, <1>4, <1>5, Relaid DEF ScreenInv

LEMMA ScreenResize == ScreenInv /\ Resize => ScreenInv'
<1> SUFFICES ASSUME ScreenInv, Resize PROVE ScreenInv'
  OBVIOUS
<1>1. /\ UpdateUI(table, playerid)
      /\ table' = table /\ prev_table' = prev_table /\ playerid' = playerid
      /\ playing' = playing /\ action' = action
  BY DEF Resize, tableVars
<1>2. /\ area' = Laid(table', playerid')
      /\ bStretch' = (Cardinality(DOMAIN Laid(table', playerid')) = 1)
  BY <1>1 DEF UpdateUI
<1>3. /\ Fits(table') /\ (prev_table' # NoTable => Fits(prev_table'))
      /\ (prev_table' = NoTable => DOMAIN (table'.cells) = 1 .. table'.row * table'.col)
      /\ IsPerm(playerid') /\ playing' \subseteq Views
      /\ action' \in {"STRETCH", "EXCHANGE", "MERGE"}
  BY <1>1 DEF ScreenInv
<1>4. QED
  BY <1>2, <1>3, Relaid

LEMMA ScreenPlay == ScreenInv /\ (Play \/ StopPlaying) => ScreenInv'
<1> SUFFICES ASSUME ScreenInv, Play \/ StopPlaying PROVE ScreenInv'
  OBVIOUS
<1>1. /\ table' = table /\ prev_table' = prev_table /\ playerid' = playerid
      /\ bStretch' = bStretch /\ area' = area /\ action' = action
      /\ playing' \subseteq Views
  BY DEF Play, StopPlaying, tableVars, ScreenInv
<1>2. Visible' = Visible /\ Shown'
  BY <1>1 DEF Visible, Shown, One, ScreenInv
<1>3. QED
  BY <1>1, <1>2 DEF ScreenInv

(* The widget at a position that some widget covers.                       *)
LEMMA PlayerAtIs ==
  ASSUME ScreenInv, NEW pos, \E w \in Visible : pos \in SlotsOf(area[w])
  PROVE  PlayerAt(pos) \in Visible /\ pos \in SlotsOf(area[PlayerAt(pos)])
<1> DEFINE S == {w \in Visible : pos \in SlotsOf(area[w])}
<1>1. S \in SUBSET Nat /\ S # {}
  BY ViewAssumption DEF ScreenInv, Views
<1>2. PICK w \in S : \A v \in S : w <= v
  BY <1>1, Least
<1>3. /\ w \in Visible /\ pos \in SlotsOf(area[w])
      /\ \A v \in Visible : pos \in SlotsOf(area[v]) => w <= v
  BY <1>2
<1>4. QED
  BY <1>3 DEF PlayerAt

LEMMA WholeSlots ==
  ASSUME NEW t, t.row \in Nat, t.col \in Nat
  PROVE  \A r \in 1 .. t.row, c \in 1 .. t.col : <<r, c>> \in SlotsOf(Whole(t))
<1>1. Whole(t) \in Rects /\ Whole(t).r1 = 1 /\ Whole(t).r2 = t.row + 1
      /\ Whole(t).c1 = 1 /\ Whole(t).c2 = t.col + 1
  BY CellFields DEF Whole
<1>2. ASSUME NEW r \in 1 .. t.row, NEW c \in 1 .. t.col PROVE <<r, c>> \in SlotsOf(Whole(t))
  <2>1. r \in Int /\ c \in Int /\ 1 <= r /\ r < t.row + 1 /\ 1 <= c /\ c < t.col + 1
    OBVIOUS
  <2>2. QED
    BY <1>1, <2>1, SlotIn
<1>3. QED
  BY <1>2

(* Every slot of the table is covered by a widget.                         *)
LEMMA SlotsCovered ==
  ASSUME ScreenInv, NEW r \in 1 .. table.row, NEW c \in 1 .. table.col
  PROVE  \E w \in Visible : <<r, c>> \in SlotsOf(area[w])
<1>1. Fits(table) /\ Good(table) /\ Covered(table)
  BY DEF ScreenInv, Fits, Sound
<1>2. CASE One
  <2>1. PICK w \in Views : Visible = {w} /\ area[w] = Whole(table)
    BY <1>2 DEF ScreenInv, Shown
  <2>2. table.row \in Nat /\ table.col \in Nat
    BY <1>1 DEF Good
  <2>3. QED
    BY <2>1, <2>2, WholeSlots
<1>3. CASE ~One
  <2>1. PICK n \in DOMAIN table.cells : <<r, c>> \in SlotsOf(table.cells[n])
    BY <1>1 DEF Covered
  <2>2. PICK w \in Views : playerid[w] = n
    BY <1>1, FitsViews DEF ScreenInv, IsPerm
  <2>3. w \in Visible /\ area[w] = table.cells[n]
    BY <1>3, <2>2 DEF ScreenInv, Shown
  <2>4. QED
    BY <2>1, <2>3
<1>4. QED
  BY <1>2, <1>3
-----------------------------------------------------------------------------
(* stretch out.                                                            *)
LEMMA ScreenStretchOut ==
  ASSUME ScreenInv, ~bStretch, NEW w \in Visible, StretchOut(w),
         UNCHANGED <<playerid, playing, action>>
  PROVE  ScreenInv'
<1>1. /\ area' = [v \in {w} |-> Whole(table)]
      /\ prev_table' = table /\ bStretch' = TRUE /\ table' = table
      /\ playerid' = playerid /\ playing' = playing /\ action' = action
  BY DEF StretchOut, Whole
<1>2. DOMAIN (area') = {w} /\ area'[w] = Whole(table)
  BY <1>1
<1>3. Fits(table) /\ table # NoTable /\ w \in Views /\ Good(table)
  BY NoTableFits DEF ScreenInv, Fits, Sound
<1>4. Whole(table) \in Rects
  <2>1. table.row \in Nat /\ table.col \in Nat
    BY <1>3 DEF Good
  <2>2. QED
    BY <2>1, CellFields DEF Whole
<1>5. One' <=> Many(DOMAIN table.cells)
  BY <1>1 DEF One
<1>6. Shown'
  <2>1. CASE Many(DOMAIN table.cells)
    BY <1>1, <1>2, <1>3, <1>5, <2>1 DEF Shown, Visible
  <2>2. CASE ~Many(DOMAIN table.cells)
    <3>1. ~One /\ Visible = {v \in Views : playerid[v] \in DOMAIN table.cells}
      BY DEF One, ScreenInv, Shown
    <3>2. \A v \in Visible : v = w
      BY <1>3, <2>2, <3>1 DEF Many, ScreenInv, IsPerm, IsInjective
    <3>3. DOMAIN (area') = {v \in Views : playerid[v] \in DOMAIN table.cells}
      BY <1>2, <3>1, <3>2
    <3>4. table.cells[playerid[w]] = Whole(table)
      BY <1>3, <2>2, <3>1, SingleCell DEF Whole
    <3>5. QED
      BY <1>1, <1>2, <1>5, <2>2, <3>3, <3>4 DEF Shown, Visible
  <2>3. QED
    BY <2>1, <2>2
<1>7. /\ area' = [v \in DOMAIN (area') |-> area'[v]]
      /\ DOMAIN (area') \subseteq Views /\ DOMAIN (area') # {}
      /\ \A v \in DOMAIN (area') : area'[v] \in Rects
  BY <1>1, <1>2, <1>3, <1>4
<1>8. QED
  BY <1>1, <1>3, <1>6, <1>7 DEF ScreenInv, Visible

(* stretch back.                                                           *)
LEMMA ScreenStretchBack ==
  ASSUME ScreenInv, bStretch, StretchBack, <<table.row, table.col>> # <<1, 1>>,
         UNCHANGED <<playerid, playing, action>>
  PROVE  ScreenInv'
<1>1. /\ table' = prev_table /\ prev_table' = table /\ bStretch' = FALSE
      /\ area' = Laid(table', playerid)
      /\ playerid' = playerid /\ playing' = playing /\ action' = action
  BY DEF StretchBack
<1>2. Fits(table) /\ table # NoTable /\ Good(table)
  BY NoTableFits DEF ScreenInv, Fits, Sound
<1>3. prev_table # NoTable
  <2>1. SUFFICES ASSUME prev_table = NoTable PROVE FALSE
    OBVIOUS
  <2>2. ~One
    BY <1>2, <2>1 DEF ScreenInv, Shown
  <2>3. ~Many(DOMAIN table.cells)
    BY <2>2 DEF One
  <2>4. DOMAIN table.cells = 1 .. table.row * table.col
    BY <2>1 DEF ScreenInv
  <2>5. /\ table.row \in Nat \ {0} /\ table.col \in Nat \ {0}
        /\ table.row * table.col \in Nat
    BY <1>2, LastIsNat DEF Good, Last
  <2>6. ~(2 <= table.row * table.col)
    <3>1. SUFFICES ASSUME 2 <= table.row * table.col PROVE FALSE
      OBVIOUS
    <3> DEFINE T == table.row * table.col
    <3>2. T \in Nat /\ 2 <= T /\ DOMAIN table.cells = 1 .. T
      BY <2>4, <2>5, <3>1
    <3> HIDE DEF T
    <3>3. 1 \in DOMAIN table.cells /\ 2 \in DOMAIN table.cells
      BY <3>2
    <3>4. QED
      BY <2>3, <3>3 DEF Many
  <2> DEFINE a == table.row  b == table.col
  <2>7. a \in Nat \ {0} /\ b \in Nat \ {0} /\ a * b \in Nat /\ ~(2 <= a * b) /\ ~(a = 1 /\ b = 1)
    BY <2>5, <2>6
  <2> HIDE DEF a, b
  <2>8. CASE 2 <= a
    <3>1. 2 * b <= a * b
      BY <2>7, <2>8, TimesMonotone
    <3>2. QED
      BY <2>7, <3>1
  <2>9. CASE a = 1
    <3>1. a * b = b
      BY <2>7, <2>9
    <3>2. QED
      BY <2>7, <2>9, <3>1
  <2>10. QED
    BY <2>7, <2>8, <2>9
<1>4. /\ Fits(table') /\ Fits(prev_table') /\ prev_table' # NoTable
  BY <1>1, <1>2, <1>3 DEF ScreenInv
<1>5. area' = Laid(table', playerid') /\ IsPerm(playerid') /\ playing' \subseteq Views
      /\ action' \in {"STRETCH", "EXCHANGE", "MERGE"}
  BY <1>1 DEF ScreenInv
<1>6. QED
  BY <1>1, <1>4, <1>5, Relaid

LEMMA ScreenDoubleClick == ScreenInv /\ DoubleClick => ScreenInv'
<1> SUFFICES ASSUME ScreenInv, DoubleClick PROVE ScreenInv'
  OBVIOUS
<1>1. /\ <<table.row, table.col>> # <<1, 1>>
      /\ UNCHANGED <<playerid, playing, action>>
  BY DEF DoubleClick
<1>2. CASE bStretch /\ StretchBack
  BY <1>1, <1>2, ScreenStretchBack
<1>3. ASSUME ~bStretch, NEW pos \in Positions, StretchOut(PlayerAt(pos)) PROVE ScreenInv'
  <2>1. PlayerAt(pos) \in Visible
    BY <1>3, PlayerAtIs DEF Positions
  <2>2. QED
    BY <1>1, <1>3, <2>1, ScreenStretchOut
<1>4. QED
  BY <1>2, <1>3 DEF DoubleClick

(* exchangeCells.                                                          *)
LEMMA ScreenExchange ==
  ASSUME ScreenInv, NEW x \in Visible, NEW y \in Visible, x # y,
         ExchangeCells(x, y), action' \in {"STRETCH", "EXCHANGE", "MERGE"}
  PROVE  ScreenInv'
<1>1. ~One
  BY DEF ScreenInv, Shown
<1>2. x \in Views /\ y \in Views /\ IsPerm(playerid)
  BY DEF ScreenInv
<1>3. /\ playerid' = Swap(playerid, x, y) /\ area' = Swap(area, x, y)
      /\ table' = table /\ prev_table' = prev_table /\ bStretch' = bStretch /\ playing' = playing
  BY DEF ExchangeCells, tableVars
<1>4. /\ IsPerm(playerid')
      /\ playerid'[x] = playerid[y] /\ playerid'[y] = playerid[x]
      /\ \A w \in Views : w # x /\ w # y => playerid'[w] = playerid[w]
  BY <1>2, <1>3, SwapPerm
<1>5. /\ DOMAIN (area') = Visible
      /\ area' = [w \in DOMAIN (area') |-> area'[w]]
      /\ area'[x] = area[y] /\ area'[y] = area[x]
      /\ \A w \in Visible : w # x /\ w # y => area'[w] = area[w]
  BY <1>3 DEF Swap, Visible
<1>6. /\ Visible = {w \in Views : playerid[w] \in DOMAIN table.cells}
      /\ \A w \in Visible : area[w] = table.cells[playerid[w]]
  BY <1>1 DEF ScreenInv, Shown
<1>7. \A w \in Views : w \in Visible <=> playerid'[w] \in DOMAIN table.cells
  BY <1>2, <1>4, <1>6
<1>8. \A w \in Visible : area'[w] = table.cells[playerid'[w]] /\ area'[w] \in Rects
  BY <1>2, <1>4, <1>5, <1>6 DEF ScreenInv
<1>9. ~One'
  BY <1>1, <1>3 DEF One
<1>10. Shown'
  <2>1. Visible' = {w \in Views : playerid'[w] \in DOMAIN (table'.cells)}
    BY <1>3, <1>5, <1>6, <1>7 DEF Visible
  <2>2. \A w \in Visible' : area'[w] = table'.cells[playerid'[w]]
    BY <1>3, <1>5, <1>8 DEF Visible
  <2>3. QED
    BY <1>9, <2>1, <2>2 DEF Shown
<1>11. QED
  BY <1>3, <1>4, <1>5, <1>8, <1>10 DEF ScreenInv, Visible

(* The widget with a number; the search in mergeCells.                     *)
LEMMA PlayerByIdIs ==
  ASSUME IsPerm(playerid), NEW n \in Views
  PROVE  /\ PlayerById(n) \in Views /\ playerid[PlayerById(n)] = n
         /\ \A w \in Views : playerid[w] = n => w = PlayerById(n)
<1>1. \E w \in Views : playerid[w] = n
  BY DEF IsPerm
<1>2. PlayerById(n) \in Views /\ playerid[PlayerById(n)] = n
  BY <1>1 DEF PlayerById
<1>3. QED
  BY <1>2 DEF IsPerm, IsInjective

LEMMA NumberedIs ==
  ASSUME IsPerm(playerid), NEW lt \in Views, NEW rb \in Views
  PROVE  \E n \in Views :
            /\ Numbered(lt, rb) = Swap(playerid, PlayerById(n), PlayerById(lt))
            /\ IsPerm(Numbered(lt, rb))
            /\ IF PlayingFrom(lt, rb) = {} THEN n = lt ELSE n \in PlayingFrom(lt, rb)
<1> DEFINE found == PlayingFrom(lt, rb)
           first == IF found = {} THEN lt ELSE CHOOSE n \in found : \A m \in found : n <= m
<1>1. found \subseteq Views /\ found \in SUBSET Nat
  BY ViewAssumption DEF PlayingFrom, Views
<1>2. first \in Views /\ IF found = {} THEN first = lt ELSE first \in found
  <2>1. CASE found = {}
    BY <2>1
  <2>2. CASE found # {}
    <3>1. \E n \in found : \A m \in found : n <= m
      BY <1>1, <2>2, Least
    <3>2. QED
      BY <1>1, <2>2, <3>1
  <2>3. QED
    BY <2>1, <2>2
<1>3. Numbered(lt, rb) = Swap(playerid, PlayerById(first), PlayerById(lt))
  BY DEF Numbered
<1> HIDE DEF found, first
<1>4. IsPerm(Numbered(lt, rb))
  BY <1>2, <1>3, PlayerByIdIs, SwapPerm
<1>5. QED
  BY <1>2, <1>3, <1>4 DEF found

LEMMA ScreenMerge ==
  ASSUME ScreenInv, NEW x \in Visible, NEW y \in Visible, x # y,
         MergeCells(playerid[x], playerid[y]), action' \in {"STRETCH", "EXCHANGE", "MERGE"}
  PROVE  ScreenInv'
<1> DEFINE lt == playerid[x]  rb == playerid[y]
<1>1. ~One
  BY DEF ScreenInv, Shown
<1>2. lt \in DOMAIN table.cells /\ rb \in DOMAIN table.cells /\ Fits(table) /\ IsPerm(playerid)
  BY <1>1 DEF ScreenInv, Shown
<1>3. lt \in Views /\ rb \in Views
  BY <1>2, FitsViews
<1>4. /\ playerid' = Numbered(lt, rb)
      /\ prev_table' = table /\ table' = Merge(table, lt, rb)
      /\ UpdateUI(table', playerid') /\ playing' = playing
  BY DEF MergeCells
<1> HIDE DEF lt, rb
<1>5. Fits(table')
  BY <1>2, <1>4, MergeFits
<1>6. IsPerm(playerid')
  BY <1>2, <1>3, <1>4, NumberedIs
<1>7. Fits(prev_table') /\ prev_table' # NoTable
  BY <1>2, <1>4, NoTableFits
<1>8. /\ area' = Laid(table', playerid')
      /\ bStretch' = (Cardinality(DOMAIN Laid(table', playerid')) = 1)
  BY <1>4 DEF UpdateUI
<1>9. playing' \subseteq Views
  BY <1>4 DEF ScreenInv
<1>10. QED
  BY <1>5, <1>6, <1>7, <1>8, <1>9, Relaid
-----------------------------------------------------------------------------
LEMMA PositionFields ==
  ASSUME ScreenInv, NEW pos \in Positions
  PROVE  /\ pos[1] \in 1 .. table.row /\ pos[2] \in 1 .. table.col
         /\ PlayerAt(pos) \in Visible
<1>1. pos \in (1 .. table.row) \X (1 .. table.col) /\ \E w \in Visible : pos \in SlotsOf(area[w])
  BY DEF Positions
<1>2. QED
  BY <1>1, PlayerAtIs

LEMMA ScreenDrags == ScreenInv /\ UserDrags => ScreenInv'
<1> SUFFICES ASSUME ScreenInv, UserDrags PROVE ScreenInv'
  OBVIOUS
<1>1. PICK from \in Positions, to \in Positions, kind \in {"EXCHANGE", "MERGE", action} :
        Drag(from, to, kind)
  BY DEF UserDrags
<1> DEFINE r == Smaller(from[1], to[1])  c == Smaller(from[2], to[2])
           q == Larger(from[1], to[1])   d == Larger(from[2], to[2])
<1>2. r \in 1 .. table.row /\ c \in 1 .. table.col /\ q \in 1 .. table.row /\ d \in 1 .. table.col
  BY PositionFields DEF Smaller, Larger
<1>3. /\ action' = kind
      /\ CASE kind = "EXCHANGE" /\ PlayerAt(from) # PlayerAt(to) ->
                ExchangeCells(PlayerAt(from), PlayerAt(to))
           [] kind = "MERGE" /\ PlayerAt(<<r, c>>) # PlayerAt(<<q, d>>) ->
                MergeCells(playerid[PlayerAt(<<r, c>>)], playerid[PlayerAt(<<q, d>>)])
           [] OTHER -> UNCHANGED <<tableVars, bStretch, playerid, area, playing>>
  BY <1>1 DEF Drag
<1> HIDE DEF r, c, q, d
<1>4. action' \in {"STRETCH", "EXCHANGE", "MERGE"}
  BY <1>3 DEF ScreenInv
<1>5. CASE kind = "EXCHANGE" /\ PlayerAt(from) # PlayerAt(to)
  <2>1. ExchangeCells(PlayerAt(from), PlayerAt(to))
    BY <1>3, <1>5
  <2>2. PlayerAt(from) \in Visible /\ PlayerAt(to) \in Visible
    BY PositionFields
  <2>3. QED
    BY <1>4, <1>5, <2>1, <2>2, ScreenExchange
<1>6. CASE kind = "MERGE" /\ PlayerAt(<<r, c>>) # PlayerAt(<<q, d>>)
  <2>1. MergeCells(playerid[PlayerAt(<<r, c>>)], playerid[PlayerAt(<<q, d>>)])
    BY <1>3, <1>6
  <2>2. PlayerAt(<<r, c>>) \in Visible /\ PlayerAt(<<q, d>>) \in Visible
    BY <1>2, SlotsCovered, PlayerAtIs
  <2>3. QED
    BY <1>4, <1>6, <2>1, <2>2, ScreenMerge
<1>7. CASE /\ ~(kind = "EXCHANGE" /\ PlayerAt(from) # PlayerAt(to))
           /\ ~(kind = "MERGE" /\ PlayerAt(<<r, c>>) # PlayerAt(<<q, d>>))
  <2>1. UNCHANGED <<tableVars, bStretch, playerid, area, playing>>
    BY <1>3, <1>7
  <2>2. /\ table' = table /\ prev_table' = prev_table /\ playerid' = playerid
        /\ bStretch' = bStretch /\ area' = area /\ playing' = playing
    BY <2>1 DEF tableVars
  <2>3. Visible' = Visible /\ Shown'
    BY <2>2 DEF Visible, Shown, One, ScreenInv
  <2>4. QED
    BY <1>4, <2>2, <2>3 DEF ScreenInv
<1>8. QED
  BY <1>5, <1>6, <1>7

LEMMA ScreenStep == ScreenInv /\ [Next]_vars => ScreenInv'
<1> SUFFICES ASSUME ScreenInv, [Next]_vars PROVE ScreenInv'
  OBVIOUS
<1>1. CASE SetLayout
  BY <1>1, ScreenSetLayout
<1>2. CASE UserDrags
  BY <1>2, ScreenDrags
<1>3. CASE DoubleClick
  BY <1>3, ScreenDoubleClick
<1>4. CASE Resize
  BY <1>4, ScreenResize
<1>5. CASE Play \/ StopPlaying
  BY <1>5, ScreenPlay
<1>6. CASE UNCHANGED vars
  <2>1. /\ table' = table /\ prev_table' = prev_table /\ playerid' = playerid
        /\ bStretch' = bStretch /\ area' = area /\ playing' = playing /\ action' = action
    BY <1>6 DEF vars, tableVars
  <2>2. Visible' = Visible /\ Shown'
    BY <2>1 DEF Visible, Shown, One, ScreenInv
  <2>3. QED
    BY <2>1, <2>2 DEF ScreenInv
<1>7. QED
  BY <1>1, <1>2, <1>3, <1>4, <1>5, <1>6 DEF Next

LEMMA ScreenAlways == Spec => []ScreenInv
  BY ScreenInit, ScreenStep, PTL DEF Spec

(* However the user lays out, merges, stretches and exchanges, the cells   *)
(* cover the grid, each in its place, on every table of at most NumViews   *)
(* slots.                                                                  *)
THEOREM TableAlwaysCovered == Spec => []TableInv
<1>1. ScreenInv => TableInv
  <2> SUFFICES ASSUME ScreenInv PROVE TableInv
    OBVIOUS
  <2>1. Fits(table) /\ Good(table) /\ Covered(table)
    BY DEF ScreenInv, Fits, Sound
  <2>2. TableOK(table) /\ TableOK(prev_table)
    BY <2>1, FitsViews, NoTableFits DEF ScreenInv
  <2>3. TypeOK
    BY <2>2 DEF TypeOK, ScreenInv, IsPerm, Rects
  <2>4. ASSUME NEW n \in DOMAIN table.cells
        PROVE  LET cell == table.cells[n]
               IN /\ n = IdAt(table, cell.r1, cell.c1)
                  /\ cell.r1 < cell.r2 /\ cell.r2 <= table.row + 1
                  /\ cell.c1 < cell.c2 /\ cell.c2 <= table.col + 1
    BY <2>1, CellInGrid, GridFields
  <2>5. CellsCover
    BY <2>1, <2>4 DEF CellsCover, Covered
  <2>6. QED
    BY <2>3, <2>5 DEF TableInv
<1>2. QED
  BY <1>1, ScreenAlways, PTL

(* The screen shows the table, or one widget alone that a second double    *)
(* click puts back, in every order of drags, double clicks and resizes.    *)
THEOREM AlwaysShowsTheTable == Spec => []ShowsTheTable
<1>1. ScreenInv => ShowsTheTable
  <2> SUFFICES ASSUME ScreenInv PROVE ShowsTheTable
    OBVIOUS
  <2>1. IsFiniteSet(DOMAIN table.cells)
    BY FitsViews DEF ScreenInv
  <2>2. Stretched <=> One
    BY <2>1, ManyIs DEF Stretched, One
  <2>3. CASE One
    <3>1. PICK w \in Views : Visible = {w} /\ area[w] = Whole(table)
      BY <2>3 DEF ScreenInv, Shown
    <3>2. Cardinality(Visible) = 1
      BY <3>1, FS_Singleton
    <3>3. prev_table = table
      BY <2>3 DEF ScreenInv, Shown
    <3>4. QED
      BY <2>2, <2>3, <3>1, <3>2, <3>3 DEF ShowsTheTable, Whole
  <2>4. CASE ~One
    BY <2>2, <2>4 DEF ShowsTheTable, ScreenInv, Shown
  <2>5. QED
    BY <2>3, <2>4
<1>2. QED
  BY <1>1, ScreenAlways, PTL
-----------------------------------------------------------------------------
(* What a merge does to widgets that play: those of the cells it absorbs   *)
(* are under the new cell, the others keep their cells, but for the one    *)
(* the search found, which moves to the new cell.                          *)
LEMMA MergeKeeps ==
  ASSUME ScreenInv, NEW lt \in DOMAIN table.cells, NEW rb \in DOMAIN table.cells,
         MergeCells(lt, rb),
         LET new == Merged(table, lt, rb) IN IdAt(table, new.r1, new.c1) = lt
  PROVE  LET new == Merged(table, lt, rb)
         IN /\ PlayingFrom(lt, rb) # {} =>
                 \E w \in playing : w \in DOMAIN area' /\ area'[w] = new
            /\ \A w \in playing \cap Visible :
                 w \in DOMAIN area' \/ Overlaps(area[w], new)
<1> DEFINE f == Sweep(table, lt, rb)  new == Merged(table, lt, rb)  u == Merge(table, lt, rb)
<1>1. Fits(table) /\ Good(table) /\ IsPerm(playerid)
  BY DEF ScreenInv, Fits, Sound
<1>2. IsSweep(table, f) /\ IsMerge(table, f, u) /\ new = f[Last(table)]
  BY <1>1, MergeIs
<1>3. NewId(table, f) = lt
  BY <1>2 DEF NewId
<1>4. Fits(u)
  BY <1>1, MergeFits
<1>5. lt \in Views /\ rb \in Views
  BY <1>1, FitsViews
<1>6. /\ playerid' = Numbered(lt, rb) /\ area' = Laid(u, playerid')
  BY DEF MergeCells, UpdateUI
<1>7. PICK n \in Views :
        /\ Numbered(lt, rb) = Swap(playerid, PlayerById(n), PlayerById(lt))
        /\ IsPerm(Numbered(lt, rb))
        /\ IF PlayingFrom(lt, rb) = {} THEN n = lt ELSE n \in PlayingFrom(lt, rb)
  BY <1>1, <1>5, NumberedIs
<1> DEFINE ids == Numbered(lt, rb)  x == PlayerById(n)  y == PlayerById(lt)
<1>8. /\ x \in Views /\ y \in Views /\ playerid[x] = n /\ playerid[y] = lt
      /\ \A w \in Views : playerid[w] = lt => w = y
  BY <1>1, <1>5, PlayerByIdIs
<1>a. ids = Swap(playerid, x, y) /\ IsPerm(ids)
  BY <1>7
<1>b. area' = Laid(u, ids)
  BY <1>6
<1> HIDE DEF x, y, ids, u
<1>9. /\ ids[x] = lt /\ \A w \in Views : w # x /\ w # y => ids[w] = playerid[w]
  <2>0. IsPerm(playerid) /\ x \in Views /\ y \in Views
    BY <1>1, <1>8
  <2>1. /\ Swap(playerid, x, y)[x] = playerid[y]
        /\ \A w \in Views : w # x /\ w # y => Swap(playerid, x, y)[w] = playerid[w]
    BY <2>0, SwapPerm
  <2>2. QED
    BY <1>a, <1>8, <2>1
<1>c. /\ DOMAIN Laid(u, ids) = {w \in Views : ids[w] \in DOMAIN u.cells}
      /\ \A w \in DOMAIN Laid(u, ids) : Laid(u, ids)[w] = u.cells[ids[w]]
  BY <1>4, <1>a, LaidIs
<1>10. /\ DOMAIN (area') = {w \in Views : ids[w] \in DOMAIN u.cells}
       /\ \A w \in DOMAIN (area') : area'[w] = u.cells[ids[w]]
  BY <1>b, <1>c
<1>11. lt \in DOMAIN u.cells /\ u.cells[lt] = new
  BY <1>2, <1>3 DEF IsMerge
<1>12. x \in DOMAIN (area') /\ area'[x] = new
  BY <1>8, <1>9, <1>10, <1>11
<1>13. ASSUME PlayingFrom(lt, rb) # {} PROVE x \in playing
  BY <1>7, <1>13 DEF PlayingFrom, x
<1>14. InGrid(table, new)
  BY <1>1, <1>2, LastIsNat DEF IsSweep
<1>15. ASSUME NEW w \in playing \cap Visible, w \notin DOMAIN (area')
       PROVE  Overlaps(area[w], new)
  <2>1. CASE One
    <3>1. area[w] = Whole(table)
      BY <2>1 DEF ScreenInv, Shown
    <3>2. table.row \in Nat \ {0} /\ table.col \in Nat \ {0}
      BY <1>1 DEF Good
    <3>3. InGrid(table, Whole(table)) /\ Inside(new, Whole(table))
      BY <1>1, <1>14, <3>2, CellFields, GridFields DEF Whole, InGrid, Inside
    <3>4. QED
      BY <1>1, <1>14, <3>1, <3>3, Apart, GridFields DEF Inside
  <2>2. CASE ~One
    <3> DEFINE k == playerid[w]
    <3>1. w \in Views /\ k \in DOMAIN table.cells /\ area[w] = table.cells[k]
      BY <2>2 DEF ScreenInv, Shown
    <3>2. w # x
      BY <1>12, <1>15
    <3>3. Inside(table.cells[k], new)
      <4>1. CASE w = y
        <5>1. k = lt
          BY <1>8, <4>1
        <5>2. f[0] = Combine(table.cells[lt], table.cells[rb])
          BY <1>1, SweepIs
        <5>3. InGrid(table, table.cells[lt]) /\ InGrid(table, table.cells[rb])
          BY <1>1, CellInGrid
        <5>4. Inside(table.cells[lt], f[0])
          BY <5>2, <5>3, CombineIs DEF InGrid
        <5>5. /\ 0 \in 0 .. Last(table) /\ Last(table) \in 0 .. Last(table)
              /\ Inside(f[0], new) /\ InGrid(table, f[0])
          BY <1>1, <1>2, LastIsNat, Grows DEF IsSweep
        <5>6. QED
          BY <1>14, <5>1, <5>3, <5>4, <5>5, InsideTransitive DEF InGrid
      <4>2. CASE w # y
        <5>1. ids[w] = k
          BY <1>9, <3>1, <3>2, <4>2
        <5>2. k \notin DOMAIN u.cells
          BY <1>10, <1>15, <3>1, <5>1
        <5>3. Absorbed(table, f, k)
          BY <1>2, <3>1, <5>2 DEF IsMerge
        <5>4. k \in 1 .. Last(table) /\ Last(table) \in k .. Last(table)
          BY <1>1, <3>1, CellInGrid, LastIsNat
        <5>5. QED
          BY <1>1, <1>2, <5>3, <5>4, AbsorbedInside
      <4>3. QED
        BY <4>1, <4>2
    <3>4. InGrid(table, table.cells[k])
      BY <1>1, <3>1, CellInGrid
    <3>5. Overlaps(table.cells[k], new)
      BY <1>1, <1>14, <3>3, <3>4, Apart, GridFields DEF Inside
    <3>6. QED
      BY <3>1, <3>5
  <2>3. QED
    BY <2>1, <2>2
<1>16. QED
  BY <1>12, <1>13, <1>15

(* No widget that plays disappears by a merge next to it, and a merged     *)
(* cell that keeps its number shows one that plays if the search found     *)
(* one, on every table.                                                    *)
THEOREM PlayingSurvivesMerge == Spec => MergeKeepsPlaying
<1> DEFINE A == playing # {} /\ table' # table =>
       \A lt, rb \in DOMAIN table.cells :
         LET new == Merged(table, lt, rb)
         IN /\ lt # rb /\ MergeCells(lt, rb)
            /\ IdAt(table, new.r1, new.c1) = lt
            => /\ PlayingFrom(lt, rb) # {} =>
                     \E w \in playing : w \in DOMAIN area' /\ area'[w] = new
               /\ \A w \in playing \cap Visible :
                    w \in DOMAIN area' \/ Overlaps(area[w], new)
<1>1. ScreenInv => A
  BY MergeKeeps
<1> HIDE DEF A
<1>2. Spec => [][A]_vars
  BY <1>1, ScreenAlways, PTL
<1>3. QED
  BY <1>2 DEF MergeKeepsPlaying, A
=============================================================================
