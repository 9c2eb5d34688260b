-------------------------- MODULE RoutePayloadProofs --------------------------
(***************************************************************************)
(* A box that a published route runs through finds it, the route is        *)
(* decoded as it was published, its control points are where its legs      *)
(* meet, and the API accepts it unless a named exception applies: for any  *)
(* grid, units, drafts, bodies and boxes that the assumptions allow.       *)
(*                                                                         *)
(* Cells: a segment and a box that no line parts have a point in common,   *)
(* at n of d parts of the segment (MeetingIsPassing, from two ranges of    *)
(* parts that overlap).  The cell of that point is among those of the box, *)
(* and the clipping finds the segment to touch it (PassedBoxHasCell).      *)
(* Polyline: the groups of a number are read back as the number            *)
(* (GroupsAreRead), and the differences between points add up to them      *)
(* (PolylineReturns).  Geometry: what is composed and trimmed are places.  *)
(* Control points: legs lie in the route one after another                 *)
(* (LegsAreInPlace), anchors are where they end (JointsAreAnchors), and    *)
(* what a trim keeps is found in what it returns (KeptIsInTrimmed).        *)
(* Neighbours: no two points of a route are one when rounded               *)
(* (RouteIsSharp), and a trim returns points of it but where it cuts       *)
(* (SelectionHolds, PointOfRoute, TrimTellsApart).                         *)
(* The invariant, IInv, says what each hand-over has made.                 *)
(***************************************************************************)
EXTENDS RoutePayload, FiniteSetTheorems, SequenceTheorems, WellFoundedInduction, TLAPS

(* A set of numbers that is not empty has a least one.                     *)
LEMMA LeastNumber ==
  ASSUME NEW W \in SUBSET Nat, W # {}
  PROVE  \E w \in W : \A v \in W : w <= v
<1> DEFINE R == { p \in Nat \X Nat : p[1] < p[2] }
<1>1. IsWellFoundedOn(R, Nat)
  BY NatLessThanWellFounded, Zenon DEF OpToRel
<1>2. PICK w \in W : \A v \in W : ~ (<< v, w >> \in R)
  <2> HIDE DEF R
  <2> QED BY <1>1, WFMin
<1>3. ASSUME NEW v \in W PROVE w <= v
  <2>1. v \in Nat /\ w \in Nat
    OBVIOUS
  <2>2. << v, w >> \notin R
    BY <1>2
  <2> QED BY <2>1, <2>2
<1> QED BY <1>3

(* What holds of a number if it does of all that are less.                 *)
LEMMA Induction ==
  ASSUME NEW A \in SUBSET Nat, NEW n \in Nat,
         \A k \in 0..n : (0..(k - 1)) \subseteq A => k \in A
  PROVE  0..n \subseteq A
<1> SUFFICES ASSUME ~(0..n \subseteq A) PROVE FALSE
  OBVIOUS
<1> DEFINE W == (0..n) \ A
<1>1. W \in SUBSET Nat /\ W # {}
  OBVIOUS
<1>2. PICK w \in W : \A v \in W : w <= v
  <2> HIDE DEF W
  <2> QED BY <1>1, LeastNumber
<1>3. w \in 0..n /\ w \notin A
  OBVIOUS
<1>4. \A v \in 0..(w - 1) : v \in 0..n /\ ~(w <= v)
  BY <1>3
<1>5. 0..(w - 1) \subseteq A
  BY <1>2, <1>4
<1> QED BY <1>3, <1>5


(* A function whose values depend on earlier ones, or on none, exists.     *)
Follows(h, I, first, before, g) ==
    \A i \in I : h[i] = IF before[i] < i THEN g[<< i, h[before[i]] >>] ELSE first[i]

LEMMA FollowingExists ==
  ASSUME NEW n \in Nat, NEW I \in SUBSET (0..n), NEW V,
         NEW first \in [I -> V], NEW before \in [I -> I], NEW g \in [I \X V -> V]
  PROVE  \E h \in [I -> V] : Follows(h, I, first, before, g)
<1> DEFINE Below(k) == { i \in I : i < k }
           P(k, h)  == \A i \in Below(k) :
                          h[i] = IF before[i] < i THEN g[<< i, h[before[i]] >>] ELSE first[i]
           A == { k \in Nat : \E h \in [I -> V] : P(k, h) }
<1>1. ASSUME NEW k \in 0..(n + 1), 0..(k - 1) \subseteq A PROVE k \in A
  <2>0. \A i \in I : i \in Nat /\ before[i] \in I /\ before[i] \in Nat
    <3>1. I \subseteq Nat
      OBVIOUS
    <3> QED BY <3>1
  <2>1. CASE k = 0
    <3>1. P(0, first)
      BY <2>0
    <3> QED BY <2>1, <3>1
  <2>2. CASE k # 0
    <3>1. k - 1 \in 0..(k - 1) /\ k - 1 \in Nat /\ k \in Nat
      BY <2>2
    <3>2. PICK h \in [I -> V] : P(k - 1, h)
      BY <1>1, <3>1
    <3> DEFINE j == [i \in I |-> IF i = k - 1
                                 THEN IF before[i] < i THEN g[<< i, h[before[i]] >>] ELSE first[i]
                                 ELSE h[i]]
    <3>3. j \in [I -> V]
      BY <2>0
    <3>4. ASSUME NEW i \in Below(k)
          PROVE  j[i] = IF before[i] < i THEN g[<< i, j[before[i]] >>] ELSE first[i]
      <4>1. i \in I /\ i \in Nat /\ before[i] \in I /\ before[i] \in Nat
        BY <2>0
      <4>2. before[i] < i => before[i] # k - 1
        BY <3>1, <4>1
      <4>3. before[i] < i => j[before[i]] = h[before[i]]
        BY <4>1, <4>2
      <4>4. CASE i = k - 1
        BY <4>1, <4>3, <4>4
      <4>5. CASE i # k - 1
        <5>1. i \in Below(k - 1)
          BY <3>1, <4>1, <4>5
        <5>2. j[i] = h[i]
          BY <4>1, <4>5
        <5> QED BY <3>2, <4>3, <5>1, <5>2
      <4> QED BY <4>4, <4>5
    <3> HIDE DEF j
    <3> QED BY <3>1, <3>3, <3>4
  <2> QED BY <2>1, <2>2
<1>2. n + 1 \in A
  <2>1. A \in SUBSET Nat /\ n + 1 \in Nat
    OBVIOUS
  <2> HIDE DEF A
  <2>2. 0..(n + 1) \subseteq A
    BY <1>1, <2>1, Induction
  <2> QED BY <2>1, <2>2
<1>3. PICK h \in [I -> V] : P(n + 1, h)
  BY <1>2
<1>4. \A i \in I : i \in Below(n + 1)
  OBVIOUS
<1> QED BY <1>3, <1>4 DEF Follows

-----------------------------------------------------------------------------
(* Arithmetic.                                                             *)
LEMMA TimesGrows ==
  ASSUME NEW a \in Int, NEW b \in Int, NEW c \in Nat, a <= b
  PROVE  a * c <= b * c
BY Z3

LEMMA TimesGrowsStrictly ==
  ASSUME NEW a \in Int, NEW b \in Int, NEW c \in Nat \ {0}
  PROVE  (a <= b) <=> (a * c <= b * c)
BY Z3

LEMMA TimesShuffles ==
  ASSUME NEW a \in Int, NEW b \in Int, NEW c \in Int
  PROVE  /\ (a * b) * c = a * (b * c) /\ a * b = b * a /\ a * (b * c) = b * (a * c)
         /\ (a + b) * c = a * c + b * c /\ (a - b) * c = a * c - b * c
         /\ (-a) * b = -(a * b) /\ a * b \in Int
BY Z3

LEMMA Division ==
  ASSUME NEW a \in Int, NEW m \in Nat \ {0}
  PROVE  /\ a \div m \in Int /\ a % m \in 0..(m - 1)
         /\ a = (a \div m) * m + (a % m)
         /\ (a \div m) * m <= a /\ a < (a \div m + 1) * m
BY Z3

-----------------------------------------------------------------------------
(* A segment that meets a box has a point in it, at some part of the way.  *)
Point == [x : Int, y : Int]

(* The numerator of the place n / d of the way from a to b.                *)
Along(a, b, n, d) == a * d + (b - a) * n

Parts(n, d) == d \in Nat \ {0} /\ n \in 0..d

PassesAt(a, b, box, n, d) ==
    /\ box.minX * d <= Along(a.x, b.x, n, d) /\ Along(a.x, b.x, n, d) <= box.maxX * d
    /\ box.minY * d <= Along(a.y, b.y, n, d) /\ Along(a.y, b.y, n, d) <= box.maxY * d

(* The way there, and how far it is to a range and to its end, all in the  *)
(* direction from a to b.                                                  *)
Span(a, b) == IF b < a THEN a - b ELSE b - a
ToRange(a, b, low, high) == IF b < a THEN a - high ELSE low - a
ToEnd(a, b, low, high) == IF b < a THEN a - low ELSE high - a

LEMMA RangeIsReached ==
  ASSUME NEW a \in Int, NEW b \in Int, NEW low \in Int, NEW high \in Int,
         low <= high, ~Apart(a, b, low, high)
  PROVE  /\ Span(a, b) \in Nat /\ ToRange(a, b, low, high) \in Int /\ ToEnd(a, b, low, high) \in Nat
         /\ ToRange(a, b, low, high) <= Span(a, b)
         /\ ToRange(a, b, low, high) <= ToEnd(a, b, low, high)
BY DEF Apart, Span, ToRange, ToEnd

LEMMA RangeIsPassed ==
  ASSUME NEW a \in Int, NEW b \in Int, NEW low \in Int, NEW high \in Int,
         NEW n \in Nat, NEW d \in Nat,
         ToRange(a, b, low, high) * d <= Span(a, b) * n,
         Span(a, b) * n <= ToEnd(a, b, low, high) * d
  PROVE  low * d <= Along(a, b, n, d) /\ Along(a, b, n, d) <= high * d
<1>1. /\ (a - high) * d = a * d - high * d /\ (a - low) * d = a * d - low * d
      /\ (low - a) * d = low * d - a * d /\ (high - a) * d = high * d - a * d
      /\ (a - b) * n = -((b - a) * n)
      /\ \A v \in {a * d, low * d, high * d, (b - a) * n} : v \in Int
  BY Z3
<1>2. CASE b < a
  BY <1>1, <1>2 DEF Span, ToRange, ToEnd, Along
<1>3. CASE ~(b < a)
  BY <1>1, <1>3 DEF Span, ToRange, ToEnd, Along
<1> QED BY <1>2, <1>3

(* Two ranges, of which each starts before the other ends.                 *)
StartsBefore(ux, lx, uy, hy) == lx * uy <= hy * ux

CommonPart(ux, lx, hx, uy, ly, hy, n, d) ==
    /\ Parts(n, d)
    /\ lx * d <= ux * n /\ ux * n <= hx * d
    /\ ly * d <= uy * n /\ uy * n <= hy * d

LEMMA RangesHaveCommonPart ==
  ASSUME NEW ux \in Nat, NEW lx \in Int, NEW hx \in Nat, lx <= ux, lx <= hx,
         NEW uy \in Nat, NEW ly \in Int, NEW hy \in Nat, ly <= uy, ly <= hy,
         StartsBefore(ux, lx, uy, hy), StartsBefore(uy, ly, ux, hx)
  PROVE  \E n, d : CommonPart(ux, lx, hx, uy, ly, hy, n, d)
<1> USE DEF StartsBefore, CommonPart
<1>1. CASE ux = 0 /\ uy = 0
  <2>1. Parts(0, 1)
    BY DEF Parts
  <2> QED BY <1>1, <2>1
<1>2. CASE ux = 0 /\ uy # 0
  <2>1. PICK n \in Nat : n = IF ly > 0 THEN ly ELSE 0
    OBVIOUS
  <2>2. Parts(n, uy)
    BY <1>2, <2>1 DEF Parts
  <2>3. lx * uy <= 0 /\ 0 <= hx * uy
    BY <1>2, TimesGrows
  <2>4. ly * uy <= n * uy /\ n * uy <= hy * uy /\ uy * n = n * uy
    <3>1. ly * uy <= n * uy
      BY <2>1, TimesGrows
    <3>2. n * uy <= hy * uy
      BY <2>1, TimesGrows
    <3> QED BY <3>1, <3>2, TimesShuffles
  <2>5. ux * n = 0
    BY <1>2, <2>1
  <2> QED BY <2>2, <2>3, <2>4, <2>5
<1>3. CASE ux # 0 /\ uy = 0
  <2>1. PICK n \in Nat : n = IF lx > 0 THEN lx ELSE 0
    OBVIOUS
  <2>2. Parts(n, ux)
    BY <1>3, <2>1 DEF Parts
  <2>3. ly * ux <= 0 /\ 0 <= hy * ux
    BY <1>3, TimesGrows
  <2>4. lx * ux <= n * ux /\ n * ux <= hx * ux /\ ux * n = n * ux
    <3>1. lx * ux <= n * ux
      BY <2>1, TimesGrows
    <3>2. n * ux <= hx * ux
      BY <2>1, TimesGrows
    <3> QED BY <3>1, <3>2, TimesShuffles
  <2>5. uy * n = 0
    BY <1>3, <2>1
  <2> QED BY <2>2, <2>3, <2>4, <2>5
<1>4. CASE ux # 0 /\ uy # 0
  <2>1. PICK d, x, y, ex, ey : d = ux * uy /\ x = lx * uy /\ y = ly * ux /\ ex = hx * uy /\ ey = hy * ux
    OBVIOUS
  <2>2. d \in Nat \ {0} /\ x \in Int /\ y \in Int /\ ex \in Nat /\ ey \in Nat
    BY <1>4, <2>1, Z3
  <2>3. x <= d /\ y <= d /\ x <= ex /\ y <= ey /\ x <= ey /\ y <= ex
    <3>1. lx * uy <= ux * uy
      BY TimesGrows
    <3>2. ly * ux <= uy * ux
      BY TimesGrows
    <3>3. lx * uy <= hx * uy
      BY TimesGrows
    <3>4. ly * ux <= hy * ux
      BY TimesGrows
    <3>5. uy * ux = ux * uy
      BY TimesShuffles
    <3> QED BY <2>1, <3>1, <3>2, <3>3, <3>4, <3>5
  <2>4. PICK n \in Nat : n = IF x >= y THEN (IF x > 0 THEN x ELSE 0) ELSE (IF y > 0 THEN y ELSE 0)
    BY <2>2
  <2>5. n <= d /\ x <= n /\ y <= n /\ n <= ex /\ n <= ey
    BY <2>2, <2>3, <2>4
  <2>6. Parts(n, d)
    BY <2>2, <2>5 DEF Parts
  <2>7. lx * d = x * ux /\ ly * d = y * uy /\ hx * d = ex * ux /\ hy * d = ey * uy
        /\ ux * n = n * ux /\ uy * n = n * uy
    BY <2>1, Z3
  <2>8. x * ux <= n * ux
    BY <2>2, <2>5, TimesGrows
  <2>9. n * ux <= ex * ux
    BY <2>2, <2>5, TimesGrows
  <2>10. y * uy <= n * uy
    BY <2>2, <2>5, TimesGrows
  <2>11. n * uy <= ey * uy
    BY <2>2, <2>5, TimesGrows
  <2> QED BY <2>6, <2>7, <2>8, <2>9, <2>10, <2>11
<1> QED BY <1>1, <1>2, <1>3, <1>4

(* Corners on both sides of the line: the two ranges overlap.              *)
LEMMA CornersHoldRanges ==
  ASSUME NEW ax \in Int, NEW bx \in Int, NEW ay \in Int, NEW by \in Int,
         NEW minX \in Int, NEW maxX \in Int, NEW minY \in Int, NEW maxY \in Int,
         NEW px \in minX..maxX, NEW py \in minY..maxY,
         NEW qx \in minX..maxX, NEW qy \in minY..maxY,
         (bx - ax) * (py - ay) - (by - ay) * (px - ax) <= 0,
         (bx - ax) * (qy - ay) - (by - ay) * (qx - ax) >= 0
  PROVE  /\ ToRange(ax, bx, minX, maxX) * Span(ay, by) <= ToEnd(ay, by, minY, maxY) * Span(ax, bx)
         /\ ToRange(ay, by, minY, maxY) * Span(ax, bx) <= ToEnd(ax, bx, minX, maxX) * Span(ay, by)
<1>1. PICK u \in Nat, v \in Nat : u = Span(ax, bx) /\ v = Span(ay, by)
  <2>1. Span(ax, bx) \in Nat /\ Span(ay, by) \in Nat
    BY DEF Span
  <2> QED BY <2>1
<1>2. \A a, b \in Int : a <= b => a * u <= b * u
  BY TimesGrows
<1>3. \A a, b \in Int : a <= b => a * v <= b * v
  BY TimesGrows
<1>4. \A a \in Int : /\ (-u) * a = -(a * u) /\ u * a = a * u /\ (-v) * a = -(a * v) /\ v * a = a * v
                     /\ (-a) * u = -(a * u) /\ (-a) * v = -(a * v) /\ a * u \in Int /\ a * v \in Int
  BY Z3
<1> DEFINE cx == px - ax
           cy == py - ay
           ex == qx - ax
           ey == qy - ay
<1>5. CASE ~(bx < ax) /\ ~(by < ay)
  <2>1. bx - ax = u /\ by - ay = v
    BY <1>1, <1>5 DEF Span
  <2>2. u * cy - v * cx <= 0 /\ u * ey - v * ex >= 0
    BY <2>1
  <2>3. (minX - ax) * v <= ex * v /\ ey * u <= (maxY - ay) * u
    BY <1>2, <1>3
  <2>4. (minY - ay) * u <= cy * u /\ cx * v <= (maxX - ax) * v
    BY <1>2, <1>3
  <2>5. /\ cx \in Int /\ cy \in Int /\ ex \in Int /\ ey \in Int
        /\ minX - ax \in Int /\ maxX - ax \in Int /\ minY - ay \in Int /\ maxY - ay \in Int
    OBVIOUS
  <2> HIDE DEF cx, cy, ex, ey
  <2>6. (minX - ax) * v <= (maxY - ay) * u /\ (minY - ay) * u <= (maxX - ax) * v
    BY <1>4, <2>2, <2>3, <2>4, <2>5
  <2> QED BY <1>1, <1>5, <2>6 DEF ToRange, ToEnd
<1>6. CASE bx < ax /\ ~(by < ay)
  <2>1. bx - ax = -u /\ by - ay = v
    BY <1>1, <1>6 DEF Span
  <2>2. (-u) * cy - v * cx <= 0 /\ (-u) * ey - v * ex >= 0
    BY <2>1
  <2>3. (ax - maxX) * v <= (-cx) * v /\ cy * u <= (maxY - ay) * u
    BY <1>2, <1>3
  <2>4. (minY - ay) * u <= ey * u /\ (-ex) * v <= (ax - minX) * v
    BY <1>2, <1>3
  <2>5. /\ cx \in Int /\ cy \in Int /\ ex \in Int /\ ey \in Int
        /\ ax - minX \in Int /\ ax - maxX \in Int /\ minY - ay \in Int /\ maxY - ay \in Int
    OBVIOUS
  <2> HIDE DEF cx, cy, ex, ey
  <2>6. (ax - maxX) * v <= (maxY - ay) * u /\ (minY - ay) * u <= (ax - minX) * v
    BY <1>4, <2>2, <2>3, <2>4, <2>5
  <2> QED BY <1>1, <1>6, <2>6 DEF ToRange, ToEnd
<1>7. CASE ~(bx < ax) /\ by < ay
  <2>1. bx - ax = u /\ by - ay = -v
    BY <1>1, <1>7 DEF Span
  <2>2. u * cy - (-v) * cx <= 0 /\ u * ey - (-v) * ex >= 0
    BY <2>1
  <2>3. (minX - ax) * v <= cx * v /\ (-cy) * u <= (ay - minY) * u
    BY <1>2, <1>3
  <2>4. (ay - maxY) * u <= (-ey) * u /\ ex * v <= (maxX - ax) * v
    BY <1>2, <1>3
  <2>5. /\ cx \in Int /\ cy \in Int /\ ex \in Int /\ ey \in Int
        /\ minX - ax \in Int /\ maxX - ax \in Int /\ ay - minY \in Int /\ ay - maxY \in Int
    OBVIOUS
  <2> HIDE DEF cx, cy, ex, ey
  <2>6. (minX - ax) * v <= (ay - minY) * u /\ (ay - maxY) * u <= (maxX - ax) * v
    BY <1>4, <2>2, <2>3, <2>4, <2>5
  <2> QED BY <1>1, <1>7, <2>6 DEF ToRange, ToEnd
<1>8. CASE bx < ax /\ by < ay
  <2>1. bx - ax = -u /\ by - ay = -v
    BY <1>1, <1>8 DEF Span
  <2>2. (-u) * cy - (-v) * cx <= 0 /\ (-u) * ey - (-v) * ex >= 0
    BY <2>1
  <2>3. (ax - maxX) * v <= (-ex) * v /\ (-ey) * u <= (ay - minY) * u
    BY <1>2, <1>3
  <2>4. (ay - maxY) * u <= (-cy) * u /\ (-cx) * v <= (ax - minX) * v
    BY <1>2, <1>3
  <2>5. /\ cx \in Int /\ cy \in Int /\ ex \in Int /\ ey \in Int
        /\ ax - minX \in Int /\ ax - maxX \in Int /\ ay - minY \in Int /\ ay - maxY \in Int
    OBVIOUS
  <2> HIDE DEF cx, cy, ex, ey
  <2>6. (ax - maxX) * v <= (ay - minY) * u /\ (ay - maxY) * u <= (ax - minX) * v
    BY <1>4, <2>2, <2>3, <2>4, <2>5
  <2> QED BY <1>1, <1>8, <2>6 DEF ToRange, ToEnd
<1> QED BY <1>5, <1>6, <1>7, <1>8

LEMMA MeetingIsPassing ==
  ASSUME NEW a \in Point, NEW b \in Point, NEW box \in Box, Meets(a, b, box)
  PROVE  \E n, d : Parts(n, d) /\ PassesAt(a, b, box, n, d)
<1>1. /\ a.x \in Int /\ a.y \in Int /\ b.x \in Int /\ b.y \in Int
      /\ box.minX \in Int /\ box.maxX \in Int /\ box.minY \in Int /\ box.maxY \in Int
      /\ box.minX <= box.maxX /\ box.minY <= box.maxY
  BY DEF Point, Box
<1>2. ~Apart(a.x, b.x, box.minX, box.maxX) /\ ~Apart(a.y, b.y, box.minY, box.maxY)
  BY DEF Meets
<1>3. PICK p \in Corners(box), q \in Corners(box) : Side(a, b, p) <= 0 /\ Side(a, b, q) >= 0
  BY DEF Meets
<1>4. /\ p.x \in box.minX..box.maxX /\ p.y \in box.minY..box.maxY
      /\ q.x \in box.minX..box.maxX /\ q.y \in box.minY..box.maxY
  BY <1>1 DEF Corners
<1>5. PICK ux, lx, hx : /\ ux = Span(a.x, b.x) /\ lx = ToRange(a.x, b.x, box.minX, box.maxX)
                        /\ hx = ToEnd(a.x, b.x, box.minX, box.maxX)
  OBVIOUS
<1>6. PICK uy, ly, hy : /\ uy = Span(a.y, b.y) /\ ly = ToRange(a.y, b.y, box.minY, box.maxY)
                        /\ hy = ToEnd(a.y, b.y, box.minY, box.maxY)
  OBVIOUS
<1>7. ux \in Nat /\ lx \in Int /\ hx \in Nat /\ lx <= ux /\ lx <= hx
  BY <1>1, <1>2, <1>5, RangeIsReached
<1>8. uy \in Nat /\ ly \in Int /\ hy \in Nat /\ ly <= uy /\ ly <= hy
  BY <1>1, <1>2, <1>6, RangeIsReached
<1>9. StartsBefore(ux, lx, uy, hy) /\ StartsBefore(uy, ly, ux, hx)
  <2>1. /\ (b.x - a.x) * (p.y - a.y) - (b.y - a.y) * (p.x - a.x) <= 0
        /\ (b.x - a.x) * (q.y - a.y) - (b.y - a.y) * (q.x - a.x) >= 0
    BY <1>3 DEF Side
  <2> QED BY <1>1, <1>4, <1>5, <1>6, <2>1, CornersHoldRanges DEF StartsBefore
<1>10. PICK n, d : CommonPart(ux, lx, hx, uy, ly, hy, n, d)
  BY <1>7, <1>8, <1>9, RangesHaveCommonPart
<1>11. /\ Parts(n, d) /\ n \in Nat /\ d \in Nat
       /\ lx * d <= ux * n /\ ux * n <= hx * d
       /\ ly * d <= uy * n /\ uy * n <= hy * d
  BY <1>10 DEF CommonPart, Parts
<1>12. box.minX * d <= Along(a.x, b.x, n, d) /\ Along(a.x, b.x, n, d) <= box.maxX * d
  BY <1>1, <1>5, <1>11, RangeIsPassed
<1>13. box.minY * d <= Along(a.y, b.y, n, d) /\ Along(a.y, b.y, n, d) <= box.maxY * d
  BY <1>1, <1>6, <1>11, RangeIsPassed
<1> QED BY <1>11, <1>12, <1>13 DEF PassesAt

-----------------------------------------------------------------------------
(* The cell of a place in a box is a cell of the box and of any segment    *)
(* that passes it.                                                         *)
World == (MaxTile + 1) * CellSize

LEMMA GridIsPositive ==
  CellSize \in Nat \ {0} /\ MaxTile \in Nat /\ World \in Nat \ {0}
<1>1. CellSize \in Nat \ {0} /\ MaxTile \in Nat
  BY SpatialIndexAssumption DEF SpatialIndexAssumption
<1>2. World \in Nat \ {0}
  BY <1>1, Z3 DEF World
<1> QED BY <1>1, <1>2

LEMMA ExtremesOfTwo ==
  ASSUME NEW a \in Int, NEW b \in Int
  PROVE  Max({a, b}) = (IF b <= a THEN a ELSE b) /\ Min({a, b}) = (IF a <= b THEN a ELSE b)
<1>1. Max({a, b}) \in {a, b} /\ \A y \in {a, b} : Max({a, b}) >= y
  <2>1. \E x \in {a, b} : \A y \in {a, b} : x >= y
    OBVIOUS
  <2> QED BY <2>1, Zenon DEF Max
<1>2. Min({a, b}) \in {a, b} /\ \A y \in {a, b} : Min({a, b}) <= y
  <2>1. \E x \in {a, b} : \A y \in {a, b} : x <= y
    OBVIOUS
  <2> QED BY <2>1, Zenon DEF Min
<1> QED BY <1>1, <1>2

LEMMA ClampIs ==
  ASSUME NEW i \in Int
  PROVE  ClampTileIndex(i) = IF i < 0 THEN 0 ELSE IF i > MaxTile THEN MaxTile ELSE i
<1>1. MaxTile \in Nat
  BY GridIsPositive
<1>2. PICK m \in Int : m = Min({MaxTile, i}) /\ m = IF MaxTile <= i THEN MaxTile ELSE i
  BY <1>1, ExtremesOfTwo
<1>3. Max({0, m}) = IF m <= 0 THEN 0 ELSE m
  BY ExtremesOfTwo
<1> QED BY <1>1, <1>2, <1>3 DEF ClampTileIndex

LEMMA ClampGrows ==
  ASSUME NEW i \in Int, NEW j \in Int, i <= j
  PROVE  /\ ClampTileIndex(i) \in Int /\ ClampTileIndex(j) \in Int
         /\ ClampTileIndex(i) <= ClampTileIndex(j)
<1>1. ClampTileIndex(i) = IF i < 0 THEN 0 ELSE IF i > MaxTile THEN MaxTile ELSE i
  BY ClampIs
<1>2. ClampTileIndex(j) = IF j < 0 THEN 0 ELSE IF j > MaxTile THEN MaxTile ELSE j
  BY ClampIs
<1> QED BY <1>1, <1>2, GridIsPositive

CellAt(v, d) == v \div (d * CellSize)

LEMMA CellIsAt ==
  ASSUME NEW v \in Int, NEW d \in Nat \ {0}
  PROVE  /\ CellAt(v, d) \in Int
         /\ CellAt(v, d) * CellSize * d <= v
         /\ v < (CellAt(v, d) + 1) * CellSize * d
<1>1. PICK m \in Nat \ {0} : m = d * CellSize
  BY GridIsPositive, Z3
<1>2. PICK k \in Int : k = v \div m /\ k * m <= v /\ v < (k + 1) * m
  BY <1>1, Division
<1>3. k * m = k * CellSize * d /\ (k + 1) * m = (k + 1) * CellSize * d
  BY <1>1, GridIsPositive, Z3
<1> QED BY <1>1, <1>2, <1>3 DEF CellAt

(* Floors of places in a range are cells of the range.                     *)
LEMMA CellIsInRange ==
  ASSUME NEW v \in Int, NEW d \in Nat \ {0}, NEW low \in Int, NEW high \in Int,
         low * d <= v, v <= high * d
  PROVE  /\ Cell(low) \in Int /\ Cell(high) \in Int /\ CellAt(v, d) \in Int
         /\ Cell(low) <= CellAt(v, d) /\ CellAt(v, d) <= Cell(high)
<1> USE GridIsPositive
<1>1. PICK k \in Int : k = CellAt(v, d) /\ k * CellSize * d <= v /\ v < (k + 1) * CellSize * d
  BY CellIsAt
<1>2. PICK l \in Int : l = Cell(low) /\ l * CellSize <= low
  BY Division DEF Cell
<1>3. PICK h \in Int : h = Cell(high) /\ high < (h + 1) * CellSize
  BY Division DEF Cell
<1>4. PICK s, t, u, w \in Int : /\ s = k * CellSize /\ t = (k + 1) * CellSize
                                /\ u = l * CellSize /\ w = (h + 1) * CellSize
  BY Z3
<1>5. low < t
  <2>1. ~(t * d <= low * d)
    BY <1>1, <1>4, TimesShuffles
  <2> QED BY <2>1, TimesGrows
<1>6. s <= high
  <2>1. s * d <= high * d
    BY <1>1, <1>4, TimesShuffles
  <2> QED BY <2>1, TimesGrowsStrictly
<1>7. l < k + 1
  <2>1. ~((k + 1) * CellSize <= l * CellSize)
    BY <1>2, <1>4, <1>5
  <2> QED BY <2>1, TimesGrows
<1>8. k < h + 1
  <2>1. ~((h + 1) * CellSize <= k * CellSize)
    BY <1>3, <1>4, <1>6
  <2> QED BY <2>1, TimesGrows
<1> QED BY <1>1, <1>2, <1>3, <1>7, <1>8

(* The last cell of the world is closed, and so holds its far edge.        *)
LEMMA TileHoldsPlace ==
  ASSUME NEW v \in Int, NEW d \in Nat \ {0}, 0 <= v, v <= World * d,
         NEW t, t = ClampTileIndex(CellAt(v, d))
  PROVE  t \in Int /\ t * CellSize * d <= v /\ v <= (t + 1) * CellSize * d
<1> USE GridIsPositive
<1>1. PICK k \in Int : k = CellAt(v, d) /\ k * CellSize * d <= v /\ v < (k + 1) * CellSize * d
  BY CellIsAt
<1>2. k >= 0
  <2>1. PICK m \in Nat : m = CellSize * d
    BY Z3
  <2>2. (k + 1) * CellSize * d = (k + 1) * m
    BY <2>1, TimesShuffles
  <2>3. ~((k + 1) * m <= 0 * m)
    BY <1>1, <2>1, <2>2, Z3
  <2> QED BY <2>1, <2>3, TimesGrows
<1>3. t = IF k > MaxTile THEN MaxTile ELSE k
  BY <1>1, <1>2, ClampIs
<1>4. CASE k <= MaxTile
  BY <1>1, <1>3, <1>4
<1>5. CASE k > MaxTile
  <2>1. t = MaxTile /\ (t + 1) * CellSize = World
    BY <1>3, <1>5 DEF World
  <2>2. MaxTile * (CellSize * d) <= k * (CellSize * d)
    <3>1. CellSize * d \in Nat
      BY Z3
    <3> QED BY <1>5, <3>1, TimesGrows
  <2>3. MaxTile * CellSize * d <= k * CellSize * d
    BY <2>2, TimesShuffles
  <2>4. v <= (t + 1) * CellSize * d
    BY <2>1
  <2>5. MaxTile * CellSize * d \in Int /\ k * CellSize * d \in Int
    BY Z3
  <2> QED BY <1>1, <2>1, <2>3, <2>4, <2>5
<1> QED BY <1>4, <1>5

LEMMA PlacesAreBetween ==
  ASSUME NEW a \in Int, NEW b \in Int, NEW n, NEW d, Parts(n, d)
  PROVE  /\ Along(a, b, n, d) \in Int
         /\ Min({a, b}) * d <= Along(a, b, n, d) /\ Along(a, b, n, d) <= Max({a, b}) * d
<1>1. n \in Nat /\ d \in Nat \ {0} /\ n <= d
  BY DEF Parts
<1>2. /\ (b - a) * n \in Int /\ (b - a) * d = b * d - a * d /\ a * d \in Int /\ b * d \in Int
      /\ (a - b) * d = a * d - b * d /\ (a - b) * n = -((b - a) * n)
  BY <1>1, Z3
<1>3. CASE a <= b
  <2>1. PICK w \in Nat : w = b - a
    BY <1>3
  <2>2. n * w <= d * w /\ 0 * w <= n * w
    BY <1>1, <2>1, TimesGrows
  <2>3. n * w = (b - a) * n /\ d * w = (b - a) * d
    BY <1>1, <2>1, TimesShuffles
  <2>4. Min({a, b}) = a /\ Max({a, b}) = b
    BY <1>3, ExtremesOfTwo
  <2> QED BY <1>2, <2>2, <2>3, <2>4 DEF Along
<1>4. CASE ~(a <= b)
  <2>1. PICK w \in Nat : w = a - b
    BY <1>4
  <2>2. n * w <= d * w /\ 0 * w <= n * w
    BY <1>1, <2>1, TimesGrows
  <2>3. n * w = (a - b) * n /\ d * w = (a - b) * d
    BY <1>1, <2>1, TimesShuffles
  <2>4. Min({a, b}) = b /\ Max({a, b}) = a
    BY <1>4, ExtremesOfTwo
  <2> QED BY <1>2, <2>2, <2>3, <2>4 DEF Along
<1> QED BY <1>3, <1>4

(* What bounds n / d from below and from above, in that order.             *)
LEMMA BoundsAreOrdered ==
  ASSUME NEW lp \in Int, NEW lq \in Int, NEW up \in Int, NEW uq \in Int,
         NEW n \in Nat, NEW d \in Nat \ {0}, lp < 0, up > 0,
         lp * n <= lq * d, up * n <= uq * d
  PROVE  lq * up >= uq * lp
<1>1. PICK m \in Nat, r \in Nat : m = -lp /\ r = up
  OBVIOUS
<1>2. (lp * n) * r <= (lq * d) * r
  BY <1>1, TimesGrows, Z3
<1>3. (up * n) * m <= (uq * d) * m
  BY <1>1, TimesGrows, Z3
<1>4. /\ (lp * n) * r = -(m * r * n) /\ (up * n) * m = m * r * n
      /\ (lq * d) * r = (lq * up) * d /\ (uq * d) * m = -((uq * lp) * d)
  BY <1>1, Z3
<1>5. PICK y, z \in Int : y = lq * up /\ z = uq * lp
  BY Z3
<1>6. y * d \in Int /\ z * d \in Int /\ m * r * n \in Int
  BY <1>5, Z3
<1>7. z * d <= y * d
  BY <1>2, <1>3, <1>4, <1>5, <1>6
<1>8. z <= y
  BY <1>5, <1>7, TimesGrowsStrictly
<1> QED BY <1>5, <1>8

LEMMA PassingIsIntersecting ==
  ASSUME NEW start \in Point, NEW end \in Point, NEW tile \in Point, NEW n, NEW d, Parts(n, d),
         tile.x * CellSize * d <= Along(start.x, end.x, n, d),
         Along(start.x, end.x, n, d) <= (tile.x + 1) * CellSize * d,
         tile.y * CellSize * d <= Along(start.y, end.y, n, d),
         Along(start.y, end.y, n, d) <= (tile.y + 1) * CellSize * d
  PROVE  SegmentIntersectsClosedTile(start, end, tile)
<1> USE GridIsPositive
<1>1. n \in Nat /\ d \in Nat \ {0} /\ n <= d
  BY DEF Parts
<1>2. /\ start.x \in Int /\ start.y \in Int /\ end.x \in Int /\ end.y \in Int
      /\ tile.x \in Int /\ tile.y \in Int
  BY DEF Point
<1> DEFINE dx    == end.x - start.x
           dy    == end.y - start.y
           west  == tile.x * CellSize
           east  == (tile.x + 1) * CellSize
           north == tile.y * CellSize
           south == (tile.y + 1) * CellSize
           clips == { [p |-> -dx, q |-> start.x - west], [p |-> dx,  q |-> east - start.x],
                      [p |-> -dy, q |-> start.y - north], [p |-> dy,  q |-> south - start.y],
                      [p |-> -1,  q |-> 0], [p |-> 1,   q |-> 1] }
<1>3. west \in Int /\ east \in Int /\ north \in Int /\ south \in Int /\ dx \in Int /\ dy \in Int
  BY <1>2, Z3
<1>4. /\ west * d <= start.x * d + dx * n /\ start.x * d + dx * n <= east * d
      /\ north * d <= start.y * d + dy * n /\ start.y * d + dy * n <= south * d
  BY DEF Along
<1>5. ASSUME NEW c \in clips PROVE c.p \in Int /\ c.q \in Int /\ c.p * n <= c.q * d
  <2> HIDE DEF dx, dy, west, east, north, south
  <2>1. /\ (start.x - west) * d = start.x * d - west * d
        /\ (east - start.x) * d = east * d - start.x * d
        /\ (start.y - north) * d = start.y * d - north * d
        /\ (south - start.y) * d = south * d - start.y * d
        /\ (-dx) * n = -(dx * n) /\ (-dy) * n = -(dy * n)
        /\ (-1) * n = -n /\ 1 * n = n /\ 0 * d = 0 /\ 1 * d = d
        /\ \A v \in {start.x * d, start.y * d, dx * n, dy * n, west * d, east * d,
                     north * d, south * d} : v \in Int
    BY <1>1, <1>2, <1>3, Z3
  <2>2. CASE c = [p |-> -dx, q |-> start.x - west]
    BY <1>2, <1>3, <1>4, <2>1, <2>2
  <2>3. CASE c = [p |-> dx,  q |-> east - start.x]
    BY <1>2, <1>3, <1>4, <2>1, <2>3
  <2>4. CASE c = [p |-> -dy, q |-> start.y - north]
    BY <1>2, <1>3, <1>4, <2>1, <2>4
  <2>5. CASE c = [p |-> dy,  q |-> south - start.y]
    BY <1>2, <1>3, <1>4, <2>1, <2>5
  <2>6. CASE c = [p |-> -1,  q |-> 0]
    BY <1>1, <2>1, <2>6
  <2>7. CASE c = [p |-> 1,   q |-> 1]
    BY <1>1, <2>1, <2>7
  <2> QED BY <2>2, <2>3, <2>4, <2>5, <2>6, <2>7
<1>6. SegmentIntersectsClosedTile(start, end, tile)
        = /\ \A c \in clips : c.p = 0 => c.q >= 0
          /\ \A lower, upper \in clips :
                lower.p < 0 /\ upper.p > 0 => lower.q * upper.p >= upper.q * lower.p
  BY Zenon DEF SegmentIntersectsClosedTile
<1> HIDE DEF clips
<1>7. ASSUME NEW c \in clips, c.p = 0 PROVE c.q >= 0
  <2>1. PICK q \in Int : q = c.q
    BY <1>5
  <2>2. 0 * d <= q * d
    BY <1>1, <1>5, <1>7, <2>1, Z3
  <2>3. 0 <= q
    BY <1>1, <2>2, TimesGrowsStrictly
  <2> QED BY <2>1, <2>3
<1>8. ASSUME NEW lower \in clips, NEW upper \in clips, lower.p < 0, upper.p > 0
      PROVE  lower.q * upper.p >= upper.q * lower.p
  BY <1>1, <1>5, <1>8, BoundsAreOrdered
<1> QED BY <1>6, <1>7, <1>8

LEMMA PassedBoxHasCell ==
  ASSUME NEW a \in Point, NEW b \in Point, NEW box \in Box,
         box.minX >= 0, box.maxX <= World, box.minY >= 0, box.maxY <= World,
         NEW n, NEW d, Parts(n, d), PassesAt(a, b, box, n, d)
  PROVE  CellsBetween(TilePoint(a), TilePoint(b)) \cap BboxCells(box) # {}
<1> USE GridIsPositive
<1>1. /\ a.x \in Int /\ a.y \in Int /\ b.x \in Int /\ b.y \in Int
      /\ box.minX \in Int /\ box.maxX \in Int /\ box.minY \in Int /\ box.maxY \in Int
      /\ n \in Nat /\ d \in Nat \ {0}
  BY DEF Point, Box, Parts
<1>2. PICK start \in Point, end \in Point : start = TilePoint(a) /\ end = TilePoint(b)
                                            /\ start = [x |-> a.x, y |-> World - a.y]
                                            /\ end = [x |-> b.x, y |-> World - b.y]
  <2>1. [x |-> a.x, y |-> World - a.y] \in Point /\ [x |-> b.x, y |-> World - b.y] \in Point
    BY <1>1 DEF Point
  <2> QED BY <2>1 DEF TilePoint, World
<1>3. PICK v \in Int, w \in Int : v = Along(start.x, end.x, n, d) /\ w = Along(start.y, end.y, n, d)
  <2>1. start.x \in Int /\ start.y \in Int /\ end.x \in Int /\ end.y \in Int
    BY DEF Point
  <2> QED BY <2>1, PlacesAreBetween
<1>4. PICK north \in Int, south \in Int : north = World - box.maxY /\ south = World - box.minY
  BY <1>1
<1>5. /\ box.minX * d <= v /\ v <= box.maxX * d /\ north * d <= w /\ w <= south * d
  <2>1. box.minX * d <= v /\ v <= box.maxX * d
    BY <1>2, <1>3 DEF PassesAt
  <2>2. w = World * d - Along(a.y, b.y, n, d) /\ Along(a.y, b.y, n, d) \in Int
    <3>1. (World - a.y) * d = World * d - a.y * d
      BY <1>1, Z3
    <3>2. ((World - b.y) - (World - a.y)) * n = -((b.y - a.y) * n)
      BY <1>1, Z3
    <3>3. World * d \in Int /\ a.y * d \in Int /\ (b.y - a.y) * n \in Int
      BY <1>1, Z3
    <3> QED BY <1>2, <1>3, <3>1, <3>2, <3>3 DEF Along
  <2>3. north * d = World * d - box.maxY * d /\ south * d = World * d - box.minY * d
    BY <1>1, <1>4, Z3
  <2>4. box.minY * d \in Int /\ box.maxY * d \in Int /\ World * d \in Int
    BY <1>1, Z3
  <2> QED BY <2>1, <2>2, <2>3, <2>4 DEF PassesAt
<1>6. 0 <= v /\ v <= World * d /\ 0 <= w /\ w <= World * d
  <2>1. 0 * d <= box.minX * d
    BY <1>1, TimesGrows
  <2>2. box.maxX * d <= World * d
    BY <1>1, TimesGrows
  <2>3. 0 * d <= north * d
    BY <1>1, <1>4, TimesGrows
  <2>4. south * d <= World * d
    BY <1>1, <1>4, TimesGrows
  <2>5. \A r \in {box.minX * d, box.maxX * d, north * d, south * d, World * d} : r \in Int
    BY <1>1, Z3
  <2>6. 0 * d = 0
    BY <1>1
  <2> QED BY <1>5, <2>1, <2>2, <2>3, <2>4, <2>5, <2>6
<1>7. PICK tx, ty : tx = ClampTileIndex(CellAt(v, d)) /\ ty = ClampTileIndex(CellAt(w, d))
  OBVIOUS
<1>8. tx \in Int /\ tx * CellSize * d <= v /\ v <= (tx + 1) * CellSize * d
  BY <1>1, <1>6, <1>7, TileHoldsPlace
<1>9. ty \in Int /\ ty * CellSize * d <= w /\ w <= (ty + 1) * CellSize * d
  BY <1>1, <1>6, <1>7, TileHoldsPlace
<1>10. PICK tile \in Point : tile = [x |-> tx, y |-> ty]
  BY <1>8, <1>9 DEF Point
<1>11. SegmentIntersectsClosedTile(start, end, tile)
  <2>1. tile.x = tx /\ tile.y = ty
    BY <1>10
  <2> QED BY <1>3, <1>8, <1>9, <2>1, PassingIsIntersecting
<1>12. ASSUME NEW p \in Int, NEW q \in Int
       PROVE  CellAt(Along(p, q, n, d), d) \in CellRange(p, q)
  <2>1. PICK low \in Int, high \in Int : low = Min({p, q}) /\ high = Max({p, q})
    BY ExtremesOfTwo
  <2>2. PICK u \in Int : u = Along(p, q, n, d) /\ low * d <= u /\ u <= high * d
    BY <2>1, PlacesAreBetween
  <2>3. /\ Cell(low) \in Int /\ Cell(high) \in Int /\ CellAt(u, d) \in Int
        /\ Cell(low) <= CellAt(u, d) /\ CellAt(u, d) <= Cell(high)
    BY <1>1, <2>2, CellIsInRange
  <2> QED BY <2>1, <2>2, <2>3 DEF CellRange
<1>13. tile \in CellsBetween(start, end)
  <2>1. start.x \in Int /\ end.x \in Int /\ start.y \in Int /\ end.y \in Int
    BY DEF Point
  <2>2. CellAt(v, d) \in CellRange(start.x, end.x)
    BY <1>3, <1>12, <2>1
  <2>3. CellAt(w, d) \in CellRange(start.y, end.y)
    BY <1>3, <1>12, <2>1
  <2>4. tx \in { ClampTileIndex(x) : x \in CellRange(start.x, end.x) }
    BY <1>7, <2>2, Zenon
  <2>5. ty \in { ClampTileIndex(y) : y \in CellRange(start.y, end.y) }
    BY <1>7, <2>3, Zenon
  <2> QED BY <1>10, <1>11, <2>4, <2>5 DEF CellsBetween
<1>14. tile \in BboxCells(box)
  <2>1. /\ Cell(box.minX) \in Int /\ Cell(box.maxX) \in Int /\ CellAt(v, d) \in Int
        /\ Cell(box.minX) <= CellAt(v, d) /\ CellAt(v, d) <= Cell(box.maxX)
    BY <1>1, <1>5, CellIsInRange
  <2>2. /\ Cell(north) \in Int /\ Cell(south) \in Int /\ CellAt(w, d) \in Int
        /\ Cell(north) <= CellAt(w, d) /\ CellAt(w, d) <= Cell(south)
    BY <1>1, <1>5, CellIsInRange
  <2>3. tx \in ClampTileIndex(Cell(box.minX)) .. ClampTileIndex(Cell(box.maxX))
    <3>1. ClampTileIndex(Cell(box.minX)) \in Int /\ ClampTileIndex(Cell(box.minX)) <= tx
      BY <1>7, <2>1, ClampGrows
    <3>2. ClampTileIndex(Cell(box.maxX)) \in Int /\ tx <= ClampTileIndex(Cell(box.maxX))
      BY <1>7, <2>1, ClampGrows
    <3> QED BY <1>8, <3>1, <3>2
  <2>4. ty \in ClampTileIndex(Cell(north)) .. ClampTileIndex(Cell(south))
    <3>1. ClampTileIndex(Cell(north)) \in Int /\ ClampTileIndex(Cell(north)) <= ty
      BY <1>7, <2>2, ClampGrows
    <3>2. ClampTileIndex(Cell(south)) \in Int /\ ty <= ClampTileIndex(Cell(south))
      BY <1>7, <2>2, ClampGrows
    <3> QED BY <1>9, <3>1, <3>2
  <2>5. /\ TilePoint([x |-> box.minX, y |-> box.maxY]).x = box.minX
        /\ TilePoint([x |-> box.minX, y |-> box.maxY]).y = north
        /\ TilePoint([x |-> box.maxX, y |-> box.minY]).x = box.maxX
        /\ TilePoint([x |-> box.maxX, y |-> box.minY]).y = south
    BY <1>4 DEF TilePoint, World
  <2> QED BY <1>10, <2>3, <2>4, <2>5 DEF BboxCells
<1> QED BY <1>2, <1>13, <1>14

-----------------------------------------------------------------------------
(* What any box that a route runs through finds of it.                     *)
LEMMA ExtremesOfImage ==
  ASSUME NEW m \in Nat \ {0}, NEW f \in [1..m -> Int], NEW S, S = { f[i] : i \in 1..m }
  PROVE  /\ Min(S) \in Int /\ Max(S) \in Int
         /\ \A i \in 1..m : Min(S) <= f[i] /\ f[i] <= Max(S)
<1> DEFINE A == { k \in Nat : k \in 1..m =>
                    /\ \E i \in 1..k : \A j \in 1..k : f[i] <= f[j]
                    /\ \E i \in 1..k : \A j \in 1..k : f[j] <= f[i] }
<1>1. ASSUME NEW k \in 0..m, 0..(k - 1) \subseteq A PROVE k \in A
  <2> SUFFICES ASSUME k \in 1..m
               PROVE  /\ \E i \in 1..k : \A j \in 1..k : f[i] <= f[j]
                      /\ \E i \in 1..k : \A j \in 1..k : f[j] <= f[i]
    OBVIOUS
  <2>1. f[k] \in Int /\ \A j \in 1..k : f[j] \in Int
    OBVIOUS
  <2>2. CASE k = 1
    BY <2>1, <2>2
  <2>3. CASE k # 1
    <3>1. k - 1 \in 0..(k - 1) /\ k - 1 \in 1..m
      BY <2>3
    <3>2. k - 1 \in A
      BY <1>1, <3>1
    <3>3. PICK l \in 1..(k - 1) : \A j \in 1..(k - 1) : f[l] <= f[j]
      BY <3>1, <3>2
    <3>4. PICK h \in 1..(k - 1) : \A j \in 1..(k - 1) : f[j] <= f[h]
      BY <3>1, <3>2
    <3>5. \A j \in 1..k : j = k \/ j \in 1..(k - 1)
      OBVIOUS
    <3>6. l \in 1..k /\ h \in 1..k /\ f[l] \in Int /\ f[h] \in Int
      BY <2>1
    <3>7. \E i \in 1..k : \A j \in 1..k : f[i] <= f[j]
      <4>1. CASE f[l] <= f[k]
        BY <2>1, <3>3, <3>5, <3>6, <4>1
      <4>2. CASE f[k] <= f[l]
        <5>1. \A j \in 1..k : f[k] <= f[j]
          BY <2>1, <3>3, <3>5, <3>6, <4>2
        <5> QED BY <5>1
      <4> QED BY <2>1, <3>6, <4>1, <4>2
    <3>8. \E i \in 1..k : \A j \in 1..k : f[j] <= f[i]
      <4>1. CASE f[k] <= f[h]
        BY <2>1, <3>4, <3>5, <3>6, <4>1
      <4>2. CASE f[h] <= f[k]
        <5>1. \A j \in 1..k : f[j] <= f[k]
          BY <2>1, <3>4, <3>5, <3>6, <4>2
        <5> QED BY <5>1
      <4> QED BY <2>1, <3>6, <4>1, <4>2
    <3> QED BY <3>7, <3>8
  <2> QED BY <2>2, <2>3
<1>2. m \in A
  <2>1. A \in SUBSET Nat
    OBVIOUS
  <2> HIDE DEF A
  <2>2. 0..m \subseteq A
    BY <1>1, <2>1, Induction
  <2> QED BY <2>2
<1>3. (\E x \in S : \A y \in S : x <= y) /\ (\E x \in S : \A y \in S : x >= y)
  <2>1. \A i \in 1..m : f[i] \in Int
    OBVIOUS
  <2>2. PICK l \in 1..m : \A j \in 1..m : f[l] <= f[j]
    BY <1>2
  <2>3. PICK h \in 1..m : \A j \in 1..m : f[j] <= f[h]
    BY <1>2
  <2>4. f[l] \in S /\ \A y \in S : f[l] <= y
    BY <2>2
  <2>5. f[h] \in S /\ \A y \in S : f[h] >= y
    BY <2>1, <2>3
  <2> QED BY <2>4, <2>5
<1>4. Min(S) \in S /\ \A y \in S : Min(S) <= y
  BY <1>3, Zenon DEF Min
<1>5. Max(S) \in S /\ \A y \in S : Max(S) >= y
  BY <1>3, Zenon DEF Max
<1>6. S \subseteq Int /\ \A i \in 1..m : f[i] \in S
  OBVIOUS
<1> HIDE DEF A
<1> QED BY <1>4, <1>5, <1>6

LEMMA PassedBoxOverlaps ==
  ASSUME NEW points \in Seq(Point), NEW i \in 1..(Len(points) - 1), NEW box \in Box,
         NEW n, NEW d, Parts(n, d), PassesAt(points[i], points[i + 1], box, n, d)
  PROVE  Overlap(BboxFromPoints(points), box)
<1>1. PICK m \in Nat \ {0} : m = Len(points) /\ i \in 1..m /\ i + 1 \in 1..m
  BY LenProperties
<1>2. d \in Nat \ {0} /\ n \in Nat
  BY DEF Parts
<1>3. /\ box.minX \in Int /\ box.maxX \in Int /\ box.minY \in Int /\ box.maxY \in Int
  BY DEF Box
<1>4. \A j \in 1..m : points[j].x \in Int /\ points[j].y \in Int
  <2>1. \A j \in 1..m : points[j] \in Point
    BY <1>1, ElementOfSeq
  <2> QED BY <2>1 DEF Point
<1>5. ASSUME NEW f \in [1..m -> Int], NEW S, S = { f[j] : j \in 1..m },
             NEW low \in Int, NEW high \in Int,
             low * d <= Along(f[i], f[i + 1], n, d), Along(f[i], f[i + 1], n, d) <= high * d
      PROVE  Max(S) >= low /\ Min(S) <= high
  <2>1. /\ Min(S) \in Int /\ Max(S) \in Int
        /\ \A j \in 1..m : Min(S) <= f[j] /\ f[j] <= Max(S)
    BY <1>1, <1>5, ExtremesOfImage
  <2>2. f[i] \in Int /\ f[i + 1] \in Int
    BY <1>1
  <2>3. PICK l, h \in Int : /\ l = Min({f[i], f[i + 1]}) /\ h = Max({f[i], f[i + 1]})
                            /\ Min(S) <= l /\ h <= Max(S)
    BY <1>1, <2>1, <2>2, ExtremesOfTwo
  <2>4. PICK v \in Int : v = Along(f[i], f[i + 1], n, d) /\ l * d <= v /\ v <= h * d
    BY <2>2, <2>3, PlacesAreBetween
  <2>5. l * d \in Int /\ h * d \in Int /\ low * d \in Int /\ high * d \in Int
    BY <1>2, Z3
  <2>6. low * d <= h * d
    BY <1>5, <2>4, <2>5
  <2>7. l * d <= high * d
    BY <1>5, <2>4, <2>5
  <2>8. low <= h
    BY <1>2, <2>6, TimesGrowsStrictly
  <2>9. l <= high
    BY <1>2, <2>7, TimesGrowsStrictly
  <2> QED BY <2>1, <2>3, <2>8, <2>9
<1>6. DOMAIN points = 1..m
  BY <1>1, LenProperties
<1>7. Max(Xs(points)) >= box.minX /\ Min(Xs(points)) <= box.maxX
  <2>1. PICK f : f = [j \in 1..m |-> points[j].x]
    OBVIOUS
  <2>2. f \in [1..m -> Int] /\ Xs(points) = { f[j] : j \in 1..m }
    BY <1>4, <1>6, <2>1 DEF Xs
  <2>3. f[i] = points[i].x /\ f[i + 1] = points[i + 1].x
    BY <1>1, <2>1
  <2> QED BY <1>3, <1>5, <2>2, <2>3 DEF PassesAt
<1>8. Max(Ys(points)) >= box.minY /\ Min(Ys(points)) <= box.maxY
  <2>1. PICK f : f = [j \in 1..m |-> points[j].y]
    OBVIOUS
  <2>2. f \in [1..m -> Int] /\ Ys(points) = { f[j] : j \in 1..m }
    BY <1>4, <1>6, <2>1 DEF Ys
  <2>3. f[i] = points[i].y /\ f[i + 1] = points[i + 1].y
    BY <1>1, <2>1
  <2> QED BY <1>3, <1>5, <2>2, <2>3 DEF PassesAt
<1> QED BY <1>7, <1>8 DEF Overlap, BboxFromPoints

LEMMA RouteIsFound ==
  ASSUME NEW points \in Seq(Point), NEW i \in 1..(Len(points) - 1), NEW box \in Box,
         box.minX >= 0, box.maxX <= World, box.minY >= 0, box.maxY <= World,
         Meets(points[i], points[i + 1], box)
  PROVE  SegmentCells(points) \cap BboxCells(box) # {} /\ Overlap(BboxFromPoints(points), box)
<1>1. points[i] \in Point /\ points[i + 1] \in Point
  <2>1. i \in 1..Len(points) /\ i + 1 \in 1..Len(points)
    BY LenProperties
  <2>2. points[i] \in Point
    BY <2>1, ElementOfSeq
  <2>3. points[i + 1] \in Point
    BY <2>1, ElementOfSeq
  <2> QED BY <2>2, <2>3
<1>2. PICK n, d : Parts(n, d) /\ PassesAt(points[i], points[i + 1], box, n, d)
  BY <1>1, MeetingIsPassing
<1>3. CellsBetween(TilePoint(points[i]), TilePoint(points[i + 1])) \cap BboxCells(box) # {}
  BY <1>1, <1>2, PassedBoxHasCell
<1>4. CellsBetween(TilePoint(points[i]), TilePoint(points[i + 1])) \subseteq SegmentCells(points)
  BY Zenon DEF SegmentCells
<1>5. Overlap(BboxFromPoints(points), box)
  BY <1>2, PassedBoxOverlaps
<1> QED BY <1>3, <1>4, <1>5

-----------------------------------------------------------------------------
(* The polyline.                                                           *)
LEMMA ChunkIsBase == Chunk \in Nat /\ Chunk >= 2
  BY SpatialIndexAssumption DEF SpatialIndexAssumption

LEMMA ZigZagsBack ==
  ASSUME NEW v \in Int
  PROVE  ZigZag(v) \in Nat /\ UnZigZag(ZigZag(v)) = v
<1>1. CASE v < 0
  <2>1. PICK w \in Nat : v = -w - 1
    <3>1. -v - 1 \in Nat /\ v = -(-v - 1) - 1
      BY <1>1
    <3> QED BY <3>1
  <2>2. ZigZag(v) = 2 * w + 1
    BY <1>1, <2>1 DEF ZigZag
  <2>3. (2 * w + 1) % 2 = 1 /\ (2 * w + 1) \div 2 = w
    BY <2>1
  <2> QED BY <2>1, <2>2, <2>3 DEF UnZigZag
<1>2. CASE ~(v < 0)
  <2>1. v \in Nat /\ ZigZag(v) = 2 * v
    BY <1>2 DEF ZigZag
  <2>2. (2 * v) % 2 = 0 /\ (2 * v) \div 2 = v
    BY <2>1
  <2> QED BY <2>1, <2>2 DEF UnZigZag
<1> QED BY <1>1, <1>2

LEMMA UnZigZagIsInt ==
  ASSUME NEW n \in Nat
  PROVE  UnZigZag(n) \in Int
BY DEF UnZigZag

Readings == [steps : Seq(Int), value : Nat, scale : Nat]

Read(steps, value, scale) == [steps |-> steps, value |-> value, scale |-> scale]

LEMMA BytesAreTaken ==
  ASSUME NEW read \in Readings, NEW byte \in Nat
  PROVE  TakeByte(read, byte) \in Readings
<1>1. read.steps \in Seq(Int) /\ read.value \in Nat /\ read.scale \in Nat
  BY DEF Readings
<1>2. PICK k \in Nat : k = byte % Chunk
  BY ChunkIsBase, Division
<1>3. PICK value \in Nat : value = read.value + (byte % Chunk) * read.scale
  <2>1. read.value + k * read.scale \in Nat
    BY <1>1, Z3
  <2> QED BY <1>2, <2>1
<1>4. PICK scale \in Nat : scale = read.scale * Chunk
  BY <1>1, ChunkIsBase, Z3
<1>5. UnZigZag(value) \in Int
  BY UnZigZagIsInt
<1>6. Append(read.steps, UnZigZag(value)) \in Seq(Int)
  BY <1>1, <1>5, AppendProperties
<1> QED BY <1>1, <1>3, <1>4, <1>6, ChunkIsBase DEF TakeByte, Readings

ReadTurn(bytes, read, i) == IF i = 0 THEN Read(<< >>, 0, 1) ELSE TakeByte(read[i - 1], bytes[i])

ReadsBytes(bytes, r) ==
    /\ r \in [0..Len(bytes) -> Readings]
    /\ \A i \in 0..Len(bytes) : r[i] = ReadTurn(bytes, r, i)

LEMMA ReadingUnfolds ==
  ASSUME NEW bytes \in Seq(Nat)
  PROVE  \E r : ReadsBytes(bytes, r) /\ Reading(bytes) = r[Len(bytes)]
<1>1. PICK n \in Nat : n = Len(bytes)
  BY LenProperties
<1>2. \A i \in 1..n : bytes[i] \in Nat
  BY <1>1, ElementOfSeq
<1>3. Read(<< >>, 0, 1) \in Readings
  <2>1. << >> \in Seq(Int)
    BY EmptySeq
  <2> QED BY <2>1 DEF Read, Readings
<1> DEFINE I      == 0..n
           first  == [i \in I |-> Read(<< >>, 0, 1)]
           before == [i \in I |-> IF i = 0 THEN 0 ELSE i - 1]
           g      == [p \in I \X Readings |->
                        IF p[1] = 0 THEN p[2] ELSE TakeByte(p[2], bytes[p[1]])]
           iter   == CHOOSE it : it = [i \in 0..Len(bytes) |-> ReadTurn(bytes, it, i)]
<1>4. first \in [I -> Readings] /\ before \in [I -> I]
  BY <1>3
<1>5. g \in [I \X Readings -> Readings]
  <2>1. ASSUME NEW p \in I \X Readings PROVE g[p] \in Readings
    <3>1. CASE p[1] = 0
      BY <3>1
    <3>2. CASE p[1] # 0
      <4>1. bytes[p[1]] \in Nat /\ p[2] \in Readings
        BY <1>2, <3>2
      <4> QED BY <3>2, <4>1, BytesAreTaken
    <3> QED BY <3>1, <3>2
  <2> QED BY <2>1
<1>6. PICK h \in [I -> Readings] : Follows(h, I, first, before, g)
  <2>1. I \in SUBSET (0..n)
    OBVIOUS
  <2> HIDE DEF I, first, before, g
  <2> QED BY <1>4, <1>5, <2>1, FollowingExists
<1>7. ASSUME NEW i \in I PROVE h[i] = ReadTurn(bytes, h, i)
  <2>1. h[i] = IF before[i] < i THEN g[<< i, h[before[i]] >>] ELSE first[i]
    BY <1>6 DEF Follows
  <2>2. CASE i = 0
    BY <2>1, <2>2 DEF ReadTurn
  <2>3. CASE i # 0
    <3>1. before[i] = i - 1 /\ i - 1 \in I /\ i - 1 < i /\ h[i - 1] \in Readings
      BY <2>3
    <3>2. h[i] = g[<< i, h[i - 1] >>] /\ << i, h[i - 1] >> \in I \X Readings
      BY <2>1, <3>1
    <3>3. g[<< i, h[i - 1] >>] = TakeByte(h[i - 1], bytes[i])
      BY <2>3, <3>2
    <3> QED BY <2>3, <3>2, <3>3 DEF ReadTurn
  <2> QED BY <2>2, <2>3
<1>8. h = [i \in 0..Len(bytes) |-> ReadTurn(bytes, h, i)]
  <2> HIDE DEF g, first, before
  <2> QED BY <1>1, <1>7
<1>9. iter = [i \in 0..Len(bytes) |-> ReadTurn(bytes, iter, i)]
  <2> HIDE DEF g, first, before
  <2> QED BY <1>8
<1>10. Reading(bytes) = iter[Len(bytes)]
  BY Zenon DEF Reading, ReadTurn, Read
<1> DEFINE A == { k \in Nat : k \in I => iter[k] \in Readings }
<1>11. ASSUME NEW k \in 0..n, 0..(k - 1) \subseteq A PROVE k \in A
  <2> HIDE DEF iter
  <2>1. iter[k] = ReadTurn(bytes, iter, k)
    BY <1>1, <1>9
  <2>2. CASE k = 0
    BY <1>3, <2>1, <2>2 DEF ReadTurn
  <2>3. CASE k # 0
    <3>1. k - 1 \in 0..(k - 1) /\ k - 1 \in I /\ bytes[k] \in Nat
      BY <1>2, <2>3
    <3>2. iter[k - 1] \in Readings
      BY <1>11, <3>1
    <3> QED BY <2>1, <2>3, <3>1, <3>2, BytesAreTaken DEF ReadTurn
  <2> QED BY <2>2, <2>3
<1>12. \A i \in I : iter[i] \in Readings
  <2>1. A \in SUBSET Nat
    OBVIOUS
  <2>2. 0..n \subseteq A
    <3> HIDE DEF A
    <3> QED BY <1>11, <2>1, Induction
  <2> HIDE DEF iter
  <2> QED BY <2>2
<1>13. ReadsBytes(bytes, iter)
  <2> HIDE DEF iter
  <2>1. iter \in [0..Len(bytes) -> Readings]
    BY <1>1, <1>9, <1>12
  <2>2. \A i \in 0..Len(bytes) : iter[i] = ReadTurn(bytes, iter, i)
    BY <1>9
  <2> QED BY <2>1, <2>2 DEF ReadsBytes
<1> HIDE DEF iter
<1> QED BY <1>10, <1>13

LEMMA NothingIsRead == Reading(<< >>) = Read(<< >>, 0, 1)
<1>1. << >> \in Seq(Nat) /\ Len(<< >>) = 0
  BY EmptySeq
<1>2. PICK r : ReadsBytes(<< >>, r) /\ Reading(<< >>) = r[0]
  BY <1>1, ReadingUnfolds
<1> QED BY <1>1, <1>2 DEF ReadsBytes, ReadTurn

(* What has been read does not depend on what follows.                     *)
LEMMA SmallRemainder ==
  ASSUME NEW k \in Nat, NEW c \in Nat \ {0}, k < c
  PROVE  k % c = k
BY Z3

LEMMA ReadsOn ==
  ASSUME NEW bytes \in Seq(Nat), NEW byte \in Nat
  PROVE  Reading(bytes) \in Readings /\ Reading(bytes \o << byte >>) = TakeByte(Reading(bytes), byte)
<1>1. PICK n \in Nat : n = Len(bytes)
  BY LenProperties
<1>2. PICK more \in Seq(Nat) : /\ more = bytes \o << byte >> /\ Len(more) = n + 1
                               /\ more[n + 1] = byte /\ \A i \in 1..n : more[i] = bytes[i]
  <2>1. << byte >> \in Seq(Nat) /\ Len(<< byte >>) = 1 /\ << byte >>[1] = byte
    OBVIOUS
  <2>2. /\ bytes \o << byte >> \in Seq(Nat)
        /\ Len(bytes \o << byte >>) = n + 1
        /\ \A i \in 1..(n + 1) : (bytes \o << byte >>)[i] =
                                   IF i <= n THEN bytes[i] ELSE << byte >>[i - n]
    BY <1>1, <2>1, ConcatProperties
  <2>3. \A i \in 1..n : i \in 1..(n + 1) /\ i <= n
    OBVIOUS
  <2>4. n + 1 \in 1..(n + 1) /\ ~(n + 1 <= n) /\ (n + 1) - n = 1
    OBVIOUS
  <2> QED BY <2>1, <2>2, <2>3, <2>4
<1>3. PICK r : ReadsBytes(bytes, r) /\ Reading(bytes) = r[n]
  BY <1>1, ReadingUnfolds
<1>4. PICK s : ReadsBytes(more, s) /\ Reading(more) = s[n + 1]
  BY <1>2, ReadingUnfolds
<1> DEFINE A == { k \in Nat : k \in 0..n => s[k] = r[k] }
<1>5. ASSUME NEW k \in 0..n, 0..(k - 1) \subseteq A PROVE k \in A
  <2>1. r[k] = ReadTurn(bytes, r, k) /\ s[k] = ReadTurn(more, s, k)
    <3>1. k \in 0..Len(bytes) /\ k \in 0..Len(more)
      BY <1>1, <1>2
    <3> QED BY <1>3, <1>4, <3>1 DEF ReadsBytes
  <2>2. CASE k = 0
    BY <2>1, <2>2 DEF ReadTurn
  <2>3. CASE k # 0
    <3>1. k - 1 \in 0..(k - 1) /\ k - 1 \in 0..n /\ k \in 1..n
      BY <2>3
    <3>2. s[k - 1] = r[k - 1] /\ more[k] = bytes[k]
      BY <1>2, <1>5, <3>1
    <3> QED BY <2>1, <2>3, <3>2 DEF ReadTurn
  <2> QED BY <2>2, <2>3
<1>6. s[n] = r[n]
  <2>1. A \in SUBSET Nat
    OBVIOUS
  <2>2. 0..n \subseteq A
    <3> HIDE DEF A
    <3> QED BY <1>5, <2>1, Induction
  <2> QED BY <2>2
<1>7. s[n + 1] = TakeByte(s[n], byte)
  <2>1. n + 1 \in 0..Len(more) /\ n + 1 # 0 /\ (n + 1) - 1 = n
    BY <1>2
  <2>2. s[n + 1] = ReadTurn(more, s, n + 1)
    BY <1>4, <2>1 DEF ReadsBytes
  <2> QED BY <1>2, <2>1, <2>2 DEF ReadTurn
<1>8. r[n] \in Readings
  BY <1>1, <1>3 DEF ReadsBytes
<1> QED BY <1>2, <1>3, <1>4, <1>6, <1>7, <1>8

GroupTurn(groups, n) ==
    IF n < Chunk THEN << n >> ELSE << Chunk + (n % Chunk) >> \o groups[n \div Chunk]

HasGroups(groups, n) ==
    /\ groups \in [0..n -> Seq(Nat)]
    /\ \A k \in 0..n : groups[k] = GroupTurn(groups, k)

LEMMA GroupsAreLess ==
  ASSUME NEW n \in Nat, n >= Chunk
  PROVE  /\ n \div Chunk \in Nat /\ n \div Chunk < n
         /\ n % Chunk \in Nat /\ n % Chunk < Chunk
         /\ n = (n \div Chunk) * Chunk + (n % Chunk)
<1> USE ChunkIsBase
<1>1. PICK q \in Int, r \in 0..(Chunk - 1) : /\ q = n \div Chunk /\ r = n % Chunk
                                             /\ n = q * Chunk + r
  BY Division
<1>2. q >= 0
  <2>1. ~((q + 1) * Chunk <= 0 * Chunk)
    BY <1>1, TimesShuffles
  <2> QED BY <2>1, TimesGrows
<1>3. q < n
  <2>1. q * 2 <= q * Chunk
    BY <1>2, Z3
  <2>2. q * Chunk \in Int
    BY Z3
  <2>3. CASE q = 0
    BY <2>3
  <2>4. CASE q # 0
    BY <1>1, <1>2, <2>1, <2>2, <2>4
  <2> QED BY <2>3, <2>4
<1> QED BY <1>1, <1>2, <1>3

LEMMA CoordinateUnfolds ==
  ASSUME NEW v \in Int
  PROVE  \E groups : HasGroups(groups, ZigZag(v)) /\ EncodeCoordinate(v) = groups[ZigZag(v)]
<1>1. PICK n \in Nat : n = ZigZag(v)
  BY ZigZagsBack
<1> DEFINE I      == 0..n
           V      == Seq(Nat)
           first  == [i \in I |-> << i >>]
           before == [i \in I |-> IF i < Chunk THEN i ELSE i \div Chunk]
           g      == [p \in I \X V |-> << Chunk + (p[1] % Chunk) >> \o p[2]]
           iter   == CHOOSE it : it = [k \in 0..ZigZag(v) |-> GroupTurn(it, k)]
<1>2. first \in [I -> V]
  OBVIOUS
<1>3. before \in [I -> I]
  <2>1. \A i \in I : ~(i < Chunk) => i \div Chunk \in I
    BY GroupsAreLess, ChunkIsBase
  <2> QED BY <2>1
<1>4. g \in [I \X V -> V]
  <2>1. ASSUME NEW p \in I \X V PROVE << Chunk + (p[1] % Chunk) >> \o p[2] \in V
    <3>1. PICK r \in Nat : r = p[1] % Chunk
      BY Division, ChunkIsBase
    <3>2. << Chunk + r >> \in Seq(Nat)
      BY ChunkIsBase
    <3> QED BY <3>1, <3>2, ConcatProperties
  <2> QED BY <2>1
<1>5. PICK h \in [I -> V] : Follows(h, I, first, before, g)
  <2>1. I \in SUBSET (0..n)
    OBVIOUS
  <2> HIDE DEF I, first, before, g, V
  <2> QED BY <1>2, <1>3, <1>4, <2>1, FollowingExists
<1>6. ASSUME NEW i \in I PROVE h[i] = GroupTurn(h, i)
  <2>1. h[i] = IF before[i] < i THEN g[<< i, h[before[i]] >>] ELSE first[i]
    BY <1>5 DEF Follows
  <2>2. CASE i < Chunk
    BY <2>1, <2>2 DEF GroupTurn
  <2>3. CASE ~(i < Chunk)
    <3>1. PICK k \in I : k = i \div Chunk /\ k < i /\ before[i] = k /\ h[k] \in V
      <4>1. i \in Nat /\ i >= Chunk
        BY <2>3, ChunkIsBase
      <4>2. i \div Chunk \in Nat /\ i \div Chunk < i
        BY <4>1, GroupsAreLess
      <4>3. i \div Chunk \in I /\ before[i] = i \div Chunk
        BY <2>3, <4>2
      <4>4. h[i \div Chunk] \in V
        BY <4>3
      <4> QED BY <4>2, <4>3, <4>4
    <3>2. h[i] = g[<< i, h[k] >>] /\ << i, h[k] >> \in I \X V
      BY <2>1, <3>1
    <3>3. g[<< i, h[k] >>] = << Chunk + (i % Chunk) >> \o h[k]
      BY <3>2
    <3> QED BY <2>3, <3>1, <3>2, <3>3 DEF GroupTurn
  <2> QED BY <2>2, <2>3
<1>7. h = [k \in 0..ZigZag(v) |-> GroupTurn(h, k)]
  <2> HIDE DEF g, first, before, V
  <2> QED BY <1>1, <1>6
<1>8. iter = [k \in 0..ZigZag(v) |-> GroupTurn(iter, k)]
  <2> HIDE DEF g, first, before, V
  <2> QED BY <1>7
<1>9. EncodeCoordinate(v) = iter[ZigZag(v)]
  BY Zenon DEF EncodeCoordinate, GroupTurn
<1> DEFINE A == { k \in Nat : k \in I => iter[k] \in V }
<1>10. ASSUME NEW k \in 0..n, 0..(k - 1) \subseteq A PROVE k \in A
  <2> HIDE DEF iter
  <2> SUFFICES iter[k] \in Seq(Nat)
    OBVIOUS
  <2>1. iter[k] = GroupTurn(iter, k)
    BY <1>1, <1>8
  <2>2. CASE k < Chunk
    <3>1. PICK one \in Seq(Nat) : one = << k >>
      <4>1. << k >> \in Seq(Nat)
        OBVIOUS
      <4> QED BY <4>1
    <3>2. iter[k] = one
      BY <2>1, <2>2, <3>1 DEF GroupTurn
    <3> QED BY <3>1, <3>2
  <2>3. CASE ~(k < Chunk)
    <3>1. PICK m \in 0..(k - 1) : m = k \div Chunk
      <4>1. k \in Nat /\ k >= Chunk
        BY <2>3, ChunkIsBase
      <4>2. k \div Chunk \in Nat /\ k \div Chunk < k
        BY <4>1, GroupsAreLess
      <4> QED BY <4>1, <4>2
    <3>2. iter[m] \in V
      BY <1>10, <3>1
    <3>3. iter[k] = g[<< k, iter[m] >>] /\ << k, iter[m] >> \in I \X V
      BY <2>1, <2>3, <3>1, <3>2 DEF GroupTurn
    <3> HIDE DEF g
    <3> QED BY <1>4, <3>3
  <2> QED BY <2>2, <2>3
<1>11. \A i \in I : iter[i] \in V
  <2>1. A \in SUBSET Nat
    OBVIOUS
  <2>2. 0..n \subseteq A
    <3> HIDE DEF A
    <3> QED BY <1>10, <2>1, Induction
  <2> HIDE DEF iter
  <2> QED BY <2>2
<1>12. HasGroups(iter, ZigZag(v))
  <2> HIDE DEF iter
  <2>1. iter \in [0..ZigZag(v) -> Seq(Nat)]
    BY <1>1, <1>8, <1>11
  <2>2. \A k \in 0..ZigZag(v) : iter[k] = GroupTurn(iter, k)
    BY <1>8
  <2> QED BY <2>1, <2>2 DEF HasGroups
<1> HIDE DEF iter
<1> QED BY <1>9, <1>12

LEMMA RemainderIs ==
  ASSUME NEW r \in Nat, r < Chunk
  PROVE  (Chunk + r) % Chunk = r
<1> USE ChunkIsBase
<1>1. PICK q \in Int, m \in 0..(Chunk - 1) : m = (Chunk + r) % Chunk /\ Chunk + r = q * Chunk + m
  BY Division
<1>2. (q - 1) * Chunk = r - m
  <2>1. (q - 1) * Chunk = q * Chunk - Chunk /\ q * Chunk \in Int
    BY Z3
  <2> QED BY <1>1, <2>1
<1>3. q - 1 < 1
  <2>1. ~(1 * Chunk <= (q - 1) * Chunk)
    BY <1>1, <1>2
  <2> QED BY <2>1, TimesGrows
<1>4. q - 1 > -1
  <2>1. (-1) * Chunk = -Chunk
    OBVIOUS
  <2>2. ~((q - 1) * Chunk <= (-1) * Chunk)
    BY <1>1, <1>2, <2>1
  <2> QED BY <2>2, TimesGrows
<1>5. q - 1 = 0
  BY <1>3, <1>4
<1> QED BY <1>1, <1>2, <1>5

ReadAtScale(value, scale, q, r) ==
    (value + r * scale) + q * (scale * Chunk) = value + (q * Chunk + r) * scale

LEMMA ScalesAgree ==
  ASSUME NEW value \in Nat, NEW scale \in Nat, NEW q \in Nat, NEW r \in Nat
  PROVE  ReadAtScale(value, scale, q, r)
<1>1. Chunk \in Nat
  BY ChunkIsBase
<1>2. (value + r * scale) + q * (scale * Chunk) = value + (q * Chunk + r) * scale
  BY <1>1, Z3
<1> QED BY <1>2 DEF ReadAtScale

Regroups(s, t, u) == (s \o t) \o u = s \o (t \o u)

LEMMA ConcatenationRegroups ==
  ASSUME NEW S, NEW s \in Seq(S), NEW t \in Seq(S), NEW u \in Seq(S)
  PROVE  Regroups(s, t, u)
BY ConcatAssociative DEF Regroups

(* The groups of a number, read at any scale.                              *)
ReadsGroup(groups, k, bytes, steps, value, scale) ==
    Reading(bytes) = Read(steps, value, scale) =>
        Reading(bytes \o groups[k]) = Read(Append(steps, UnZigZag(value + k * scale)), 0, 1)

ReadsGroups(groups, k) ==
    \A bytes \in Seq(Nat), steps \in Seq(Int), value \in Nat, scale \in Nat :
        ReadsGroup(groups, k, bytes, steps, value, scale)

LEMMA GroupsAreRead ==
  ASSUME NEW n \in Nat, NEW groups, HasGroups(groups, n)
  PROVE  ReadsGroups(groups, n)
<1> USE ChunkIsBase
<1> DEFINE A == { k \in Nat : ReadsGroups(groups, k) }
<1>1. ASSUME NEW k \in 0..n, 0..(k - 1) \subseteq A PROVE k \in A
  <2> SUFFICES ASSUME NEW bytes \in Seq(Nat), NEW steps \in Seq(Int), NEW value \in Nat,
                      NEW scale \in Nat, Reading(bytes) = Read(steps, value, scale)
               PROVE  Reading(bytes \o groups[k])
                        = Read(Append(steps, UnZigZag(value + k * scale)), 0, 1)
    BY DEF ReadsGroups, ReadsGroup
  <2>1. groups[k] = GroupTurn(groups, k)
    BY DEF HasGroups
  <2>2. CASE k < Chunk
    <3>1. k % Chunk = k
      <4>1. k \in Nat /\ Chunk \in Nat \ {0}
        OBVIOUS
      <4> QED BY <2>2, <4>1, SmallRemainder
    <3>2. Reading(bytes \o << k >>) = TakeByte(Reading(bytes), k)
      BY ReadsOn
    <3>3. TakeByte(Read(steps, value, scale), k)
            = Read(Append(steps, UnZigZag(value + k * scale)), 0, 1)
      BY <2>2, <3>1 DEF TakeByte, Read
    <3> QED BY <2>1, <2>2, <3>2, <3>3 DEF GroupTurn
  <2>3. CASE ~(k < Chunk)
    <3>1. PICK q \in Nat, r \in Nat : /\ q = k \div Chunk /\ r = k % Chunk /\ q < k /\ r < Chunk
                                      /\ k = q * Chunk + r
      <4>1. k \in Nat /\ k >= Chunk
        BY <2>3
      <4>2. /\ k \div Chunk \in Nat /\ k \div Chunk < k
            /\ k % Chunk \in Nat /\ k % Chunk < Chunk
            /\ k = (k \div Chunk) * Chunk + (k % Chunk)
        BY <4>1, GroupsAreLess
      <4> QED BY <4>2
    <3>2. PICK byte \in Nat : byte = Chunk + r
      OBVIOUS
    <3>3. byte % Chunk = r /\ ~(byte < Chunk)
      <4>1. byte % Chunk = r
        BY <3>1, <3>2, RemainderIs
      <4> QED BY <3>1, <3>2, <4>1
    <3>4. PICK next, more \in Nat : next = value + r * scale /\ more = scale * Chunk
      BY Z3
    <3>5. Reading(bytes \o << byte >>) = Read(steps, next, more)
      <4>1. Reading(bytes \o << byte >>) = TakeByte(Reading(bytes), byte)
        BY ReadsOn
      <4>2. PICK read : read = Read(steps, value, scale)
        OBVIOUS
      <4>3. read.steps = steps /\ read.value = value /\ read.scale = scale
        BY <4>2 DEF Read
      <4>4. TakeByte(read, byte) = Read(steps, next, more)
        BY <3>3, <3>4, <4>3, Zenon DEF TakeByte, Read
      <4> QED BY <4>1, <4>2, <4>4
    <3>6. PICK one, rest \in Seq(Nat) : /\ one = << byte >> /\ rest = groups[q]
                                       /\ bytes \o one \in Seq(Nat)
      <4>1. << byte >> \in Seq(Nat)
        OBVIOUS
      <4>2. q \in 0..n
        BY <3>1
      <4>3. groups[q] \in Seq(Nat)
        BY <4>2 DEF HasGroups
      <4>4. bytes \o << byte >> \in Seq(Nat)
        BY <4>1, ConcatProperties
      <4> QED BY <4>1, <4>3, <4>4
    <3>7. ReadsGroups(groups, q)
      <4>1. q \in 0..(k - 1)
        BY <3>1
      <4> QED BY <1>1, <4>1
    <3>8. Reading((bytes \o one) \o rest)
            = Read(Append(steps, UnZigZag(next + q * more)), 0, 1)
      <4>1. Reading(bytes \o one) = Read(steps, next, more)
        BY <3>5, <3>6
      <4>2. Reading((bytes \o one) \o groups[q])
              = Read(Append(steps, UnZigZag(next + q * more)), 0, 1)
        <5>1. ReadsGroup(groups, q, bytes \o one, steps, next, more)
          BY <3>4, <3>6, <3>7 DEF ReadsGroups
        <5> QED BY <4>1, <5>1 DEF ReadsGroup
      <4> QED BY <3>6, <4>2
    <3>9. next + q * more = value + k * scale
      <4>1. ReadAtScale(value, scale, q, r)
        BY <3>1, ScalesAgree
      <4> QED BY <3>1, <3>4, <4>1 DEF ReadAtScale
    <3>10. (bytes \o one) \o rest = bytes \o groups[k]
      <4>1. (bytes \o one) \o rest = bytes \o (one \o rest)
        <5>1. Regroups(bytes, one, rest)
          BY <3>6, ConcatenationRegroups
        <5> QED BY <5>1 DEF Regroups
      <4>2. groups[k] = one \o rest
        BY <2>1, <2>3, <3>1, <3>2, <3>6 DEF GroupTurn
      <4> QED BY <4>1, <4>2
    <3> QED BY <3>8, <3>9, <3>10
  <2> QED BY <2>2, <2>3
<1>2. n \in A
  <2>1. A \in SUBSET Nat
    OBVIOUS
  <2>2. 0..n \subseteq A
    <3> HIDE DEF A
    <3> QED BY <1>1, <2>1, Induction
  <2> QED BY <2>2
<1> QED BY <1>2

LEMMA CoordinateIsRead ==
  ASSUME NEW v \in Int, NEW bytes \in Seq(Nat), NEW steps \in Seq(Int),
         Reading(bytes) = Read(steps, 0, 1)
  PROVE  /\ EncodeCoordinate(v) \in Seq(Nat)
         /\ Reading(bytes \o EncodeCoordinate(v)) = Read(Append(steps, v), 0, 1)
<1>1. PICK n \in Nat : n = ZigZag(v) /\ UnZigZag(n) = v
  BY ZigZagsBack
<1>2. PICK groups : HasGroups(groups, n) /\ EncodeCoordinate(v) = groups[n]
  BY <1>1, CoordinateUnfolds
<1>3. groups[n] \in Seq(Nat)
  BY <1>2 DEF HasGroups
<1>4. Reading(bytes \o groups[n]) = Read(Append(steps, UnZigZag(0 + n * 1)), 0, 1)
  <2>1. ReadsGroups(groups, n)
    BY <1>2, GroupsAreRead
  <2>2. ReadsGroup(groups, n, bytes, steps, 0, 1)
    BY <2>1 DEF ReadsGroups
  <2> QED BY <2>2 DEF ReadsGroup
<1>5. 0 + n * 1 = n
  OBVIOUS
<1> QED BY <1>1, <1>2, <1>3, <1>4, <1>5

PointBefore(points, i) == IF i = 1 THEN Origin ELSE points[i - 1]

EncodeTurn(points, encoded, i) ==
    IF i = 0 THEN << >>
    ELSE (encoded[i - 1] \o EncodeCoordinate(points[i].y - PointBefore(points, i).y))
             \o EncodeCoordinate(points[i].x - PointBefore(points, i).x)

Encodes(points, encoded) ==
    /\ encoded \in [0..Len(points) -> Seq(Nat)]
    /\ \A i \in 0..Len(points) : encoded[i] = EncodeTurn(points, encoded, i)

LEMMA DifferencesAreIntegers ==
  ASSUME NEW points \in Seq(Point), NEW i \in 1..Len(points)
  PROVE  /\ points[i] \in Point /\ PointBefore(points, i) \in Point
         /\ points[i].x - PointBefore(points, i).x \in Int
         /\ points[i].y - PointBefore(points, i).y \in Int
<1>1. points[i] \in Point
  BY ElementOfSeq
<1>2. PointBefore(points, i) \in Point
  <2>1. CASE i = 1
    BY <2>1 DEF PointBefore, Origin, Point
  <2>2. CASE i # 1
    <3>1. i - 1 \in 1..Len(points)
      BY <2>2, LenProperties
    <3>2. points[i - 1] \in Point
      BY <3>1, ElementOfSeq
    <3> QED BY <2>2, <3>2 DEF PointBefore
  <2> QED BY <2>1, <2>2
<1> QED BY <1>1, <1>2 DEF Point

LEMMA CoordinateIsSeq ==
  ASSUME NEW v \in Int
  PROVE  EncodeCoordinate(v) \in Seq(Nat)
<1>1. << >> \in Seq(Nat) /\ << >> \in Seq(Int)
  BY EmptySeq
<1> QED BY <1>1, NothingIsRead, CoordinateIsRead

LEMMA PolylineUnfolds ==
  ASSUME NEW points \in Seq(Point)
  PROVE  \E encoded : /\ Encodes(points, encoded)
                      /\ EncodePolyline6(points) = encoded[Len(points)]
<1>1. PICK n \in Nat : n = Len(points)
  BY LenProperties
<1> DEFINE I      == 0..n
           V      == Seq(Nat)
           Y(i)   == EncodeCoordinate(points[i].y - PointBefore(points, i).y)
           X(i)   == EncodeCoordinate(points[i].x - PointBefore(points, i).x)
           first  == [i \in I |-> << >>]
           before == [i \in I |-> IF i = 0 THEN 0 ELSE i - 1]
           g      == [p \in I \X V |-> IF p[1] = 0 THEN p[2] ELSE (p[2] \o Y(p[1])) \o X(p[1])]
           iter   == CHOOSE it : it = [i \in 0..Len(points) |-> EncodeTurn(points, it, i)]
<1>2. ASSUME NEW i \in 1..n, NEW s \in Seq(Nat) PROVE (s \o Y(i)) \o X(i) \in Seq(Nat)
  <2>1. Y(i) \in Seq(Nat)
    BY <1>1, DifferencesAreIntegers, CoordinateIsSeq
  <2>2. X(i) \in Seq(Nat)
    BY <1>1, DifferencesAreIntegers, CoordinateIsSeq
  <2> HIDE DEF X, Y
  <2>3. PICK t \in Seq(Nat) : t = s \o Y(i)
    BY <2>1, ConcatProperties
  <2>4. t \o X(i) \in Seq(Nat)
    BY <2>2, <2>3, ConcatProperties
  <2> QED BY <2>3, <2>4
<1>3. << >> \in V
  BY EmptySeq
<1>4. first \in [I -> V] /\ before \in [I -> I]
  BY <1>3
<1>5. g \in [I \X V -> V]
  <2>1. ASSUME NEW p \in I \X V
        PROVE  (IF p[1] = 0 THEN p[2] ELSE (p[2] \o Y(p[1])) \o X(p[1])) \in V
    <3>1. CASE p[1] = 0
      BY <3>1
    <3>2. CASE p[1] # 0
      <4>1. p[1] \in 1..n /\ p[2] \in Seq(Nat)
        BY <3>2
      <4> QED BY <1>2, <3>2, <4>1
    <3> QED BY <3>1, <3>2
  <2> HIDE DEF X, Y, V
  <2> QED BY <2>1
<1>6. PICK h \in [I -> V] : Follows(h, I, first, before, g)
  <2>1. I \in SUBSET (0..n)
    OBVIOUS
  <2> HIDE DEF I, first, before, g, V
  <2> QED BY <1>4, <1>5, <2>1, FollowingExists
<1>7. ASSUME NEW i \in I PROVE h[i] = EncodeTurn(points, h, i)
  <2>1. h[i] = IF before[i] < i THEN g[<< i, h[before[i]] >>] ELSE first[i]
    BY <1>6 DEF Follows
  <2>2. CASE i = 0
    BY <2>1, <2>2 DEF EncodeTurn
  <2>3. CASE i # 0
    <3>1. before[i] = i - 1 /\ i - 1 \in I /\ i - 1 < i /\ h[i - 1] \in V
      BY <2>3
    <3>2. h[i] = g[<< i, h[i - 1] >>] /\ << i, h[i - 1] >> \in I \X V
      BY <2>1, <3>1
    <3>3. g[<< i, h[i - 1] >>] = (h[i - 1] \o Y(i)) \o X(i)
      <4> HIDE DEF X, Y, V
      <4> QED BY <2>3, <3>2
    <3> QED BY <2>3, <3>2, <3>3 DEF EncodeTurn
  <2> QED BY <2>2, <2>3
<1>8. h = [i \in 0..Len(points) |-> EncodeTurn(points, h, i)]
  <2> HIDE DEF g, first, before, V
  <2> QED BY <1>1, <1>7
<1>9. iter = [i \in 0..Len(points) |-> EncodeTurn(points, iter, i)]
  <2> HIDE DEF g, first, before, V
  <2> QED BY <1>8
<1>10. EncodePolyline6(points) = iter[Len(points)]
  BY Zenon DEF EncodePolyline6, EncodeTurn, PointBefore
<1> DEFINE A == { k \in Nat : k \in I => iter[k] \in V }
<1>11. ASSUME NEW k \in 0..n, 0..(k - 1) \subseteq A PROVE k \in A
  <2> HIDE DEF iter
  <2> SUFFICES iter[k] \in Seq(Nat)
    OBVIOUS
  <2>1. iter[k] = EncodeTurn(points, iter, k)
    BY <1>1, <1>9
  <2>2. CASE k = 0
    BY <1>3, <2>1, <2>2 DEF EncodeTurn
  <2>3. CASE k # 0
    <3>1. k - 1 \in 0..(k - 1) /\ k - 1 \in I /\ k \in 1..n
      BY <2>3
    <3>2. iter[k - 1] \in Seq(Nat)
      BY <1>11, <3>1
    <3>3. iter[k] = (iter[k - 1] \o Y(k)) \o X(k)
      BY <2>1, <2>3 DEF EncodeTurn
    <3> HIDE DEF X, Y
    <3> QED BY <1>2, <3>1, <3>2, <3>3
  <2> QED BY <2>2, <2>3
<1>12. \A i \in I : iter[i] \in V
  <2>1. A \in SUBSET Nat
    OBVIOUS
  <2>2. 0..n \subseteq A
    <3> HIDE DEF A
    <3> QED BY <1>11, <2>1, Induction
  <2> HIDE DEF iter
  <2> QED BY <2>2
<1>13. Encodes(points, iter)
  <2> HIDE DEF iter
  <2>1. iter \in [0..Len(points) -> Seq(Nat)]
    BY <1>1, <1>9, <1>12
  <2>2. \A i \in 0..Len(points) : iter[i] = EncodeTurn(points, iter, i)
    BY <1>9
  <2> QED BY <2>1, <2>2 DEF Encodes
<1> HIDE DEF iter
<1> QED BY <1>10, <1>13

(* The differences of the first k points.                                  *)
HasSteps(points, steps, k) ==
    /\ steps \in Seq(Int) /\ Len(steps) = 2 * k
    /\ \A i \in 1..k : /\ steps[2 * i - 1] = points[i].y - PointBefore(points, i).y
                       /\ steps[2 * i] = points[i].x - PointBefore(points, i).x

ExtendedBy(more, steps, step) ==
    /\ more \in Seq(Int) /\ Len(more) = Len(steps) + 1
    /\ \A j \in 1..Len(steps) : more[j] = steps[j]
    /\ more[Len(steps) + 1] = step

LEMMA AppendExtends ==
  ASSUME NEW steps \in Seq(Int), NEW step \in Int
  PROVE  ExtendedBy(Append(steps, step), steps, step)
BY AppendProperties DEF ExtendedBy

LEMMA StepsGrow ==
  ASSUME NEW points \in Seq(Point), NEW k \in 1..Len(points), NEW steps,
         HasSteps(points, steps, k - 1), NEW y, y = points[k].y - PointBefore(points, k).y,
         NEW x, x = points[k].x - PointBefore(points, k).x
  PROVE  HasSteps(points, Append(Append(steps, y), x), k)
<1>1. x \in Int /\ y \in Int
  BY DifferencesAreIntegers
<1>2. steps \in Seq(Int) /\ Len(steps) = 2 * (k - 1) /\ k \in Nat \ {0}
  BY LenProperties DEF HasSteps
<1>3. PICK half \in Seq(Int) : /\ half = Append(steps, y) /\ Len(half) = 2 * k - 1
                               /\ \A j \in 1..(2 * (k - 1)) : half[j] = steps[j]
                               /\ half[2 * k - 1] = y
  <2>1. PICK t : t = Append(steps, y) /\ ExtendedBy(t, steps, y)
    BY <1>1, <1>2, AppendExtends
  <2>2. Len(steps) = 2 * (k - 1) /\ Len(steps) + 1 = 2 * k - 1
    BY <1>2
  <2> QED BY <2>1, <2>2 DEF ExtendedBy
<1>4. PICK whole \in Seq(Int) : /\ whole = Append(half, x) /\ Len(whole) = 2 * k
                                /\ \A j \in 1..(2 * k - 1) : whole[j] = half[j]
                                /\ whole[2 * k] = x
  <2>1. PICK t : t = Append(half, x) /\ ExtendedBy(t, half, x)
    BY <1>1, <1>3, AppendExtends
  <2>2. Len(half) = 2 * k - 1 /\ Len(half) + 1 = 2 * k
    BY <1>2, <1>3
  <2> QED BY <2>1, <2>2 DEF ExtendedBy
<1>5. ASSUME NEW i \in 1..k
      PROVE  /\ whole[2 * i - 1] = points[i].y - PointBefore(points, i).y
             /\ whole[2 * i] = points[i].x - PointBefore(points, i).x
  <2>1. CASE i = k
    <3>1. 2 * k - 1 \in 1..(2 * k - 1)
      BY <1>2
    <3> QED BY <1>3, <1>4, <2>1, <3>1
  <2>2. CASE i # k
    <3>1. /\ i \in 1..(k - 1)
          /\ 2 * i - 1 \in 1..(2 * k - 1) /\ 2 * i - 1 \in 1..(2 * (k - 1))
          /\ 2 * i \in 1..(2 * k - 1) /\ 2 * i \in 1..(2 * (k - 1))
      BY <1>2, <2>2
    <3>2. whole[2 * i - 1] = steps[2 * i - 1] /\ whole[2 * i] = steps[2 * i]
      BY <1>3, <1>4, <3>1
    <3> QED BY <3>1, <3>2 DEF HasSteps
  <2> QED BY <2>1, <2>2
<1> QED BY <1>3, <1>4, <1>5 DEF HasSteps

LEMMA PolylineIsRead ==
  ASSUME NEW points \in Seq(Point)
  PROVE  \E steps : /\ HasSteps(points, steps, Len(points))
                    /\ Reading(EncodePolyline6(points)) = Read(steps, 0, 1)
<1>1. PICK n \in Nat : n = Len(points)
  BY LenProperties
<1>2. PICK encoded : Encodes(points, encoded) /\ EncodePolyline6(points) = encoded[n]
  BY <1>1, PolylineUnfolds
<1> DEFINE A == { k \in Nat : \E steps : /\ HasSteps(points, steps, k)
                                         /\ Reading(encoded[k]) = Read(steps, 0, 1) }
<1>3. ASSUME NEW k \in 0..n, 0..(k - 1) \subseteq A PROVE k \in A
  <2> SUFFICES \E steps : /\ HasSteps(points, steps, k)
                          /\ Reading(encoded[k]) = Read(steps, 0, 1)
    OBVIOUS
  <2>1. encoded[k] = EncodeTurn(points, encoded, k)
    BY <1>1, <1>2 DEF Encodes
  <2>2. CASE k = 0
    <3>1. HasSteps(points, << >>, 0)
      <4>1. << >> \in Seq(Int) /\ Len(<< >>) = 0
        BY EmptySeq
      <4> QED BY <4>1 DEF HasSteps
    <3>2. Reading(encoded[0]) = Read(<< >>, 0, 1)
      BY <2>1, <2>2, NothingIsRead DEF EncodeTurn
    <3> QED BY <2>2, <3>1, <3>2
  <2>3. CASE k # 0
    <3>1. k - 1 \in 0..(k - 1) /\ k \in 1..Len(points) /\ k - 1 \in 0..Len(points)
      BY <1>1, <2>3
    <3>2. PICK steps : /\ HasSteps(points, steps, k - 1)
                       /\ Reading(encoded[k - 1]) = Read(steps, 0, 1)
      BY <1>3, <3>1
    <3>3. PICK y, x \in Int : /\ y = points[k].y - PointBefore(points, k).y
                              /\ x = points[k].x - PointBefore(points, k).x
      BY <3>1, DifferencesAreIntegers
    <3>4. PICK bytes \in Seq(Nat) : bytes = encoded[k - 1]
      BY <1>2, <3>1 DEF Encodes
    <3>5. steps \in Seq(Int)
      BY <3>2 DEF HasSteps
    <3>6. /\ EncodeCoordinate(y) \in Seq(Nat)
          /\ Reading(bytes \o EncodeCoordinate(y)) = Read(Append(steps, y), 0, 1)
      BY <3>2, <3>3, <3>4, <3>5, CoordinateIsRead
    <3>7. PICK half \in Seq(Nat) : half = bytes \o EncodeCoordinate(y)
      BY <3>4, <3>6, ConcatProperties
    <3>8. PICK more \in Seq(Int) : more = Append(steps, y)
      BY <3>3, <3>5, AppendProperties
    <3>9. Reading(half) = Read(more, 0, 1)
      BY <3>6, <3>7, <3>8
    <3>10. Reading(half \o EncodeCoordinate(x)) = Read(Append(more, x), 0, 1)
      BY <3>3, <3>7, <3>8, <3>9, CoordinateIsRead
    <3>11. encoded[k] = half \o EncodeCoordinate(x)
      BY <2>1, <2>3, <3>3, <3>4, <3>7 DEF EncodeTurn
    <3>12. HasSteps(points, Append(more, x), k)
      <4>1. HasSteps(points, Append(Append(steps, y), x), k)
        BY <3>1, <3>2, <3>3, StepsGrow
      <4> QED BY <3>8, <4>1
    <3> QED BY <3>10, <3>11, <3>12
  <2> QED BY <2>2, <2>3
<1>4. n \in A
  <2>1. A \in SUBSET Nat
    OBVIOUS
  <2>2. 0..n \subseteq A
    <3> HIDE DEF A
    <3> QED BY <1>3, <2>1, Induction
  <2> QED BY <2>2
<1> QED BY <1>1, <1>2, <1>4

SumTurn(steps, point, i) ==
    IF i = 0 THEN Origin
    ELSE [x |-> point[i - 1].x + steps[2 * i], y |-> point[i - 1].y + steps[2 * i - 1]]

Summed(steps, count) ==
    [i \in 1..count |-> (CHOOSE it : it = [j \in 0..count |-> SumTurn(steps, it, j)])[i]]

(* A client draws what was encoded.                                        *)
LEMMA PolylineReturns ==
  ASSUME NEW points \in Seq(Point)
  PROVE  DecodePolyline6(EncodePolyline6(points)) = points
<1>1. PICK n \in Nat : n = Len(points)
  BY LenProperties
<1>2. PICK steps : HasSteps(points, steps, n) /\ Reading(EncodePolyline6(points)) = Read(steps, 0, 1)
  BY <1>1, PolylineIsRead
<1>3. Reading(EncodePolyline6(points)).steps = steps /\ Len(steps) \div 2 = n
  <2>1. Read(steps, 0, 1).steps = steps
    BY DEF Read
  <2>2. Len(steps) = 2 * n /\ (2 * n) \div 2 = n
    BY <1>2 DEF HasSteps
  <2> QED BY <1>2, <2>1, <2>2
<1> DEFINE iter == CHOOSE it : it = [i \in 0..n |-> SumTurn(steps, it, i)]
           at   == [i \in 0..n |-> IF i = 0 THEN Origin ELSE points[i]]
<1>4. \A i \in 1..n : points[i] \in Point /\ PointBefore(points, i) \in Point
  BY <1>1, DifferencesAreIntegers
<1>5. ASSUME NEW i \in 0..n PROVE at[i] = SumTurn(steps, at, i)
  <2>1. CASE i = 0
    BY <2>1 DEF SumTurn
  <2>2. CASE i # 0
    <3>1. i \in 1..n /\ i - 1 \in 0..n
      BY <2>2
    <3>2. PICK here \in Point, there \in Point : here = points[i] /\ there = PointBefore(points, i)
      BY <1>4, <3>1
    <3>3. at[i] = here /\ at[i - 1] = there
      <4>1. at[i - 1] = IF i - 1 = 0 THEN Origin ELSE points[i - 1]
        BY <3>1
      <4> QED BY <2>2, <3>1, <3>2, <4>1 DEF PointBefore
    <3>4. steps[2 * i - 1] = here.y - there.y /\ steps[2 * i] = here.x - there.x
      BY <1>2, <3>1, <3>2 DEF HasSteps
    <3>5. there.x + (here.x - there.x) = here.x /\ there.y + (here.y - there.y) = here.y
          /\ here = [x |-> here.x, y |-> here.y]
      BY <3>2 DEF Point
    <3> HIDE DEF at
    <3> QED BY <2>2, <3>3, <3>4, <3>5 DEF SumTurn
  <2> QED BY <2>1, <2>2
<1>6. at = [i \in 0..n |-> SumTurn(steps, at, i)]
  <2>1. at = [i \in 0..n |-> at[i]]
    OBVIOUS
  <2> HIDE DEF at
  <2> QED BY <1>5, <2>1
<1>7. iter = [i \in 0..n |-> SumTurn(steps, iter, i)]
  <2> HIDE DEF at
  <2> QED BY <1>6
<1>8. DecodePolyline6(EncodePolyline6(points)) = [i \in 1..n |-> iter[i]]
  <2>1. PICK bytes, read : bytes = EncodePolyline6(points) /\ read = Reading(bytes).steps
    OBVIOUS
  <2>2. DecodePolyline6(bytes) = Summed(Reading(bytes).steps, Len(Reading(bytes).steps) \div 2)
    BY Zenon DEF DecodePolyline6, Summed, SumTurn
  <2>3. Summed(Reading(bytes).steps, Len(Reading(bytes).steps) \div 2) = Summed(steps, n)
    BY <1>3, <2>1, Zenon
  <2>4. Summed(steps, n) = [i \in 1..n |-> iter[i]]
    BY Zenon DEF Summed
  <2> QED BY <2>1, <2>2, <2>3, <2>4
<1> DEFINE A == { k \in Nat : k \in 0..n => iter[k] = at[k] }
<1> HIDE DEF iter, at
<1>9. ASSUME NEW k \in 0..n, 0..(k - 1) \subseteq A PROVE k \in A
  <2> SUFFICES iter[k] = at[k]
    OBVIOUS
  <2>1. iter[k] = SumTurn(steps, iter, k) /\ at[k] = SumTurn(steps, at, k)
    BY <1>5, <1>7
  <2>2. CASE k = 0
    BY <2>1, <2>2 DEF SumTurn
  <2>3. CASE k # 0
    <3>1. k - 1 \in 0..(k - 1) /\ k - 1 \in 0..n
      BY <2>3
    <3>2. iter[k - 1] = at[k - 1]
      BY <1>9, <3>1
    <3> QED BY <2>1, <2>3, <3>2 DEF SumTurn
  <2> QED BY <2>2, <2>3
<1>10. \A i \in 1..n : iter[i] = at[i]
  <2>1. A \in SUBSET Nat
    OBVIOUS
  <2>2. 0..n \subseteq A
    <3> HIDE DEF A
    <3> QED BY <1>9, <2>1, Induction
  <2> QED BY <2>2
<1>11. \A i \in 1..n : at[i] = points[i]
  BY DEF at
<1>12. points = [i \in 1..n |-> points[i]]
  BY <1>1, LenProperties
<1> QED BY <1>8, <1>10, <1>11, <1>12

-----------------------------------------------------------------------------
(* What the studio prepares has whole coordinates.                         *)
LEMMA UnitsArePositive == Micro \in Nat \ {0} /\ Metre \in Nat \ {0}
  BY RoutePayloadAssumption DEF RoutePayloadAssumption

LEMMA RoundIsInt ==
  ASSUME NEW v \in Int, NEW unit \in Nat \ {0}
  PROVE  Round(v, unit) \in Int
<1>1. PICK t \in Int, m \in Nat \ {0} : t = 2 * v + unit /\ m = 2 * unit
  OBVIOUS
<1>2. t \div m \in Int
  BY <1>1, Division
<1> QED BY <1>1, <1>2 DEF Round

LEMMA LerpIsInt ==
  ASSUME NEW a \in Int, NEW b \in Int, NEW part \in Int, NEW span \in Nat \ {0}
  PROVE  Lerp(a, b, part, span) \in Int
<1>1. PICK t \in Int : t = (b - a) * part
  BY Z3
<1>2. PICK q \in Int : q = t \div span
  BY <1>1, Division
<1>3. a + q \in Int
  BY <1>2
<1> QED BY <1>1, <1>2, <1>3 DEF Lerp

LEMMA DistanceIsNat ==
  ASSUME NEW p \in Place, NEW q \in Place
  PROVE  DistanceBetween(p, q) \in Nat
<1>1. p.x \in Int /\ p.y \in Int /\ q.x \in Int /\ q.y \in Int
  BY DEF Place
<1>2. \A v \in Int : Size(v) \in Nat
  BY DEF Size
<1>3. Size(q.x - p.x) \in Nat /\ Size(q.y - p.y) \in Nat
  BY <1>1, <1>2
<1> QED BY <1>3 DEF DistanceBetween

ProfileTurn(geometry, along, i) ==
    IF i = 1 THEN 0 ELSE along[i - 1] + DistanceBetween(geometry[i - 1], geometry[i])

IsProfile(geometry, along) ==
    /\ along \in [1..Len(geometry) -> Nat]
    /\ \A i \in 1..Len(geometry) : along[i] = ProfileTurn(geometry, along, i)

Rises(along, n) ==
    along \in [1..n -> Nat] /\ \A i \in 2..n : along[i - 1] <= along[i]

LEMMA ProfileUnfolds ==
  ASSUME NEW geometry \in Seq(Place)
  PROVE  IsProfile(geometry, Profile(geometry))
<1>1. PICK n \in Nat : n = Len(geometry)
  BY LenProperties
<1> DEFINE I      == 1..n
           D(i)   == DistanceBetween(geometry[i - 1], geometry[i])
           first  == [i \in I |-> 0]
           before == [i \in I |-> IF i = 1 THEN 1 ELSE i - 1]
           g      == [p \in I \X Nat |-> IF p[1] = 1 THEN 0 ELSE p[2] + D(p[1])]
           iter   == CHOOSE it : it = [i \in 1..Len(geometry) |-> ProfileTurn(geometry, it, i)]
<1>2. ASSUME NEW i \in 2..n PROVE D(i) \in Nat
  <2>1. geometry[i] \in Place
    BY <1>1, ElementOfSeq
  <2>2. geometry[i - 1] \in Place
    <3>1. i - 1 \in 1..Len(geometry)
      BY <1>1
    <3> QED BY <3>1, ElementOfSeq
  <2> QED BY <2>1, <2>2, DistanceIsNat
<1> HIDE DEF D
<1>3. first \in [I -> Nat] /\ before \in [I -> I]
  OBVIOUS
<1>4. g \in [I \X Nat -> Nat]
  <2>1. ASSUME NEW p \in I \X Nat PROVE (IF p[1] = 1 THEN 0 ELSE p[2] + D(p[1])) \in Nat
    <3>1. CASE p[1] = 1
      BY <3>1
    <3>2. CASE p[1] # 1
      <4>1. p[1] \in 2..n /\ p[2] \in Nat
        BY <3>2
      <4> QED BY <1>2, <3>2, <4>1
    <3> QED BY <3>1, <3>2
  <2> QED BY <2>1
<1>5. PICK h \in [I -> Nat] : Follows(h, I, first, before, g)
  <2>1. I \in SUBSET (0..n)
    OBVIOUS
  <2> HIDE DEF I, first, before, g
  <2> QED BY <1>3, <1>4, <2>1, FollowingExists
<1>6. ASSUME NEW i \in I PROVE h[i] = ProfileTurn(geometry, h, i)
  <2>1. h[i] = IF before[i] < i THEN g[<< i, h[before[i]] >>] ELSE first[i]
    BY <1>5 DEF Follows
  <2>2. CASE i = 1
    BY <2>1, <2>2 DEF ProfileTurn
  <2>3. CASE i # 1
    <3>1. before[i] = i - 1 /\ i - 1 \in I /\ i - 1 < i /\ h[i - 1] \in Nat
      BY <2>3
    <3>2. h[i] = g[<< i, h[i - 1] >>] /\ << i, h[i - 1] >> \in I \X Nat
      BY <2>1, <3>1
    <3>3. g[<< i, h[i - 1] >>] = h[i - 1] + D(i)
      BY <2>3, <3>2
    <3> QED BY <2>3, <3>2, <3>3 DEF ProfileTurn, D
  <2> QED BY <2>2, <2>3
<1>7. h = [i \in 1..Len(geometry) |-> ProfileTurn(geometry, h, i)]
  <2> HIDE DEF g, first, before
  <2> QED BY <1>1, <1>6
<1>8. iter = [i \in 1..Len(geometry) |-> ProfileTurn(geometry, iter, i)]
  <2> HIDE DEF g, first, before
  <2> QED BY <1>7
<1>9. Profile(geometry) = iter
  BY Zenon DEF Profile, ProfileTurn
<1> DEFINE A == { k \in Nat : k \in I => iter[k] \in Nat }
<1> HIDE DEF iter
<1>10. ASSUME NEW i \in 2..n PROVE iter[i] = iter[i - 1] + D(i)
  <2>1. i \in 1..Len(geometry) /\ i # 1
    BY <1>1
  <2> QED BY <1>8, <2>1 DEF ProfileTurn, D
<1>11. ASSUME NEW k \in 0..n, 0..(k - 1) \subseteq A PROVE k \in A
  <2> SUFFICES ASSUME k \in I PROVE iter[k] \in Nat
    OBVIOUS
  <2>1. CASE k = 1
    <3>1. iter[k] = ProfileTurn(geometry, iter, k)
      BY <1>1, <1>8
    <3> QED BY <2>1, <3>1 DEF ProfileTurn
  <2>2. CASE k # 1
    <3>1. k - 1 \in 0..(k - 1) /\ k - 1 \in I /\ k \in 2..n
      BY <2>2
    <3>2. iter[k - 1] \in Nat
      BY <1>11, <3>1
    <3> QED BY <1>2, <1>10, <3>1, <3>2
  <2> QED BY <2>1, <2>2
<1>12. \A i \in I : iter[i] \in Nat
  <2>1. A \in SUBSET Nat
    OBVIOUS
  <2>2. 0..n \subseteq A
    <3> HIDE DEF A
    <3> QED BY <1>11, <2>1, Induction
  <2> QED BY <2>2
<1>13. iter \in [1..n -> Nat]
  BY <1>1, <1>8, <1>12
<1> QED BY <1>1, <1>8, <1>9, <1>13 DEF IsProfile

LEMMA ProfileRises ==
  ASSUME NEW geometry \in Seq(Place)
  PROVE  Rises(Profile(geometry), Len(geometry))
<1>1. PICK n \in Nat : n = Len(geometry)
  BY LenProperties
<1>2. PICK along \in [1..n -> Nat] :
         /\ along = Profile(geometry)
         /\ \A i \in 1..n : along[i] = ProfileTurn(geometry, along, i)
  BY <1>1, ProfileUnfolds DEF IsProfile
<1>3. ASSUME NEW i \in 2..n PROVE along[i - 1] <= along[i]
  <2>1. i - 1 \in 1..n /\ i \in 1..n /\ i # 1
    OBVIOUS
  <2>2. geometry[i] \in Place
    BY <1>1, <2>1, ElementOfSeq
  <2>3. geometry[i - 1] \in Place
    BY <1>1, <2>1, ElementOfSeq
  <2>4. DistanceBetween(geometry[i - 1], geometry[i]) \in Nat
    BY <2>2, <2>3, DistanceIsNat
  <2>5. along[i] = along[i - 1] + DistanceBetween(geometry[i - 1], geometry[i])
    BY <1>2, <2>1 DEF ProfileTurn
  <2>6. along[i - 1] \in Nat
    BY <2>1
  <2> QED BY <2>4, <2>5, <2>6
<1> QED BY <1>1, <1>2, <1>3 DEF Rises

PointBetween(a, b, part, span) ==
    IF span = 0 THEN a
    ELSE [ x   |-> Lerp(a.x, b.x, part, span),
           y   |-> Lerp(a.y, b.y, part, span),
           ele |-> a.ele + Round((b.ele - a.ele) * part, span) ]

(* The segment of a geometry that a distance falls in ends at next.        *)
EndsAt(geometry, along, d, next) ==
    /\ next \in 2..Len(geometry) /\ d <= along[next]
    /\ \A i \in 2..Len(geometry) : d <= along[i] => next <= i

FallsIn(geometry, along, distance, d, next) ==
    /\ d \in Nat /\ d = (IF distance <= along[Len(geometry)] THEN distance ELSE along[Len(geometry)])
    /\ EndsAt(geometry, along, d, next)
    /\ PointAt(geometry, distance)
         = PointBetween(geometry[next - 1], geometry[next], d - along[next - 1], along[next] - along[next - 1])

LEMMA PointAtUnfolds ==
  ASSUME NEW geometry \in Seq(Place), Len(geometry) >= 2, NEW distance \in Nat
  PROVE  \E d, next : FallsIn(geometry, Profile(geometry), distance, d, next)
<1>1. PICK n \in Nat : n = Len(geometry) /\ n >= 2
  BY LenProperties
<1>2. PICK along \in Seq(Nat) : /\ along = Profile(geometry) /\ Len(along) = n
                                /\ \A i \in 1..n : along[i] \in Nat
  <2>1. PICK f \in [1..n -> Nat] : f = Profile(geometry)
    BY <1>1, ProfileRises DEF Rises
  <2>2. f \in Seq(Nat) /\ Len(f) = n
    OBVIOUS
  <2>3. \A i \in 1..n : f[i] \in Nat
    OBVIOUS
  <2> QED BY <2>1, <2>2, <2>3
<1>3. PICK d \in Nat : /\ d = Min({distance, Last(along)}) /\ d <= along[n]
                       /\ d = IF distance <= along[n] THEN distance ELSE along[n]
  <2>1. PICK last \in Nat : last = Last(along) /\ last = along[n]
    BY <1>1, <1>2 DEF Last
  <2>2. Min({distance, last}) = IF distance <= last THEN distance ELSE last
    <3>1. distance \in Int /\ last \in Int
      BY <2>1
    <3> QED BY <3>1, ExtremesOfTwo
  <2> QED BY <2>1, <2>2
<1> DEFINE Ends == { i \in 2..Len(geometry) : d <= along[i] }
<1>4. PICK next \in Ends : next = Min(Ends) /\ \A i \in Ends : next <= i
  <2>1. Ends \in SUBSET Nat /\ n \in Ends
    BY <1>1, <1>3
  <2>2. \E w \in Ends : \A v \in Ends : w <= v
    <3> HIDE DEF Ends
    <3>1. Ends # {}
      BY <2>1
    <3> QED BY <2>1, <3>1, LeastNumber
  <2>3. Min(Ends) \in Ends /\ \A i \in Ends : Min(Ends) <= i
    <3> HIDE DEF Ends
    <3> QED BY <2>2, Zenon DEF Min
  <2> QED BY <2>3
<1>5. EndsAt(geometry, along, d, next)
  BY <1>4 DEF EndsAt
<1>6. PointAt(geometry, distance)
        = PointBetween(geometry[next - 1], geometry[next], d - along[next - 1], along[next] - along[next - 1])
  <2>1. PointAt(geometry, distance)
          = LET dd == Min({distance, Last(along)})
                nn == Min({ i \in 2..Len(geometry) : dd <= along[i] })
            IN  PointBetween(geometry[nn - 1], geometry[nn], dd - along[nn - 1], along[nn] - along[nn - 1])
    BY <1>2, Zenon DEF PointAt, PointBetween
  <2>2. Min({ i \in 2..Len(geometry) : Min({distance, Last(along)}) <= along[i] }) = next
    BY <1>3, <1>4, Zenon
  <2> HIDE DEF Ends
  <2> QED BY <1>3, <2>1, <2>2, Zenon
<1>7. FallsIn(geometry, along, distance, d, next)
  <2> HIDE DEF Ends
  <2> QED BY <1>1, <1>3, <1>5, <1>6 DEF FallsIn
<1> QED BY <1>2, <1>7

LEMMA BetweenIsPlace ==
  ASSUME NEW a \in Place, NEW b \in Place, NEW part \in Int, NEW span \in Nat
  PROVE  PointBetween(a, b, part, span) \in Place
<1>1. CASE span = 0
  BY <1>1 DEF PointBetween
<1>2. CASE span # 0
  <2>1. /\ a.x \in Int /\ a.y \in Int /\ a.ele \in Int /\ b.x \in Int /\ b.y \in Int /\ b.ele \in Int
        /\ span \in Nat \ {0}
    BY <1>2 DEF Place
  <2>2. Lerp(a.x, b.x, part, span) \in Int
    BY <2>1, LerpIsInt
  <2>3. Lerp(a.y, b.y, part, span) \in Int
    BY <2>1, LerpIsInt
  <2>4. PICK rise \in Int : rise = (b.ele - a.ele) * part
    <3>1. PICK u \in Int : u = b.ele - a.ele
      BY <2>1
    <3>2. u * part \in Int
      BY <3>1, TimesShuffles
    <3> QED BY <3>1, <3>2
  <2>5. Round(rise, span) \in Int
    BY <2>1, <2>4, RoundIsInt
  <2>6. a.ele + Round((b.ele - a.ele) * part, span) \in Int
    BY <2>1, <2>4, <2>5
  <2> QED BY <1>2, <2>2, <2>3, <2>6 DEF Place, PointBetween
<1> QED BY <1>1, <1>2

LEMMA PointAtIsPlace ==
  ASSUME NEW geometry \in Seq(Place), Len(geometry) >= 2, NEW distance \in Nat
  PROVE  PointAt(geometry, distance) \in Place
<1>1. PICK n \in Nat : n = Len(geometry) /\ n >= 2
  BY LenProperties
<1>2. PICK along \in [1..n -> Nat] : along = Profile(geometry) /\ \A i \in 2..n : along[i - 1] <= along[i]
  BY <1>1, ProfileRises DEF Rises
<1>3. PICK d, next : FallsIn(geometry, along, distance, d, next)
  BY <1>1, <1>2, PointAtUnfolds
<1>4. d \in Nat /\ next \in 2..n /\ next \in 1..n /\ next - 1 \in 1..n
  <2>1. d \in Nat /\ next \in 2..n
    BY <1>1, <1>3 DEF FallsIn, EndsAt
  <2> QED BY <2>1
<1>5. PICK a \in Place, b \in Place : a = geometry[next - 1] /\ b = geometry[next]
  <2>1. geometry[next] \in Place
    BY <1>1, <1>4, ElementOfSeq
  <2>2. geometry[next - 1] \in Place
    BY <1>1, <1>4, ElementOfSeq
  <2> QED BY <2>1, <2>2
<1>6. PICK part \in Int, span \in Nat : part = d - along[next - 1] /\ span = along[next] - along[next - 1]
  <2>1. PICK u \in Nat, v \in Nat : u = along[next - 1] /\ v = along[next] /\ u <= v
    BY <1>2, <1>4
  <2>2. d - u \in Int /\ v - u \in Nat
    BY <1>4, <2>1
  <2> QED BY <2>1, <2>2
<1>7. PointAt(geometry, distance) = PointBetween(a, b, part, span)
  BY <1>3, <1>5, <1>6 DEF FallsIn
<1> QED BY <1>7, BetweenIsPlace

JoinTurn(parts, joined, i) == IF i = 1 THEN parts[i] ELSE joined[i - 1] \o parts[i]

IsJoined(parts, joined) ==
    /\ \A i \in 1..Len(parts) : joined[i] = JoinTurn(parts, joined, i)
    /\ FlattenSeq(parts) = joined[Len(parts)]

LEMMA FlattenUnfolds ==
  ASSUME NEW S, NEW parts \in Seq(Seq(S)), parts # << >>
  PROVE  \E joined : IsJoined(parts, joined)
<1>1. PICK n \in Nat \ {0} : n = Len(parts)
  BY EmptySeq
<1>2. \A i \in 1..n : parts[i] \in Seq(S)
  BY <1>1, ElementOfSeq
<1> DEFINE I      == 1..n
           V      == Seq(S)
           first  == [i \in I |-> parts[1]]
           before == [i \in I |-> IF i = 1 THEN 1 ELSE i - 1]
           g      == [p \in I \X V |-> p[2] \o parts[p[1]]]
           iter   == CHOOSE it : it = [i \in 1..Len(parts) |-> JoinTurn(parts, it, i)]
<1>3. first \in [I -> V] /\ before \in [I -> I]
  <2>1. parts[1] \in V
    BY <1>2
  <2> QED BY <2>1
<1>4. g \in [I \X V -> V]
  <2>1. ASSUME NEW p \in I \X V PROVE p[2] \o parts[p[1]] \in V
    <3>1. p[2] \in Seq(S) /\ parts[p[1]] \in Seq(S)
      BY <1>2
    <3> QED BY <3>1, ConcatProperties
  <2> HIDE DEF V
  <2> QED BY <2>1
<1>5. PICK h \in [I -> V] : Follows(h, I, first, before, g)
  <2>1. I \in SUBSET (0..n)
    OBVIOUS
  <2> HIDE DEF I, first, before, g, V
  <2> QED BY <1>3, <1>4, <2>1, FollowingExists
<1>6. ASSUME NEW i \in I PROVE h[i] = JoinTurn(parts, h, i)
  <2>1. h[i] = IF before[i] < i THEN g[<< i, h[before[i]] >>] ELSE first[i]
    BY <1>5 DEF Follows
  <2>2. CASE i = 1
    BY <2>1, <2>2 DEF JoinTurn
  <2>3. CASE i # 1
    <3>1. before[i] = i - 1 /\ i - 1 \in I /\ i - 1 < i /\ h[i - 1] \in V
      BY <2>3
    <3>2. h[i] = g[<< i, h[i - 1] >>] /\ << i, h[i - 1] >> \in I \X V
      BY <2>1, <3>1
    <3>3. g[<< i, h[i - 1] >>] = h[i - 1] \o parts[i]
      <4> HIDE DEF V
      <4> QED BY <3>2
    <3> QED BY <2>3, <3>2, <3>3 DEF JoinTurn
  <2> QED BY <2>2, <2>3
<1>7. h = [i \in 1..Len(parts) |-> JoinTurn(parts, h, i)]
  <2> HIDE DEF g, first, before, V
  <2> QED BY <1>1, <1>6
<1>8. iter = [i \in 1..Len(parts) |-> JoinTurn(parts, iter, i)]
  <2> HIDE DEF g, first, before, V
  <2> QED BY <1>7
<1>9. FlattenSeq(parts) = iter[Len(parts)]
  <2>1. Len(parts) # 0
    BY <1>1
  <2> QED BY <2>1, Zenon DEF FlattenSeq, JoinTurn
<1>10. \A i \in 1..Len(parts) : iter[i] = JoinTurn(parts, iter, i)
  <2> HIDE DEF iter
  <2> QED BY <1>8
<1> HIDE DEF iter
<1> QED BY <1>9, <1>10 DEF IsJoined

LEMMA FlattenIsSeq ==
  ASSUME NEW S, NEW parts \in Seq(Seq(S)), parts # << >>
  PROVE  FlattenSeq(parts) \in Seq(S) /\ Len(FlattenSeq(parts)) >= Len(parts[1])
<1>1. PICK n \in Nat \ {0} : n = Len(parts)
  BY EmptySeq
<1>2. \A i \in 1..n : parts[i] \in Seq(S)
  BY <1>1, ElementOfSeq
<1>8. PICK iter : IsJoined(parts, iter)
  BY FlattenUnfolds
<1>9. FlattenSeq(parts) = iter[Len(parts)]
  BY <1>8 DEF IsJoined
<1> DEFINE Joined1(k) == iter[k] \in Seq(S) /\ Len(iter[k]) >= Len(parts[1])
           I == 1..n
           A == { k \in Nat : k \in I => Joined1(k) }
<1>10. ASSUME NEW k \in 0..n, 0..(k - 1) \subseteq A PROVE k \in A
  <2> SUFFICES ASSUME k \in I PROVE Joined1(k)
    OBVIOUS
  <2>1. iter[k] = JoinTurn(parts, iter, k)
    BY <1>1, <1>8 DEF IsJoined
  <2>2. parts[1] \in Seq(S) /\ Len(parts[1]) \in Nat
    BY <1>2, LenProperties
  <2>3. CASE k = 1
    BY <2>1, <2>2, <2>3 DEF JoinTurn
  <2>4. CASE k # 1
    <3>1. k - 1 \in 0..(k - 1) /\ k - 1 \in I
      BY <2>4
    <3>2. Joined1(k - 1)
      BY <1>10, <3>1
    <3>3. PICK s, t \in Seq(S) : s = iter[k - 1] /\ t = parts[k]
      BY <1>2, <3>2
    <3>4. s \o t \in Seq(S) /\ Len(s \o t) = Len(s) + Len(t)
      BY <3>3, ConcatProperties
    <3>5. Len(s) \in Nat /\ Len(t) \in Nat
      BY <3>3, LenProperties
    <3>6. iter[k] = s \o t
      BY <2>1, <2>4, <3>3 DEF JoinTurn
    <3>7. Len(s) >= Len(parts[1])
      BY <3>2, <3>3
    <3>8. Len(s \o t) >= Len(parts[1])
      <4> HIDE DEF A, Joined1
      <4> QED BY <2>2, <3>4, <3>5, <3>7
    <3> QED BY <3>4, <3>6, <3>8
  <2> QED BY <2>3, <2>4
<1>11. Joined1(n)
  <2>1. A \in SUBSET Nat
    OBVIOUS
  <2>2. 0..n \subseteq A
    <3> HIDE DEF A
    <3> QED BY <1>10, <2>1, Induction
  <2> QED BY <2>2
<1> QED BY <1>1, <1>9, <1>11

Legs(legs) == legs \in Seq(Seq(Place)) /\ \A i \in 1..Len(legs) : Len(legs[i]) >= 2

LEMMA ComposedIsGeometry ==
  ASSUME NEW legs, Legs(legs), legs # << >>
  PROVE  Composed(legs) \in Seq(Place) /\ Len(Composed(legs)) >= 2
<1>1. PICK n \in Nat \ {0} : n = Len(legs) /\ DOMAIN legs = 1..n
  BY EmptySeq, LenProperties DEF Legs
<1>2. \A i \in 1..n : legs[i] \in Seq(Place) /\ Len(legs[i]) >= 2
  <2>1. \A i \in 1..n : legs[i] \in Seq(Place)
    BY <1>1, ElementOfSeq DEF Legs
  <2> QED BY <1>1, <2>1 DEF Legs
<1> DEFINE part(i) == IF i > 1 /\ legs[i][1] = Last(legs[i - 1]) THEN Tail(legs[i]) ELSE legs[i]
<1>3. ASSUME NEW i \in 1..n PROVE part(i) \in Seq(Place)
  <2>1. legs[i] # << >>
    <3>1. Len(<< >>) = 0
      BY EmptySeq
    <3> QED BY <1>2, <3>1
  <2>2. Tail(legs[i]) \in Seq(Place)
    BY <1>2, <2>1, HeadTailProperties
  <2> QED BY <1>2, <2>2
<1>4. PICK parts : parts = [i \in DOMAIN legs |-> part(i)]
  OBVIOUS
<1>5. parts \in Seq(Seq(Place)) /\ parts # << >> /\ parts[1] = legs[1]
  <2>1. parts \in [1..n -> Seq(Place)] /\ Len(parts) = n
    <3> HIDE DEF part
    <3> QED BY <1>1, <1>3, <1>4
  <2>2. Len(<< >>) = 0
    BY EmptySeq
  <2>3. 1 \in 1..n /\ ~(1 > 1)
    OBVIOUS
  <2> QED BY <1>1, <1>4, <2>1, <2>2, <2>3
<1>6. Composed(legs) = FlattenSeq(parts)
  BY <1>4, Zenon DEF Composed
<1>7. FlattenSeq(parts) \in Seq(Place) /\ Len(FlattenSeq(parts)) >= Len(parts[1])
  BY <1>5, FlattenIsSeq
<1>8. Len(parts[1]) >= 2 /\ Len(parts[1]) \in Nat
  <2>1. legs[1] \in Seq(Place) /\ Len(legs[1]) >= 2
    BY <1>2
  <2> QED BY <1>5, <2>1, LenProperties
<1>9. Len(FlattenSeq(parts)) \in Nat
  BY <1>7, LenProperties
<1> QED BY <1>6, <1>7, <1>8, <1>9

TrimTurn(geometry, along, start, end, selected, i) ==
    IF i = 1 THEN << PointAt(geometry, start) >>
    ELSE selected[i - 1] \o (IF KeptByTrim(along, i, start, end) THEN << geometry[i] >> ELSE << >>)

TrimmedBy(geometry, along, start, end) ==
    LET selected == CHOOSE it : it = [i \in 1..(Len(geometry) - 1) |->
                                        TrimTurn(geometry, along, start, end, it, i)]
    IN  IF start = 0 /\ end = Last(along) THEN geometry
        ELSE Append(selected[Len(geometry) - 1], PointAt(geometry, end))

Selects(geometry, along, start, end, selected) ==
    \A i \in 1..(Len(geometry) - 1) :
        /\ selected[i] = TrimTurn(geometry, along, start, end, selected, i)
        /\ selected[i] \in Seq(Place)

TrimsTo(geometry, along, start, end, selected, trimmed) ==
    /\ Selects(geometry, along, start, end, selected)
    /\ trimmed = IF start = 0 /\ end = Last(along) THEN geometry
                 ELSE Append(selected[Len(geometry) - 1], PointAt(geometry, end))

LEMMA TrimUnfolds ==
  ASSUME NEW geometry \in Seq(Place), Len(geometry) >= 2, NEW selection,
         selection.startM \in Nat, selection.endM \in Nat
  PROVE  \E selected : TrimsTo(geometry, Profile(geometry), selection.startM * Metre,
                               selection.endM * Metre, selected, Trimmed(geometry, selection))
<1>0. PICK along : along = Profile(geometry)
  OBVIOUS
<1>1. PICK n \in Nat \ {0} : n = Len(geometry) - 1
  BY LenProperties
<1>2. PICK start \in Nat, end \in Nat :
         start = selection.startM * Metre /\ end = selection.endM * Metre
  <2>1. \A m \in Nat : m * Metre \in Nat
    BY UnitsArePositive, Z3
  <2>2. selection.startM * Metre \in Nat /\ selection.endM * Metre \in Nat
    BY <2>1, Zenon
  <2> QED BY <2>2, Zenon
<1>3. PICK p \in Place, q \in Place : p = PointAt(geometry, start) /\ q = PointAt(geometry, end)
  <2>1. PointAt(geometry, start) \in Place
    BY <1>2, PointAtIsPlace
  <2>2. PointAt(geometry, end) \in Place
    BY <1>2, PointAtIsPlace
  <2> QED BY <2>1, <2>2
<1> DEFINE I      == 1..n
           V      == Seq(Place)
           K(i)   == IF KeptByTrim(along, i, start, end) THEN << geometry[i] >> ELSE << >>
           first  == [i \in I |-> << p >>]
           before == [i \in I |-> IF i = 1 THEN 1 ELSE i - 1]
           g      == [r \in I \X V |-> r[2] \o K(r[1])]
           iter   == CHOOSE it : it = [i \in 1..(Len(geometry) - 1) |->
                                         TrimTurn(geometry, along, start, end, it, i)]
<1>4. ASSUME NEW i \in I PROVE K(i) \in Seq(Place)
  <2>1. i \in 1..Len(geometry)
    BY <1>1, LenProperties
  <2>2. geometry[i] \in Place
    BY <2>1, ElementOfSeq
  <2>3. << geometry[i] >> \in Seq(Place)
    BY <2>2
  <2>4. << >> \in Seq(Place)
    BY EmptySeq
  <2> QED BY <2>3, <2>4, Zenon
<1>5. first \in [I -> V] /\ before \in [I -> I]
  <2>1. << p >> \in V
    BY <1>3
  <2> HIDE DEF V
  <2> QED BY <2>1
<1> HIDE DEF K
<1>6. g \in [I \X V -> V]
  <2>1. ASSUME NEW r \in I \X V PROVE r[2] \o K(r[1]) \in V
    <3>1. r[2] \in Seq(Place) /\ K(r[1]) \in Seq(Place)
      BY <1>4
    <3> QED BY <3>1, ConcatProperties
  <2> HIDE DEF V
  <2> QED BY <2>1
<1>7. PICK h \in [I -> V] : Follows(h, I, first, before, g)
  <2>1. I \in SUBSET (0..n)
    OBVIOUS
  <2> HIDE DEF I, first, before, g, V
  <2> QED BY <1>5, <1>6, <2>1, FollowingExists
<1>8. ASSUME NEW i \in I PROVE h[i] = TrimTurn(geometry, along, start, end, h, i)
  <2>1. h[i] = IF before[i] < i THEN g[<< i, h[before[i]] >>] ELSE first[i]
    BY <1>7 DEF Follows
  <2>2. CASE i = 1
    BY <1>3, <2>1, <2>2 DEF TrimTurn
  <2>3. CASE i # 1
    <3>1. before[i] = i - 1 /\ i - 1 \in I /\ i - 1 < i /\ h[i - 1] \in V
      BY <2>3
    <3>2. h[i] = g[<< i, h[i - 1] >>] /\ << i, h[i - 1] >> \in I \X V
      BY <2>1, <3>1
    <3>3. g[<< i, h[i - 1] >>] = h[i - 1] \o K(i)
      <4> HIDE DEF V
      <4> QED BY <3>2
    <3> QED BY <2>3, <3>2, <3>3 DEF TrimTurn, K
  <2> QED BY <2>2, <2>3
<1>9. h = [i \in 1..(Len(geometry) - 1) |-> TrimTurn(geometry, along, start, end, h, i)]
  <2> HIDE DEF g, first, before, V
  <2> QED BY <1>1, <1>8
<1>10. iter = [i \in 1..(Len(geometry) - 1) |-> TrimTurn(geometry, along, start, end, iter, i)]
  <2> HIDE DEF g, first, before, V
  <2> QED BY <1>9
<1>11. Trimmed(geometry, selection)
         = IF start = 0 /\ end = Last(along) THEN geometry
           ELSE Append(iter[Len(geometry) - 1], PointAt(geometry, end))
  <2>1. Trimmed(geometry, selection)
          = TrimmedBy(geometry, Profile(geometry), selection.startM * Metre, selection.endM * Metre)
    BY Zenon DEF Trimmed, TrimmedBy, TrimTurn
  <2>2. Trimmed(geometry, selection) = TrimmedBy(geometry, along, start, end)
    BY <1>0, <1>2, <2>1, Zenon
  <2> QED BY <2>2, Zenon DEF TrimmedBy
<1> DEFINE A == { k \in Nat : k \in I => iter[k] \in Seq(Place) }
<1> HIDE DEF iter
<1>12. ASSUME NEW k \in 0..n, 0..(k - 1) \subseteq A PROVE k \in A
  <2> SUFFICES ASSUME k \in I PROVE iter[k] \in Seq(Place)
    OBVIOUS
  <2>1. iter[k] = TrimTurn(geometry, along, start, end, iter, k)
    BY <1>1, <1>10
  <2>2. CASE k = 1
    <3>1. PICK one \in Seq(Place) : one = << p >>
      <4>1. << p >> \in Seq(Place)
        BY <1>3
      <4> QED BY <4>1
    <3> QED BY <1>3, <2>1, <2>2, <3>1 DEF TrimTurn
  <2>3. CASE k # 1
    <3>1. k - 1 \in 0..(k - 1) /\ k - 1 \in I
      BY <2>3
    <3>2. PICK s, t \in Seq(Place) : s = iter[k - 1] /\ t = K(k)
      BY <1>4, <1>12, <3>1
    <3>3. iter[k] = s \o t
      BY <2>1, <2>3, <3>2 DEF TrimTurn, K
    <3>4. s \o t \in Seq(Place)
      BY <3>2, ConcatProperties
    <3> QED BY <3>3, <3>4
  <2> QED BY <2>2, <2>3
<1>13. \A k \in I : iter[k] \in Seq(Place)
  <2>1. A \in SUBSET Nat
    OBVIOUS
  <2>2. 0..n \subseteq A
    <3> HIDE DEF A
    <3> QED BY <1>12, <2>1, Induction
  <2> QED BY <2>2
<1>14. Selects(geometry, along, start, end, iter)
  <2>1. ASSUME NEW k \in I PROVE iter[k] = TrimTurn(geometry, along, start, end, iter, k)
    BY <1>1, <1>10
  <2> QED BY <1>1, <1>13, <2>1 DEF Selects
<1>15. TrimsTo(geometry, along, start, end, iter, Trimmed(geometry, selection))
  BY <1>11, <1>14, Zenon DEF TrimsTo
<1> QED BY <1>0, <1>2, <1>15

LEMMA TrimmedIsGeometry ==
  ASSUME NEW geometry \in Seq(Place), Len(geometry) >= 2, NEW selection,
         selection.startM \in Nat, selection.endM \in Nat
  PROVE  Trimmed(geometry, selection) \in Seq(Place) /\ Len(Trimmed(geometry, selection)) >= 1
<1>1. PICK along, start, end, selected :
         TrimsTo(geometry, along, start, end, selected, Trimmed(geometry, selection))
         /\ end = selection.endM * Metre
  BY TrimUnfolds
<1>2. end \in Nat
  <2>1. \A m \in Nat : m * Metre \in Nat
    BY UnitsArePositive, Z3
  <2> QED BY <1>1, <2>1, Zenon
<1>3. PICK q \in Place : q = PointAt(geometry, end)
  BY <1>2, PointAtIsPlace
<1>4. selected[Len(geometry) - 1] \in Seq(Place)
  <2>1. Len(geometry) - 1 \in 1..(Len(geometry) - 1)
    BY LenProperties
  <2> QED BY <1>1, <2>1 DEF TrimsTo, Selects
<1>5. /\ Append(selected[Len(geometry) - 1], q) \in Seq(Place)
      /\ Len(Append(selected[Len(geometry) - 1], q)) >= 1
  <2>1. PICK s \in Seq(Place), n \in Nat : s = selected[Len(geometry) - 1] /\ n = Len(s)
    BY <1>4, LenProperties
  <2>2. Append(s, q) \in Seq(Place) /\ Len(Append(s, q)) = n + 1
    BY <2>1, AppendProperties
  <2> QED BY <2>1, <2>2
<1>6. Len(geometry) >= 1
  BY LenProperties
<1> QED BY <1>1, <1>3, <1>5, <1>6 DEF TrimsTo

LEMMA SelectedIsGeometry ==
  ASSUME NEW d \in Drafts, d.legs # << >>
  PROVE  Selected(d) \in Seq(Place) /\ Len(Selected(d)) >= 1
<1>1. Legs(d.legs)
  BY RoutePayloadAssumption DEF RoutePayloadAssumption, Legs
<1>2. PICK geometry \in Seq(Place) : geometry = Composed(d.legs) /\ Len(geometry) >= 2
  BY <1>1, ComposedIsGeometry
<1>3. CASE d.selection = NoSelection
  <2>1. Len(geometry) >= 1
    BY <1>2, LenProperties
  <2> QED BY <1>2, <1>3, <2>1 DEF Selected
<1>4. CASE d.selection # NoSelection
  <2>1. d.selection.startM \in Nat /\ d.selection.endM \in Nat
    BY <1>4, RoutePayloadAssumption DEF RoutePayloadAssumption
  <2>2. Trimmed(geometry, d.selection) \in Seq(Place) /\ Len(Trimmed(geometry, d.selection)) >= 1
    BY <1>2, <2>1, TrimmedIsGeometry
  <2> QED BY <1>2, <1>4, <2>2 DEF Selected
<1> QED BY <1>3, <1>4

LEMMA StoredArePoints ==
  ASSUME NEW b, b.geometry \in Seq(Place)
  PROVE  Geometry(b) \in Seq(Point) /\ Rounded(Geometry(b)) \in Seq(Point)
<1>1. PICK n \in Nat : n = Len(b.geometry) /\ DOMAIN b.geometry = 1..n
  BY LenProperties
<1>2. ASSUME NEW p \in Place PROVE p.x \in Int /\ p.y \in Int
  BY DEF Place
<1>3. ASSUME NEW v \in Int PROVE Round(v, Micro) \in Int /\ Round(v, Micro) * Micro \in Int
  <2>1. Round(v, Micro) \in Int
    BY UnitsArePositive, RoundIsInt
  <2> QED BY <2>1, UnitsArePositive, TimesShuffles
<1>4. ASSUME NEW p \in Place
      PROVE  (IF b.api = "v2" THEN Canonical(p) ELSE [x |-> p.x, y |-> p.y]) \in Point
  <2>1. [x |-> p.x, y |-> p.y] \in Point
    BY <1>2 DEF Point
  <2>2. Canonical(p) \in Point
    <3>1. Round(p.x, Micro) * Micro \in Int
      BY <1>2, <1>3
    <3>2. Round(p.y, Micro) * Micro \in Int
      BY <1>2, <1>3
    <3> QED BY <3>1, <3>2 DEF Canonical, Point
  <2> QED BY <2>1, <2>2
<1>5. \A i \in 1..n : b.geometry[i] \in Place
  BY <1>1, ElementOfSeq
<1>6. PICK f \in [1..n -> Point] : f = Geometry(b)
  <2>1. Geometry(b) \in [1..n -> Point]
    BY <1>1, <1>4, <1>5 DEF Geometry
  <2> QED BY <2>1
<1>7. Rounded(f) \in [1..n -> Point]
  <2>1. ASSUME NEW i \in 1..n PROVE [x |-> Round(f[i].x, Micro), y |-> Round(f[i].y, Micro)] \in Point
    <3>1. f[i].x \in Int /\ f[i].y \in Int
      BY <1>6 DEF Point
    <3>2. Round(f[i].x, Micro) \in Int
      BY <1>3, <3>1
    <3>3. Round(f[i].y, Micro) \in Int
      BY <1>3, <3>1
    <3> QED BY <3>2, <3>3 DEF Point
  <2>2. DOMAIN f = 1..n
    BY <1>6
  <2> QED BY <2>1, <2>2 DEF Rounded
<1> QED BY <1>1, <1>6, <1>7

(* A point that the trim keeps is in the trimmed geometry.                 *)
LEMMA KeptIsInTrimmed ==
  ASSUME NEW geometry \in Seq(Place), Len(geometry) >= 2, NEW selection,
         selection.startM \in Nat, selection.endM \in Nat,
         NEW i \in 2..(Len(geometry) - 1),
         KeptByTrim(Profile(geometry), i, selection.startM * Metre, selection.endM * Metre)
  PROVE  \E m \in 1..Len(Trimmed(geometry, selection)) :
            Trimmed(geometry, selection)[m] = geometry[i]
<1>1. PICK n \in Nat : n = Len(geometry) - 1 /\ i \in 2..n
  BY LenProperties
<1>2. PICK along, start, end, selected :
         /\ TrimsTo(geometry, along, start, end, selected, Trimmed(geometry, selection))
         /\ KeptByTrim(along, i, start, end)
         /\ end = selection.endM * Metre
  BY TrimUnfolds
<1>3. PICK q \in Place : q = PointAt(geometry, end)
  <2>1. \A m \in Nat : m * Metre \in Nat
    BY UnitsArePositive, Z3
  <2>2. end \in Nat
    BY <1>2, <2>1, Zenon
  <2> QED BY <2>2, PointAtIsPlace
<1> DEFINE Has(k) == \E m \in 1..Len(selected[k]) : selected[k][m] = geometry[i]
           A == { k \in Nat : k \in i..n => Has(k) }
<1>4. ASSUME NEW k \in 1..n
      PROVE  selected[k] \in Seq(Place) /\ selected[k] = TrimTurn(geometry, along, start, end, selected, k)
  BY <1>1, <1>2 DEF TrimsTo, Selects
<1>5. ASSUME NEW k \in 0..n, 0..(k - 1) \subseteq A PROVE k \in A
  <2> SUFFICES ASSUME k \in i..n PROVE Has(k)
    OBVIOUS
  <2>1. k # 1 /\ k \in 1..n /\ k - 1 \in 1..n /\ k \in 1..Len(geometry)
    BY <1>1
  <2>2. PICK s \in Seq(Place), t \in Seq(Place) :
           /\ s = selected[k - 1] /\ selected[k] = s \o t
           /\ t = IF KeptByTrim(along, k, start, end) THEN << geometry[k] >> ELSE << >>
    <3>1. PICK p \in Place : p = geometry[k]
      BY <2>1, ElementOfSeq
    <3>2. PICK none \in Seq(Place), one \in Seq(Place) : none = << >> /\ one = << p >>
      <4>1. << >> \in Seq(Place)
        BY EmptySeq
      <4>2. << p >> \in Seq(Place)
        OBVIOUS
      <4> QED BY <4>1, <4>2
    <3>3. selected[k - 1] \in Seq(Place)
      BY <1>4, <2>1
    <3>4. selected[k] = selected[k - 1] \o (IF KeptByTrim(along, k, start, end) THEN << geometry[k] >> ELSE << >>)
      BY <1>4, <2>1 DEF TrimTurn
    <3> QED BY <3>1, <3>2, <3>3, <3>4, Zenon
  <2>3. /\ Len(s) \in Nat /\ Len(t) \in Nat /\ Len(s \o t) = Len(s) + Len(t)
        /\ \A m \in 1..(Len(s) + Len(t)) :
              (s \o t)[m] = IF m <= Len(s) THEN s[m] ELSE t[m - Len(s)]
    <3>1. Len(s) \in Nat /\ Len(t) \in Nat
      BY LenProperties
    <3> QED BY <3>1, ConcatProperties
  <2>4. CASE k = i
    <3>1. t = << geometry[i] >>
      BY <1>2, <2>2, <2>4
    <3>2. Len(t) = 1 /\ t[1] = geometry[i]
      BY <3>1
    <3>3. Len(s) + 1 \in 1..(Len(s) + Len(t)) /\ ~(Len(s) + 1 <= Len(s)) /\ (Len(s) + 1) - Len(s) = 1
      BY <2>3, <3>2
    <3>4. (s \o t)[Len(s) + 1] = geometry[i]
      BY <2>3, <3>2, <3>3
    <3> QED BY <2>2, <2>3, <3>3, <3>4
  <2>5. CASE k # i
    <3>1. k - 1 \in 0..(k - 1) /\ k - 1 \in i..n
      BY <2>5
    <3>2. PICK m \in 1..Len(s) : s[m] = geometry[i]
      BY <1>5, <2>2, <3>1
    <3>3. m \in 1..(Len(s) + Len(t)) /\ m <= Len(s)
      BY <2>3
    <3>4. (s \o t)[m] = geometry[i]
      BY <2>3, <3>2, <3>3
    <3> QED BY <2>2, <2>3, <3>3, <3>4
  <2> QED BY <2>4, <2>5
<1>6. Has(n)
  <2>1. A \in SUBSET Nat
    OBVIOUS
  <2>2. 0..n \subseteq A
    <3> HIDE DEF A
    <3> QED BY <1>5, <2>1, Induction
  <2>3. n \in 0..n /\ n \in i..n
    BY <1>1
  <2> QED BY <2>2, <2>3
<1>7. PICK s \in Seq(Place) : s = selected[n]
  <2>1. n \in 1..n
    BY <1>1
  <2> QED BY <1>4, <2>1
<1>8. PICK m \in 1..Len(s) : s[m] = geometry[i]
  BY <1>6, <1>7
<1>9. CASE start = 0 /\ end = Last(along)
  <2>1. Trimmed(geometry, selection) = geometry
    BY <1>2, <1>9 DEF TrimsTo
  <2>2. i \in 1..Len(geometry)
    BY <1>1
  <2> QED BY <2>1, <2>2
<1>10. CASE ~(start = 0 /\ end = Last(along))
  <2>1. Trimmed(geometry, selection) = Append(s, q)
    BY <1>1, <1>2, <1>3, <1>7, <1>10 DEF TrimsTo
  <2>2. Len(s) \in Nat /\ Len(Append(s, q)) = Len(s) + 1 /\ Append(s, q)[m] = s[m]
    BY LenProperties, AppendProperties
  <2>3. m \in 1..Len(Append(s, q))
    BY <2>2
  <2> QED BY <1>8, <2>1, <2>2, <2>3
<1> QED BY <1>9, <1>10

-----------------------------------------------------------------------------
(* A running sum exists, and is a number at each place.                    *)
RunTurn(c, d, f, i) == (IF i = 1 THEN c ELSE f[i - 1]) + d[i]

LEMMA RunExists ==
  ASSUME NEW n \in Nat, NEW c \in Nat, NEW d \in [1..n -> Nat]
  PROVE  \E h \in [1..n -> Nat] : h = [i \in 1..n |-> RunTurn(c, d, h, i)]
<1> DEFINE I      == 1..n
           first  == [i \in I |-> c + d[i]]
           before == [i \in I |-> IF i = 1 THEN 1 ELSE i - 1]
           g      == [p \in I \X Nat |-> p[2] + d[p[1]]]
<1>1. first \in [I -> Nat] /\ before \in [I -> I] /\ g \in [I \X Nat -> Nat]
  OBVIOUS
<1>2. PICK h \in [I -> Nat] : Follows(h, I, first, before, g)
  <2>1. I \in SUBSET (0..n)
    OBVIOUS
  <2> HIDE DEF I, first, before, g
  <2> QED BY <1>1, <2>1, FollowingExists
<1>3. ASSUME NEW i \in I PROVE h[i] = RunTurn(c, d, h, i)
  <2>1. h[i] = IF before[i] < i THEN g[<< i, h[before[i]] >>] ELSE first[i]
    BY <1>2 DEF Follows
  <2>2. CASE i = 1
    BY <2>1, <2>2 DEF RunTurn
  <2>3. CASE i # 1
    <3>1. before[i] = i - 1 /\ i - 1 \in I /\ i - 1 < i /\ h[i - 1] \in Nat
      BY <2>3
    <3>2. h[i] = g[<< i, h[i - 1] >>] /\ << i, h[i - 1] >> \in I \X Nat
      BY <2>1, <3>1
    <3>3. g[<< i, h[i - 1] >>] = h[i - 1] + d[i]
      BY <3>2
    <3> QED BY <2>3, <3>2, <3>3 DEF RunTurn
  <2> QED BY <2>2, <2>3
<1>4. h = [i \in 1..n |-> RunTurn(c, d, h, i)]
  <2> HIDE DEF g, first, before
  <2> QED BY <1>2, <1>3
<1> QED BY <1>2, <1>4

LEMMA RunIsNat ==
  ASSUME NEW n \in Nat, NEW c \in Nat, NEW d \in [1..n -> Nat], NEW f,
         \A i \in 1..n : f[i] = RunTurn(c, d, f, i)
  PROVE  \A i \in 1..n : f[i] \in Nat
<1> DEFINE A == { k \in Nat : k \in 1..n => f[k] \in Nat }
<1>1. ASSUME NEW k \in 0..n, 0..(k - 1) \subseteq A PROVE k \in A
  <2> SUFFICES ASSUME k \in 1..n PROVE f[k] \in Nat
    OBVIOUS
  <2>1. f[k] = RunTurn(c, d, f, k) /\ d[k] \in Nat
    OBVIOUS
  <2>2. CASE k = 1
    BY <2>1, <2>2 DEF RunTurn
  <2>3. CASE k # 1
    <3>1. k - 1 \in 0..(k - 1) /\ k - 1 \in 1..n
      BY <2>3
    <3>2. f[k - 1] \in Nat
      BY <1>1, <3>1
    <3> QED BY <2>1, <2>3, <3>2 DEF RunTurn
  <2> QED BY <2>2, <2>3
<1>2. A \in SUBSET Nat
  OBVIOUS
<1>3. 0..n \subseteq A
  <2> HIDE DEF A
  <2> QED BY <1>1, <1>2, Induction
<1> QED BY <1>3

CursorTurn(legs, cursor, i) == (IF i = 1 THEN 1 ELSE cursor[i - 1]) + (Len(legs[i]) - 1)

(* Where the legs of a composed geometry end.                              *)
IsCursor(legs, cursor) ==
    /\ \A i \in 1..Len(legs) : cursor[i] \in Nat /\ cursor[i] = CursorTurn(legs, cursor, i)
    /\ Anchors(legs) = [ i \in 1..Len(legs) |-> Min({cursor[i], Len(Composed(legs))}) ]

LEMMA LegOfLegs ==
  ASSUME NEW legs, Legs(legs), NEW i \in 1..Len(legs)
  PROVE  legs[i] \in Seq(Place) /\ Len(legs[i]) \in Nat /\ Len(legs[i]) >= 2
<1>1. legs[i] \in Seq(Place)
  BY ElementOfSeq DEF Legs
<1>2. Len(legs[i]) >= 2
  BY DEF Legs
<1> QED BY <1>1, <1>2, LenProperties

LEMMA AnchorsUnfold ==
  ASSUME NEW legs, Legs(legs)
  PROVE  \E cursor : IsCursor(legs, cursor)
<1>1. PICK n \in Nat : n = Len(legs)
  BY LenProperties DEF Legs
<1>2. PICK d \in [1..n -> Nat] : d = [i \in 1..n |-> Len(legs[i]) - 1]
  <2>1. ASSUME NEW i \in 1..n PROVE Len(legs[i]) - 1 \in Nat
    <3>1. Len(legs[i]) \in Nat /\ Len(legs[i]) >= 2
      BY <1>1, LegOfLegs
    <3> QED BY <3>1
  <2> QED BY <2>1
<1> DEFINE iter == CHOOSE it : it = [i \in 1..Len(legs) |-> CursorTurn(legs, it, i)]
<1>3. PICK h \in [1..n -> Nat] : h = [i \in 1..n |-> RunTurn(1, d, h, i)]
  BY <1>2, RunExists
<1>4. ASSUME NEW f PROVE \A i \in 1..n : CursorTurn(legs, f, i) = RunTurn(1, d, f, i)
  BY <1>2 DEF CursorTurn, RunTurn
<1>5. h = [i \in 1..Len(legs) |-> CursorTurn(legs, h, i)]
  <2>1. \A i \in 1..n : CursorTurn(legs, h, i) = RunTurn(1, d, h, i)
    BY <1>4
  <2> QED BY <1>1, <1>3, <2>1
<1>6. iter = [i \in 1..Len(legs) |-> CursorTurn(legs, iter, i)]
  BY <1>5
<1>7. Anchors(legs) = [ i \in 1..Len(legs) |-> Min({iter[i], Len(Composed(legs))}) ]
  BY Zenon DEF Anchors, CursorTurn
<1> HIDE DEF iter
<1>8. \A i \in 1..n : iter[i] = CursorTurn(legs, iter, i)
  BY <1>1, <1>6
<1>9. \A i \in 1..n : iter[i] \in Nat
  <2>1. \A i \in 1..n : iter[i] = RunTurn(1, d, iter, i)
    BY <1>4, <1>8
  <2> QED BY <1>2, <2>1, RunIsNat
<1> QED BY <1>1, <1>7, <1>8, <1>9 DEF IsCursor

LEMMA LengthIsLast ==
  ASSUME NEW geometry \in Seq(Place), Len(geometry) >= 1
  PROVE  Length(geometry) = Profile(geometry)[Len(geometry)] /\ Length(geometry) \in Nat
<1>1. PICK n \in Nat : n = Len(geometry) /\ n >= 1
  BY LenProperties
<1>2. PICK along \in [1..n -> Nat] : along = Profile(geometry)
  BY <1>1, ProfileUnfolds DEF IsProfile
<1>3. Last(along) = along[n] /\ along[n] \in Nat
  BY <1>1 DEF Last
<1> QED BY <1>1, <1>2, <1>3 DEF Length

LengthTurn(legs, along, i) == (IF i = 1 THEN 0 ELSE along[i - 1]) + Length(legs[i])

AreLengths(legs, along) ==
    \A i \in 1..Len(legs) : along[i] \in Nat /\ along[i] = LengthTurn(legs, along, i)

LEMMA LengthsUnfold ==
  ASSUME NEW legs, Legs(legs)
  PROVE  AreLengths(legs, LengthsTo(legs))
<1>1. PICK n \in Nat : n = Len(legs)
  BY LenProperties DEF Legs
<1>2. PICK d \in [1..n -> Nat] : d = [i \in 1..n |-> Length(legs[i])]
  <2>1. ASSUME NEW i \in 1..n PROVE Length(legs[i]) \in Nat
    <3>1. legs[i] \in Seq(Place) /\ Len(legs[i]) \in Nat /\ Len(legs[i]) >= 2
      BY <1>1, LegOfLegs
    <3> QED BY <3>1, LengthIsLast
  <2> QED BY <2>1
<1> DEFINE iter == CHOOSE it : it = [i \in 1..Len(legs) |-> LengthTurn(legs, it, i)]
<1>3. PICK h \in [1..n -> Nat] : h = [i \in 1..n |-> RunTurn(0, d, h, i)]
  BY <1>2, RunExists
<1>4. ASSUME NEW f PROVE \A i \in 1..n : LengthTurn(legs, f, i) = RunTurn(0, d, f, i)
  BY <1>2 DEF LengthTurn, RunTurn
<1>5. h = [i \in 1..Len(legs) |-> LengthTurn(legs, h, i)]
  <2>1. \A i \in 1..n : LengthTurn(legs, h, i) = RunTurn(0, d, h, i)
    BY <1>4
  <2> QED BY <1>1, <1>3, <2>1
<1>6. iter = [i \in 1..Len(legs) |-> LengthTurn(legs, iter, i)]
  BY <1>5
<1>7. LengthsTo(legs) = iter
  BY Zenon DEF LengthsTo, LengthTurn
<1> HIDE DEF iter
<1>8. \A i \in 1..n : iter[i] = LengthTurn(legs, iter, i)
  BY <1>1, <1>6
<1>9. \A i \in 1..n : iter[i] \in Nat
  <2>1. \A i \in 1..n : iter[i] = RunTurn(0, d, iter, i)
    BY <1>4, <1>8
  <2> QED BY <1>2, <2>1, RunIsNat
<1> QED BY <1>1, <1>7, <1>8, <1>9 DEF AreLengths

(* A leg lies in a geometry with its last point at an index.               *)
LegLies(geometry, leg, end) ==
    /\ end \in Nat /\ Len(leg) <= end /\ end <= Len(geometry)
    /\ \A j \in 1..Len(leg) : geometry[(end - Len(leg)) + j] = leg[j]

LEMMA LegStays ==
  ASSUME NEW s \in Seq(Place), NEW t \in Seq(Place), NEW leg \in Seq(Place), NEW end \in Nat,
         LegLies(s, leg, end)
  PROVE  LegLies(s \o t, leg, end)
<1>1. PICK m \in Nat : m = Len(leg) /\ m <= end
  BY LenProperties DEF LegLies
<1>2. /\ Len(s) \in Nat /\ Len(t) \in Nat /\ Len(s \o t) = Len(s) + Len(t)
      /\ \A i \in 1..(Len(s) + Len(t)) :
            (s \o t)[i] = IF i <= Len(s) THEN s[i] ELSE t[i - Len(s)]
  <2>1. Len(s) \in Nat /\ Len(t) \in Nat
    BY LenProperties
  <2> QED BY <2>1, ConcatProperties
<1>3. end <= Len(s)
  BY DEF LegLies
<1>4. ASSUME NEW j \in 1..m PROVE (s \o t)[(end - m) + j] = leg[j]
  <2>1. (end - m) + j \in 1..(Len(s) + Len(t)) /\ (end - m) + j <= Len(s)
    BY <1>1, <1>2, <1>3
  <2>2. s[(end - m) + j] = leg[j]
    BY <1>1 DEF LegLies
  <2> QED BY <1>2, <2>1, <2>2
<1>5. end <= Len(s \o t)
  BY <1>2, <1>3
<1> QED BY <1>1, <1>4, <1>5 DEF LegLies

LEMMA LegJoins ==
  ASSUME NEW s \in Seq(Place), Len(s) >= 1, NEW leg \in Seq(Place), Len(leg) >= 2,
         s[Len(s)] = leg[1]
  PROVE  /\ s \o Tail(leg) \in Seq(Place)
         /\ Len(s \o Tail(leg)) = Len(s) + (Len(leg) - 1)
         /\ LegLies(s \o Tail(leg), leg, Len(s) + (Len(leg) - 1))
<1>1. PICK m \in Nat, k \in Nat : m = Len(leg) /\ k = Len(s) /\ m >= 2 /\ k >= 1
  BY LenProperties
<1>2. PICK t \in Seq(Place) : /\ t = Tail(leg) /\ Len(t) = m - 1
                              /\ \A i \in 1..(m - 1) : t[i] = leg[i + 1]
  <2>1. leg # << >>
    <3>1. Len(<< >>) = 0
      BY EmptySeq
    <3> QED BY <1>1, <3>1
  <2>2. /\ Tail(leg) \in Seq(Place) /\ Len(Tail(leg)) = Len(leg) - 1
        /\ \A i \in 1..Len(Tail(leg)) : Tail(leg)[i] = leg[i + 1]
    BY <2>1, HeadTailProperties
  <2> QED BY <1>1, <2>2
<1>3. /\ s \o t \in Seq(Place) /\ Len(s \o t) = k + (m - 1)
      /\ \A i \in 1..(k + (m - 1)) : (s \o t)[i] = IF i <= k THEN s[i] ELSE t[i - k]
  <2>1. Len(s \o t) = Len(s) + Len(t) /\ s \o t \in Seq(Place)
        /\ \A i \in 1..(Len(s) + Len(t)) : (s \o t)[i] = IF i <= Len(s) THEN s[i] ELSE t[i - Len(s)]
    BY ConcatProperties
  <2> QED BY <1>1, <1>2, <2>1
<1>4. ASSUME NEW j \in 1..m PROVE (s \o t)[((k + (m - 1)) - m) + j] = leg[j]
  <2>1. ((k + (m - 1)) - m) + j = (k - 1) + j /\ (k - 1) + j \in 1..(k + (m - 1))
    BY <1>1
  <2>2. CASE j = 1
    <3>1. (k - 1) + j = k /\ k \in 1..(k + (m - 1))
      BY <1>1, <2>2
    <3>2. (s \o t)[k] = s[k]
      BY <1>3, <3>1
    <3> QED BY <1>1, <2>1, <2>2, <3>1, <3>2
  <2>3. CASE j # 1
    <3>1. ~((k - 1) + j <= k) /\ ((k - 1) + j) - k = j - 1 /\ j - 1 \in 1..(m - 1) /\ (j - 1) + 1 = j
      BY <1>1, <2>3
    <3>2. (s \o t)[(k - 1) + j] = t[j - 1]
      BY <1>3, <2>1, <3>1
    <3>3. t[j - 1] = leg[j]
      BY <1>2, <3>1
    <3> QED BY <2>1, <3>2, <3>3
  <2> QED BY <2>2, <2>3
<1>5. LegLies(s \o t, leg, k + (m - 1))
  <2>1. k + (m - 1) \in Nat /\ m <= k + (m - 1)
    BY <1>1
  <2> QED BY <1>1, <1>3, <1>4, <2>1 DEF LegLies
<1> QED BY <1>1, <1>2, <1>3, <1>5

LEMMA LegIsAll ==
  ASSUME NEW leg \in Seq(Place)
  PROVE  LegLies(leg, leg, Len(leg))
<1>1. PICK m \in Nat : m = Len(leg)
  BY LenProperties
<1>2. \A j \in 1..m : (m - m) + j = j
  OBVIOUS
<1> QED BY <1>1, <1>2 DEF LegLies

InPlace(geometry, legs, cursor, k) ==
    /\ geometry \in Seq(Place) /\ Len(geometry) = cursor[k]
    /\ \A i \in 1..k : LegLies(geometry, legs[i], cursor[i])

(* Legs that are joined lie one after the other in the whole route.        *)
LEMMA LegsAreInPlace ==
  ASSUME NEW legs, Legs(legs), legs # << >>, Joined(legs), NEW cursor, IsCursor(legs, cursor)
  PROVE  InPlace(Composed(legs), legs, cursor, Len(legs))
<1>1. PICK n \in Nat \ {0} : n = Len(legs) /\ DOMAIN legs = 1..n
  BY EmptySeq, LenProperties DEF Legs
<1>2. ASSUME NEW i \in 1..n
      PROVE  legs[i] \in Seq(Place) /\ Len(legs[i]) \in Nat /\ Len(legs[i]) >= 2 /\ legs[i] # << >>
  <2>1. legs[i] \in Seq(Place) /\ Len(legs[i]) \in Nat /\ Len(legs[i]) >= 2
    BY <1>1, LegOfLegs
  <2>2. Len(<< >>) = 0
    BY EmptySeq
  <2> QED BY <2>1, <2>2
<1>3. ASSUME NEW i \in 1..n
      PROVE  cursor[i] \in Nat /\ cursor[i] = (IF i = 1 THEN 1 ELSE cursor[i - 1]) + (Len(legs[i]) - 1)
  BY <1>1 DEF IsCursor, CursorTurn
<1> DEFINE part(i) == IF i > 1 /\ legs[i][1] = Last(legs[i - 1]) THEN Tail(legs[i]) ELSE legs[i]
<1>4. PICK parts : parts = [i \in DOMAIN legs |-> part(i)]
  OBVIOUS
<1>5. ASSUME NEW i \in 1..n PROVE parts[i] = IF i = 1 THEN legs[1] ELSE Tail(legs[i])
  <2>1. parts[i] = part(i)
    BY <1>1, <1>4
  <2>2. CASE i = 1
    BY <2>1, <2>2
  <2>3. CASE i # 1
    <3>1. i \in 2..Len(legs)
      BY <1>1, <2>3
    <3>2. legs[i][1] = Last(legs[i - 1])
      BY <3>1 DEF Joined
    <3> QED BY <2>1, <2>3, <3>1, <3>2
  <2> QED BY <2>2, <2>3
<1>6. parts \in Seq(Seq(Place)) /\ parts # << >> /\ Len(parts) = n
  <2>1. ASSUME NEW i \in 1..n PROVE parts[i] \in Seq(Place)
    <3>1. Tail(legs[i]) \in Seq(Place)
      BY <1>2, HeadTailProperties
    <3>2. legs[1] \in Seq(Place)
      <4>1. 1 \in 1..n
        OBVIOUS
      <4> QED BY <1>2, <4>1
    <3> QED BY <1>5, <3>1, <3>2
  <2>2. DOMAIN parts = 1..n /\ parts = [i \in 1..n |-> parts[i]]
    <3> HIDE DEF part
    <3> QED BY <1>1, <1>4
  <2>3. parts \in [1..n -> Seq(Place)]
    BY <2>1, <2>2
  <2>4. parts \in Seq(Seq(Place)) /\ Len(parts) = n
    BY <2>3
  <2>5. Len(<< >>) = 0
    BY EmptySeq
  <2> QED BY <2>4, <2>5
<1>7. Composed(legs) = FlattenSeq(parts)
  BY <1>4, Zenon DEF Composed
<1>8. PICK joined : IsJoined(parts, joined)
  BY <1>6, FlattenUnfolds
<1> DEFINE A == { k \in Nat : k \in 1..n => InPlace(joined[k], legs, cursor, k) }
<1>9. ASSUME NEW k \in 0..n, 0..(k - 1) \subseteq A PROVE k \in A
  <2> SUFFICES ASSUME k \in 1..n PROVE InPlace(joined[k], legs, cursor, k)
    OBVIOUS
  <2>1. joined[k] = IF k = 1 THEN parts[k] ELSE joined[k - 1] \o parts[k]
    BY <1>6, <1>8 DEF IsJoined, JoinTurn
  <2>2. CASE k = 1
    <3>1. joined[k] = legs[1] /\ legs[1] \in Seq(Place) /\ Len(legs[1]) \in Nat
      BY <1>2, <1>5, <2>1, <2>2
    <3>2. cursor[1] = Len(legs[1])
      <4>1. cursor[1] = 1 + (Len(legs[1]) - 1)
        BY <1>3, <2>2
      <4> QED BY <3>1, <4>1
    <3>3. LegLies(legs[1], legs[1], Len(legs[1]))
      BY <3>1, LegIsAll
    <3>4. \A i \in 1..k : i = 1
      BY <2>2
    <3> QED BY <2>2, <3>1, <3>2, <3>3, <3>4 DEF InPlace
  <2>3. CASE k # 1
    <3>1. k - 1 \in 0..(k - 1) /\ k - 1 \in 1..n /\ k \in 2..Len(legs)
      BY <1>1, <2>3
    <3>2. PICK s \in Seq(Place) : s = joined[k - 1] /\ InPlace(s, legs, cursor, k - 1)
      BY <1>9, <3>1 DEF InPlace
    <3>3. PICK leg \in Seq(Place), m \in Nat : leg = legs[k] /\ m = Len(leg) /\ m >= 2
      BY <1>2
    <3>4. PICK e \in Nat : e = cursor[k - 1] /\ e = Len(s) /\ e >= 1 /\ s[e] = leg[1]
      <4>1. PICK before \in Seq(Place), b \in Nat : before = legs[k - 1] /\ b = Len(before) /\ b >= 2
        BY <1>2, <3>1
      <4>2. cursor[k - 1] \in Nat /\ cursor[k - 1] = Len(s) /\ LegLies(s, before, cursor[k - 1])
        BY <1>3, <3>1, <3>2, <4>1 DEF InPlace
      <4>3. b <= cursor[k - 1] /\ s[(cursor[k - 1] - b) + b] = before[b]
        <5>1. b \in 1..Len(before)
          BY <4>1
        <5>2. Len(before) <= cursor[k - 1] /\ s[(cursor[k - 1] - Len(before)) + b] = before[b]
          BY <4>2, <5>1 DEF LegLies
        <5> QED BY <4>1, <5>2
      <4>4. (cursor[k - 1] - b) + b = cursor[k - 1] /\ cursor[k - 1] >= 1
        BY <4>1, <4>2, <4>3
      <4>5. leg[1] = before[b]
        BY <3>1, <3>3, <4>1 DEF Joined, Last
      <4> QED BY <4>2, <4>3, <4>4, <4>5
    <3>5. joined[k] = s \o Tail(leg)
      BY <1>5, <2>1, <2>3, <3>2, <3>3
    <3>6. /\ s \o Tail(leg) \in Seq(Place) /\ Len(s \o Tail(leg)) = e + (m - 1)
          /\ LegLies(s \o Tail(leg), leg, e + (m - 1))
      BY <3>3, <3>4, LegJoins
    <3>7. cursor[k] = e + (m - 1)
      BY <1>3, <2>3, <3>3, <3>4
    <3>8. ASSUME NEW i \in 1..k PROVE LegLies(s \o Tail(leg), legs[i], cursor[i])
      <4>1. CASE i = k
        BY <3>3, <3>6, <3>7, <4>1
      <4>2. CASE i # k
        <5>1. i \in 1..(k - 1) /\ i \in 1..n
          BY <4>2
        <5>2. PICK one \in Seq(Place), end \in Nat : one = legs[i] /\ end = cursor[i]
          BY <1>2, <1>3, <5>1
        <5>3. LegLies(s, one, end)
          BY <3>2, <5>1, <5>2 DEF InPlace
        <5>4. Tail(leg) \in Seq(Place)
          BY <1>2, <3>3, HeadTailProperties
        <5>5. LegLies(s \o Tail(leg), one, end)
          BY <5>3, <5>4, LegStays
        <5> QED BY <5>2, <5>5
      <4> QED BY <4>1, <4>2
    <3> QED BY <3>5, <3>6, <3>7, <3>8 DEF InPlace
  <2> QED BY <2>2, <2>3
<1>10. InPlace(joined[n], legs, cursor, n)
  <2>1. A \in SUBSET Nat
    OBVIOUS
  <2>2. 0..n \subseteq A
    <3> HIDE DEF A
    <3> QED BY <1>9, <2>1, Induction
  <2> QED BY <2>2
<1> QED BY <1>1, <1>6, <1>7, <1>8, <1>10 DEF IsJoined

(* The way along a leg is as long in the route as by itself.               *)
LEMMA LegProfile ==
  ASSUME NEW geometry \in Seq(Place), NEW leg \in Seq(Place), Len(leg) >= 1, NEW end \in Nat,
         LegLies(geometry, leg, end)
  PROVE  Profile(geometry)[end]
           = Profile(geometry)[(end - Len(leg)) + 1] + Length(leg)
<1>1. PICK m \in Nat, n \in Nat : m = Len(leg) /\ n = Len(geometry) /\ m >= 1 /\ m <= end /\ end <= n
  BY LenProperties DEF LegLies
<1>2. PICK p \in Nat : p = end - m /\ p + m = end
  BY <1>1
<1>3. PICK along \in [1..n -> Nat] :
         /\ along = Profile(geometry)
         /\ \A i \in 1..n : along[i] = ProfileTurn(geometry, along, i)
  BY <1>1, ProfileUnfolds DEF IsProfile
<1>4. PICK own \in [1..m -> Nat] :
         /\ own = Profile(leg)
         /\ \A i \in 1..m : own[i] = ProfileTurn(leg, own, i)
  BY <1>1, ProfileUnfolds DEF IsProfile
<1>5. \A j \in 1..m : geometry[p + j] = leg[j]
  BY <1>1, <1>2 DEF LegLies
<1> DEFINE A == { k \in Nat : k \in 1..m => along[p + k] = along[p + 1] + own[k] }
<1>6. ASSUME NEW k \in 0..m, 0..(k - 1) \subseteq A PROVE k \in A
  <2> SUFFICES ASSUME k \in 1..m PROVE along[p + k] = along[p + 1] + own[k]
    OBVIOUS
  <2>1. p + k \in 1..n /\ p + 1 \in 1..n
    BY <1>1, <1>2
  <2>2. along[p + 1] \in Nat
    BY <2>1
  <2>3. CASE k = 1
    <3>1. own[k] = 0
      BY <1>4, <2>3 DEF ProfileTurn
    <3> QED BY <2>2, <2>3, <3>1
  <2>4. CASE k # 1
    <3>1. k - 1 \in 0..(k - 1) /\ k - 1 \in 1..m /\ p + k # 1 /\ (p + k) - 1 = p + (k - 1)
      BY <2>4
    <3>2. along[p + (k - 1)] = along[p + 1] + own[k - 1]
      BY <1>6, <3>1
    <3>3. PICK step : step = DistanceBetween(leg[k - 1], leg[k])
      OBVIOUS
    <3>4. own[k] = own[k - 1] + step
      BY <1>4, <2>4, <3>3 DEF ProfileTurn
    <3>5. geometry[p + (k - 1)] = leg[k - 1] /\ geometry[p + k] = leg[k]
      BY <1>5, <3>1
    <3>6. along[p + k] = along[p + (k - 1)] + step
      BY <1>3, <2>1, <3>1, <3>3, <3>5 DEF ProfileTurn
    <3>7. step \in Nat
      <4>1. leg[k - 1] \in Place
        BY <1>1, <3>1, ElementOfSeq
      <4>2. leg[k] \in Place
        BY <1>1, ElementOfSeq
      <4> QED BY <3>3, <4>1, <4>2, DistanceIsNat
    <3>8. own[k - 1] \in Nat
      BY <3>1
    <3>9. PICK first \in Nat, o \in Nat : first = along[p + 1] /\ o = own[k - 1]
      BY <2>2, <3>8
    <3>10. along[p + k] = (first + o) + step /\ own[k] = o + step
      BY <3>2, <3>4, <3>6, <3>9
    <3>11. (first + o) + step = first + (o + step)
      BY <3>7
    <3> QED BY <3>9, <3>10, <3>11
  <2> QED BY <2>3, <2>4
<1>7. along[p + m] = along[p + 1] + own[m]
  <2>1. A \in SUBSET Nat
    OBVIOUS
  <2>2. 0..m \subseteq A
    <3> HIDE DEF A
    <3> QED BY <1>6, <2>1, Induction
  <2>3. m \in 0..m /\ m \in 1..m
    BY <1>1
  <2> QED BY <2>2, <2>3
<1>8. Length(leg) = own[m]
  BY <1>1, <1>4, LengthIsLast
<1> QED BY <1>1, <1>2, <1>3, <1>7, <1>8

(* Where two legs meet there is an anchor, as far along as the legs are    *)
(* long, and strictly within the route.                                    *)
IsJoint(legs, i, a) ==
    /\ a = Anchors(legs)[i]
    /\ a \in 1..Len(Composed(legs)) /\ Composed(legs)[a] = Last(legs[i])
    /\ Profile(Composed(legs))[a] = LengthsTo(legs)[i]
    /\ i < Len(legs) => a \in 2..(Len(Composed(legs)) - 1)

LEMMA JointsAreAnchors ==
  ASSUME NEW legs, Legs(legs), legs # << >>, Joined(legs), NEW joint \in 1..Len(legs)
  PROVE  \E a \in Nat : IsJoint(legs, joint, a)
<1>1. PICK n \in Nat \ {0} : n = Len(legs)
  BY EmptySeq, LenProperties DEF Legs
<1>2. PICK cursor : IsCursor(legs, cursor)
  BY AnchorsUnfold
<1>3. PICK geometry \in Seq(Place), size \in Nat : geometry = Composed(legs) /\ size = Len(geometry)
  BY ComposedIsGeometry, LenProperties
<1>4. ASSUME NEW i \in 1..n
      PROVE  /\ cursor[i] \in Nat /\ cursor[i] = (IF i = 1 THEN 1 ELSE cursor[i - 1]) + (Len(legs[i]) - 1)
             /\ LegLies(geometry, legs[i], cursor[i])
  <2>1. cursor[i] \in Nat /\ cursor[i] = (IF i = 1 THEN 1 ELSE cursor[i - 1]) + (Len(legs[i]) - 1)
    BY <1>1, <1>2 DEF IsCursor, CursorTurn
  <2>2. LegLies(geometry, legs[i], cursor[i])
    BY <1>1, <1>2, <1>3, LegsAreInPlace DEF InPlace
  <2> QED BY <2>1, <2>2
<1>5. PICK along \in [1..size -> Nat] : /\ along = Profile(geometry)
                                        /\ size >= 1 => along[1] = 0
  <2>1. Profile(geometry) \in [1..size -> Nat]
    BY <1>3, ProfileUnfolds DEF IsProfile
  <2>2. ASSUME size >= 1 PROVE Profile(geometry)[1] = 0
    <3>1. 1 \in 1..Len(geometry)
      BY <1>3, <2>2
    <3>2. Profile(geometry)[1] = ProfileTurn(geometry, Profile(geometry), 1)
      BY <3>1, ProfileUnfolds DEF IsProfile
    <3> QED BY <3>2 DEF ProfileTurn
  <2> QED BY <2>1, <2>2
<1>6. PICK lengths : /\ lengths = LengthsTo(legs)
                     /\ \A i \in 1..n : lengths[i] \in Nat /\ lengths[i] = LengthTurn(legs, lengths, i)
  BY <1>1, LengthsUnfold DEF AreLengths
<1>7. ASSUME NEW i \in 1..n
      PROVE  \E leg \in Seq(Place), m \in Nat, e \in Nat :
                /\ leg = legs[i] /\ m = Len(leg) /\ m >= 2 /\ e = cursor[i]
                /\ m <= e /\ e <= size /\ geometry[e] = leg[m]
                /\ along[e] = along[(e - m) + 1] + Length(leg)
  <2>1. PICK leg \in Seq(Place), m \in Nat : leg = legs[i] /\ m = Len(leg) /\ m >= 2
    BY <1>1, LegOfLegs
  <2>2. PICK e \in Nat : e = cursor[i]
    BY <1>4
  <2>3. LegLies(geometry, leg, e)
    BY <1>4, <2>1, <2>2
  <2>4. m <= e /\ e <= size
    BY <1>3, <2>1, <2>3 DEF LegLies
  <2>5. geometry[(e - m) + m] = leg[m]
    <3>1. m \in 1..m
      BY <2>1
    <3> QED BY <2>1, <2>3, <3>1 DEF LegLies
  <2>6. (e - m) + m = e
    OBVIOUS
  <2>7. along[e] = along[(e - m) + 1] + Length(leg)
    <3>1. Len(leg) >= 1
      BY <2>1
    <3>2. Profile(geometry)[e] = Profile(geometry)[(e - Len(leg)) + 1] + Length(leg)
      BY <2>3, <3>1, LegProfile
    <3> QED BY <1>5, <2>1, <3>2
  <2> QED BY <2>1, <2>2, <2>4, <2>5, <2>6, <2>7
<1> DEFINE A == { k \in Nat : k \in 1..n => along[cursor[k]] = lengths[k] }
<1>8. ASSUME NEW k \in 0..n, 0..(k - 1) \subseteq A PROVE k \in A
  <2> SUFFICES ASSUME k \in 1..n PROVE along[cursor[k]] = lengths[k]
    OBVIOUS
  <2>1. PICK leg \in Seq(Place), m \in Nat, e \in Nat :
           /\ leg = legs[k] /\ m = Len(leg) /\ m >= 2 /\ e = cursor[k]
           /\ m <= e /\ e <= size /\ geometry[e] = leg[m]
           /\ along[e] = along[(e - m) + 1] + Length(leg)
    BY <1>7, Zenon
  <2>2. e = (IF k = 1 THEN 1 ELSE cursor[k - 1]) + (m - 1)
    BY <1>4, <2>1
  <2>3. lengths[k] = (IF k = 1 THEN 0 ELSE lengths[k - 1]) + Length(leg)
    BY <1>6, <2>1 DEF LengthTurn
  <2>4. CASE k = 1
    <3>1. (e - m) + 1 = 1 /\ size >= 1
      BY <2>1, <2>2, <2>4
    <3> QED BY <1>5, <2>1, <2>3, <2>4, <3>1
  <2>5. CASE k # 1
    <3>1. k - 1 \in 0..(k - 1) /\ k - 1 \in 1..n
      BY <2>5
    <3>2. PICK c \in Nat : c = cursor[k - 1] /\ along[c] = lengths[k - 1]
      BY <1>4, <1>8, <3>1
    <3>3. (e - m) + 1 = c
      <4>1. e = c + (m - 1)
        BY <2>2, <2>5, <3>2
      <4> QED BY <4>1
    <3> QED BY <2>1, <2>3, <2>5, <3>2, <3>3
  <2> QED BY <2>4, <2>5
<1>9. along[cursor[joint]] = lengths[joint]
  <2>1. A \in SUBSET Nat
    OBVIOUS
  <2>2. 0..n \subseteq A
    <3> HIDE DEF A
    <3> QED BY <1>8, <2>1, Induction
  <2> QED BY <1>1, <2>2
<1>10. PICK leg \in Seq(Place), m \in Nat, a \in Nat :
          /\ leg = legs[joint] /\ m = Len(leg) /\ m >= 2 /\ a = cursor[joint]
          /\ m <= a /\ a <= size /\ geometry[a] = leg[m]
  BY <1>1, <1>7
<1>11. a = Anchors(legs)[joint]
  <2>1. Anchors(legs)[joint] = Min({a, size})
    BY <1>2, <1>3, <1>10 DEF IsCursor
  <2>2. Min({a, size}) = IF a <= size THEN a ELSE size
    <3>1. a \in Int /\ size \in Int
      OBVIOUS
    <3> QED BY <3>1, ExtremesOfTwo
  <2> QED BY <1>10, <2>1, <2>2
<1>12. Last(legs[joint]) = geometry[a]
  BY <1>10 DEF Last
<1>13. ASSUME joint < n PROVE a \in 2..(size - 1)
  <2>1. joint + 1 \in 1..n /\ joint + 1 # 1 /\ (joint + 1) - 1 = joint
    BY <1>1, <1>13
  <2>2. PICK o \in Nat, e \in Nat : o >= 2 /\ e = cursor[joint + 1] /\ e <= size /\ o = Len(legs[joint + 1])
    BY <1>7, <2>1
  <2>3. e = a + (o - 1)
    BY <1>4, <1>10, <2>1, <2>2
  <2>4. o >= 2 /\ e <= size
    BY <2>2
  <2>5. a >= 2
    BY <1>10
  <2> QED BY <2>3, <2>4, <2>5
<1>14. a \in 1..size
  BY <1>10
<1> QED BY <1>1, <1>3, <1>5, <1>6, <1>9, <1>10, <1>11, <1>12, <1>13, <1>14 DEF IsJoint

-----------------------------------------------------------------------------
(* A finite set of numbers can be put in order, and then has all of them.  *)
InOrderOf(s, S, n) ==
    s \in [1..n -> S] /\ \A i, j \in 1..n : i < j => s[i] < s[j]

LEMMA OrderExists ==
  ASSUME NEW S \in SUBSET Nat, IsFiniteSet(S)
  PROVE  \E s : InOrderOf(s, S, Cardinality(S))
<1>1. PICK n \in Nat : n = Cardinality(S)
  BY FS_CardinalityType
<1> DEFINE A == { k \in Nat : \A T \in SUBSET Nat : IsFiniteSet(T) /\ Cardinality(T) = k =>
                                 \E s : InOrderOf(s, T, k) }
<1>2. ASSUME NEW k \in 0..n, 0..(k - 1) \subseteq A PROVE k \in A
  <2> SUFFICES ASSUME NEW T \in SUBSET Nat, IsFiniteSet(T), Cardinality(T) = k
               PROVE  \E s : InOrderOf(s, T, k)
    OBVIOUS
  <2>1. CASE k = 0
    <3>1. << >> \in [1..0 -> T] /\ 1..0 = {}
      OBVIOUS
    <3> QED BY <2>1, <3>1 DEF InOrderOf
  <2>2. CASE k # 0
    <3>1. T # {} /\ k - 1 \in 0..(k - 1) /\ k \in Nat
      BY <2>2, FS_EmptySet
    <3>2. PICK w \in T : \A v \in T : w <= v
      BY <3>1, LeastNumber
    <3>3. IsFiniteSet(T \ {w}) /\ Cardinality(T \ {w}) = k - 1
      BY FS_RemoveElement
    <3>4. PICK r : InOrderOf(r, T \ {w}, k - 1)
      BY <1>2, <3>1, <3>3
    <3> DEFINE s == [i \in 1..k |-> IF i = 1 THEN w ELSE r[i - 1]]
    <3>5. ASSUME NEW i \in 2..k PROVE r[i - 1] \in T /\ r[i - 1] # w
      <4>1. i - 1 \in 1..(k - 1)
        OBVIOUS
      <4> QED BY <3>4, <4>1 DEF InOrderOf
    <3>6. s \in [1..k -> T]
      BY <3>5
    <3>7. ASSUME NEW i \in 1..k, NEW j \in 1..k, i < j PROVE s[i] < s[j]
      <4>1. j \in 2..k /\ s[j] = r[j - 1] /\ s[j] \in Nat
        <5>1. j \in 2..k
          BY <3>7
        <5>2. s[j] = r[j - 1]
          BY <5>1
        <5>3. r[j - 1] \in T
          BY <3>5, <5>1
        <5> QED BY <5>1, <5>2, <5>3
      <4>2. CASE i = 1
        <5>1. s[i] = w /\ w \in Nat
          BY <4>2
        <5>2. w <= s[j] /\ w # s[j]
          BY <3>2, <3>5, <4>1
        <5> QED BY <4>1, <5>1, <5>2
      <4>3. CASE i # 1
        <5>1. s[i] = r[i - 1] /\ i - 1 \in 1..(k - 1) /\ j - 1 \in 1..(k - 1) /\ i - 1 < j - 1
          BY <3>7, <4>3
        <5> QED BY <3>4, <4>1, <5>1 DEF InOrderOf
      <4> QED BY <4>2, <4>3
    <3> HIDE DEF s
    <3> QED BY <3>6, <3>7 DEF InOrderOf
  <2> QED BY <2>1, <2>2
<1>3. n \in A
  <2>1. A \in SUBSET Nat
    OBVIOUS
  <2>2. 0..n \subseteq A
    <3> HIDE DEF A
    <3> QED BY <1>2, <2>1, Induction
  <2> QED BY <2>2
<1> QED BY <1>1, <1>3

LEMMA InOrderHasAll ==
  ASSUME NEW S \in SUBSET Nat, IsFiniteSet(S)
  PROVE  ToSet(InOrder(S)) = S
<1>1. PICK n \in Nat : n = Cardinality(S)
  BY FS_CardinalityType
<1>2. PICK s : s = InOrder(S) /\ InOrderOf(s, S, n)
  BY <1>1, OrderExists DEF InOrder, InOrderOf
<1>3. s \in Injection(1..n, S)
  <2>1. ASSUME NEW i \in 1..n, NEW j \in 1..n, s[i] = s[j] PROVE i = j
    <3>1. s[i] \in Nat /\ s[j] \in Nat
      BY <1>2 DEF InOrderOf
    <3>2. ~(i < j) /\ ~(j < i)
      BY <1>2, <2>1, <3>1 DEF InOrderOf
    <3> QED BY <3>2
  <2> QED BY <1>2, <2>1 DEF InOrderOf, Injection, IsInjective
<1>4. Cardinality(1..n) = n
  BY FS_Interval
<1>5. s \in Surjection(1..n, S)
  BY <1>1, <1>3, <1>4, FS_Injection
<1> QED BY <1>2, <1>5 DEF InOrderOf, ToSet, Surjection

(* The points at which the control points of a draft are published.        *)
Controls(d) == { Selected(d)[i] : i \in ToSet(ControlIndexes(d)) }

AnchorMatches(d, i) == Matches(Selected(d), Composed(d.legs), Anchors(d.legs)[i])

InnerOf(d) == UNION { AnchorMatches(d, i) : i \in 1..(Len(d.legs) - 1) }

LEMMA ControlIndexesAre ==
  ASSUME NEW d, Selected(d) \in Seq(Place), Len(Selected(d)) >= 1
  PROVE  ToSet(ControlIndexes(d))
           = {1, Len(Selected(d))} \cup (InnerOf(d) \cap 2..(Len(Selected(d)) - 1))
<1>1. PICK n \in Nat : n = Len(Selected(d))
  BY LenProperties
<1>2. PICK all : all = {1, n} \cup (InnerOf(d) \cap 2..(n - 1))
  OBVIOUS
<1>3. ControlIndexes(d) = InOrder(all)
  BY <1>1, <1>2, Zenon DEF ControlIndexes, InnerOf, AnchorMatches
<1>4. all \in SUBSET Nat /\ \A i \in all : i <= n
  BY <1>1, <1>2
<1>5. IsFiniteSet(all)
  BY <1>4, FS_BoundedSetOfNaturals
<1> QED BY <1>1, <1>2, <1>3, <1>4, <1>5, InOrderHasAll

(* What matches an anchor is a point at its place, if there is one.        *)
LEMMA MatchIsPoint ==
  ASSUME NEW geometry \in Seq(Place), NEW route, NEW anchor
  PROVE  /\ \A m \in Matches(geometry, route, anchor) :
               m \in 1..Len(geometry) /\ geometry[m] = route[anchor]
         /\ (\E m \in 1..Len(geometry) : geometry[m] = route[anchor]) =>
               Matches(geometry, route, anchor) # {}
<1> DEFINE same == { i \in DOMAIN geometry : geometry[i] = route[anchor] }
<1>1. DOMAIN geometry = 1..Len(geometry) /\ Len(geometry) \in Nat
  BY LenProperties
<1>2. Matches(geometry, route, anchor) = IF same = {} THEN {} ELSE {Min(same)}
  BY Zenon DEF Matches
<1>3. ASSUME same # {} PROVE Min(same) \in same
  <2>1. same \in SUBSET Nat
    BY <1>1
  <2> HIDE DEF same
  <2>2. \E w \in same : \A v \in same : w <= v
    BY <1>3, <2>1, LeastNumber
  <2> QED BY <2>2, Zenon DEF Min
<1>4. CASE same = {}
  BY <1>1, <1>2, <1>4
<1>5. CASE same # {}
  <2>1. PICK m : m = Min(same) /\ m \in same
    BY <1>3, <1>5
  <2>2. Matches(geometry, route, anchor) = {m}
    BY <1>2, <1>5, <2>1
  <2>3. m \in 1..Len(geometry) /\ geometry[m] = route[anchor]
    BY <1>1, <2>1
  <2> QED BY <2>2, <2>3
<1> QED BY <1>4, <1>5

IsDraft(d) ==
    /\ Legs(d.legs) /\ d.legs # << >>
    /\ d.selection # NoSelection => d.selection.startM \in Nat /\ d.selection.endM \in Nat

MeetWithin(d, i) ==
    d.selection # NoSelection =>
        /\ LengthsTo(d.legs)[i] > d.selection.startM * Metre
        /\ LengthsTo(d.legs)[i] < d.selection.endM * Metre

LEMMA JointsAreControls ==
  ASSUME NEW d, IsDraft(d), Joined(d.legs), Selected(d) \in Seq(Place), Len(Selected(d)) >= 1,
         NEW i \in 1..(Len(d.legs) - 1), MeetWithin(d, i)
  PROVE  Last(d.legs[i]) \in Controls(d)
<1>0. PICK legs : legs = d.legs
  OBVIOUS
<1>1. PICK k \in Nat : legs = d.legs /\ Legs(legs) /\ legs # << >> /\ Joined(legs) /\ k = Len(legs)
  <2>1. Legs(d.legs) /\ d.legs # << >>
    BY DEF IsDraft
  <2>2. Len(d.legs) \in Nat
    BY <2>1, LenProperties DEF Legs
  <2>3. Joined(legs)
    BY <1>0, Zenon
  <2> QED BY <1>0, <2>1, <2>2, <2>3, Zenon
<1>2. i \in 1..k /\ i < k
  BY <1>1
<1>3. PICK a \in Nat : IsJoint(legs, i, a)
  BY <1>1, <1>2, JointsAreAnchors
<1>4. PICK route \in Seq(Place), geometry \in Seq(Place), n \in Nat :
         /\ route = Composed(legs) /\ Len(route) >= 2 /\ geometry = Selected(d)
         /\ n = Len(geometry) /\ n >= 1
  BY <1>1, ComposedIsGeometry, LenProperties
<1>5. /\ a = Anchors(legs)[i] /\ a \in 2..(Len(route) - 1) /\ a \in 1..Len(route)
      /\ route[a] = Last(legs[i]) /\ Profile(route)[a] = LengthsTo(legs)[i]
  BY <1>1, <1>2, <1>3, <1>4 DEF IsJoint
<1>6. \E m \in 1..n : geometry[m] = route[a]
  <2>1. CASE d.selection = NoSelection
    <3>1. geometry = route
      BY <1>1, <1>4, <2>1 DEF Selected
    <3> QED BY <1>4, <1>5, <3>1
  <2>2. CASE d.selection # NoSelection
    <3>1. PICK selection : /\ selection = d.selection
                           /\ selection.startM \in Nat /\ selection.endM \in Nat
      BY <2>2 DEF IsDraft
    <3>2. KeptByTrim(Profile(route), a, selection.startM * Metre, selection.endM * Metre)
      BY <1>1, <1>5, <2>2, <3>1 DEF MeetWithin, KeptByTrim
    <3>3. geometry = Trimmed(route, selection)
      BY <1>1, <1>4, <2>2, <3>1 DEF Selected
    <3>4. \E m \in 1..Len(Trimmed(route, selection)) : Trimmed(route, selection)[m] = route[a]
      <4>1. a \in 2..(Len(route) - 1) /\ Len(route) >= 2
        BY <1>4, <1>5
      <4>2. selection.startM \in Nat /\ selection.endM \in Nat
        BY <3>1
      <4> QED BY <3>2, <4>1, <4>2, KeptIsInTrimmed
    <3> QED BY <1>4, <3>3, <3>4
  <2> QED BY <2>1, <2>2
<1>7. PICK m \in 1..n : m \in Matches(geometry, route, a) /\ geometry[m] = route[a]
  <2>1. Matches(geometry, route, a) # {}
    BY <1>4, <1>6, MatchIsPoint
  <2>2. PICK m : m \in Matches(geometry, route, a)
    BY <2>1
  <2>3. m \in 1..Len(geometry) /\ geometry[m] = route[a]
    BY <2>2, MatchIsPoint
  <2> QED BY <1>4, <2>2, <2>3
<1>8. m \in InnerOf(d)
  <2>1. AnchorMatches(d, i) = Matches(geometry, route, a)
    BY <1>1, <1>4, <1>5 DEF AnchorMatches
  <2> QED BY <1>7, <2>1 DEF InnerOf
<1>9. m \in ToSet(ControlIndexes(d))
  <2>1. ToSet(ControlIndexes(d)) = {1, n} \cup (InnerOf(d) \cap 2..(n - 1))
    BY <1>4, ControlIndexesAre
  <2>2. m = 1 \/ m = n \/ m \in 2..(n - 1)
    OBVIOUS
  <2> QED BY <1>8, <2>1, <2>2
<1>10. geometry[m] = Last(d.legs[i])
  BY <1>1, <1>5, <1>7
<1> QED BY <1>4, <1>9, <1>10 DEF Controls

LEMMA ControlsAreOfJoints ==
  ASSUME NEW d, IsDraft(d), Joined(d.legs), Selected(d) \in Seq(Place), Len(Selected(d)) >= 1,
         NEW c \in Controls(d)
  PROVE  \/ \E i \in 1..(Len(d.legs) - 1) : c = Last(d.legs[i])
         \/ c = Selected(d)[1] \/ c = Last(Selected(d))
<1>0. PICK legs : legs = d.legs
  OBVIOUS
<1>1. PICK k \in Nat : legs = d.legs /\ Legs(legs) /\ legs # << >> /\ Joined(legs) /\ k = Len(legs)
  <2>1. Legs(d.legs) /\ d.legs # << >>
    BY DEF IsDraft
  <2>2. Len(d.legs) \in Nat
    BY <2>1, LenProperties DEF Legs
  <2>3. Joined(legs)
    BY <1>0, Zenon
  <2> QED BY <1>0, <2>1, <2>2, <2>3, Zenon
<1>2. PICK geometry \in Seq(Place), n \in Nat : geometry = Selected(d) /\ n = Len(geometry) /\ n >= 1
  BY LenProperties
<1>3. PICK m : m \in ToSet(ControlIndexes(d)) /\ c = geometry[m]
  BY <1>2 DEF Controls
<1>4. m = 1 \/ m = n \/ m \in InnerOf(d)
  <2>1. ToSet(ControlIndexes(d)) = {1, n} \cup (InnerOf(d) \cap 2..(n - 1))
    BY <1>2, ControlIndexesAre
  <2> QED BY <1>3, <2>1
<1>5. ASSUME m \in InnerOf(d) PROVE \E i \in 1..(Len(d.legs) - 1) : c = Last(d.legs[i])
  <2>1. PICK i \in 1..(k - 1) : m \in AnchorMatches(d, i)
    BY <1>1, <1>5 DEF InnerOf
  <2>2. i \in 1..k
    BY <1>1
  <2>3. PICK a \in Nat : IsJoint(legs, i, a)
    BY <1>1, <2>2, JointsAreAnchors
  <2>4. a = Anchors(legs)[i] /\ Composed(legs)[a] = Last(legs[i])
    BY <2>3 DEF IsJoint
  <2>5. m \in Matches(geometry, Composed(legs), a)
    BY <1>1, <1>2, <2>1, <2>4 DEF AnchorMatches
  <2>6. geometry[m] = Composed(legs)[a]
    BY <2>5, MatchIsPoint
  <2> QED BY <1>1, <1>3, <2>4, <2>6
<1>6. Last(geometry) = geometry[n]
  BY <1>2 DEF Last
<1> QED BY <1>2, <1>3, <1>4, <1>5, <1>6

-----------------------------------------------------------------------------
(* What the sixth decimal tells apart in the legs of a draft it tells      *)
(* apart in what is published, but where a trim cuts a segment.            *)
LEMMA LerpEnds ==
  ASSUME NEW a \in Int, NEW b \in Int, NEW span \in Nat \ {0}
  PROVE  Lerp(a, b, 0, span) = a /\ Lerp(a, b, span, span) = b
<1>1. PICK v \in Int : v = b - a
  OBVIOUS
<1>2. v * 0 = 0 /\ 0 \div span = 0
  BY Z3
<1>3. (v * span) \div span = v
  BY Z3
<1>4. a + 0 = a /\ a + v = b
  BY <1>1
<1> QED BY <1>1, <1>2, <1>3, <1>4 DEF Lerp

LEMMA RoundEnds ==
  ASSUME NEW v \in Int, NEW span \in Nat \ {0}
  PROVE  Round(v * 0, span) = 0 /\ Round(v * span, span) = v
<1>1. PICK w \in Nat \ {0} : w = 2 * span
  OBVIOUS
<1>2. v * 0 = 0 /\ (2 * 0 + span) \div w = 0
  <2>1. PICK q \in Int : q = span \div w /\ q * w <= span /\ span < (q + 1) * w
    BY <1>1, Division
  <2>2. q = 0
    <3>1. ~(q >= 1)
      <4> SUFFICES ASSUME q >= 1 PROVE FALSE
        OBVIOUS
      <4>1. 1 * w <= q * w
        BY TimesGrows
      <4> QED BY <1>1, <2>1, <4>1, TimesShuffles
    <3>2. ~(q <= -1)
      <4> SUFFICES ASSUME q <= -1 PROVE FALSE
        OBVIOUS
      <4>1. (q + 1) * w <= 0 * w
        BY TimesGrows
      <4>2. 0 * w = 0 /\ (q + 1) * w \in Int
        BY TimesShuffles
      <4> QED BY <2>1, <4>1, <4>2
    <3> QED BY <3>1, <3>2
  <2>3. 2 * 0 + span = span
    OBVIOUS
  <2> QED BY <2>1, <2>2, <2>3
<1>3. (2 * (v * span) + span) \div w = v
  <2>1. PICK t \in Int : t = v * w /\ 2 * (v * span) + span = t + span /\ (v + 1) * w = t + w
    BY <1>1, Z3
  <2>2. PICK q \in Int : q = (t + span) \div w /\ q * w <= t + span /\ t + span < (q + 1) * w
    BY <2>1, Division
  <2>3. ~(q >= v + 1)
    <3> SUFFICES ASSUME q >= v + 1 PROVE FALSE
      OBVIOUS
    <3>1. (v + 1) * w <= q * w /\ q * w \in Int
      BY TimesGrows, TimesShuffles
    <3> QED BY <1>1, <2>1, <2>2, <3>1
  <2>4. ~(q + 1 <= v)
    <3> SUFFICES ASSUME q + 1 <= v PROVE FALSE
      OBVIOUS
    <3>1. (q + 1) * w <= v * w /\ (q + 1) * w \in Int
      BY TimesGrows, TimesShuffles
    <3> QED BY <1>1, <2>1, <2>2, <3>1
  <2> QED BY <2>1, <2>2, <2>3, <2>4
<1> QED BY <1>1, <1>2, <1>3 DEF Round

LEMMA BetweenEnds ==
  ASSUME NEW a \in Place, NEW b \in Place, NEW span \in Nat \ {0}
  PROVE  PointBetween(a, b, 0, span) = a /\ PointBetween(a, b, span, span) = b
<1>1. /\ a.x \in Int /\ a.y \in Int /\ a.ele \in Int
      /\ a = [x |-> a.x, y |-> a.y, ele |-> a.ele]
  BY DEF Place
<1>2. /\ b.x \in Int /\ b.y \in Int /\ b.ele \in Int
      /\ b = [x |-> b.x, y |-> b.y, ele |-> b.ele]
  BY DEF Place
<1>3. PICK v \in Int : v = b.ele - a.ele /\ a.ele + v = b.ele
  BY <1>1, <1>2
<1>4. Lerp(a.x, b.x, 0, span) = a.x /\ Lerp(a.x, b.x, span, span) = b.x
  BY <1>1, <1>2, LerpEnds
<1>5. Lerp(a.y, b.y, 0, span) = a.y /\ Lerp(a.y, b.y, span, span) = b.y
  BY <1>1, <1>2, LerpEnds
<1>6. a.ele + Round((b.ele - a.ele) * 0, span) = a.ele
  <2>1. Round(v * 0, span) = 0
    BY RoundEnds
  <2> QED BY <1>1, <1>3, <2>1
<1>7. a.ele + Round((b.ele - a.ele) * span, span) = b.ele
  <2>1. Round(v * span, span) = v
    BY RoundEnds
  <2> QED BY <1>3, <2>1
<1>8. span # 0
  OBVIOUS
<1> QED BY <1>1, <1>2, <1>4, <1>5, <1>6, <1>7, <1>8, Zenon DEF PointBetween

(* Distances strictly grow along a geometry.                               *)
Climbs(along, n) ==
    along \in [1..n -> Nat] /\ \A i, j \in 1..n : i < j => along[i] < along[j]

LEMMA PointOfRoute ==
  ASSUME NEW geometry \in Seq(Place), Len(geometry) >= 2,
         Climbs(Profile(geometry), Len(geometry)), NEW a \in 1..Len(geometry)
  PROVE  PointAt(geometry, Profile(geometry)[a]) = geometry[a]
<1>1. PICK n \in Nat : n = Len(geometry) /\ n >= 2 /\ a \in 1..n
  BY LenProperties
<1>2. PICK along \in [1..n -> Nat] :
         /\ along = Profile(geometry) /\ along[1] = 0
         /\ \A i, j \in 1..n : i < j => along[i] < along[j]
  <2>1. Profile(geometry)[1] = ProfileTurn(geometry, Profile(geometry), 1)
    <3>1. 1 \in 1..Len(geometry)
      BY <1>1
    <3> QED BY <3>1, ProfileUnfolds DEF IsProfile
  <2>2. Profile(geometry)[1] = 0
    BY <2>1 DEF ProfileTurn
  <2> QED BY <1>1, <2>2 DEF Climbs
<1>3. PICK distance \in Nat : distance = along[a]
  BY <1>1
<1>4. PICK d, next : FallsIn(geometry, along, distance, d, next)
  BY <1>1, <1>2, PointAtUnfolds
<1>5. d = along[a]
  <2>1. along[a] <= along[n]
    <3>1. a < n \/ a = n
      BY <1>1
    <3>2. along[a] \in Nat /\ along[n] \in Nat
      BY <1>1
    <3>3. a < n => along[a] < along[n]
      BY <1>1, <1>2
    <3> QED BY <3>1, <3>2, <3>3
  <2> QED BY <1>1, <1>3, <1>4, <2>1 DEF FallsIn
<1>6. /\ next \in 2..n /\ along[a] <= along[next]
      /\ \A i \in 2..n : along[a] <= along[i] => next <= i
  BY <1>1, <1>4, <1>5 DEF FallsIn, EndsAt
<1>7. next \in 1..n /\ next - 1 \in 1..n /\ next - 1 < next
  BY <1>6
<1>8. PICK p \in Place, q \in Place : p = geometry[next - 1] /\ q = geometry[next]
  <2>1. geometry[next - 1] \in Place
    BY <1>1, <1>7, ElementOfSeq
  <2>2. geometry[next] \in Place
    BY <1>1, <1>7, ElementOfSeq
  <2> QED BY <2>1, <2>2
<1>9. PICK span \in Nat \ {0} : span = along[next] - along[next - 1]
  <2>1. along[next - 1] < along[next] /\ along[next - 1] \in Nat /\ along[next] \in Nat
    BY <1>2, <1>7
  <2>2. \A u, v \in Nat : u < v => v - u \in Nat \ {0}
    OBVIOUS
  <2> QED BY <2>1, <2>2
<1>10. PointAt(geometry, along[a]) = PointBetween(p, q, along[a] - along[next - 1], span)
  BY <1>3, <1>4, <1>5, <1>8, <1>9 DEF FallsIn
<1>11. CASE a = 1
  <2>1. 0 <= along[2] /\ 2 \in 2..n
    BY <1>1
  <2>2. next = 2
    BY <1>2, <1>6, <1>11, <2>1
  <2>3. along[a] - along[next - 1] = 0 /\ p = geometry[a]
    BY <1>2, <1>8, <1>11, <2>2
  <2> QED BY <1>2, <1>10, <2>3, BetweenEnds
<1>12. CASE a # 1
  <2>1. a \in 2..n /\ along[a] <= along[a]
    BY <1>1, <1>12
  <2>2. next <= a
    BY <1>6, <2>1
  <2>3. next = a
    <3> SUFFICES ASSUME next < a PROVE FALSE
      BY <1>7, <2>1, <2>2
    <3>1. along[next] < along[a] /\ along[next] \in Nat /\ along[a] \in Nat
      BY <1>1, <1>2, <1>7
    <3> QED BY <1>6, <3>1
  <2>4. along[a] - along[next - 1] = span /\ q = geometry[a]
    BY <1>8, <1>9, <2>3
  <2> QED BY <1>2, <1>10, <2>4, BetweenEnds
<1> QED BY <1>11, <1>12

Sharp(geometry) == \A i \in 1..(Len(geometry) - 1) : Canonical(geometry[i]) # Canonical(geometry[i + 1])

LEMMA SharpClimbs ==
  ASSUME NEW geometry \in Seq(Place), Sharp(geometry)
  PROVE  Climbs(Profile(geometry), Len(geometry))
<1>1. PICK n \in Nat : n = Len(geometry)
  BY LenProperties
<1>2. PICK along \in [1..n -> Nat] :
         /\ along = Profile(geometry)
         /\ \A i \in 1..n : along[i] = ProfileTurn(geometry, along, i)
  BY <1>1, ProfileUnfolds DEF IsProfile
<1>3. ASSUME NEW i \in 1..(n - 1) PROVE along[i] < along[i + 1]
  <2>1. i \in 1..n /\ i + 1 \in 1..n /\ i + 1 # 1 /\ (i + 1) - 1 = i
    BY <1>1
  <2>2. PICK p \in Place, q \in Place : p = geometry[i] /\ q = geometry[i + 1]
    <3>1. geometry[i] \in Place
      BY <1>1, <2>1, ElementOfSeq
    <3>2. geometry[i + 1] \in Place
      BY <1>1, <2>1, ElementOfSeq
    <3> QED BY <3>1, <3>2
  <2>3. along[i + 1] = along[i] + DistanceBetween(p, q)
    BY <1>2, <2>1, <2>2 DEF ProfileTurn
  <2>4. Canonical(p) # Canonical(q)
    BY <1>1, <2>2 DEF Sharp
  <2>5. DistanceBetween(p, q) # 0
    <3> SUFFICES ASSUME DistanceBetween(p, q) = 0 PROVE FALSE
      OBVIOUS
    <3>1. p.x \in Int /\ p.y \in Int /\ q.x \in Int /\ q.y \in Int
      BY DEF Place
    <3>2. \A v, w \in Int : Size(v) + Size(w) = 0 => v = 0 /\ w = 0
      BY DEF Size
    <3>3. q.x - p.x = 0 /\ q.y - p.y = 0
      BY <3>1, <3>2 DEF DistanceBetween
    <3>4. p.x = q.x /\ p.y = q.y
      BY <3>1, <3>3
    <3> QED BY <2>4, <3>4, Zenon DEF Canonical
  <2>6. DistanceBetween(p, q) \in Nat
    BY DistanceIsNat
  <2>7. along[i] \in Nat
    BY <2>1
  <2> QED BY <2>3, <2>5, <2>6, <2>7
<1> DEFINE A == { k \in Nat : \A i, j \in 1..n : i < j /\ j = i + k => along[i] < along[j] }
<1>4. ASSUME NEW k \in 0..n, 0..(k - 1) \subseteq A PROVE k \in A
  <2> SUFFICES ASSUME NEW i \in 1..n, NEW j \in 1..n, i < j, j = i + k PROVE along[i] < along[j]
    OBVIOUS
  <2>1. j - 1 \in 1..(n - 1) /\ j - 1 \in 1..n /\ (j - 1) + 1 = j
    OBVIOUS
  <2>2. along[j - 1] < along[j]
    BY <1>3, <2>1
  <2>3. CASE k = 1
    <3>1. j - 1 = i
      BY <2>3
    <3> QED BY <2>2, <3>1
  <2>4. CASE k # 1
    <3>1. k - 1 \in 0..(k - 1) /\ i < j - 1 /\ j - 1 = i + (k - 1)
      BY <2>4
    <3>2. along[i] < along[j - 1]
      BY <1>4, <2>1, <3>1
    <3>3. along[i] \in Nat /\ along[j - 1] \in Nat /\ along[j] \in Nat
      BY <2>1
    <3> QED BY <2>2, <3>2, <3>3
  <2> QED BY <2>3, <2>4
<1>5. ASSUME NEW i \in 1..n, NEW j \in 1..n, i < j PROVE along[i] < along[j]
  <2>1. A \in SUBSET Nat
    OBVIOUS
  <2>2. 0..n \subseteq A
    <3> HIDE DEF A
    <3> QED BY <1>4, <2>1, Induction
  <2>3. j - i \in 0..n /\ j = i + (j - i)
    BY <1>5
  <2> QED BY <1>5, <2>2, <2>3
<1> QED BY <1>1, <1>2, <1>5 DEF Climbs

LEMMA RouteIsSharp ==
  ASSUME NEW legs, Legs(legs), legs # << >>, Joined(legs),
         \A k \in 1..Len(legs) : ~Blurred(legs[k])
  PROVE  Sharp(Composed(legs))
<1>1. PICK n \in Nat \ {0} : n = Len(legs)
  BY EmptySeq, LenProperties DEF Legs
<1>2. PICK cursor : IsCursor(legs, cursor)
  BY AnchorsUnfold
<1>3. PICK geometry \in Seq(Place), size \in Nat :
         /\ geometry = Composed(legs) /\ size = Len(geometry) /\ size = cursor[n]
         /\ \A k \in 1..n : LegLies(geometry, legs[k], cursor[k])
  <2>1. InPlace(Composed(legs), legs, cursor, Len(legs))
    BY <1>2, LegsAreInPlace
  <2> QED BY <1>1, <2>1, LenProperties DEF InPlace
<1>4. SUFFICES ASSUME NEW i \in 1..(size - 1)
               PROVE  Canonical(geometry[i]) # Canonical(geometry[i + 1])
  BY <1>3 DEF Sharp
<1> DEFINE W == { k \in 1..n : i < cursor[k] }
<1>5. PICK k \in W : \A v \in W : k <= v
  <2>1. n \in W
    BY <1>3
  <2>2. W \in SUBSET Nat /\ W # {}
    BY <2>1
  <2> HIDE DEF W
  <2> QED BY <2>2, LeastNumber
<1>6. PICK leg \in Seq(Place), m \in Nat, c \in Nat :
         /\ leg = legs[k] /\ m = Len(leg) /\ m >= 2 /\ c = cursor[k] /\ i < c
         /\ c = (IF k = 1 THEN 1 ELSE cursor[k - 1]) + (m - 1)
         /\ LegLies(geometry, leg, c)
  <2>1. legs[k] \in Seq(Place) /\ Len(legs[k]) \in Nat /\ Len(legs[k]) >= 2
    BY <1>1, LegOfLegs
  <2>2. cursor[k] \in Nat /\ cursor[k] = (IF k = 1 THEN 1 ELSE cursor[k - 1]) + (Len(legs[k]) - 1)
    BY <1>1, <1>2 DEF IsCursor, CursorTurn
  <2> QED BY <1>3, <2>1, <2>2
<1>7. c - m < i
  <2>1. CASE k = 1
    BY <1>6, <2>1
  <2>2. CASE k # 1
    <3>1. k - 1 \in 1..n /\ ~(k <= k - 1)
      BY <2>2
    <3>2. k - 1 \notin W
      BY <1>5, <3>1
    <3>3. PICK b \in Nat : b = cursor[k - 1]
      BY <1>1, <1>2, <3>1 DEF IsCursor
    <3>4. ~(i < b) /\ c = b + (m - 1)
      BY <1>6, <2>2, <3>1, <3>2, <3>3
    <3> QED BY <3>4, <1>6
  <2> QED BY <2>1, <2>2
<1>8. PICK j \in 1..(m - 1) : (c - m) + j = i /\ (c - m) + (j + 1) = i + 1 /\ j \in 1..m /\ j + 1 \in 1..m
  <2>1. i - (c - m) \in 1..(m - 1)
    BY <1>6, <1>7
  <2>2. PICK j \in 1..(m - 1) : j = i - (c - m)
    BY <2>1
  <2> QED BY <2>2
<1>9. geometry[i] = leg[j]
  <2>1. geometry[(c - Len(leg)) + j] = leg[j]
    BY <1>6, <1>8 DEF LegLies
  <2> QED BY <1>6, <1>8, <2>1
<1>10. geometry[i + 1] = leg[j + 1]
  <2>1. geometry[(c - Len(leg)) + (j + 1)] = leg[j + 1]
    BY <1>6, <1>8 DEF LegLies
  <2> QED BY <1>6, <1>8, <2>1
<1>11. ~Blurred(leg)
  BY <1>1, <1>6
<1> QED BY <1>6, <1>8, <1>9, <1>10, <1>11 DEF Blurred

(* Where the trim begins and ends among the points of a geometry: lo is    *)
(* the first point past the start, or the last point of all; hi the last   *)
(* one short of the end, but for the last point of all.                    *)
Lower(along, n, start, lo) ==
    /\ lo \in 2..n /\ \A i \in 1..(lo - 1) : along[i] <= start
    /\ along[lo] > start \/ lo = n

Upper(along, n, end, hi) ==
    /\ hi \in 1..(n - 1) /\ along[hi] < end
    /\ along[hi + 1] >= end \/ hi + 1 = n

LEMMA TrimBegins ==
  ASSUME NEW n \in Nat, n >= 2, NEW along, Climbs(along, n), along[1] = 0, NEW start \in Nat
  PROVE  \E lo : Lower(along, n, start, lo)
<1> DEFINE W == { i \in 2..n : along[i] > start \/ i = n }
<1>1. PICK lo \in W : \A v \in W : lo <= v
  <2>1. n \in W /\ W \in SUBSET Nat
    OBVIOUS
  <2>2. W \in SUBSET Nat /\ W # {}
    BY <2>1
  <2> HIDE DEF W
  <2> QED BY <2>2, LeastNumber
<1>2. lo \in 2..n /\ (along[lo] > start \/ lo = n)
  OBVIOUS
<1>3. ASSUME NEW i \in 1..(lo - 1) PROVE along[i] <= start
  <2>1. CASE i = 1
    BY <2>1
  <2>2. CASE i # 1
    <3>1. i \in 2..n /\ ~(lo <= i) /\ i \in 1..n
      BY <1>2, <2>2
    <3>2. i \notin W
      BY <1>1, <3>1
    <3>3. along[i] \in Nat
      BY <3>1 DEF Climbs
    <3> QED BY <3>1, <3>2, <3>3
  <2> QED BY <2>1, <2>2
<1> QED BY <1>2, <1>3 DEF Lower

LEMMA TrimEnds ==
  ASSUME NEW n \in Nat, n >= 2, NEW along, Climbs(along, n), along[1] = 0, NEW end \in Nat \ {0}
  PROVE  \E hi : Upper(along, n, end, hi)
<1> DEFINE W == { i \in 1..(n - 1) : along[i + 1] >= end \/ i + 1 = n }
<1>1. PICK hi \in W : \A v \in W : hi <= v
  <2>1. n - 1 \in W /\ W \in SUBSET Nat
    OBVIOUS
  <2>2. W \in SUBSET Nat /\ W # {}
    BY <2>1
  <2> HIDE DEF W
  <2> QED BY <2>2, LeastNumber
<1>2. hi \in 1..(n - 1) /\ (along[hi + 1] >= end \/ hi + 1 = n)
  OBVIOUS
<1>3. along[hi] < end
  <2>1. CASE hi = 1
    BY <2>1
  <2>2. CASE hi # 1
    <3>1. hi - 1 \in 1..(n - 1) /\ ~(hi <= hi - 1) /\ hi \in 1..n /\ (hi - 1) + 1 = hi
      BY <1>2, <2>2
    <3>2. hi - 1 \notin W
      BY <1>1, <3>1
    <3>3. along[hi] \in Nat
      BY <3>1 DEF Climbs
    <3> QED BY <3>1, <3>2, <3>3
  <2> QED BY <2>1, <2>2
<1> QED BY <1>2, <1>3 DEF Upper

LEMMA KeptAreBetween ==
  ASSUME NEW n \in Nat, n >= 2, NEW along, Climbs(along, n), NEW start \in Nat, NEW end \in Nat,
         NEW lo, Lower(along, n, start, lo), NEW hi, Upper(along, n, end, hi), NEW k \in 2..(n - 1)
  PROVE  KeptByTrim(along, k, start, end) <=> lo <= k /\ k <= hi
<1>1. lo \in 2..n /\ hi \in 1..(n - 1) /\ k \in 1..n
  BY DEF Lower, Upper
<1>2. \A i \in 1..n : along[i] \in Nat
  BY DEF Climbs
<1>3. along[k] > start <=> lo <= k
  <2>1. ASSUME lo <= k PROVE along[k] > start
    <3>1. lo # n /\ lo \in 1..n
      BY <1>1, <2>1
    <3>2. along[lo] > start
      BY <3>1 DEF Lower
    <3>3. lo < k => along[lo] < along[k]
      BY <1>1, <3>1 DEF Climbs
    <3>4. along[lo] \in Nat /\ along[k] \in Nat
      BY <1>1, <1>2, <3>1
    <3>5. lo = k \/ lo < k
      BY <1>1, <2>1
    <3> QED BY <3>2, <3>3, <3>4, <3>5
  <2>2. ASSUME ~(lo <= k) PROVE along[k] <= start /\ along[k] \in Nat
    <3>1. k \in 1..(lo - 1)
      BY <1>1, <2>2
    <3> QED BY <1>1, <1>2, <3>1 DEF Lower
  <2> QED BY <2>1, <2>2
<1>4. along[k] < end <=> k <= hi
  <2>1. ASSUME k <= hi PROVE along[k] < end
    <3>1. hi \in 1..n
      BY <1>1
    <3>2. along[hi] < end
      BY DEF Upper
    <3>3. k < hi => along[k] < along[hi]
      BY <1>1, <3>1 DEF Climbs
    <3>4. along[hi] \in Nat /\ along[k] \in Nat
      BY <1>1, <1>2, <3>1
    <3>5. hi = k \/ k < hi
      BY <1>1, <2>1
    <3> QED BY <3>2, <3>3, <3>4, <3>5
  <2>2. ASSUME ~(k <= hi) PROVE along[k] >= end /\ along[k] \in Nat
    <3>1. hi + 1 # n /\ hi + 1 \in 1..n
      BY <1>1, <2>2
    <3>2. along[hi + 1] >= end
      BY <3>1 DEF Upper
    <3>3. hi + 1 < k => along[hi + 1] < along[k]
      BY <1>1, <3>1 DEF Climbs
    <3>4. along[hi + 1] \in Nat /\ along[k] \in Nat
      BY <1>1, <1>2, <3>1
    <3>5. hi + 1 = k \/ hi + 1 < k
      BY <1>1, <2>2
    <3> QED BY <3>2, <3>3, <3>4, <3>5
  <2> QED BY <2>1, <2>2
<1> QED BY <1>3, <1>4 DEF KeptByTrim

(* What has been selected after k points: the start, and the points from   *)
(* lo to hi so far.                                                        *)
SizeAt(lo, hi, k) == IF k < lo \/ hi < lo THEN 1 ELSE ((IF k <= hi THEN k ELSE hi) - lo) + 2

Holds(s, p, geometry, lo, size) ==
    /\ s \in Seq(Place) /\ Len(s) = size /\ size >= 1 /\ s[1] = p
    /\ \A j \in 2..size : s[j] = geometry[(lo + j) - 2]

LEMMA SizesAre ==
  ASSUME NEW lo \in Nat, NEW hi \in Nat, NEW k \in Nat, k >= 2
  PROVE  /\ SizeAt(lo, hi, k) \in Nat /\ SizeAt(lo, hi, k - 1) \in Nat /\ SizeAt(lo, hi, k) >= 1
         /\ lo <= k /\ k <= hi => /\ SizeAt(lo, hi, k) = SizeAt(lo, hi, k - 1) + 1
                                  /\ (lo + SizeAt(lo, hi, k)) - 2 = k
         /\ ~(lo <= k /\ k <= hi) => SizeAt(lo, hi, k) = SizeAt(lo, hi, k - 1)
BY DEF SizeAt

LEMMA SelectionHolds ==
  ASSUME NEW geometry \in Seq(Place), NEW n \in Nat, n = Len(geometry), n >= 2,
         NEW along, Climbs(along, n), NEW start \in Nat, NEW end \in Nat,
         NEW selected, Selects(geometry, along, start, end, selected),
         NEW lo, Lower(along, n, start, lo), NEW hi, Upper(along, n, end, hi)
  PROVE  Holds(selected[n - 1], PointAt(geometry, start), geometry, lo, SizeAt(lo, hi, n - 1))
<1>1. lo \in 2..n /\ hi \in 1..(n - 1) /\ lo \in Nat /\ hi \in Nat
  BY DEF Lower, Upper
<1>2. PICK p \in Place : p = PointAt(geometry, start)
  BY PointAtIsPlace
<1>3. ASSUME NEW k \in 1..(n - 1)
      PROVE  selected[k] \in Seq(Place) /\ selected[k] = TrimTurn(geometry, along, start, end, selected, k)
  BY DEF Selects
<1> DEFINE A == { k \in Nat : k \in 1..(n - 1) =>
                                 Holds(selected[k], p, geometry, lo, SizeAt(lo, hi, k)) }
<1>4. ASSUME NEW k \in 0..(n - 1), 0..(k - 1) \subseteq A PROVE k \in A
  <2> SUFFICES ASSUME k \in 1..(n - 1) PROVE Holds(selected[k], p, geometry, lo, SizeAt(lo, hi, k))
    OBVIOUS
  <2>1. CASE k = 1
    <3>1. selected[k] = << p >> /\ selected[k] \in Seq(Place)
      BY <1>2, <1>3, <2>1 DEF TrimTurn
    <3>2. SizeAt(lo, hi, k) = 1
      BY <1>1, <2>1 DEF SizeAt
    <3>3. Len(<< p >>) = 1 /\ << p >>[1] = p /\ 2..1 = {}
      OBVIOUS
    <3> QED BY <3>1, <3>2, <3>3 DEF Holds
  <2>2. CASE k # 1
    <3>1. k \in 2..(n - 1) /\ k - 1 \in 0..(k - 1) /\ k - 1 \in 1..(n - 1) /\ k \in Nat /\ k >= 2
          /\ k \in 1..Len(geometry)
      BY <2>2
    <3>2. PICK size \in Nat, more \in Nat : size = SizeAt(lo, hi, k - 1) /\ more = SizeAt(lo, hi, k)
      BY <1>1, <3>1, SizesAre
    <3>3. PICK s \in Seq(Place) : s = selected[k - 1] /\ Holds(s, p, geometry, lo, size)
      BY <1>4, <3>1, <3>2 DEF Holds
    <3>4. /\ Len(s) = size /\ size >= 1 /\ s[1] = p
          /\ \A j \in 2..size : s[j] = geometry[(lo + j) - 2]
      BY <3>3 DEF Holds
    <3>5. PICK q \in Place : q = geometry[k]
      BY <3>1, ElementOfSeq
    <3>6. CASE lo <= k /\ k <= hi
      <4>1. KeptByTrim(along, k, start, end)
        BY <3>1, <3>6, KeptAreBetween
      <4>2. selected[k] = s \o << q >>
        BY <1>3, <2>2, <3>3, <3>5, <4>1 DEF TrimTurn
      <4>3. PICK one \in Seq(Place) : one = << q >> /\ Len(one) = 1 /\ one[1] = q
        <5>1. << q >> \in Seq(Place)
          OBVIOUS
        <5>2. Len(<< q >>) = 1 /\ << q >>[1] = q
          OBVIOUS
        <5> QED BY <5>1, <5>2, Zenon
      <4>4. /\ s \o one \in Seq(Place) /\ Len(s \o one) = size + 1
            /\ \A j \in 1..(size + 1) : (s \o one)[j] = IF j <= size THEN s[j] ELSE one[j - size]
        BY <3>4, <4>3, ConcatProperties
      <4>5. more = size + 1 /\ (lo + more) - 2 = k
        BY <1>1, <3>1, <3>2, <3>6, SizesAre
      <4>6. (s \o one)[1] = p
        <5>1. 1 \in 1..(size + 1) /\ 1 <= size
          BY <3>4
        <5> QED BY <3>4, <4>4, <5>1
      <4>7. ASSUME NEW j \in 2..(size + 1) PROVE (s \o one)[j] = geometry[(lo + j) - 2]
        <5>1. j \in 1..(size + 1)
          OBVIOUS
        <5>2. CASE j <= size
          <6>1. j \in 2..size
            BY <5>2
          <6> QED BY <3>4, <4>4, <5>1, <5>2, <6>1
        <5>3. CASE ~(j <= size)
          <6>1. j = size + 1 /\ j - size = 1
            BY <5>3
          <6>2. (s \o one)[j] = q
            BY <4>3, <4>4, <5>1, <5>3, <6>1
          <6>3. (lo + j) - 2 = k
            BY <4>5, <6>1
          <6> QED BY <3>5, <6>2, <6>3
        <5> QED BY <5>2, <5>3
      <4>8. more >= 1
        BY <4>5
      <4> QED BY <3>2, <4>2, <4>3, <4>4, <4>5, <4>6, <4>7, <4>8 DEF Holds
    <3>7. CASE ~(lo <= k /\ k <= hi)
      <4>1. ~KeptByTrim(along, k, start, end)
        BY <3>1, <3>7, KeptAreBetween
      <4>2. selected[k] = s \o << >>
        BY <1>3, <2>2, <3>3, <4>1 DEF TrimTurn
      <4>3. s \o << >> = s
        BY ConcatEmptySeq
      <4>4. more = size
        BY <1>1, <3>1, <3>2, <3>7, SizesAre
      <4> QED BY <3>2, <3>3, <4>2, <4>3, <4>4
    <3> QED BY <3>6, <3>7
  <2> QED BY <2>1, <2>2
<1>5. A \in SUBSET Nat
  OBVIOUS
<1>6. 0..(n - 1) \subseteq A
  <2>1. PICK c \in Nat : c = n - 1
    OBVIOUS
  <2>2. ASSUME NEW k \in 0..c, 0..(k - 1) \subseteq A PROVE k \in A
    <3> HIDE DEF A
    <3> QED BY <1>4, <2>1, <2>2
  <2>3. 0..c \subseteq A
    <3> HIDE DEF A
    <3> QED BY <1>5, <2>2, Induction
  <2> QED BY <2>1, <2>3
<1>7. n - 1 \in 0..(n - 1) /\ n - 1 \in 1..(n - 1)
  OBVIOUS
<1> QED BY <1>2, <1>6, <1>7

(* What the trim makes of neighbours that the sixth decimal tells apart.   *)
TellsApart(along, n, start, end, t, i) ==
    \/ Canonical(t[i]) # Canonical(t[i + 1])
    \/ i = 1 /\ \A a \in 1..n : along[a] # start
    \/ i = Len(t) - 1 /\ \A b \in 1..n : along[b] # end

LEMMA TrimTellsApart ==
  ASSUME NEW geometry \in Seq(Place), NEW n \in Nat, n = Len(geometry), n >= 2, Sharp(geometry),
         NEW along, along = Profile(geometry), NEW start \in Nat, NEW end \in Nat, start < end,
         NEW selected, Selects(geometry, along, start, end, selected),
         NEW t, t = Append(selected[n - 1], PointAt(geometry, end))
  PROVE  Len(t) \in Nat /\ Len(t) >= 2
         /\ \A i \in 1..(Len(t) - 1) : TellsApart(along, n, start, end, t, i)
<1>1. /\ Climbs(along, n) /\ along[1] = 0
      /\ \A i \in 1..n : along[i] \in Nat
      /\ \A i, j \in 1..n : i < j => along[i] < along[j]
  <2>1. Climbs(along, n)
    BY SharpClimbs
  <2>2. along[1] = 0
    <3>1. 1 \in 1..Len(geometry)
      OBVIOUS
    <3>2. along[1] = ProfileTurn(geometry, along, 1)
      BY <3>1, ProfileUnfolds DEF IsProfile
    <3> QED BY <3>2 DEF ProfileTurn
  <2> QED BY <2>1, <2>2 DEF Climbs
<1>2. PICK lo, hi : Lower(along, n, start, lo) /\ Upper(along, n, end, hi)
  <2>1. end \in Nat \ {0}
    OBVIOUS
  <2>2. PICK lo : Lower(along, n, start, lo)
    BY <1>1, TrimBegins
  <2>3. PICK hi : Upper(along, n, end, hi)
    BY <1>1, <2>1, TrimEnds
  <2> QED BY <2>2, <2>3
<1>3. /\ lo \in 2..n /\ \A i \in 1..(lo - 1) : along[i] <= start
      /\ along[lo] > start \/ lo = n
  BY <1>2 DEF Lower
<1>4. hi \in 1..(n - 1) /\ along[hi] < end /\ (along[hi + 1] >= end \/ hi + 1 = n)
  BY <1>2 DEF Upper
<1>5. PICK p \in Place, q \in Place : p = PointAt(geometry, start) /\ q = PointAt(geometry, end)
  <2>1. PointAt(geometry, start) \in Place
    BY PointAtIsPlace
  <2>2. PointAt(geometry, end) \in Place
    BY PointAtIsPlace
  <2> QED BY <2>1, <2>2
<1>6. PICK s \in Seq(Place), m \in Nat :
         /\ s = selected[n - 1] /\ m = IF hi < lo THEN 1 ELSE (hi - lo) + 2
         /\ Len(s) = m /\ m >= 1 /\ s[1] = p /\ \A j \in 2..m : s[j] = geometry[(lo + j) - 2]
  <2>1. Holds(selected[n - 1], p, geometry, lo, SizeAt(lo, hi, n - 1))
    BY <1>1, <1>2, <1>5, SelectionHolds
  <2>2. SizeAt(lo, hi, n - 1) = IF hi < lo THEN 1 ELSE (hi - lo) + 2
    BY <1>3, <1>4 DEF SizeAt
  <2>3. (IF hi < lo THEN 1 ELSE (hi - lo) + 2) \in Nat
    BY <1>3, <1>4
  <2> QED BY <2>1, <2>2, <2>3 DEF Holds
<1>7. /\ Len(t) = m + 1 /\ t[m + 1] = q /\ \A j \in 1..m : t[j] = s[j]
  <2>1. t = Append(s, q)
    BY <1>5, <1>6
  <2> QED BY <1>6, <2>1, AppendProperties
<1>8. ASSUME NEW b \in 1..n, along[b] = end PROVE b = hi + 1 /\ q = geometry[b]
  <2>1. q = geometry[b]
    BY <1>1, <1>5, <1>8, PointOfRoute
  <2>2. ~(b <= hi)
    <3> SUFFICES ASSUME b <= hi PROVE FALSE
      OBVIOUS
    <3>1. hi \in 1..n /\ (b = hi \/ b < hi)
      BY <1>4
    <3>2. along[b] \in Nat /\ along[hi] \in Nat /\ (b < hi => along[b] < along[hi])
      BY <1>1, <3>1
    <3> QED BY <1>4, <1>8, <3>1, <3>2
  <2>3. ~(b > hi + 1)
    <3> SUFFICES ASSUME b > hi + 1 PROVE FALSE
      OBVIOUS
    <3>1. hi + 1 \in 1..n /\ hi + 1 # n /\ hi + 1 < b
      BY <1>4
    <3>2. along[b] \in Nat /\ along[hi + 1] \in Nat /\ along[hi + 1] < along[b]
      BY <1>1, <3>1
    <3> QED BY <1>4, <1>8, <3>1, <3>2
  <2> QED BY <1>4, <2>1, <2>2, <2>3
<1>9. ASSUME along[lo] > start, NEW a \in 1..n, along[a] = start PROVE a = lo - 1 /\ p = geometry[a]
  <2>1. p = geometry[a]
    BY <1>1, <1>5, <1>9, PointOfRoute
  <2>2. ~(a >= lo)
    <3> SUFFICES ASSUME a >= lo PROVE FALSE
      OBVIOUS
    <3>1. lo \in 1..n /\ (a = lo \/ lo < a)
      BY <1>3
    <3>2. along[a] \in Nat /\ along[lo] \in Nat /\ (lo < a => along[lo] < along[a])
      BY <1>1, <3>1
    <3> QED BY <1>9, <3>1, <3>2
  <2>3. ~(a < lo - 1)
    <3> SUFFICES ASSUME a < lo - 1 PROVE FALSE
      OBVIOUS
    <3>1. lo - 1 \in 1..n /\ lo - 1 \in 1..(lo - 1)
      BY <1>3
    <3>2. along[a] \in Nat /\ along[lo - 1] \in Nat /\ along[a] < along[lo - 1] /\ along[lo - 1] <= start
      BY <1>1, <1>3, <3>1
    <3> QED BY <1>9, <3>2
  <2> QED BY <1>3, <2>1, <2>2, <2>3
<1>10. ASSUME NEW j \in 1..(n - 1) PROVE Canonical(geometry[j]) # Canonical(geometry[j + 1])
  BY DEF Sharp
<1>11. CASE hi < lo
  <2>1. m = 1 /\ Len(t) = 2 /\ t[1] = p /\ t[2] = q
    BY <1>6, <1>7, <1>11
  <2>2. TellsApart(along, n, start, end, t, 1)
    <3> SUFFICES ASSUME NEW a \in 1..n, along[a] = start, NEW b \in 1..n, along[b] = end
                 PROVE  Canonical(t[1]) # Canonical(t[1 + 1])
      BY <2>1 DEF TellsApart
    <3>1. b = hi + 1 /\ q = geometry[b]
      BY <1>8
    <3>2. b = lo
      <4>1. ~(b < lo)
        <5> SUFFICES ASSUME b < lo PROVE FALSE
          OBVIOUS
        <5>1. b \in 1..(lo - 1)
          BY <1>3
        <5>2. along[b] <= start
          BY <1>3, <5>1
        <5> QED BY <5>2
      <4> QED BY <1>3, <1>4, <1>11, <3>1, <4>1
    <3>3. along[lo] > start
      BY <3>2
    <3>4. a = lo - 1 /\ p = geometry[a]
      BY <1>9, <3>3
    <3>5. a \in 1..(n - 1) /\ a + 1 = b
      BY <1>3, <3>2, <3>4
    <3> QED BY <1>10, <2>1, <3>1, <3>4, <3>5
  <2> QED BY <2>1, <2>2
<1>12. CASE ~(hi < lo)
  <2>1. m = (hi - lo) + 2 /\ m >= 2 /\ Len(t) = m + 1
    BY <1>3, <1>4, <1>6, <1>7, <1>12
  <2>2. along[lo] > start
    <3>1. lo # n
      BY <1>3, <1>4, <1>12
    <3> QED BY <1>3, <3>1
  <2>3. TellsApart(along, n, start, end, t, 1)
    <3> SUFFICES ASSUME NEW a \in 1..n, along[a] = start
                 PROVE  Canonical(t[1]) # Canonical(t[1 + 1])
      BY DEF TellsApart
    <3>1. a = lo - 1 /\ p = geometry[a]
      BY <1>9, <2>2
    <3>2. t[1] = p
      <4>1. 1 \in 1..m
        BY <2>1
      <4> QED BY <1>6, <1>7, <4>1
    <3>3. t[1 + 1] = geometry[lo]
      <4>1. 2 \in 1..m /\ 2 \in 2..m /\ 1 + 1 = 2 /\ (lo + 2) - 2 = lo
        BY <1>3, <2>1
      <4> QED BY <1>6, <1>7, <4>1
    <3>4. a \in 1..(n - 1) /\ a + 1 = lo
      BY <1>3, <3>1
    <3> QED BY <1>10, <3>1, <3>2, <3>3, <3>4
  <2>4. TellsApart(along, n, start, end, t, m)
    <3> SUFFICES ASSUME NEW b \in 1..n, along[b] = end
                 PROVE  Canonical(t[m]) # Canonical(t[m + 1])
      BY <2>1 DEF TellsApart
    <3>1. b = hi + 1 /\ q = geometry[b]
      BY <1>8
    <3>2. t[m] = geometry[hi]
      <4>1. m \in 1..m /\ m \in 2..m /\ (lo + m) - 2 = hi
        BY <1>3, <1>4, <2>1
      <4> QED BY <1>6, <1>7, <4>1
    <3>3. Canonical(geometry[hi]) # Canonical(geometry[hi + 1])
      BY <1>4, <1>10
    <3> QED BY <1>7, <3>1, <3>2, <3>3
  <2>5. ASSUME NEW i \in 2..(m - 1) PROVE TellsApart(along, n, start, end, t, i)
    <3>1. i \in 1..m /\ i + 1 \in 1..m /\ i \in 2..m /\ i + 1 \in 2..m
      BY <2>1
    <3>2. t[i] = geometry[(lo + i) - 2]
      BY <1>6, <1>7, <3>1
    <3>3. t[i + 1] = geometry[(lo + (i + 1)) - 2]
      BY <1>6, <1>7, <3>1
    <3>4. PICK j \in 1..(n - 1) : j = (lo + i) - 2 /\ j + 1 = (lo + (i + 1)) - 2
      <4>1. (lo + i) - 2 \in 1..(n - 1) /\ ((lo + i) - 2) + 1 = (lo + (i + 1)) - 2
        BY <1>3, <1>4, <2>1
      <4> QED BY <4>1
    <3>5. Canonical(t[i]) # Canonical(t[i + 1])
      BY <1>10, <3>2, <3>3, <3>4
    <3> QED BY <3>5 DEF TellsApart
  <2>6. ASSUME NEW i \in 1..(Len(t) - 1) PROVE TellsApart(along, n, start, end, t, i)
    <3>1. i = 1 \/ i = m \/ i \in 2..(m - 1)
      BY <2>1
    <3> QED BY <2>3, <2>4, <2>5, <3>1
  <2> QED BY <2>1, <2>6
<1> QED BY <1>11, <1>12

(* The indexes of control points, once in order, are what the API admits.  *)
LEMMA OrderIsValid ==
  ASSUME NEW n \in Nat, n >= 2, NEW S \in SUBSET (1..n), 1 \in S, n \in S
  PROVE  /\ Len(InOrder(S)) \in Nat /\ Len(InOrder(S)) >= 2
         /\ \A i \in DOMAIN InOrder(S) : InOrder(S)[i] \in 1..n
         /\ InOrder(S)[1] = 1 /\ Last(InOrder(S)) = n
         /\ \A i \in 1..(Len(InOrder(S)) - 1) : InOrder(S)[i] < InOrder(S)[i + 1]
<1>1. IsFiniteSet(S) /\ S \in SUBSET Nat
  <2>1. S \in SUBSET Nat /\ \A i \in S : i <= n
    OBVIOUS
  <2> QED BY <2>1, FS_BoundedSetOfNaturals
<1>2. PICK c \in Nat : c = Cardinality(S)
  BY <1>1, FS_CardinalityType
<1>3. PICK s : s = InOrder(S) /\ InOrderOf(s, S, c)
  BY <1>1, <1>2, OrderExists DEF InOrder, InOrderOf
<1>4. s \in [1..c -> S] /\ \A i, j \in 1..c : i < j => s[i] < s[j]
  BY <1>3 DEF InOrderOf
<1>5. ToSet(s) = S
  BY <1>1, <1>3, InOrderHasAll
<1>6. DOMAIN s = 1..c /\ Len(s) = c
  BY <1>4
<1>7. PICK a \in 1..c, b \in 1..c : s[a] = 1 /\ s[b] = n
  <2>1. \A v \in S : \E i \in 1..c : s[i] = v
    BY <1>5, <1>6 DEF ToSet
  <2> QED BY <2>1
<1>8. \A i \in 1..c : s[i] \in 1..n
  BY <1>4
<1>9. a # b /\ c >= 2
  BY <1>7
<1>10. a = 1
  <2> SUFFICES ASSUME a # 1 PROVE FALSE
    OBVIOUS
  <2>1. 1 \in 1..c /\ 1 < a
    BY <1>9
  <2>2. s[1] < s[a] /\ s[1] \in 1..n
    BY <1>4, <1>8, <2>1
  <2> QED BY <1>7, <2>2
<1>11. b = c
  <2> SUFFICES ASSUME b # c PROVE FALSE
    OBVIOUS
  <2>1. c \in 1..c /\ b < c
    BY <1>9
  <2>2. s[b] < s[c] /\ s[c] \in 1..n
    BY <1>4, <1>8, <2>1
  <2> QED BY <1>7, <2>2
<1>12. ASSUME NEW i \in 1..(c - 1) PROVE s[i] < s[i + 1]
  <2>1. i \in 1..c /\ i + 1 \in 1..c /\ i < i + 1
    OBVIOUS
  <2> QED BY <1>4, <2>1
<1>13. Last(s) = n
  BY <1>6, <1>7, <1>11 DEF Last
<1> QED BY <1>3, <1>6, <1>7, <1>8, <1>9, <1>10, <1>12, <1>13

LEMMA ControlsAreValid ==
  ASSUME NEW d, Selected(d) \in Seq(Place), Len(Selected(d)) >= 2
  PROVE  ValidControls(ControlIndexes(d), Len(Selected(d))) \/ Len(ControlIndexes(d)) > MaxControls
<1>1. PICK n \in Nat : n = Len(Selected(d)) /\ n >= 2
  BY LenProperties
<1>2. PICK all : all = {1, n} \cup (InnerOf(d) \cap 2..(n - 1))
  OBVIOUS
<1>3. PICK controls : controls = ControlIndexes(d) /\ controls = InOrder(all)
  BY <1>1, <1>2, Zenon DEF ControlIndexes, InnerOf, AnchorMatches
<1>4. all \in SUBSET (1..n) /\ 1 \in all /\ n \in all
  BY <1>1, <1>2
<1>5. /\ Len(controls) \in Nat /\ Len(controls) >= 2
      /\ \A i \in DOMAIN controls : controls[i] \in 1..n
      /\ controls[1] = 1 /\ Last(controls) = n
      /\ \A i \in 1..(Len(controls) - 1) : controls[i] < controls[i + 1]
  BY <1>1, <1>3, <1>4, OrderIsValid
<1>6. MaxControls \in Nat
  BY RoutePayloadAssumption DEF RoutePayloadAssumption
<1>7. Len(controls) \in 2..MaxControls \/ Len(controls) > MaxControls
  BY <1>5, <1>6
<1> QED BY <1>1, <1>3, <1>5, <1>7 DEF ValidControls

(* A draft of routings that the sixth decimal tells apart.                 *)
NoBlur(d) == \A i \in 1..Len(d.legs) : ~Blurred(d.legs[i])

CutsAt(d, metres) == metres * Metre \notin ToSet(Profile(Composed(d.legs)))

(* What may be one place in a route that the studio prepares.              *)
MayBlur(d, t, i) ==
    d.selection # NoSelection /\ \/ i = 1 /\ CutsAt(d, d.selection.startM)
                                 \/ i = Len(t) - 1 /\ CutsAt(d, d.selection.endM)

LEMMA PreparedTellsApart ==
  ASSUME NEW d, IsDraft(d), Joined(d.legs), NoBlur(d),
         d.selection # NoSelection => d.selection.startM < d.selection.endM
  PROVE  /\ Len(Selected(d)) \in Nat /\ Len(Selected(d)) >= 2
         /\ \A i \in 1..(Len(Selected(d)) - 1) :
               Canonical(Selected(d)[i]) = Canonical(Selected(d)[i + 1]) => MayBlur(d, Selected(d), i)
<1>0. PICK legs : legs = d.legs
  OBVIOUS
<1>1. Legs(legs) /\ legs # << >> /\ Joined(legs) /\ \A i \in 1..Len(legs) : ~Blurred(legs[i])
  BY <1>0, Zenon DEF IsDraft, NoBlur
<1>2. PICK route \in Seq(Place), n \in Nat : route = Composed(legs) /\ n = Len(route) /\ n >= 2
  BY <1>1, ComposedIsGeometry, LenProperties
<1>3. Sharp(route)
  BY <1>1, <1>2, RouteIsSharp
<1>4. CASE d.selection = NoSelection
  <2>1. Selected(d) = route
    BY <1>0, <1>2, <1>4 DEF Selected
  <2> QED BY <1>2, <1>3, <2>1 DEF Sharp
<1>5. CASE d.selection # NoSelection
  <2>1. PICK selection : /\ selection = d.selection /\ selection.startM < selection.endM
                         /\ selection.startM \in Nat /\ selection.endM \in Nat
    BY <1>5 DEF IsDraft
  <2>2. PICK start \in Nat, end \in Nat :
           start = selection.startM * Metre /\ end = selection.endM * Metre /\ start < end
    <3>1. ASSUME NEW u \in Nat, NEW v \in Nat, u < v
          PROVE  u * Metre \in Nat /\ v * Metre \in Nat /\ u * Metre < v * Metre
      BY <3>1, UnitsArePositive, Z3
    <3> QED BY <2>1, <3>1
  <2>3. PICK t : t = Selected(d) /\ t = Trimmed(route, selection)
    BY <1>0, <1>2, <1>5, <2>1 DEF Selected
  <2>4. PICK along : along = Profile(route)
    OBVIOUS
  <2>5. PICK selected : TrimsTo(route, along, start, end, selected, t)
    <3>1. \E selected : TrimsTo(route, Profile(route), selection.startM * Metre,
                                selection.endM * Metre, selected, Trimmed(route, selection))
      BY <1>2, <2>1, TrimUnfolds
    <3> QED BY <2>2, <2>3, <2>4, <3>1, Zenon
  <2>6. CASE start = 0 /\ end = Last(along)
    <3>1. t = route
      BY <2>5, <2>6 DEF TrimsTo
    <3> QED BY <1>2, <1>3, <2>3, <3>1 DEF Sharp
  <2>7. CASE ~(start = 0 /\ end = Last(along))
    <3>1. t = Append(selected[n - 1], PointAt(route, end)) /\ Selects(route, along, start, end, selected)
      BY <1>2, <2>5, <2>7 DEF TrimsTo
    <3>2. Len(t) \in Nat /\ Len(t) >= 2
          /\ \A i \in 1..(Len(t) - 1) : TellsApart(along, n, start, end, t, i)
      BY <1>2, <1>3, <2>2, <2>4, <3>1, TrimTellsApart
    <3>3. along \in [1..n -> Nat]
      BY <1>2, <2>4, ProfileUnfolds DEF IsProfile
    <3>4. ASSUME NEW v, \A a \in 1..n : along[a] # v PROVE v \notin ToSet(along)
      BY <3>3, <3>4 DEF ToSet
    <3>5. ASSUME NEW i \in 1..(Len(t) - 1), Canonical(t[i]) = Canonical(t[i + 1])
          PROVE  MayBlur(d, t, i)
      <4>1. \/ i = 1 /\ \A a \in 1..n : along[a] # start
            \/ i = Len(t) - 1 /\ \A b \in 1..n : along[b] # end
        BY <3>2, <3>5 DEF TellsApart
      <4>2. (i = 1 /\ start \notin ToSet(along)) \/ (i = Len(t) - 1 /\ end \notin ToSet(along))
        BY <3>4, <4>1
      <4> QED BY <1>0, <1>2, <1>5, <2>1, <2>2, <2>4, <4>2 DEF MayBlur, CutsAt
    <3> QED BY <2>3, <3>2, <3>5
  <2> QED BY <2>6, <2>7
<1> QED BY <1>4, <1>5

-----------------------------------------------------------------------------
IInv ==
    /\ phase \in {"draft", "ready", "refused", "stored", "listed"}
    /\ phase = "draft" => draft \in Drafts
    /\ phase # "draft" => body.geometry \in Seq(Place)
    /\ phase \in {"ready", "refused"} /\ draft # None =>
          /\ draft \in Drafts /\ draft.legs # << >> /\ body.api = "v2"
          /\ body.geometry = Selected(draft) /\ body.controls = ControlIndexes(draft)
    /\ phase = "refused" => ~Accepts(body)
    /\ phase \in {"stored", "listed"} => row = NewRow(body)
    /\ phase = "listed" =>
          /\ answer.box \in Boxes /\ WithinSydney(answer.box)
          /\ answer.segments = IF Found(answer.box) THEN {DecodePolyline6(row.encoded)} ELSE {}

LEMMA InitHolds == Init => IInv
  BY RoutePayloadAssumption DEF Init, IInv, RoutePayloadAssumption

LEMMA StepKeeps == IInv /\ [Next]_vars => IInv'
<1> SUFFICES ASSUME IInv, [Next]_vars PROVE IInv'
  OBVIOUS
<1>1. CASE Prepare
  <2>1. draft \in Drafts /\ draft.legs # << >>
    BY <1>1 DEF IInv, Prepare
  <2>2. Selected(draft) \in Seq(Place)
    BY <2>1, SelectedIsGeometry
  <2>3. /\ phase' = "ready" /\ draft' = draft /\ body'.api = "v2"
        /\ body'.geometry = Selected(draft) /\ body'.controls = ControlIndexes(draft)
    BY <1>1 DEF Prepare
  <2> QED BY <2>1, <2>2, <2>3 DEF IInv
<1>2. CASE Publish
  <2>1. phase = "ready" /\ draft' = draft /\ body' = body /\ body.geometry \in Seq(Place)
        /\ phase' \in {"stored", "refused"} /\ (phase' = "stored" => row' = NewRow(body))
        /\ (phase' = "refused" => ~Accepts(body))
    BY <1>2 DEF IInv, Publish
  <2>2. Accepts(body)' = Accepts(body) /\ NewRow(body)' = NewRow(body)
    BY <2>1, Zenon DEF Accepts, NewRow
  <2>3. draft # None => /\ draft \in Drafts /\ draft.legs # << >> /\ body.api = "v2"
                        /\ body.geometry = Selected(draft) /\ body.controls = ControlIndexes(draft)
    BY <2>1 DEF IInv
  <2>4. phase' # "draft" /\ phase' # "listed" /\ phase' \in {"draft", "ready", "refused", "stored", "listed"}
    BY <2>1
  <2> QED BY <2>1, <2>2, <2>3, <2>4 DEF IInv
<1>3. ASSUME NEW box \in Boxes, Nearby(box) PROVE IInv'
  <2>1. /\ phase = "stored" /\ phase' = "listed" /\ body' = body /\ row' = row
        /\ WithinSydney(box) /\ answer'.box = box
        /\ answer'.segments = IF Found(box) THEN {DecodePolyline6(row.encoded)} ELSE {}
    BY <1>3 DEF Nearby
  <2>2. body.geometry \in Seq(Place) /\ row = NewRow(body)
    BY <2>1 DEF IInv
  <2>3. WithinSydney(answer'.box) /\ (Found(answer.box))' = Found(box)
    BY <2>1, Zenon DEF Found
  <2>4. WithinSydney(answer.box)'
    BY <2>3, Zenon DEF WithinSydney
  <2>5. row' = NewRow(body)'
    BY <2>1, <2>2, Zenon DEF NewRow
  <2> QED BY <2>1, <2>2, <2>3, <2>4, <2>5 DEF IInv
<1>4. CASE UNCHANGED vars
  BY <1>4 DEF IInv, vars, Found, NewRow, WithinSydney, Accepts
<1> QED BY <1>1, <1>2, <1>3, <1>4 DEF Next

LEMMA ReadyHasJoints == IInv => ControlsAreJoints
<1> SUFFICES ASSUME IInv, phase = "ready", draft # None, Joined(draft.legs)
             PROVE  /\ \A i \in 1..(Len(draft.legs) - 1) :
                           MeetWithin(draft, i) => Last(draft.legs[i]) \in Controls(draft)
                    /\ Controls(draft) \subseteq { Last(draft.legs[i]) : i \in 1..(Len(draft.legs) - 1) }
                                                   \cup {Selected(draft)[1], Last(Selected(draft))}
  BY Zenon DEF ControlsAreJoints, IInv, MeetWithin, Controls
<1>1. draft \in Drafts /\ draft.legs # << >>
  BY DEF IInv
<1>2. IsDraft(draft)
  BY <1>1, RoutePayloadAssumption DEF IsDraft, Legs, RoutePayloadAssumption
<1>3. Selected(draft) \in Seq(Place) /\ Len(Selected(draft)) >= 1
  BY <1>1, SelectedIsGeometry
<1>4. ASSUME NEW i \in 1..(Len(draft.legs) - 1), MeetWithin(draft, i)
      PROVE  Last(draft.legs[i]) \in Controls(draft)
  BY <1>2, <1>3, <1>4, JointsAreControls
<1>5. ASSUME NEW c \in Controls(draft)
      PROVE  \/ \E i \in 1..(Len(draft.legs) - 1) : c = Last(draft.legs[i])
             \/ c = Selected(draft)[1] \/ c = Last(Selected(draft))
  BY <1>2, <1>3, ControlsAreOfJoints
<1> QED BY <1>4, <1>5

LEMMA RefusedIsExcused == IInv => PreparedIsAccepted
<1> SUFFICES ASSUME IInv, phase = "refused", draft # None, Joined(draft.legs),
                    ~(Len(body.geometry) > MaxPoints), ~(Len(body.controls) > MaxControls),
                    WithinSydney(BboxFromPoints(Geometry(body))), Heights(body.geometry) \subseteq Elevations,
                    ~(\E leg \in ToSet(draft.legs) : Blurred(leg)),
                    draft.selection # NoSelection =>
                        /\ draft.selection.startM # draft.selection.endM
                        /\ ~(SamePlace(1) /\ Cuts(draft.selection.startM))
                        /\ ~(SamePlace(Len(body.geometry) - 1) /\ Cuts(draft.selection.endM))
             PROVE  FALSE
  BY Zenon DEF PreparedIsAccepted
<1>1. /\ draft \in Drafts /\ draft.legs # << >> /\ body.api = "v2" /\ ~Accepts(body)
      /\ body.geometry = Selected(draft) /\ body.controls = ControlIndexes(draft)
  BY DEF IInv
<1>2. IsDraft(draft)
  BY <1>1, RoutePayloadAssumption DEF IsDraft, Legs, RoutePayloadAssumption
<1>3. NoBlur(draft)
  <2>1. DOMAIN draft.legs = 1..Len(draft.legs)
    BY <1>2, LenProperties DEF IsDraft, Legs
  <2>2. ASSUME NEW i \in 1..Len(draft.legs) PROVE draft.legs[i] \in ToSet(draft.legs)
    BY <2>1 DEF ToSet
  <2> QED BY <2>2 DEF NoBlur
<1>4. ASSUME draft.selection # NoSelection PROVE draft.selection.startM < draft.selection.endM
  <2>1. PICK u \in Nat, v \in Nat : u = draft.selection.startM /\ v = draft.selection.endM /\ u <= v
    BY <1>1, <1>4, RoutePayloadAssumption DEF RoutePayloadAssumption
  <2>2. u # v
    BY <1>4, <2>1
  <2> QED BY <2>1, <2>2
<1>5. PICK t \in Seq(Place), n \in Nat : /\ t = Selected(draft) /\ t = body.geometry /\ n = Len(t) /\ n >= 2
                                         /\ DOMAIN t = 1..n
  <2>1. Selected(draft) \in Seq(Place)
    BY <1>1, SelectedIsGeometry
  <2>2. Len(Selected(draft)) >= 2
    BY <1>2, <1>3, <1>4, PreparedTellsApart
  <2> QED BY <1>1, <2>1, <2>2, LenProperties
<1>6. ASSUME NEW i \in 1..(n - 1) PROVE Canonical(t[i]) # Canonical(t[i + 1])
  <2> SUFFICES ASSUME Canonical(t[i]) = Canonical(t[i + 1]) PROVE FALSE
    OBVIOUS
  <2>1. MayBlur(draft, t, i)
    BY <1>2, <1>3, <1>4, <1>5, PreparedTellsApart
  <2>2. SamePlace(i)
    BY <1>5 DEF SamePlace
  <2>3. draft.selection # NoSelection
        /\ \/ i = 1 /\ Cuts(draft.selection.startM)
           \/ i = n - 1 /\ Cuts(draft.selection.endM)
    BY <1>5, <2>1, Zenon DEF MayBlur, CutsAt, Cuts
  <2> QED BY <1>5, <2>2, <2>3, Zenon
<1>7. PICK stored : /\ stored = Geometry(body) /\ DOMAIN stored = 1..n
                    /\ \A i \in 1..n : stored[i] = Canonical(t[i])
  BY <1>1, <1>5 DEF Geometry
<1>8. NeighboursDiffer(Geometry(body))
  <2>1. Len(stored) = n
    BY <1>7
  <2>2. ASSUME NEW i \in 1..(n - 1) PROVE stored[i] # stored[i + 1]
    <3>1. i \in 1..n /\ i + 1 \in 1..n
      OBVIOUS
    <3> QED BY <1>6, <1>7, <3>1
  <2> QED BY <1>7, <2>1, <2>2 DEF NeighboursDiffer
<1>9. ValidControls(body.controls, Len(body.geometry))
  BY <1>1, <1>5, ControlsAreValid
<1>10. Len(body.geometry) \in 2..MaxPoints
  <2>1. MaxPoints \in Nat /\ n <= MaxPoints
    <3>1. MaxPoints \in Nat
      BY RoutePayloadAssumption DEF RoutePayloadAssumption
    <3> QED BY <1>5, <3>1
  <2> QED BY <1>5, <2>1
<1>11. Accepts(body)
  BY <1>1, <1>8, <1>9, <1>10, Zenon DEF Accepts
<1> QED BY <1>1, <1>11

(* Bounds carry over.                                                      *)
LEMMA AtLeast ==
  ASSUME NEW low \in Int, NEW a \in Int, low >= 0, a >= low
  PROVE  a >= 0
OBVIOUS

LEMMA AtMost ==
  ASSUME NEW high \in Int, NEW b \in Int, b <= high, high <= World
  PROVE  b <= World
<1>1. PICK w \in Int : w = World
  BY GridIsPositive
<1> QED BY <1>1

LEMMA ListedIsFound == IInv => ListedWhereItRuns
<1> SUFFICES ASSUME IInv, phase = "listed",
                    NEW i \in 1..(Len(Geometry(body)) - 1),
                    Meets(Geometry(body)[i], Geometry(body)[i + 1], answer.box)
             PROVE  answer.segments = {Rounded(Geometry(body))}
  BY DEF ListedWhereItRuns
<1>1. PICK geometry \in Seq(Point), drawn \in Seq(Point) :
         geometry = Geometry(body) /\ drawn = Rounded(geometry)
  BY StoredArePoints DEF IInv
<1>2. PICK box \in Box : /\ box = answer.box /\ box.minX >= 0 /\ box.maxX <= World
                         /\ box.minY >= 0 /\ box.maxY <= World
  <2>1. answer.box \in Box /\ WithinSydney(answer.box) /\ Sydney \in Box
        /\ Sydney.minX >= 0 /\ Sydney.maxX <= World /\ Sydney.minY >= 0 /\ Sydney.maxY <= World
    BY RoutePayloadAssumption DEF IInv, RoutePayloadAssumption, World
  <2>2. PICK box \in Box : box = answer.box
    BY <2>1
  <2>3. box.minX \in Int /\ box.maxX \in Int /\ box.minY \in Int /\ box.maxY \in Int
    BY <2>2 DEF Box
  <2>4. Sydney.minX \in Int /\ Sydney.maxX \in Int /\ Sydney.minY \in Int /\ Sydney.maxY \in Int
    BY <2>1 DEF Box
  <2>5. /\ box.minX >= Sydney.minX /\ box.maxX <= Sydney.maxX
        /\ box.minY >= Sydney.minY /\ box.maxY <= Sydney.maxY
    BY <2>1, <2>2 DEF WithinSydney
  <2>6. box.minX >= 0
    BY <2>1, <2>3, <2>4, <2>5, AtLeast, Zenon
  <2>7. box.minY >= 0
    BY <2>1, <2>3, <2>4, <2>5, AtLeast, Zenon
  <2>8. box.maxX <= World
    BY <2>1, <2>3, <2>4, <2>5, AtMost, Zenon
  <2>9. box.maxY <= World
    BY <2>1, <2>3, <2>4, <2>5, AtMost, Zenon
  <2> QED BY <2>2, <2>6, <2>7, <2>8, <2>9
<1>3. SegmentCells(geometry) \cap BboxCells(box) # {} /\ Overlap(BboxFromPoints(geometry), box)
  BY <1>1, <1>2, RouteIsFound
<1>4. /\ row.cells = SegmentCells(geometry) /\ row.box = BboxFromPoints(geometry)
      /\ row.encoded = EncodePolyline6(drawn)
  BY <1>1 DEF IInv, NewRow
<1>5. Found(answer.box)
  BY <1>2, <1>3, <1>4 DEF Found
<1>6. DecodePolyline6(row.encoded) = drawn
  BY <1>1, <1>4, PolylineReturns
<1> QED BY <1>1, <1>5, <1>6 DEF IInv

(* Whatever the legs and the trim: of what the studio prepares, the API    *)
(* refuses only a route that is too long or too wide for it, a routing     *)
(* whose points rounding makes one, and a trim that is empty or cuts a     *)
(* segment so close to its end that rounding makes them one.               *)
THEOREM PreparedRoutesAreAccepted == Spec => []PreparedIsAccepted
<1>1. IInv /\ [Next]_vars => IInv'
  BY StepKeeps
<1>2. Init => IInv
  BY InitHolds
<1>3. IInv => PreparedIsAccepted
  BY RefusedIsExcused
<1> QED BY <1>1, <1>2, <1>3, PTL DEF Spec

(* Whatever the legs, the units and the trim: a route is published with a  *)
(* control point at each place where two of its legs meet, and with none   *)
(* elsewhere but at its ends.                                              *)
THEOREM ControlPointsAreJoints == Spec => []ControlsAreJoints
<1>1. IInv /\ [Next]_vars => IInv'
  BY StepKeeps
<1>2. Init => IInv
  BY InitHolds
<1>3. IInv => ControlsAreJoints
  BY ReadyHasJoints
<1> QED BY <1>1, <1>2, <1>3, PTL DEF Spec

(* Whatever the grid, the units and the routes: a box that a route runs    *)
(* through, in any direction, along the grid or across it, finds it, and   *)
(* what a client then draws is the route that was published, point for     *)
(* point, to the sixth decimal.                                            *)
THEOREM RoutesAreListed == Spec => []ListedWhereItRuns
<1>1. IInv /\ [Next]_vars => IInv'
  BY StepKeeps
<1>2. Init => IInv
  BY InitHolds
<1>3. IInv => ListedWhereItRuns
  BY ListedIsFound
<1> QED BY <1>1, <1>2, <1>3, PTL DEF Spec

=============================================================================
