--------------------------- MODULE PlanarDrawingProofs ---------------------------
(***************************************************************************)
(* The drawing has no crossing.  The first part is plane geometry; the     *)
(* second says what a set does to any plane drawing that lies under its    *)
(* contour; the third that PlaceSet does just that, however far the parts  *)
(* of the drawing are moved apart later.                                   *)
(***************************************************************************)
EXTENDS PlanarStraightLayoutProofs

(* Twice the signed area of the triangle a, b, p: positive when p is to    *)
(* the left of the way from a to b.                                        *)
TurnOf(ax, ay, bx, by, px, py) == (bx - ax) * (py - ay) - (by - ay) * (px - ax)

LEMMA TurnInt ==
  ASSUME NEW ax \in Int, NEW ay \in Int, NEW bx \in Int, NEW by \in Int,
         NEW px \in Int, NEW py \in Int
  PROVE  /\ TurnOf(ax, ay, bx, by, px, py) \in Int
         /\ TurnOf(bx, by, ax, ay, px, py) = - TurnOf(ax, ay, bx, by, px, py)
         /\ TurnOf(ax, ay, bx, by, ax, ay) = 0
         /\ TurnOf(ax, ay, bx, by, bx, by) = 0
BY DEF TurnOf

(* The height of p over a line is mixed from those of u and v, and the     *)
(* height of p over u, v.                                                  *)
LEMMA Mix ==
  ASSUME NEW ax \in Int, NEW ay \in Int, NEW bx \in Int, NEW by \in Int,
         NEW ux \in Int, NEW uy \in Int, NEW vx \in Int, NEW vy \in Int,
         NEW px \in Int, NEW py \in Int
  PROVE  (vx - ux) * TurnOf(ax, ay, bx, by, px, py) =
           (bx - ax) * TurnOf(ux, uy, vx, vy, px, py)
           + (vx - px) * TurnOf(ax, ay, bx, by, ux, uy)
           + (px - ux) * TurnOf(ax, ay, bx, by, vx, vy)
BY DEF TurnOf

LEMMA Signs ==
  ASSUME NEW a \in Int, NEW b \in Int
  PROVE  /\ a * b \in Int
         /\ (a > 0 /\ b > 0) => a * b > 0
         /\ (a > 0 /\ b < 0) => a * b < 0
         /\ (a >= 0 /\ b >= 0) => a * b >= 0
         /\ (a >= 0 /\ b <= 0) => a * b <= 0
         /\ (a > 0 /\ a * b > 0) => b > 0
         /\ (a > 0 /\ a * b < 0) => b < 0
OBVIOUS

(* A node j of a contour that climbs no steeper than it advances is right  *)
(* of the way from an earlier node a up to z, if it is not higher than a   *)
(* or under the descent of slope -1 from z.                                *)
LEMMA FanTurn ==
  ASSUME NEW ax \in Int, NEW ay \in Int, NEW zx \in Int, NEW zy \in Int,
         NEW jx \in Int, NEW jy \in Int,
         ax <= zx, ay < zy, ax < jx, jy < zy, jy - ay <= jx - ax,
         jy <= ay \/ zy - jy > zx - jx
  PROVE  TurnOf(ax, ay, zx, zy, jx, jy) < 0
<1> DEFINE A == zx - ax
           B == zy - ay
           d == jx - ax
           e == jy - ay
<1>1. /\ A \in Int /\ B \in Int /\ d \in Int /\ e \in Int /\ A >= 0 /\ B > 0 /\ d > 0 /\ e <= d /\ e < B
      /\ e <= 0 \/ B - e > A - d
  OBVIOUS
<1>2. TurnOf(ax, ay, zx, zy, jx, jy) = A * e - B * d
  BY DEF TurnOf
<1> HIDE DEF A, B, d, e
<1>3. A * e < B * d
  <2>1. CASE e <= 0
    <3>1. A * e <= 0 /\ B * d > 0
      BY <1>1, <2>1, Signs
    <3> QED BY <1>1, <3>1
  <2>2. CASE e > 0 /\ A < d
    BY <1>1, <2>2
  <2>3. CASE e > 0 /\ A >= d /\ B - e > A - d
    BY <1>1, <2>3
  <2> QED BY <1>1, <2>1, <2>2, <2>3
<1>4. A * e \in Int /\ B * d \in Int
  BY <1>1
<1> QED BY <1>2, <1>3, <1>4

Opposite(s, t) == (s > 0 /\ t < 0) \/ (s < 0 /\ t > 0)

(* The second of two segments is not under the first over the columns they *)
(* share; both run to the right.                                           *)
StackedOf(ax, ay, bx, by, px, py, qx, qy) ==
  /\ ax <= bx /\ px <= qx
  /\ (ax < bx /\ ax <= px /\ px <= bx) => TurnOf(ax, ay, bx, by, px, py) >= 0
  /\ (ax < bx /\ ax <= qx /\ qx <= bx) => TurnOf(ax, ay, bx, by, qx, qy) >= 0
  /\ (px < qx /\ px <= ax /\ ax <= qx) => TurnOf(px, py, qx, qy, ax, ay) <= 0
  /\ (px < qx /\ px <= bx /\ bx <= qx) => TurnOf(px, py, qx, qy, bx, by) <= 0

CrossingOf(ax, ay, bx, by, px, py, qx, qy) ==
  /\ Opposite(TurnOf(ax, ay, bx, by, px, py), TurnOf(ax, ay, bx, by, qx, qy))
  /\ Opposite(TurnOf(px, py, qx, qy, ax, ay), TurnOf(px, py, qx, qy, bx, by))

LEMMA SegmentsApart ==
  ASSUME NEW ax \in Int, NEW ay \in Int, NEW bx \in Int, NEW by \in Int,
         NEW px \in Int, NEW py \in Int, NEW qx \in Int, NEW qy \in Int,
         StackedOf(ax, ay, bx, by, px, py, qx, qy)
  PROVE  ~ CrossingOf(ax, ay, bx, by, px, py, qx, qy)
<1> DEFINE s1 == TurnOf(ax, ay, bx, by, px, py)
           s2 == TurnOf(ax, ay, bx, by, qx, qy)
           s3 == TurnOf(px, py, qx, qy, ax, ay)
           s4 == TurnOf(px, py, qx, qy, bx, by)
<1> SUFFICES ASSUME Opposite(s1, s2), Opposite(s3, s4) PROVE FALSE
  BY DEF CrossingOf
<1>7. /\ ax <= bx /\ px <= qx
      /\ (ax < bx /\ ax <= px /\ px <= bx) => s1 >= 0
      /\ (ax < bx /\ ax <= qx /\ qx <= bx) => s2 >= 0
      /\ (px < qx /\ px <= ax /\ ax <= qx) => s3 <= 0
      /\ (px < qx /\ px <= bx /\ bx <= qx) => s4 <= 0
  BY DEF StackedOf
<1>1. s1 \in Int /\ s2 \in Int /\ s3 \in Int /\ s4 \in Int
  BY TurnInt
<1>2. s2 - s1 = s3 - s4
  BY DEF TurnOf
<1>6. s3 * bx - s4 * ax = s2 * px - s1 * qx
  BY DEF TurnOf
<1> HIDE DEF s1, s2, s3, s4
<1>3. CASE ax = bx
  <2>1. s1 = - ((by - ay) * (px - ax)) /\ s2 = - ((by - ay) * (qx - ax))
    BY <1>3 DEF TurnOf, s1, s2
  <2> DEFINE d == by - ay
             e == px - ax
             f == qx - ax
  <2>2. d \in Int /\ e \in Int /\ f \in Int /\ e <= f /\ s1 = - (d * e) /\ s2 = - (d * f)
    BY <1>7, <2>1
  <2> HIDE DEF d, e, f
  <2>3. e < 0 /\ f > 0
    BY <2>2 DEF Opposite
  <2>4. px < ax /\ ax < qx
    BY <2>3 DEF e, f
  <2> QED BY <1>1, <1>3, <1>7, <2>4 DEF Opposite
<1>4. CASE px = qx
  <2>1. s3 = - ((qy - py) * (ax - px)) /\ s4 = - ((qy - py) * (bx - px))
    BY <1>4 DEF TurnOf, s3, s4
  <2> DEFINE d == qy - py
             e == ax - px
             f == bx - px
  <2>2. d \in Int /\ e \in Int /\ f \in Int /\ e <= f /\ s3 = - (d * e) /\ s4 = - (d * f)
    BY <1>7, <2>1
  <2> HIDE DEF d, e, f
  <2>3. e < 0 /\ f > 0
    BY <2>2 DEF Opposite
  <2>4. ax < px /\ px < bx
    BY <2>3 DEF e, f
  <2> QED BY <1>1, <1>4, <1>7, <2>4 DEF Opposite
<1>5. CASE ax < bx /\ px < qx
  <2>1. bx < px \/ qx < ax
    <3>1. CASE s1 > 0 /\ s2 < 0
      <4>1. s3 < 0 /\ s4 > 0
        BY <1>1, <1>2, <3>1 DEF Opposite
      <4>2. (qx < ax \/ qx > bx) /\ (bx < px \/ bx > qx)
        BY <1>1, <1>5, <1>7, <3>1, <4>1
      <4> QED BY <1>5, <4>2
    <3>2. CASE s1 < 0 /\ s2 > 0
      <4>1. s3 > 0 /\ s4 < 0
        BY <1>1, <1>2, <3>2 DEF Opposite
      <4>2. (px < ax \/ px > bx) /\ (ax < px \/ ax > qx)
        BY <1>1, <1>5, <1>7, <3>2, <4>1
      <4> QED BY <1>5, <4>2
    <3> QED BY <3>1, <3>2 DEF Opposite
  <2>2. ASSUME NEW m \in Int, NEW n \in Int, NEW t1 \in Int, NEW t2 \in Int,
               m > 0, n > 0, m + n = t1 + t2, t1 > 0, t2 > 0,
               m * bx + n * ax = t2 * px + t1 * qx
        PROVE  ~ bx < px /\ ~ qx < ax
    <3>1. ASSUME NEW lo \in Int, NEW hi \in Int, ax <= lo, bx <= lo, hi <= px, hi <= qx, lo < hi PROVE FALSE
      <4>1. m * bx <= m * lo /\ n * ax <= n * lo /\ t2 * hi <= t2 * px /\ t1 * hi <= t1 * qx
        BY <2>2, <3>1
      <4>2. m * lo + n * lo = (m + n) * lo /\ t2 * hi + t1 * hi = (m + n) * hi /\ (m + n) * lo < (m + n) * hi
        BY <2>2, <3>1
      <4>3. /\ m * bx \in Int /\ n * ax \in Int /\ t2 * px \in Int /\ t1 * qx \in Int
            /\ m * lo \in Int /\ n * lo \in Int /\ t2 * hi \in Int /\ t1 * hi \in Int
        BY <3>1
      <4> QED BY <2>2, <4>1, <4>2, <4>3
    <3>2. ASSUME NEW lo \in Int, NEW hi \in Int, px <= lo, qx <= lo, hi <= ax, hi <= bx, lo < hi PROVE FALSE
      <4>1. m * hi <= m * bx /\ n * hi <= n * ax /\ t2 * px <= t2 * lo /\ t1 * qx <= t1 * lo
        BY <2>2, <3>2
      <4>2. m * hi + n * hi = (m + n) * hi /\ t2 * lo + t1 * lo = (m + n) * lo /\ (m + n) * lo < (m + n) * hi
        BY <2>2, <3>2
      <4>3. /\ m * bx \in Int /\ n * ax \in Int /\ t2 * px \in Int /\ t1 * qx \in Int
            /\ m * hi \in Int /\ n * hi \in Int /\ t2 * lo \in Int /\ t1 * lo \in Int
        BY <3>2
      <4> QED BY <2>2, <4>1, <4>2, <4>3
    <3>3. ~ bx < px
      BY <1>5, <3>1
    <3>4. ~ qx < ax
      BY <1>5, <3>2
    <3> QED BY <3>3, <3>4
  <2>3. CASE s1 > 0 /\ s2 < 0
    <3>1. s3 < 0 /\ s4 > 0
      BY <1>1, <1>2, <2>3 DEF Opposite
    <3>2. /\ - s3 \in Int /\ s4 \in Int /\ s1 \in Int /\ - s2 \in Int
          /\ - s3 > 0 /\ s4 > 0 /\ s1 > 0 /\ - s2 > 0 /\ (- s3) + s4 = s1 + (- s2)
      BY <1>1, <1>2, <2>3, <3>1
    <3>3. (- s3) * bx + s4 * ax = (- s2) * px + s1 * qx
      <4>1. (- s3) * bx = - (s3 * bx) /\ (- s2) * px = - (s2 * px)
        BY <1>1
      <4>2. s3 * bx \in Int /\ s4 * ax \in Int /\ s2 * px \in Int /\ s1 * qx \in Int
        BY <1>1
      <4> QED BY <1>6, <4>1, <4>2
    <3> QED BY <2>1, <2>2, <3>2, <3>3
  <2>4. CASE s1 < 0 /\ s2 > 0
    <3>1. s3 > 0 /\ s4 < 0
      BY <1>1, <1>2, <2>4 DEF Opposite
    <3>2. /\ s3 \in Int /\ - s4 \in Int /\ - s1 \in Int /\ s2 \in Int
          /\ s3 > 0 /\ - s4 > 0 /\ - s1 > 0 /\ s2 > 0 /\ s3 + (- s4) = (- s1) + s2
      BY <1>1, <1>2, <2>4, <3>1
    <3>3. s3 * bx + (- s4) * ax = s2 * px + (- s1) * qx
      <4>1. (- s4) * ax = - (s4 * ax) /\ (- s1) * qx = - (s1 * qx)
        BY <1>1
      <4>2. s3 * bx \in Int /\ s4 * ax \in Int /\ s2 * px \in Int /\ s1 * qx \in Int
        BY <1>1
      <4> QED BY <1>6, <4>1, <4>2
    <3> QED BY <2>1, <2>2, <3>2, <3>3
  <2> QED BY <2>3, <2>4 DEF Opposite
<1> QED BY <1>3, <1>4, <1>5, <1>7

(* A point z over the line through a and b is over the segment from u to v *)
(* if, over the columns they share, that one is not over the segment from  *)
(* a to b.                                                                 *)
LEMMA OverBoth ==
  ASSUME NEW ax \in Int, NEW ay \in Int, NEW bx \in Int, NEW by \in Int,
         NEW ux \in Int, NEW uy \in Int, NEW vx \in Int, NEW vy \in Int,
         NEW zx \in Int, NEW zy \in Int,
         ax < bx, ux < vx, ax <= zx, zx <= bx, ux <= zx, zx <= vx,
         TurnOf(ax, ay, bx, by, zx, zy) > 0,
         ux <= ax => TurnOf(ux, uy, vx, vy, ax, ay) >= 0,
         bx <= vx => TurnOf(ux, uy, vx, vy, bx, by) >= 0,
         ax <= ux => TurnOf(ax, ay, bx, by, ux, uy) <= 0,
         vx <= bx => TurnOf(ax, ay, bx, by, vx, vy) <= 0
  PROVE  TurnOf(ux, uy, vx, vy, zx, zy) > 0
<1> DEFINE abz == TurnOf(ax, ay, bx, by, zx, zy)
           uvz == TurnOf(ux, uy, vx, vy, zx, zy)
           uva == TurnOf(ux, uy, vx, vy, ax, ay)
           uvb == TurnOf(ux, uy, vx, vy, bx, by)
           abu == TurnOf(ax, ay, bx, by, ux, uy)
           abv == TurnOf(ax, ay, bx, by, vx, vy)
<1>1. /\ abz \in Int /\ uvz \in Int /\ uva \in Int /\ uvb \in Int /\ abu \in Int /\ abv \in Int
      /\ abz > 0
  BY TurnInt
<1>2. /\ ux <= ax => uva >= 0
      /\ bx <= vx => uvb >= 0
      /\ ax <= ux => abu <= 0
      /\ vx <= bx => abv <= 0
  OBVIOUS
<1>3. CASE ux <= ax /\ bx <= vx
  <2>1. (bx - ax) * uvz = (vx - ux) * abz + (bx - zx) * uva + (zx - ax) * uvb
    BY Mix
  <2> HIDE DEF abz, uvz, uva, uvb, abu, abv
  <2>2. (vx - ux) * abz > 0 /\ (vx - ux) * abz \in Int
    BY <1>1, Signs
  <2>3. /\ (bx - zx) * uva >= 0 /\ (bx - zx) * uva \in Int
        /\ (zx - ax) * uvb >= 0 /\ (zx - ax) * uvb \in Int
    BY <1>1, <1>2, <1>3, Signs
  <2>4. (bx - ax) * uvz > 0
    BY <2>1, <2>2, <2>3
  <2>5. uvz > 0
    BY <1>1, <2>4, Signs
  <2> QED BY <2>5 DEF uvz
<1>4. CASE ax <= ux /\ vx <= bx
  <2>1. (vx - ux) * abz = (bx - ax) * uvz + (vx - zx) * abu + (zx - ux) * abv
    BY Mix
  <2> HIDE DEF abz, uvz, uva, uvb, abu, abv
  <2>2. (vx - ux) * abz > 0 /\ (vx - ux) * abz \in Int
    BY <1>1, Signs
  <2>3. /\ (vx - zx) * abu <= 0 /\ (vx - zx) * abu \in Int
        /\ (zx - ux) * abv <= 0 /\ (zx - ux) * abv \in Int
    BY <1>1, <1>2, <1>4, Signs
  <2>4. (bx - ax) * uvz \in Int
    BY <1>1
  <2>5. (bx - ax) * uvz > 0
    BY <2>1, <2>2, <2>3, <2>4
  <2>6. uvz > 0
    BY <1>1, <2>5, Signs
  <2> QED BY <2>6 DEF uvz
<1>5. CASE ux <= ax /\ vx <= bx
  <2>1. CASE ax = vx
    <3>1. zx = ax /\ zx = vx
      BY <2>1
    <3>2. /\ abz = (bx - ax) * (zy - ay) /\ uvz = (vx - ux) * (zy - vy)
          /\ uva = (vx - ux) * (ay - vy)
      <4>1. abz = (bx - ax) * (zy - ay)
        BY <3>1 DEF TurnOf
      <4>2. uvz = (vx - ux) * (zy - vy)
        BY <3>1 DEF TurnOf
      <4>3. uva = (vx - ux) * (ay - vy)
        BY <2>1 DEF TurnOf
      <4> QED BY <4>1, <4>2, <4>3
    <3> HIDE DEF abz, uvz, uva, uvb, abu, abv
    <3>3. zy - ay > 0
      <4>1. bx - ax > 0 /\ bx - ax \in Int /\ zy - ay \in Int
        OBVIOUS
      <4> QED BY <1>1, <3>2, <4>1, Signs
    <3>4. ay - vy >= 0
      <4>1. vx - ux > 0 /\ vx - ux \in Int /\ ay - vy \in Int
        OBVIOUS
      <4>2. ~ (vx - ux) * (ay - vy) < 0
        BY <1>1, <1>2, <1>5, <3>2
      <4>3. ~ ay - vy < 0
        BY <4>1, <4>2, Signs
      <4> QED BY <4>1, <4>3
    <3>5. zy - vy > 0 /\ vx - ux > 0 /\ vx - ux \in Int /\ zy - vy \in Int
      BY <3>3, <3>4
    <3>6. uvz > 0
      BY <3>2, <3>5, Signs
    <3> QED BY <3>6 DEF uvz
  <2>2. CASE ax < vx
    <3> DEFINE avz == TurnOf(ax, ay, vx, vy, zx, zy)
    <3>1. /\ avz \in Int
          /\ TurnOf(ux, uy, vx, vy, vx, vy) = 0 /\ TurnOf(ax, ay, bx, by, ax, ay) = 0
      <4>1. avz \in Int
        BY TurnInt
      <4>2. TurnOf(ux, uy, vx, vy, vx, vy) = 0
        BY DEF TurnOf
      <4>3. TurnOf(ax, ay, bx, by, ax, ay) = 0
        BY DEF TurnOf
      <4> QED BY <4>1, <4>2, <4>3
    <3>2. (vx - ax) * uvz = (vx - ux) * avz + (vx - zx) * uva + (zx - ax) * TurnOf(ux, uy, vx, vy, vx, vy)
      BY Mix
    <3>3. (vx - ax) * abz = (bx - ax) * avz + (vx - zx) * TurnOf(ax, ay, bx, by, ax, ay) + (zx - ax) * abv
      BY Mix
    <3> HIDE DEF abz, uvz, uva, uvb, abu, abv, avz
    <3>4. /\ (zx - ax) * 0 = 0 /\ (vx - zx) * 0 = 0
          /\ (vx - ax) * abz > 0 /\ (vx - ax) * abz \in Int
          /\ (zx - ax) * abv <= 0 /\ (zx - ax) * abv \in Int
          /\ (vx - zx) * uva >= 0 /\ (vx - zx) * uva \in Int
          /\ (bx - ax) * avz \in Int /\ (vx - ux) * avz \in Int
      BY <1>1, <1>2, <1>5, <2>2, <3>1, Signs
    <3>5. (bx - ax) * avz > 0
      BY <3>1, <3>3, <3>4
    <3>6. avz > 0
      <4>1. bx - ax > 0 /\ bx - ax \in Int
        OBVIOUS
      <4> QED BY <3>1, <3>5, <4>1, Signs
    <3>7. (vx - ux) * avz > 0
      BY <3>1, <3>6, Signs
    <3>8. (vx - ax) * uvz > 0
      BY <3>1, <3>2, <3>4, <3>7
    <3>9. uvz > 0
      <4>1. vx - ax > 0 /\ vx - ax \in Int
        BY <2>2
      <4> QED BY <1>1, <3>8, <4>1, Signs
    <3> QED BY <3>9 DEF uvz
  <2> QED BY <2>1, <2>2
<1>6. CASE ax <= ux /\ bx <= vx
  <2>1. CASE ux = bx
    <3>1. zx = bx /\ zx = ux
      BY <2>1
    <3>2. /\ abz = (bx - ax) * (zy - by) /\ uvz = (vx - ux) * (zy - uy)
          /\ uvb = (vx - ux) * (by - uy)
      <4>1. abz = (bx - ax) * (zy - by)
        BY <3>1 DEF TurnOf
      <4>2. uvz = (vx - ux) * (zy - uy)
        BY <3>1 DEF TurnOf
      <4>3. uvb = (vx - ux) * (by - uy)
        BY <2>1 DEF TurnOf
      <4> QED BY <4>1, <4>2, <4>3
    <3> HIDE DEF abz, uvz, uva, uvb, abu, abv
    <3>3. zy - by > 0
      <4>1. bx - ax > 0 /\ bx - ax \in Int /\ zy - by \in Int
        OBVIOUS
      <4> QED BY <1>1, <3>2, <4>1, Signs
    <3>4. by - uy >= 0
      <4>1. vx - ux > 0 /\ vx - ux \in Int /\ by - uy \in Int
        OBVIOUS
      <4>2. ~ (vx - ux) * (by - uy) < 0
        BY <1>1, <1>2, <1>6, <3>2
      <4>3. ~ by - uy < 0
        BY <4>1, <4>2, Signs
      <4> QED BY <4>1, <4>3
    <3>5. zy - uy > 0 /\ vx - ux > 0 /\ vx - ux \in Int /\ zy - uy \in Int
      BY <3>3, <3>4
    <3>6. uvz > 0
      BY <3>2, <3>5, Signs
    <3> QED BY <3>6 DEF uvz
  <2>2. CASE ux < bx
    <3> DEFINE ubz == TurnOf(ux, uy, bx, by, zx, zy)
    <3>1. /\ ubz \in Int
          /\ TurnOf(ux, uy, vx, vy, ux, uy) = 0 /\ TurnOf(ax, ay, bx, by, bx, by) = 0
      <4>1. ubz \in Int
        BY TurnInt
      <4>2. TurnOf(ux, uy, vx, vy, ux, uy) = 0
        BY DEF TurnOf
      <4>3. TurnOf(ax, ay, bx, by, bx, by) = 0
        BY DEF TurnOf
      <4> QED BY <4>1, <4>2, <4>3
    <3>2. (bx - ux) * uvz = (vx - ux) * ubz + (bx - zx) * TurnOf(ux, uy, vx, vy, ux, uy) + (zx - ux) * uvb
      BY Mix
    <3>3. (bx - ux) * abz = (bx - ax) * ubz + (bx - zx) * abu + (zx - ux) * TurnOf(ax, ay, bx, by, bx, by)
      BY Mix
    <3> HIDE DEF abz, uvz, uva, uvb, abu, abv, ubz
    <3>4. /\ (bx - zx) * 0 = 0 /\ (zx - ux) * 0 = 0
          /\ (bx - ux) * abz > 0 /\ (bx - ux) * abz \in Int
          /\ (bx - zx) * abu <= 0 /\ (bx - zx) * abu \in Int
          /\ (zx - ux) * uvb >= 0 /\ (zx - ux) * uvb \in Int
          /\ (bx - ax) * ubz \in Int /\ (vx - ux) * ubz \in Int
      BY <1>1, <1>2, <1>6, <2>2, <3>1, Signs
    <3>5. (bx - ax) * ubz > 0
      BY <3>1, <3>3, <3>4
    <3>6. ubz > 0
      <4>1. bx - ax > 0 /\ bx - ax \in Int
        OBVIOUS
      <4> QED BY <3>1, <3>5, <4>1, Signs
    <3>7. (vx - ux) * ubz > 0
      BY <3>1, <3>6, Signs
    <3>8. (bx - ux) * uvz > 0
      BY <3>1, <3>2, <3>4, <3>7
    <3>9. uvz > 0
      <4>1. bx - ux > 0 /\ bx - ux \in Int
        BY <2>2
      <4> QED BY <1>1, <3>8, <4>1, Signs
    <3> QED BY <3>9 DEF uvz
  <2> QED BY <2>1, <2>2
<1> QED BY <1>3, <1>4, <1>5, <1>6

(* The other side of FanTurn: z descends to a.                             *)
LEMMA FanTurnRight ==
  ASSUME NEW ax \in Int, NEW ay \in Int, NEW zx \in Int, NEW zy \in Int,
         NEW jx \in Int, NEW jy \in Int,
         zx <= ax, ay < zy, jx < ax, jy < zy, jy - ay <= ax - jx,
         jy <= ay \/ zy - jy > jx - zx
  PROVE  TurnOf(zx, zy, ax, ay, jx, jy) < 0
<1>1. TurnOf(- ax, ay, - zx, zy, - jx, jy) < 0
  <2>1. /\ - ax \in Int /\ - zx \in Int /\ - jx \in Int
        /\ - ax <= - zx /\ - ax < - jx /\ jy - ay <= (- jx) - (- ax)
        /\ jy <= ay \/ zy - jy > (- zx) - (- jx)
    OBVIOUS
  <2> QED BY <2>1, FanTurn
<1>2. TurnOf(- ax, ay, - zx, zy, - jx, jy) = TurnOf(zx, zy, ax, ay, jx, jy)
  BY DEF TurnOf
<1> QED BY <1>1, <1>2

(* What is right of the way from u to v is right of the way from a to b,   *)
(* if u and v are not left of it.                                          *)
LEMMA UnderBoth ==
  ASSUME NEW ax \in Int, NEW ay \in Int, NEW bx \in Int, NEW by \in Int,
         NEW ux \in Int, NEW uy \in Int, NEW vx \in Int, NEW vy \in Int,
         NEW px \in Int, NEW py \in Int,
         ax < bx, ux < vx, ux <= px, px <= vx,
         TurnOf(ux, uy, vx, vy, px, py) < 0,
         TurnOf(ax, ay, bx, by, ux, uy) <= 0,
         TurnOf(ax, ay, bx, by, vx, vy) <= 0
  PROVE  TurnOf(ax, ay, bx, by, px, py) < 0
<1> DEFINE abp == TurnOf(ax, ay, bx, by, px, py)
           uvp == TurnOf(ux, uy, vx, vy, px, py)
           abu == TurnOf(ax, ay, bx, by, ux, uy)
           abv == TurnOf(ax, ay, bx, by, vx, vy)
<1>1. /\ abp \in Int /\ uvp \in Int /\ abu \in Int /\ abv \in Int
      /\ uvp < 0 /\ abu <= 0 /\ abv <= 0
  BY TurnInt
<1>2. (vx - ux) * abp = (bx - ax) * uvp + (vx - px) * abu + (px - ux) * abv
  BY Mix
<1> HIDE DEF abp, uvp, abu, abv
<1>3. (bx - ax) * uvp < 0 /\ (bx - ax) * uvp \in Int
  BY <1>1, Signs
<1>4. /\ (vx - px) * abu <= 0 /\ (vx - px) * abu \in Int
      /\ (px - ux) * abv <= 0 /\ (px - ux) * abv \in Int
  BY <1>1, Signs
<1>5. (vx - ux) * abp < 0
  BY <1>2, <1>3, <1>4
<1>6. abp < 0
  <2>1. vx - ux > 0 /\ vx - ux \in Int
    OBVIOUS
  <2> QED BY <1>1, <1>5, <2>1, Signs
<1> QED BY <1>6 DEF abp

(* A point under a segment is under what both ends are under; a point that *)
(* both ends are under is over the segment.                                *)
LEMMA UnderLevel ==
  ASSUME NEW ax \in Int, NEW ay \in Int, NEW bx \in Int, NEW by \in Int,
         NEW px \in Int, NEW py \in Int, NEW top \in Int,
         ax < bx, ax <= px, px <= bx, ay < top, by < top
  PROVE  /\ TurnOf(ax, ay, bx, by, px, py) < 0 => py < top
         /\ TurnOf(ax, ay, bx, by, px, top) > 0
<1>1. TurnOf(ax, ay, bx, by, px, top) > 0
  <2> DEFINE d == bx - px
             e == px - ax
             f == top - ay
             g == top - by
  <2>1. /\ d \in Int /\ e \in Int /\ f \in Int /\ g \in Int
        /\ d >= 0 /\ e >= 0 /\ f > 0 /\ g > 0 /\ d + e > 0
    OBVIOUS
  <2>2. TurnOf(ax, ay, bx, by, px, top) = d * f + e * g
    BY DEF TurnOf
  <2> HIDE DEF d, e, f, g
  <2>3. /\ d * f \in Int /\ e * g \in Int /\ d * f >= 0 /\ e * g >= 0
        /\ d > 0 => d * f > 0
        /\ e > 0 => e * g > 0
    BY <2>1, Signs
  <2> QED BY <2>1, <2>2, <2>3
<1>2. ASSUME TurnOf(ax, ay, bx, by, px, py) < 0, py >= top PROVE FALSE
  <2>1. TurnOf(ax, ay, bx, by, px, py) = TurnOf(ax, ay, bx, by, px, top) + (bx - ax) * (py - top)
    BY DEF TurnOf
  <2>2. (bx - ax) * (py - top) >= 0 /\ (bx - ax) * (py - top) \in Int
    BY <1>2, Signs
  <2>3. TurnOf(ax, ay, bx, by, px, top) \in Int
    BY TurnInt
  <2> QED BY <1>1, <1>2, <2>1, <2>2, <2>3
<1> QED BY <1>1, <1>2

-----------------------------------------------------------------------------
(***************************************************************************)
(* Nodes at the places Q[v], h[v], and edges between them.                 *)
(***************************************************************************)
Points(Q, h, V) == \A v \in V : Q[v] \in Int /\ h[v] \in Int

Turn(Q, h, a, b, p) == TurnOf(Q[a], h[a], Q[b], h[b], Q[p], h[p])

Over(Q, h, a, b, p) ==
  \/ Q[a] < Q[b] /\ Turn(Q, h, a, b, p) > 0
  \/ Q[b] < Q[a] /\ Turn(Q, h, b, a, p) > 0
  \/ Q[a] = Q[b] /\ h[a] < h[p] /\ h[b] < h[p]

Under(Q, h, a, b, p) ==
  \/ Q[a] < Q[b] /\ Turn(Q, h, a, b, p) < 0
  \/ Q[b] < Q[a] /\ Turn(Q, h, b, a, p) < 0
  \/ Q[a] = Q[b] /\ h[p] < h[a] /\ h[p] < h[b]

OnEdge(Q, h, a, b, p) ==
  /\ Turn(Q, h, a, b, p) = 0
  /\ Between(Q[a], Q[b], Q[p])
  /\ Between(h[a], h[b], h[p])

Crossing(Q, h, a, b, p, q) ==
  /\ Opposite(Turn(Q, h, a, b, p), Turn(Q, h, a, b, q))
  /\ Opposite(Turn(Q, h, p, q, a), Turn(Q, h, p, q, b))

LEMMA TurnFlips ==
  ASSUME NEW V, NEW Q, NEW h, Points(Q, h, V), NEW a \in V, NEW b \in V, NEW p \in V
  PROVE  /\ Turn(Q, h, a, b, p) \in Int
         /\ Turn(Q, h, b, a, p) = - Turn(Q, h, a, b, p)
<1>1. /\ Q[a] \in Int /\ Q[b] \in Int /\ Q[p] \in Int
      /\ h[a] \in Int /\ h[b] \in Int /\ h[p] \in Int
  BY DEF Points
<1>2. ASSUME NEW ax \in Int, NEW ay \in Int, NEW bx \in Int, NEW by \in Int,
             NEW px \in Int, NEW py \in Int
      PROVE  /\ TurnOf(ax, ay, bx, by, px, py) \in Int
             /\ TurnOf(bx, by, ax, ay, px, py) = - TurnOf(ax, ay, bx, by, px, py)
  BY TurnInt
<1>3. Turn(Q, h, a, b, p) \in Int
  BY <1>1, <1>2 DEF Turn
<1>4. Turn(Q, h, b, a, p) = - Turn(Q, h, a, b, p)
  <2>1. PICK ax \in Int, bx \in Int, px \in Int : ax = Q[a] /\ bx = Q[b] /\ px = Q[p]
    BY <1>1
  <2>2. PICK ay \in Int, by \in Int, py \in Int : ay = h[a] /\ by = h[b] /\ py = h[p]
    BY <1>1
  <2>3. TurnOf(bx, by, ax, ay, px, py) = - TurnOf(ax, ay, bx, by, px, py)
    BY <1>2, SMTT(20)
  <2> QED BY <2>1, <2>2, <2>3 DEF Turn
<1> QED BY <1>3, <1>4

LEMMA TurnAt ==
  ASSUME NEW Q, NEW h, NEW a, NEW b, Q[a] \in Int, h[a] \in Int, Q[b] \in Int, h[b] \in Int
  PROVE  Turn(Q, h, a, b, a) = 0 /\ Turn(Q, h, a, b, b) = 0
<1>1. ASSUME NEW ax \in Int, NEW ay \in Int, NEW bx \in Int, NEW by \in Int
      PROVE  TurnOf(ax, ay, bx, by, ax, ay) = 0 /\ TurnOf(ax, ay, bx, by, bx, by) = 0
  BY DEF TurnOf
<1> QED BY <1>1 DEF Turn

LEMMA TurnAtEnds ==
  ASSUME NEW V, NEW Q, NEW h, Points(Q, h, V), NEW a \in V, NEW b \in V
  PROVE  Turn(Q, h, a, b, a) = 0 /\ Turn(Q, h, a, b, b) = 0
BY TurnAt DEF Points

LEMMA OffEdge ==
  ASSUME NEW V, NEW Q, NEW h, Points(Q, h, V), NEW a \in V, NEW b \in V, NEW p \in V,
         Over(Q, h, a, b, p) \/ Under(Q, h, a, b, p)
  PROVE  ~ OnEdge(Q, h, a, b, p)
<1>1. /\ Turn(Q, h, a, b, p) \in Int
      /\ Turn(Q, h, b, a, p) = - Turn(Q, h, a, b, p)
  BY TurnFlips
<1>2. /\ Q[a] \in Int /\ Q[b] \in Int /\ Q[p] \in Int
      /\ h[a] \in Int /\ h[b] \in Int /\ h[p] \in Int
  BY DEF Points
<1> QED BY <1>1, <1>2 DEF Over, Under, OnEdge, Between

LEMMA Flipped ==
  ASSUME NEW V, NEW Q, NEW h, Points(Q, h, V), NEW a \in V, NEW b \in V, NEW p \in V
  PROVE  /\ Over(Q, h, a, b, p) <=> Over(Q, h, b, a, p)
         /\ Under(Q, h, a, b, p) <=> Under(Q, h, b, a, p)
         /\ Between(Q[a], Q[b], Q[p]) <=> Between(Q[b], Q[a], Q[p])
BY DEF Over, Under, Between

(* The second of two edges is not under the first where they share a       *)
(* column.                                                                 *)
Stacked(Q, h, a, b, p, q) ==
  /\ Between(Q[a], Q[b], Q[p]) => p \in {a, b} \/ Over(Q, h, a, b, p)
  /\ Between(Q[a], Q[b], Q[q]) => q \in {a, b} \/ Over(Q, h, a, b, q)
  /\ Between(Q[p], Q[q], Q[a]) => a \in {p, q} \/ Under(Q, h, p, q, a)
  /\ Between(Q[p], Q[q], Q[b]) => b \in {p, q} \/ Under(Q, h, p, q, b)

LEMMA StackedRight ==
  ASSUME NEW V, NEW Q, NEW h, Points(Q, h, V),
         NEW a \in V, NEW b \in V, NEW p \in V, NEW q \in V,
         Stacked(Q, h, a, b, p, q), Q[a] <= Q[b], Q[p] <= Q[q]
  PROVE  ~ Crossing(Q, h, a, b, p, q)
<1> DEFINE s1 == Turn(Q, h, a, b, p)
           s2 == Turn(Q, h, a, b, q)
           s3 == Turn(Q, h, p, q, a)
           s4 == Turn(Q, h, p, q, b)
<1>1. /\ Q[a] \in Int /\ Q[b] \in Int /\ Q[p] \in Int /\ Q[q] \in Int
      /\ h[a] \in Int /\ h[b] \in Int /\ h[p] \in Int /\ h[q] \in Int
  BY DEF Points
<1>2. s1 \in Int /\ s2 \in Int /\ s3 \in Int /\ s4 \in Int
  BY TurnFlips
<1>3. /\ p \in {a, b} => s1 = 0
      /\ q \in {a, b} => s2 = 0
      /\ a \in {p, q} => s3 = 0
      /\ b \in {p, q} => s4 = 0
  BY TurnAtEnds
<1> HIDE DEF s1, s2, s3, s4
<1>4. (Q[a] < Q[b] /\ Q[a] <= Q[p] /\ Q[p] <= Q[b]) => s1 >= 0
  BY <1>1, <1>2, <1>3 DEF Stacked, Between, Over, s1
<1>5. (Q[a] < Q[b] /\ Q[a] <= Q[q] /\ Q[q] <= Q[b]) => s2 >= 0
  BY <1>1, <1>2, <1>3 DEF Stacked, Between, Over, s2
<1>6. (Q[p] < Q[q] /\ Q[p] <= Q[a] /\ Q[a] <= Q[q]) => s3 <= 0
  BY <1>1, <1>2, <1>3 DEF Stacked, Between, Under, s3
<1>7. (Q[p] < Q[q] /\ Q[p] <= Q[b] /\ Q[b] <= Q[q]) => s4 <= 0
  BY <1>1, <1>2, <1>3 DEF Stacked, Between, Under, s4
<1>8. ~ (Opposite(s1, s2) /\ Opposite(s3, s4))
  <2>1. /\ s1 = TurnOf(Q[a], h[a], Q[b], h[b], Q[p], h[p])
        /\ s2 = TurnOf(Q[a], h[a], Q[b], h[b], Q[q], h[q])
        /\ s3 = TurnOf(Q[p], h[p], Q[q], h[q], Q[a], h[a])
        /\ s4 = TurnOf(Q[p], h[p], Q[q], h[q], Q[b], h[b])
    BY DEF s1, s2, s3, s4, Turn
  <2>2. StackedOf(Q[a], h[a], Q[b], h[b], Q[p], h[p], Q[q], h[q])
    BY <1>4, <1>5, <1>6, <1>7, <2>1 DEF StackedOf
  <2>3. ~ CrossingOf(Q[a], h[a], Q[b], h[b], Q[p], h[p], Q[q], h[q])
    BY <1>1, <2>2, SegmentsApart
  <2> QED BY <2>1, <2>3 DEF CrossingOf
<1> QED BY <1>8 DEF Crossing, s1, s2, s3, s4

LEMMA StackedApart ==
  ASSUME NEW V, NEW Q, NEW h, Points(Q, h, V),
         NEW a \in V, NEW b \in V, NEW p \in V, NEW q \in V,
         Stacked(Q, h, a, b, p, q)
  PROVE  ~ Crossing(Q, h, a, b, p, q)
<1>1. /\ Q[a] \in Int /\ Q[b] \in Int /\ Q[p] \in Int /\ Q[q] \in Int
  BY DEF Points
<1>2. /\ Turn(Q, h, b, a, p) = - Turn(Q, h, a, b, p) /\ Turn(Q, h, a, b, p) \in Int
      /\ Turn(Q, h, b, a, q) = - Turn(Q, h, a, b, q) /\ Turn(Q, h, a, b, q) \in Int
      /\ Turn(Q, h, q, p, a) = - Turn(Q, h, p, q, a) /\ Turn(Q, h, p, q, a) \in Int
      /\ Turn(Q, h, q, p, b) = - Turn(Q, h, p, q, b) /\ Turn(Q, h, p, q, b) \in Int
  BY TurnFlips
<1>3. /\ Crossing(Q, h, b, a, p, q) <=> Crossing(Q, h, a, b, p, q)
      /\ Crossing(Q, h, a, b, q, p) <=> Crossing(Q, h, a, b, p, q)
      /\ Crossing(Q, h, b, a, q, p) <=> Crossing(Q, h, a, b, p, q)
  BY <1>2 DEF Crossing, Opposite
<1>4. /\ Stacked(Q, h, b, a, p, q) /\ Stacked(Q, h, a, b, q, p) /\ Stacked(Q, h, b, a, q, p)
  BY Flipped DEF Stacked
<1>5. CASE Q[a] <= Q[b] /\ Q[p] <= Q[q]
  BY <1>5, StackedRight
<1>6. CASE Q[a] <= Q[b] /\ Q[q] <= Q[p]
  BY <1>3, <1>4, <1>6, StackedRight
<1>7. CASE Q[b] <= Q[a] /\ Q[p] <= Q[q]
  BY <1>3, <1>4, <1>7, StackedRight
<1>8. CASE Q[b] <= Q[a] /\ Q[q] <= Q[p]
  BY <1>3, <1>4, <1>8, StackedRight
<1> QED BY <1>1, <1>5, <1>6, <1>7, <1>8

-----------------------------------------------------------------------------
(***************************************************************************)
(* A set z placed over the section con[a], ..., con[b] of the contour con  *)
(* of a drawing of the nodes V with the edges E.                           *)
(***************************************************************************)
RisingIn(Q, s) == \A i, j \in 1..Len(s) : i < j => Q[s[i]] < Q[s[j]]

(* Where the set lies over the section: above it and within its columns;   *)
(* the section climbs no steeper than it advances, and a node of it is     *)
(* not higher than those before it or under the descent of slope -1 from   *)
(* z[1], and so to the right.                                              *)
SetOver(Q, h, V, con, a, b, z) ==
  /\ Len(con) \in Nat /\ a \in 1..Len(con) /\ b \in 1..Len(con) /\ a < b
  /\ Len(z) \in Nat \ {0}
  /\ \A i \in 1..Len(con) : con[i] \in V
  /\ \A q \in 1..Len(z) : z[q] \notin V
  /\ Points(Q, h, V)
  /\ \A q \in 1..Len(z) : Q[z[q]] \in Int /\ h[z[q]] = h[z[1]]
  /\ h[z[1]] \in Int
  /\ RisingIn(Q, con) /\ RisingIn(Q, z)
  /\ Q[con[a]] < Q[z[1]] /\ Q[z[Len(z)]] < Q[con[b]]
  /\ \A j \in a..b : h[con[j]] < h[z[1]]
  /\ \A i, j \in a..b : i < j =>
       /\ h[con[j]] - h[con[i]] <= Q[con[j]] - Q[con[i]]
       /\ h[con[i]] - h[con[j]] <= Q[con[j]] - Q[con[i]]
       /\ h[con[j]] <= h[con[i]] \/ h[z[1]] - h[con[j]] > Q[z[1]] - Q[con[j]]
       /\ h[con[i]] <= h[con[j]] \/ h[z[1]] - h[con[i]] > Q[con[i]] - Q[z[Len(z)]]

Reaches(Q, e, w) == Between(Q[e[1]], Q[e[2]], Q[w])
EndOf(e, w) == w = e[1] \/ w = e[2]

UnderContour(Q, h, V, con) ==
  \A i \in 2..Len(con), w \in V :
    Reaches(Q, << con[i - 1], con[i] >>, w) =>
      EndOf(<< con[i - 1], con[i] >>, w) \/ Under(Q, h, con[i - 1], con[i], w)

OverEdges(Q, h, E, con) ==
  \A i \in 1..Len(con), e \in E :
    Reaches(Q, e, con[i]) => EndOf(e, con[i]) \/ Over(Q, h, e[1], e[2], con[i])

LEMMA Around ==
  ASSUME NEW Q, NEW con, NEW lo \in Int, NEW hi \in Int, lo < hi,
         \A i \in lo..hi : Q[con[i]] \in Int,
         NEW t \in Int, Q[con[lo]] <= t, t <= Q[con[hi]]
  PROVE  \E j \in (lo + 1)..hi : Q[con[j - 1]] <= t /\ t <= Q[con[j]]
<1> SUFFICES ASSUME \A j \in (lo + 1)..hi : ~ (Q[con[j - 1]] <= t /\ t <= Q[con[j]]) PROVE FALSE
  OBVIOUS
<1> DEFINE T == {i \in Int : Q[con[i]] <= t}
<1>1. lo \in T
  OBVIOUS
<1>2. \A i \in lo..(hi - 1) : i \in T => i + 1 \in T
  <2> SUFFICES ASSUME NEW i \in lo..(hi - 1), i \in T PROVE i + 1 \in T
    OBVIOUS
  <2>1. i + 1 \in (lo + 1)..hi /\ i + 1 \in lo..hi /\ (i + 1) - 1 = i
    OBVIOUS
  <2>2. ~ t <= Q[con[i + 1]] /\ Q[con[i + 1]] \in Int
    BY <2>1
  <2> QED BY <2>1, <2>2
<1> HIDE DEF T
<1>3. \A i \in lo..hi : i \in T
  BY <1>1, <1>2, Upwards
<1>4. hi - 1 \in T /\ hi \in (lo + 1)..hi
  BY <1>3
<1> QED BY <1>4 DEF T

(* The edge of the section over or under a column of it.                   *)
LEMMA SectionEdge ==
  ASSUME NEW Q, NEW h, NEW V, NEW con, NEW a, NEW b, NEW z, SetOver(Q, h, V, con, a, b, z),
         NEW lo \in a..b, NEW hi \in a..b, lo < hi,
         NEW t \in Int, Q[con[lo]] <= t, t <= Q[con[hi]]
  PROVE  \E j \in (lo + 1)..hi :
           /\ j \in 2..Len(con) /\ j \in a..b /\ j - 1 \in a..b /\ j - 1 \in 1..Len(con)
           /\ j \in 1..Len(con) /\ con[j - 1] \in V /\ con[j] \in V
           /\ Q[con[j - 1]] \in Int /\ Q[con[j]] \in Int
           /\ Q[con[j - 1]] < Q[con[j]]
           /\ Q[con[j - 1]] <= t /\ t <= Q[con[j]]
<1>1. /\ Len(con) \in Nat /\ a \in 1..Len(con) /\ b \in 1..Len(con)
      /\ \A i \in 1..Len(con) : con[i] \in V
      /\ Points(Q, h, V) /\ RisingIn(Q, con)
  BY DEF SetOver
<1>2. lo \in Int /\ hi \in Int /\ \A i \in lo..hi : Q[con[i]] \in Int
  <2>1. \A i \in lo..hi : i \in 1..Len(con)
    BY <1>1
  <2> QED BY <1>1, <2>1 DEF Points
<1>3. PICK j \in (lo + 1)..hi : Q[con[j - 1]] <= t /\ t <= Q[con[j]]
  BY <1>2, Around
<1>4. /\ j \in 2..Len(con) /\ j \in a..b /\ j - 1 \in a..b /\ j - 1 \in 1..Len(con)
      /\ j \in 1..Len(con) /\ j - 1 < j
  BY <1>1
<1>5. con[j - 1] \in V /\ con[j] \in V /\ Q[con[j - 1]] < Q[con[j]]
  BY <1>1, <1>4 DEF RisingIn
<1> QED BY <1>1, <1>3, <1>4, <1>5 DEF Points

(* A node of the drawing in a column of the section is lower than the set. *)
LEMMA UnderTop ==
  ASSUME NEW Q, NEW h, NEW V, NEW con, NEW a, NEW b, NEW z, SetOver(Q, h, V, con, a, b, z),
         UnderContour(Q, h, V, con), NEW w \in V, Q[con[a]] <= Q[w], Q[w] <= Q[con[b]]
  PROVE  h[w] < h[z[1]]
<1>1. /\ Len(con) \in Nat /\ a \in 1..Len(con) /\ b \in 1..Len(con) /\ a < b
      /\ Points(Q, h, V) /\ h[z[1]] \in Int
      /\ \A j \in a..b : h[con[j]] < h[z[1]]
  BY DEF SetOver
<1>2. /\ Q[w] \in Int /\ h[w] \in Int /\ a \in a..b /\ b \in a..b
  BY <1>1 DEF Points
<1>3. PICK j \in (a + 1)..b :
           /\ j \in 2..Len(con) /\ j \in a..b /\ j - 1 \in a..b
           /\ con[j - 1] \in V /\ con[j] \in V
           /\ Q[con[j - 1]] \in Int /\ Q[con[j]] \in Int
           /\ Q[con[j - 1]] < Q[con[j]]
           /\ Q[con[j - 1]] <= Q[w] /\ Q[w] <= Q[con[j]]
  BY <1>1, <1>2, SectionEdge
<1>4. /\ h[con[j - 1]] \in Int /\ h[con[j]] \in Int
      /\ h[con[j - 1]] < h[z[1]] /\ h[con[j]] < h[z[1]]
  BY <1>1, <1>3 DEF Points
<1>5. w = con[j - 1] \/ w = con[j] \/ Under(Q, h, con[j - 1], con[j], w)
  BY <1>3 DEF UnderContour, Reaches, EndOf, Between
<1>6. CASE Under(Q, h, con[j - 1], con[j], w)
  <2>1. TurnOf(Q[con[j - 1]], h[con[j - 1]], Q[con[j]], h[con[j]], Q[w], h[w]) < 0
    BY <1>3, <1>6 DEF Under, Turn
  <2> QED BY <1>1, <1>2, <1>3, <1>4, <2>1, UnderLevel
<1> QED BY <1>4, <1>5, <1>6

(* The set's columns and the places of its nodes.                          *)
LEMMA SetColumns ==
  ASSUME NEW Q, NEW h, NEW V, NEW con, NEW a, NEW b, NEW z, SetOver(Q, h, V, con, a, b, z)
  PROVE  /\ a \in a..b /\ b \in a..b /\ a \in Int /\ b \in Int /\ a < b
         /\ Len(z) \in Nat \ {0} /\ 1 \in 1..Len(z) /\ Len(z) \in 1..Len(z)
         /\ h[z[1]] \in Int
         /\ \A q \in 1..Len(z) : /\ Q[z[q]] \in Int /\ h[z[q]] = h[z[1]] /\ z[q] \notin V
                                 /\ Q[z[1]] <= Q[z[q]] /\ Q[z[q]] <= Q[z[Len(z)]]
                                 /\ Q[con[a]] < Q[z[q]] /\ Q[z[q]] < Q[con[b]]
         /\ \A i \in a..b : /\ i \in 1..Len(con) /\ con[i] \in V
                            /\ Q[con[i]] \in Int /\ h[con[i]] \in Int /\ h[con[i]] < h[z[1]]
                            /\ Q[con[a]] <= Q[con[i]] /\ Q[con[i]] <= Q[con[b]]
         /\ \A i, j \in a..b : i < j => Q[con[i]] < Q[con[j]]
<1>1. /\ Len(con) \in Nat /\ a \in 1..Len(con) /\ b \in 1..Len(con) /\ a < b
      /\ Len(z) \in Nat \ {0}
      /\ \A i \in 1..Len(con) : con[i] \in V
      /\ \A q \in 1..Len(z) : z[q] \notin V
      /\ Points(Q, h, V)
      /\ \A q \in 1..Len(z) : Q[z[q]] \in Int /\ h[z[q]] = h[z[1]]
      /\ h[z[1]] \in Int
      /\ Q[con[a]] < Q[z[1]] /\ Q[z[Len(z)]] < Q[con[b]]
      /\ \A j \in a..b : h[con[j]] < h[z[1]]
  BY DEF SetOver
<1>2. /\ \A i, j \in 1..Len(con) : i < j => Q[con[i]] < Q[con[j]]
      /\ \A i, j \in 1..Len(z) : i < j => Q[z[i]] < Q[z[j]]
  BY DEF SetOver, RisingIn
<1>3. a \in a..b /\ b \in a..b /\ a \in Int /\ b \in Int /\ 1 \in 1..Len(z) /\ Len(z) \in 1..Len(z)
  BY <1>1
<1>4. \A i \in a..b : /\ i \in 1..Len(con) /\ con[i] \in V
                      /\ Q[con[i]] \in Int /\ h[con[i]] \in Int /\ h[con[i]] < h[z[1]]
  BY <1>1, SMTT(20) DEF Points
<1>5. \A i \in a..b : Q[con[a]] <= Q[con[i]] /\ Q[con[i]] <= Q[con[b]]
  <2> SUFFICES ASSUME NEW i \in a..b PROVE Q[con[a]] <= Q[con[i]] /\ Q[con[i]] <= Q[con[b]]
    OBVIOUS
  <2>1. (i = a \/ a < i) /\ (i = b \/ i < b)
    BY <1>3
  <2> QED BY <1>1, <1>2, <1>3, <1>4, <2>1, SMTT(20)
<1>6. \A q \in 1..Len(z) : Q[z[1]] <= Q[z[q]] /\ Q[z[q]] <= Q[z[Len(z)]]
  <2> SUFFICES ASSUME NEW q \in 1..Len(z) PROVE Q[z[1]] <= Q[z[q]] /\ Q[z[q]] <= Q[z[Len(z)]]
    OBVIOUS
  <2>1. (q = 1 \/ 1 < q) /\ (q = Len(z) \/ q < Len(z))
    BY <1>1
  <2> QED BY <1>1, <1>2, <1>3, <2>1, SMTT(20)
<1>7. \A q \in 1..Len(z) : Q[con[a]] < Q[z[q]] /\ Q[z[q]] < Q[con[b]]
  <2> SUFFICES ASSUME NEW q \in 1..Len(z) PROVE Q[con[a]] < Q[z[q]] /\ Q[z[q]] < Q[con[b]]
    OBVIOUS
  <2>1. Q[con[a]] \in Int /\ Q[con[b]] \in Int
    BY <1>3, <1>4
  <2>2. Q[z[1]] \in Int /\ Q[z[Len(z)]] \in Int /\ Q[z[q]] \in Int
    BY <1>1, <1>3
  <2>3. /\ Q[con[a]] < Q[z[1]] /\ Q[z[Len(z)]] < Q[con[b]]
        /\ Q[z[1]] <= Q[z[q]] /\ Q[z[q]] <= Q[z[Len(z)]]
    BY <1>1, <1>6
  <2> QED BY <2>1, <2>2, <2>3
<1>8. \A i, j \in a..b : i < j => Q[con[i]] < Q[con[j]]
  BY <1>2, <1>4
<1> QED BY <1>1, <1>3, <1>4, <1>5, <1>6, <1>7, <1>8

LEMMA FanLeft ==
  ASSUME NEW Q, NEW h, NEW V, NEW con, NEW a, NEW b, NEW z, SetOver(Q, h, V, con, a, b, z),
         NEW i \in a..b, NEW j \in a..b, i < j, Q[con[i]] <= Q[z[1]]
  PROVE  Turn(Q, h, con[i], z[1], con[j]) < 0
<1>1. /\ Q[con[i]] \in Int /\ h[con[i]] \in Int /\ Q[con[j]] \in Int /\ h[con[j]] \in Int
      /\ h[con[i]] < h[z[1]] /\ h[con[j]] < h[z[1]] /\ Q[con[i]] < Q[con[j]]
      /\ Q[z[1]] \in Int /\ h[z[1]] \in Int
  BY SetColumns
<1>2. /\ h[con[j]] - h[con[i]] <= Q[con[j]] - Q[con[i]]
      /\ h[con[j]] <= h[con[i]] \/ h[z[1]] - h[con[j]] > Q[z[1]] - Q[con[j]]
  BY DEF SetOver
<1>3. TurnOf(Q[con[i]], h[con[i]], Q[z[1]], h[z[1]], Q[con[j]], h[con[j]]) < 0
  BY <1>1, <1>2, FanTurn
<1> QED BY <1>3 DEF Turn

LEMMA FanRight ==
  ASSUME NEW Q, NEW h, NEW V, NEW con, NEW a, NEW b, NEW z, SetOver(Q, h, V, con, a, b, z),
         NEW i \in a..b, NEW j \in a..b, j < i, Q[z[Len(z)]] <= Q[con[i]]
  PROVE  Turn(Q, h, z[Len(z)], con[i], con[j]) < 0
<1> DEFINE m == Len(z)
<1>1. /\ Q[con[i]] \in Int /\ h[con[i]] \in Int /\ Q[con[j]] \in Int /\ h[con[j]] \in Int
      /\ h[con[i]] < h[z[1]] /\ h[con[j]] < h[z[1]] /\ Q[con[j]] < Q[con[i]]
      /\ m \in 1..Len(z) /\ h[z[1]] \in Int
  BY SetColumns
<1>2. Q[z[m]] \in Int /\ h[z[m]] = h[z[1]]
  BY <1>1, SetColumns
<1>3. /\ h[con[j]] - h[con[i]] <= Q[con[i]] - Q[con[j]]
      /\ h[con[j]] <= h[con[i]] \/ h[z[1]] - h[con[j]] > Q[con[j]] - Q[z[m]]
  BY DEF SetOver
<1> HIDE DEF m
<1>4. TurnOf(Q[z[m]], h[z[m]], Q[con[i]], h[con[i]], Q[con[j]], h[con[j]]) < 0
  BY <1>1, <1>2, <1>3, FanTurnRight DEF m
<1> QED BY <1>4 DEF Turn, m

(* A node of the drawing in a column of an edge from the section up to the *)
(* set is an end of it or lies under it: the edge rises to the right,      *)
(* falls to the right, or is vertical.                                     *)
LEMMA RisingSpoke ==
  ASSUME NEW Q, NEW h, NEW V, NEW con, NEW a, NEW b, NEW z, SetOver(Q, h, V, con, a, b, z),
         UnderContour(Q, h, V, con), NEW w \in V, NEW i \in a..b,
         Q[con[i]] < Q[z[1]], Q[con[i]] <= Q[w], Q[w] <= Q[z[1]]
  PROVE  w = con[i] \/ Turn(Q, h, con[i], z[1], w) < 0
<1>1. /\ a \in Int /\ b \in Int /\ b \in a..b /\ 1 \in 1..Len(z) /\ h[z[1]] \in Int
      /\ Q[con[i]] \in Int /\ h[con[i]] \in Int
  BY SetColumns
<1>2. Q[z[1]] < Q[con[b]] /\ Q[z[1]] \in Int /\ Q[con[b]] \in Int
  BY <1>1, SetColumns
<1>3. Q[w] \in Int /\ h[w] \in Int
  BY DEF SetOver, Points
<1>4. i < b /\ Q[w] <= Q[con[b]]
  BY <1>1, <1>2, <1>3
<1>12. Q[con[i]] <= Q[z[1]]
  BY <1>1, <1>2
<1>5. PICK j \in (i + 1)..b :
           /\ j \in 2..Len(con) /\ j \in a..b /\ j - 1 \in a..b
           /\ con[j - 1] \in V /\ con[j] \in V
           /\ Q[con[j - 1]] \in Int /\ Q[con[j]] \in Int
           /\ Q[con[j - 1]] < Q[con[j]]
           /\ Q[con[j - 1]] <= Q[w] /\ Q[w] <= Q[con[j]]
  BY <1>1, <1>3, <1>4, SectionEdge
<1>6. i < j /\ (i = j - 1 \/ i < j - 1)
  <2>1. i \in Int /\ j \in Int /\ i + 1 <= j
    BY <1>1, <1>5
  <2> QED BY <2>1
<1>7. Turn(Q, h, con[i], z[1], con[j]) < 0
  BY <1>5, <1>6, <1>12, FanLeft
<1>8. CASE w = con[j]
  BY <1>7, <1>8
<1>9. CASE w = con[j - 1]
  <2>1. CASE i < j - 1
    <3>1. Turn(Q, h, con[i], z[1], con[j - 1]) < 0
      BY <1>5, <1>12, <2>1, FanLeft
    <3> QED BY <1>9, <3>1
  <2> QED BY <1>6, <1>9, <2>1
<1>10. CASE Under(Q, h, con[j - 1], con[j], w)
  <2>1. /\ h[con[j - 1]] \in Int /\ h[con[j]] \in Int
    BY <1>5, SetColumns
  <2>2. TurnOf(Q[con[j - 1]], h[con[j - 1]], Q[con[j]], h[con[j]], Q[w], h[w]) < 0
    BY <1>5, <1>10 DEF Under, Turn
  <2>3. Turn(Q, h, con[i], z[1], con[j - 1]) <= 0
    <3>1. CASE i < j - 1
      <4>1. Turn(Q, h, con[i], z[1], con[j - 1]) < 0
        BY <1>5, <1>12, <3>1, FanLeft
      <4>2. Turn(Q, h, con[i], z[1], con[j - 1]) \in Int
        BY <1>1, <1>2, <1>5, <2>1, TurnInt DEF Turn
      <4> QED BY <4>1, <4>2
    <3>2. CASE i = j - 1
      <4>1. Turn(Q, h, con[i], z[1], con[i]) = 0
        BY <1>1, <1>2, TurnAt
      <4> QED BY <3>2, <4>1
    <3> QED BY <1>6, <3>1, <3>2
  <2>4. Turn(Q, h, con[i], z[1], con[j]) <= 0
    <3>1. Turn(Q, h, con[i], z[1], con[j]) \in Int
      BY <1>1, <1>2, <1>5, <2>1, TurnInt DEF Turn
    <3> QED BY <1>7, <3>1
  <2>5. TurnOf(Q[con[i]], h[con[i]], Q[z[1]], h[z[1]], Q[w], h[w]) < 0
    <3>1. /\ TurnOf(Q[con[i]], h[con[i]], Q[z[1]], h[z[1]], Q[con[j - 1]], h[con[j - 1]]) <= 0
          /\ TurnOf(Q[con[i]], h[con[i]], Q[z[1]], h[z[1]], Q[con[j]], h[con[j]]) <= 0
      BY <2>3, <2>4 DEF Turn
    <3> QED BY <1>1, <1>2, <1>3, <1>5, <2>1, <2>2, <3>1, UnderBoth
  <2> QED BY <2>5 DEF Turn
<1>11. w = con[j - 1] \/ w = con[j] \/ Under(Q, h, con[j - 1], con[j], w)
  BY <1>5 DEF UnderContour, Reaches, EndOf, Between
<1> QED BY <1>8, <1>9, <1>10, <1>11

LEMMA FallingSpoke ==
  ASSUME NEW Q, NEW h, NEW V, NEW con, NEW a, NEW b, NEW z, SetOver(Q, h, V, con, a, b, z),
         UnderContour(Q, h, V, con), NEW w \in V, NEW i \in a..b, NEW m, m = Len(z),
         Q[z[m]] < Q[con[i]], Q[z[m]] <= Q[w], Q[w] <= Q[con[i]]
  PROVE  w = con[i] \/ Turn(Q, h, z[m], con[i], w) < 0
<1>1. /\ a \in Int /\ b \in Int /\ a \in a..b /\ m \in 1..Len(z)
      /\ Q[con[i]] \in Int /\ h[con[i]] \in Int /\ h[z[1]] \in Int
  BY SetColumns
<1>2. Q[con[a]] < Q[z[m]] /\ Q[z[m]] \in Int /\ Q[con[a]] \in Int /\ h[z[m]] \in Int
  <2>1. h[z[m]] = h[z[1]]
    BY <1>1, SetColumns
  <2> QED BY <1>1, <2>1, SetColumns
<1>3. Q[w] \in Int /\ h[w] \in Int
  BY DEF SetOver, Points
<1>4. a < i /\ Q[con[a]] <= Q[w]
  BY <1>1, <1>2, <1>3, SMTT(20)
<1>5. PICK j \in (a + 1)..i :
           /\ j \in 2..Len(con) /\ j \in a..b /\ j - 1 \in a..b
           /\ con[j - 1] \in V /\ con[j] \in V
           /\ Q[con[j - 1]] \in Int /\ Q[con[j]] \in Int
           /\ Q[con[j - 1]] < Q[con[j]]
           /\ Q[con[j - 1]] <= Q[w] /\ Q[w] <= Q[con[j]]
  BY <1>1, <1>3, <1>4, SectionEdge
<1>6. j - 1 < i /\ (i = j \/ j < i)
  BY <1>1, <1>5
<1>7. Turn(Q, h, z[m], con[i], con[j - 1]) < 0
  <2>1. Q[z[Len(z)]] <= Q[con[i]]
    BY <1>1, <1>2
  <2> QED BY <1>5, <1>6, <2>1, FanRight
<1>8. CASE w = con[j - 1]
  BY <1>7, <1>8
<1>12. j < i => Turn(Q, h, z[m], con[i], con[j]) < 0
  <2>1. Q[z[Len(z)]] <= Q[con[i]]
    BY <1>1, <1>2, SMTT(20)
  <2> QED BY <1>5, <2>1, FanRight
<1>9. CASE w = con[j]
  BY <1>6, <1>9, <1>12
<1>10. CASE Under(Q, h, con[j - 1], con[j], w)
  <2>1. /\ h[con[j - 1]] \in Int /\ h[con[j]] \in Int
    BY <1>5, SetColumns
  <2>2. TurnOf(Q[con[j - 1]], h[con[j - 1]], Q[con[j]], h[con[j]], Q[w], h[w]) < 0
    BY <1>5, <1>10 DEF Under, Turn
  <2>3. Turn(Q, h, z[m], con[i], con[j]) <= 0
    <3>1. CASE j < i
      <4>1. Turn(Q, h, z[m], con[i], con[j]) \in Int
        BY <1>1, <1>2, <1>5, <2>1, TurnInt DEF Turn
      <4> QED BY <1>12, <3>1, <4>1
    <3>2. CASE i = j
      <4>1. Turn(Q, h, z[m], con[i], con[i]) = 0
        BY <1>1, <1>2, TurnAt
      <4> QED BY <3>2, <4>1
    <3> QED BY <1>6, <3>1, <3>2
  <2>4. Turn(Q, h, z[m], con[i], con[j - 1]) <= 0
    <3>1. Turn(Q, h, z[m], con[i], con[j - 1]) \in Int
      BY <1>1, <1>2, <1>5, <2>1, TurnInt DEF Turn
    <3> QED BY <1>7, <3>1
  <2>5. TurnOf(Q[z[m]], h[z[m]], Q[con[i]], h[con[i]], Q[w], h[w]) < 0
    <3>1. /\ TurnOf(Q[z[m]], h[z[m]], Q[con[i]], h[con[i]], Q[con[j - 1]], h[con[j - 1]]) <= 0
          /\ TurnOf(Q[z[m]], h[z[m]], Q[con[i]], h[con[i]], Q[con[j]], h[con[j]]) <= 0
      BY <2>3, <2>4 DEF Turn
    <3>2. /\ Q[z[m]] \in Int /\ h[z[m]] \in Int /\ Q[con[i]] \in Int /\ h[con[i]] \in Int
          /\ Q[con[j - 1]] \in Int /\ h[con[j - 1]] \in Int /\ Q[con[j]] \in Int /\ h[con[j]] \in Int
          /\ Q[w] \in Int /\ h[w] \in Int
          /\ Q[z[m]] < Q[con[i]] /\ Q[con[j - 1]] < Q[con[j]]
          /\ Q[con[j - 1]] <= Q[w] /\ Q[w] <= Q[con[j]]
      BY <1>1, <1>2, <1>3, <1>5, <2>1
    <3>3. TurnOf(Q[con[j - 1]], h[con[j - 1]], Q[con[j]], h[con[j]], Q[w], h[w]) < 0
      BY <2>2
    <3>4. PICK ax \in Int, ay \in Int, bx \in Int, by \in Int, ux \in Int, uy \in Int,
               vx \in Int, vy \in Int, px \in Int, py \in Int :
            /\ ax = Q[z[m]] /\ ay = h[z[m]] /\ bx = Q[con[i]] /\ by = h[con[i]]
            /\ ux = Q[con[j - 1]] /\ uy = h[con[j - 1]] /\ vx = Q[con[j]] /\ vy = h[con[j]]
            /\ px = Q[w] /\ py = h[w]
      BY <3>2
    <3>5. /\ ax < bx /\ ux < vx /\ ux <= px /\ px <= vx
          /\ TurnOf(ux, uy, vx, vy, px, py) < 0
          /\ TurnOf(ax, ay, bx, by, ux, uy) <= 0
          /\ TurnOf(ax, ay, bx, by, vx, vy) <= 0
      BY <3>1, <3>2, <3>3, <3>4
    <3>6. TurnOf(ax, ay, bx, by, px, py) < 0
      BY <3>5, UnderBoth
    <3> QED BY <3>4, <3>6
  <2> QED BY <2>5 DEF Turn
<1>11. w = con[j - 1] \/ w = con[j] \/ Under(Q, h, con[j - 1], con[j], w)
  BY <1>5 DEF UnderContour, Reaches, EndOf, Between
<1> QED BY <1>8, <1>9, <1>10, <1>11

LEMMA VerticalSpoke ==
  ASSUME NEW Q, NEW h, NEW V, NEW con, NEW a, NEW b, NEW z, SetOver(Q, h, V, con, a, b, z),
         UnderContour(Q, h, V, con), NEW w \in V, NEW i \in a..b,
         Q[con[i]] = Q[z[1]], Q[w] = Q[z[1]]
  PROVE  w = con[i] \/ h[w] < h[con[i]]
<1>1. /\ a \in Int /\ b \in Int /\ b \in a..b /\ 1 \in 1..Len(z)
      /\ Q[con[i]] \in Int /\ h[con[i]] \in Int
  BY SetColumns
<1>2. Q[z[1]] < Q[con[b]] /\ Q[z[1]] \in Int /\ Q[con[b]] \in Int
  BY <1>1, SetColumns
<1>3. Q[w] \in Int /\ h[w] \in Int
  BY DEF SetOver, Points
<1>4. i < b /\ Q[con[i]] <= Q[w] /\ Q[w] <= Q[con[b]]
  BY <1>1, <1>2, <1>3
<1>5. PICK j \in (i + 1)..b :
           /\ j \in 2..Len(con) /\ j \in a..b /\ j - 1 \in a..b
           /\ con[j - 1] \in V /\ con[j] \in V
           /\ Q[con[j - 1]] \in Int /\ Q[con[j]] \in Int
           /\ Q[con[j - 1]] < Q[con[j]]
           /\ Q[con[j - 1]] <= Q[w] /\ Q[w] <= Q[con[j]]
  BY <1>1, <1>3, <1>4, SectionEdge
<1>6. j - 1 = i
  <2>1. i = j - 1 \/ i < j - 1
    BY <1>1, <1>5
  <2>2. i < j - 1 => Q[con[i]] < Q[con[j - 1]]
    <3>1. \A f, g \in a..b : f < g => Q[con[f]] < Q[con[g]]
      BY SetColumns
    <3> QED BY <1>5, <3>1
  <2> QED BY <1>1, <1>3, <1>4, <1>5, <2>1, <2>2, SMTT(20)
<1>7. w # con[j]
  BY <1>1, <1>5, <1>6
<1>8. CASE Under(Q, h, con[j - 1], con[j], w)
  <2>1. /\ h[con[j - 1]] \in Int /\ h[con[j]] \in Int
    BY <1>5, SetColumns
  <2>2. TurnOf(Q[con[i]], h[con[i]], Q[con[j]], h[con[j]], Q[con[i]], h[w]) < 0
    BY <1>5, <1>6, <1>8 DEF Under, Turn
  <2>3. TurnOf(Q[con[i]], h[con[i]], Q[con[j]], h[con[j]], Q[con[i]], h[w])
          = (Q[con[j]] - Q[con[i]]) * (h[w] - h[con[i]])
    <3>1. ASSUME NEW p \in Int, NEW q \in Int, NEW s \in Int, NEW t \in Int, NEW u \in Int
          PROVE  TurnOf(p, q, s, t, p, u) = (s - p) * (u - q)
      BY DEF TurnOf
    <3>2. PICK p \in Int, q \in Int, s \in Int, t \in Int, u \in Int :
            p = Q[con[i]] /\ q = h[con[i]] /\ s = Q[con[j]] /\ t = h[con[j]] /\ u = h[w]
      BY <1>1, <1>3, <1>5, <2>1
    <3>3. TurnOf(p, q, s, t, p, u) = (s - p) * (u - q)
      BY <3>1
    <3> QED BY <3>2, <3>3
  <2> DEFINE d == Q[con[j]] - Q[con[i]]
             g == h[w] - h[con[i]]
  <2>6. Q[con[i]] < Q[con[j]]
    BY <1>5, <1>6
  <2>7. d \in Int /\ g \in Int /\ d > 0
    <3>1. Q[con[i]] \in Int /\ Q[con[j]] \in Int /\ h[w] \in Int /\ h[con[i]] \in Int
      BY <1>1, <1>3, <1>5
    <3> QED BY <2>6, <3>1
  <2>8. d * g < 0
    BY <2>2, <2>3
  <2>4. d \in Int /\ g \in Int /\ d > 0 /\ d * g < 0
    BY <2>7, <2>8
  <2> HIDE DEF d, g
  <2>5. g < 0
    BY <2>4, Signs
  <2> QED BY <1>1, <1>3, <2>5 DEF g
<1>9. w = con[j - 1] \/ w = con[j] \/ Under(Q, h, con[j - 1], con[j], w)
  BY <1>5 DEF UnderContour, Reaches, EndOf, Between
<1> QED BY <1>6, <1>7, <1>8, <1>9

(* The edges of the set: its chain, the edges to its left and its right    *)
(* node, and for a single node the edges to all it covers.                 *)
SpokeAt(a, b, z, i, q) ==
  /\ i \in a..b /\ q \in 1..Len(z)
  /\ (i = a /\ q = 1) \/ (i = b /\ q = Len(z)) \/ Len(z) = 1

SetEdge(con, a, b, z, e) ==
  \/ \E q \in 1..(Len(z) - 1) : e = << z[q], z[q + 1] >>
  \/ \E i, q : SpokeAt(a, b, z, i, q) /\ (e = << con[i], z[q] >> \/ e = << z[q], con[i] >>)

LEMMA SpokeUnder ==
  ASSUME NEW Q, NEW h, NEW V, NEW con, NEW a, NEW b, NEW z, SetOver(Q, h, V, con, a, b, z),
         UnderContour(Q, h, V, con), NEW w \in V, NEW i, NEW q, SpokeAt(a, b, z, i, q),
         Between(Q[con[i]], Q[z[q]], Q[w])
  PROVE  w = con[i] \/ Under(Q, h, con[i], z[q], w)
<1> DEFINE m == Len(z)
<1>1. /\ i \in a..b /\ q \in 1..m /\ m \in Nat \ {0} /\ m \in 1..m
      /\ Q[con[i]] \in Int /\ h[con[i]] \in Int
      /\ (i = a /\ q = 1) \/ (i = b /\ q = m) \/ m = 1
  BY SetColumns DEF SpokeAt
<1>2. /\ Q[z[q]] \in Int /\ h[z[q]] \in Int /\ h[con[i]] < h[z[q]]
      /\ Q[con[a]] < Q[z[q]] /\ Q[z[q]] < Q[con[b]]
      /\ Q[con[a]] \in Int /\ Q[con[b]] \in Int
  <2>1. h[z[q]] = h[z[1]] /\ h[z[1]] \in Int /\ Q[z[q]] \in Int
    BY <1>1, SetColumns
  <2> QED BY <1>1, <2>1, SetColumns
<1>3. Q[w] \in Int /\ h[w] \in Int
  BY DEF SetOver, Points
<1>4. CASE Q[con[i]] < Q[z[q]]
  <2>1. q = 1
    BY <1>1, <1>2, <1>4
  <2>2. Q[con[i]] <= Q[w] /\ Q[w] <= Q[z[1]]
    BY <1>1, <1>2, <1>3, <1>4, <2>1 DEF Between
  <2>3. w = con[i] \/ Turn(Q, h, con[i], z[1], w) < 0
    BY <1>1, <1>4, <2>1, <2>2, RisingSpoke
  <2> QED BY <1>4, <2>1, <2>3 DEF Under
<1>5. CASE Q[z[q]] < Q[con[i]]
  <2>1. q = m
    <3>1. i # a
      BY <1>2, <1>5
    <3>2. m = 1 => q = m
      BY <1>1
    <3> QED BY <1>1, <3>1, <3>2
  <2>2. Q[z[m]] <= Q[w] /\ Q[w] <= Q[con[i]] /\ Q[z[m]] < Q[con[i]]
    BY <1>1, <1>2, <1>3, <1>5, <2>1 DEF Between
  <2>3. w = con[i] \/ Turn(Q, h, z[m], con[i], w) < 0
    BY <1>1, <2>2, FallingSpoke
  <2> QED BY <1>5, <2>1, <2>3 DEF Under
<1>6. CASE Q[z[q]] = Q[con[i]]
  <2>1. m = 1 /\ q = 1
    BY <1>1, <1>2, <1>6
  <2>2. Q[w] = Q[z[1]] /\ Q[con[i]] = Q[z[1]]
    BY <1>1, <1>2, <1>3, <1>6, <2>1 DEF Between
  <2>3. w = con[i] \/ h[w] < h[con[i]]
    BY <1>1, <2>2, VerticalSpoke
  <2>4. h[w] < h[con[i]] => h[w] < h[z[q]]
    BY <1>1, <1>2, <1>3
  <2> QED BY <1>6, <2>3, <2>4 DEF Under
<1> QED BY <1>1, <1>2, <1>4, <1>5, <1>6

LEMMA FlatUnder ==
  ASSUME NEW Q, NEW h, NEW V, NEW con, NEW a, NEW b, NEW z, SetOver(Q, h, V, con, a, b, z),
         UnderContour(Q, h, V, con), NEW w \in V, NEW q \in 1..(Len(z) - 1),
         Between(Q[z[q]], Q[z[q + 1]], Q[w])
  PROVE  Under(Q, h, z[q], z[q + 1], w)
<1>1. /\ q \in 1..Len(z) /\ q + 1 \in 1..Len(z) /\ q < q + 1
  BY SetColumns
<1>2. /\ Q[z[q]] \in Int /\ Q[z[q + 1]] \in Int /\ h[z[1]] \in Int
      /\ h[z[q]] = h[z[1]] /\ h[z[q + 1]] = h[z[1]]
      /\ Q[con[a]] < Q[z[q]] /\ Q[z[q + 1]] < Q[con[b]]
      /\ Q[con[a]] \in Int /\ Q[con[b]] \in Int
  BY <1>1, SetColumns
<1>3. Q[z[q]] < Q[z[q + 1]]
  BY <1>1 DEF SetOver, RisingIn
<1>4. Q[w] \in Int /\ h[w] \in Int
  BY DEF SetOver, Points
<1>5. Q[con[a]] <= Q[w] /\ Q[w] <= Q[con[b]]
  BY <1>2, <1>3, <1>4, SMTT(20) DEF Between
<1>6. h[w] < h[z[1]]
  BY <1>5, UnderTop
<1>7. ASSUME NEW p \in Int, NEW s \in Int, NEW t \in Int, NEW u \in Int, NEW g \in Int, p < s, u < g
      PROVE  TurnOf(p, g, s, g, t, u) < 0
  <2> DEFINE d == s - p
             n == u - g
  <2>1. d \in Int /\ n \in Int /\ d > 0 /\ n < 0
    BY <1>7
  <2>2. TurnOf(p, g, s, g, t, u) = d * n
    BY DEF TurnOf
  <2> HIDE DEF d, n
  <2> QED BY <2>1, <2>2, Signs
<1>8. TurnOf(Q[z[q]], h[z[q]], Q[z[q + 1]], h[z[q + 1]], Q[w], h[w]) < 0
  BY <1>2, <1>3, <1>4, <1>6, <1>7
<1> QED BY <1>3, <1>8 DEF Under, Turn

(* A node of the drawing in a column of an edge of the set is an end of it *)
(* or lies under it.                                                       *)
LEMMA NewUnder ==
  ASSUME NEW Q, NEW h, NEW V, NEW con, NEW a, NEW b, NEW z, SetOver(Q, h, V, con, a, b, z),
         UnderContour(Q, h, V, con), NEW e, SetEdge(con, a, b, z, e),
         NEW w \in V, Reaches(Q, e, w)
  PROVE  EndOf(e, w) \/ Under(Q, h, e[1], e[2], w)
<1>1. ASSUME NEW q \in 1..(Len(z) - 1), e = << z[q], z[q + 1] >>
      PROVE  Under(Q, h, e[1], e[2], w)
  <2>1. e[1] = z[q] /\ e[2] = z[q + 1]
    BY <1>1
  <2> QED BY <2>1, FlatUnder DEF Reaches
<1>2. ASSUME NEW i, NEW q, SpokeAt(a, b, z, i, q), e = << con[i], z[q] >>
      PROVE  EndOf(e, w) \/ Under(Q, h, e[1], e[2], w)
  <2>1. e[1] = con[i] /\ e[2] = z[q]
    BY <1>2
  <2> QED BY <1>2, <2>1, SpokeUnder DEF Reaches, EndOf
<1>3. ASSUME NEW i, NEW q, SpokeAt(a, b, z, i, q), e = << z[q], con[i] >>
      PROVE  EndOf(e, w) \/ Under(Q, h, e[1], e[2], w)
  <2>1. e[1] = z[q] /\ e[2] = con[i]
    BY <1>3
  <2>2. Between(Q[con[i]], Q[z[q]], Q[w])
    BY <2>1 DEF Reaches, Between
  <2>3. w = con[i] \/ Under(Q, h, con[i], z[q], w)
    BY <1>3, <2>2, SpokeUnder
  <2> QED BY <2>1, <2>3 DEF EndOf, Under
<1> QED BY <1>1, <1>2, <1>3 DEF SetEdge

LEMMA OverRising ==
  ASSUME NEW Q, NEW h, NEW V, NEW con, NEW a, NEW b, NEW z, SetOver(Q, h, V, con, a, b, z),
         UnderContour(Q, h, V, con), NEW u \in V, NEW v \in V, NEW q \in 1..Len(z),
         Q[u] < Q[v], Q[u] <= Q[z[q]], Q[z[q]] <= Q[v],
         \A i \in 1..Len(con) :
           (Q[u] <= Q[con[i]] /\ Q[con[i]] <= Q[v]) => Turn(Q, h, u, v, con[i]) >= 0
  PROVE  Turn(Q, h, u, v, z[q]) > 0
<1>1. /\ Q[u] \in Int /\ h[u] \in Int /\ Q[v] \in Int /\ h[v] \in Int
  BY DEF SetOver, Points
<1>2. /\ Q[z[q]] \in Int /\ h[z[q]] = h[z[1]] /\ h[z[1]] \in Int /\ a \in a..b /\ b \in a..b /\ a < b
      /\ Q[con[a]] <= Q[z[q]] /\ Q[z[q]] <= Q[con[b]]
  <2>1. /\ Q[z[q]] \in Int /\ h[z[q]] = h[z[1]] /\ h[z[1]] \in Int /\ a \in a..b /\ b \in a..b /\ a < b
        /\ Q[con[a]] < Q[z[q]] /\ Q[z[q]] < Q[con[b]]
    BY SetColumns
  <2>2. Q[con[a]] \in Int /\ Q[con[b]] \in Int
    BY <2>1, SetColumns
  <2> QED BY <2>1, <2>2
<1>3. PICK j \in (a + 1)..b :
           /\ j \in 2..Len(con) /\ j \in a..b /\ j - 1 \in a..b /\ j - 1 \in 1..Len(con)
           /\ j \in 1..Len(con) /\ con[j - 1] \in V /\ con[j] \in V
           /\ Q[con[j - 1]] \in Int /\ Q[con[j]] \in Int
           /\ Q[con[j - 1]] < Q[con[j]]
           /\ Q[con[j - 1]] <= Q[z[q]] /\ Q[z[q]] <= Q[con[j]]
  BY <1>2, SectionEdge
<1> DEFINE s == con[j - 1]
           t == con[j]
<1>4. /\ Q[s] \in Int /\ Q[t] \in Int /\ h[s] \in Int /\ h[t] \in Int
      /\ h[s] < h[z[1]] /\ h[t] < h[z[1]]
      /\ Q[s] < Q[t] /\ Q[s] <= Q[z[q]] /\ Q[z[q]] <= Q[t] /\ s \in V /\ t \in V
  BY <1>3, SetColumns
<1>5. TurnOf(Q[s], h[s], Q[t], h[t], Q[z[q]], h[z[q]]) > 0
  <2>1. TurnOf(Q[s], h[s], Q[t], h[t], Q[z[q]], h[z[1]]) > 0
    BY <1>2, <1>4, UnderLevel
  <2> QED BY <1>2, <2>1
<1>6. /\ (Q[u] <= Q[s] /\ Q[s] <= Q[v]) => TurnOf(Q[u], h[u], Q[v], h[v], Q[s], h[s]) >= 0
      /\ (Q[u] <= Q[t] /\ Q[t] <= Q[v]) => TurnOf(Q[u], h[u], Q[v], h[v], Q[t], h[t]) >= 0
  BY <1>3 DEF Turn
<1>7. ASSUME NEW w \in V, Q[s] <= Q[w], Q[w] <= Q[t]
      PROVE  TurnOf(Q[s], h[s], Q[t], h[t], Q[w], h[w]) <= 0
  <2>1. w = s \/ w = t \/ Under(Q, h, s, t, w)
    BY <1>3, <1>7 DEF UnderContour, Reaches, EndOf, Between
  <2>2. Turn(Q, h, s, t, s) = 0 /\ Turn(Q, h, s, t, t) = 0
    BY <1>4, TurnAt
  <2>3. Turn(Q, h, s, t, w) \in Int
    <3>1. Points(Q, h, V)
      BY DEF SetOver
    <3> QED BY <1>4, <3>1, TurnFlips
  <2>4. Turn(Q, h, s, t, w) <= 0
    <3> HIDE DEF s, t
    <3>1. CASE Under(Q, h, s, t, w)
      BY <1>4, <2>3, <3>1 DEF Under
    <3> QED BY <2>1, <2>2, <3>1
  <2> QED BY <2>4 DEF Turn
<1> HIDE DEF s, t
<1>8. /\ Q[s] <= Q[u] => TurnOf(Q[s], h[s], Q[t], h[t], Q[u], h[u]) <= 0
      /\ Q[v] <= Q[t] => TurnOf(Q[s], h[s], Q[t], h[t], Q[v], h[v]) <= 0
      /\ Q[u] <= Q[s] => TurnOf(Q[u], h[u], Q[v], h[v], Q[s], h[s]) >= 0
      /\ Q[t] <= Q[v] => TurnOf(Q[u], h[u], Q[v], h[v], Q[t], h[t]) >= 0
  <2>1. /\ Q[s] <= Q[u] => (Q[s] <= Q[u] /\ Q[u] <= Q[t])
        /\ Q[v] <= Q[t] => (Q[s] <= Q[v] /\ Q[v] <= Q[t])
        /\ Q[u] <= Q[s] => (Q[u] <= Q[s] /\ Q[s] <= Q[v])
        /\ Q[t] <= Q[v] => (Q[u] <= Q[t] /\ Q[t] <= Q[v])
    <3>1. PICK t0 \in Int : t0 = Q[z[q]]
      BY <1>2
    <3>2. Q[u] <= t0 /\ t0 <= Q[v] /\ Q[s] <= t0 /\ t0 <= Q[t]
      BY <1>4, <3>1
    <3> QED BY <1>1, <1>4, <3>2, SMTT(20)
  <2> QED BY <1>6, <1>7, <2>1
<1>9. TurnOf(Q[u], h[u], Q[v], h[v], Q[z[q]], h[z[q]]) > 0
  <2>1. PICK ax \in Int, ay \in Int, bx \in Int, by \in Int :
          ax = Q[s] /\ ay = h[s] /\ bx = Q[t] /\ by = h[t]
    BY <1>4
  <2>2. PICK ux \in Int, uy \in Int, vx \in Int, vy \in Int :
          ux = Q[u] /\ uy = h[u] /\ vx = Q[v] /\ vy = h[v]
    BY <1>1
  <2>3. PICK zx \in Int, zy \in Int : zx = Q[z[q]] /\ zy = h[z[q]]
    BY <1>2
  <2>4. /\ ax < bx /\ ux < vx /\ ax <= zx /\ zx <= bx /\ ux <= zx /\ zx <= vx
        /\ TurnOf(ax, ay, bx, by, zx, zy) > 0
        /\ ux <= ax => TurnOf(ux, uy, vx, vy, ax, ay) >= 0
        /\ bx <= vx => TurnOf(ux, uy, vx, vy, bx, by) >= 0
        /\ ax <= ux => TurnOf(ax, ay, bx, by, ux, uy) <= 0
        /\ vx <= bx => TurnOf(ax, ay, bx, by, vx, vy) <= 0
    BY <1>4, <1>5, <1>8, <2>1, <2>2, <2>3
  <2>5. TurnOf(ux, uy, vx, vy, zx, zy) > 0
    BY <2>4, OverBoth, SMTT(20)
  <2> QED BY <2>2, <2>3, <2>5
<1> QED BY <1>9 DEF Turn

(* A node of the set in a column of an edge of the drawing lies over it.   *)
LEMMA OldOver ==
  ASSUME NEW Q, NEW h, NEW V, NEW con, NEW a, NEW b, NEW z, SetOver(Q, h, V, con, a, b, z),
         UnderContour(Q, h, V, con), NEW E, OverEdges(Q, h, E, con),
         NEW e \in E, e[1] \in V, e[2] \in V, NEW q \in 1..Len(z), Reaches(Q, e, z[q])
  PROVE  Over(Q, h, e[1], e[2], z[q])
<1> DEFINE u == e[1]
           v == e[2]
<1>1. u \in V /\ v \in V /\ Points(Q, h, V) /\ \A i \in 1..Len(con) : con[i] \in V
  BY DEF SetOver
<1>2. /\ Q[u] \in Int /\ h[u] \in Int /\ Q[v] \in Int /\ h[v] \in Int
  BY <1>1 DEF Points
<1>3. /\ Q[z[q]] \in Int /\ h[z[q]] = h[z[1]] /\ h[z[1]] \in Int
      /\ Q[con[a]] < Q[z[q]] /\ Q[z[q]] < Q[con[b]]
      /\ Q[con[a]] \in Int /\ Q[con[b]] \in Int
  BY SetColumns
<1>4. \A i \in 1..Len(con) :
        Between(Q[u], Q[v], Q[con[i]]) => con[i] = u \/ con[i] = v \/ Over(Q, h, u, v, con[i])
  BY DEF OverEdges, Reaches, EndOf
<1>5. \A i \in 1..Len(con) :
        /\ Turn(Q, h, u, v, con[i]) \in Int
        /\ Turn(Q, h, v, u, con[i]) = - Turn(Q, h, u, v, con[i])
  <2> SUFFICES ASSUME NEW i \in 1..Len(con)
               PROVE  /\ Turn(Q, h, u, v, con[i]) \in Int
                      /\ Turn(Q, h, v, u, con[i]) = - Turn(Q, h, u, v, con[i])
    OBVIOUS
  <2>1. PICK p \in V : p = con[i]
    BY <1>1
  <2> HIDE DEF u, v
  <2>2. /\ Turn(Q, h, u, v, p) \in Int
        /\ Turn(Q, h, v, u, p) = - Turn(Q, h, u, v, p)
    BY <1>1, TurnFlips
  <2> QED BY <2>1, <2>2
<1>6. /\ Turn(Q, h, u, v, u) = 0 /\ Turn(Q, h, u, v, v) = 0
      /\ Turn(Q, h, v, u, u) = 0 /\ Turn(Q, h, v, u, v) = 0
  BY <1>2, TurnAt
<1>7. Between(Q[u], Q[v], Q[z[q]])
  BY DEF Reaches
<1> HIDE DEF u, v
<1>8. CASE Q[u] < Q[v]
  <2>1. ASSUME NEW i \in 1..Len(con), Q[u] <= Q[con[i]], Q[con[i]] <= Q[v]
        PROVE  Turn(Q, h, u, v, con[i]) >= 0
    <3>1. Between(Q[u], Q[v], Q[con[i]])
      BY <2>1 DEF Between
    <3>2. CASE Over(Q, h, u, v, con[i])
      BY <1>2, <1>5, <1>8, <3>2 DEF Over
    <3> QED BY <1>4, <1>6, <3>1, <3>2
  <2>2. Q[u] <= Q[z[q]] /\ Q[z[q]] <= Q[v]
    BY <1>2, <1>3, <1>7, <1>8 DEF Between
  <2>3. Turn(Q, h, u, v, z[q]) > 0
    BY <1>1, <1>8, <2>1, <2>2, OverRising
  <2> QED BY <1>8, <2>3 DEF Over, u, v
<1>9. CASE Q[v] < Q[u]
  <2>1. ASSUME NEW i \in 1..Len(con), Q[v] <= Q[con[i]], Q[con[i]] <= Q[u]
        PROVE  Turn(Q, h, v, u, con[i]) >= 0
    <3>1. Between(Q[u], Q[v], Q[con[i]])
      BY <2>1 DEF Between
    <3>2. CASE Over(Q, h, u, v, con[i])
      BY <1>2, <1>5, <1>9, <3>2, SMTT(20) DEF Over
    <3> QED BY <1>4, <1>6, <3>1, <3>2
  <2>2. Q[v] <= Q[z[q]] /\ Q[z[q]] <= Q[u]
    BY <1>2, <1>3, <1>7, <1>9, SMTT(20) DEF Between
  <2>3. Turn(Q, h, v, u, z[q]) > 0
    BY <1>1, <1>9, <2>1, <2>2, OverRising
  <2> QED BY <1>9, <2>3 DEF Over, u, v
<1>10. CASE Q[u] = Q[v]
  <2>1. Q[u] = Q[z[q]]
    BY <1>2, <1>3, <1>7, <1>10 DEF Between
  <2>2. /\ Q[con[a]] <= Q[u] /\ Q[u] <= Q[con[b]]
        /\ Q[con[a]] <= Q[v] /\ Q[v] <= Q[con[b]]
    BY <1>3, <1>10, <2>1
  <2>3. h[u] < h[z[1]] /\ h[v] < h[z[1]]
    BY <1>1, <2>2, UnderTop
  <2> QED BY <1>3, <1>10, <2>3 DEF Over, u, v
<1> QED BY <1>2, <1>8, <1>9, <1>10

(* A node of the new contour in a column of an edge of the set is an end.  *)
LEMMA NewEnds ==
  ASSUME NEW Q, NEW h, NEW V, NEW con, NEW a, NEW b, NEW z, SetOver(Q, h, V, con, a, b, z),
         NEW e, SetEdge(con, a, b, z, e)
  PROVE  /\ \A s \in 1..Len(z) : Reaches(Q, e, z[s]) => EndOf(e, z[s])
         /\ \A i \in 1..Len(con) : (i <= a \/ i >= b) => (Reaches(Q, e, con[i]) => EndOf(e, con[i]))
<1>1. /\ Len(z) \in Nat \ {0} /\ 1 \in 1..Len(z) /\ Len(z) \in 1..Len(z)
      /\ a \in a..b /\ b \in a..b /\ a \in 1..Len(con) /\ b \in 1..Len(con) /\ a < b
      /\ \A i \in 1..Len(con) : Q[con[i]] \in Int
      /\ \A q \in 1..Len(z) : Q[z[q]] \in Int
  <2>1. \A i \in 1..Len(con) : Q[con[i]] \in Int
    BY DEF SetOver, Points
  <2> QED BY <2>1, SetColumns
<1>2. /\ \A i, j \in 1..Len(con) : i < j => Q[con[i]] < Q[con[j]]
      /\ \A i, j \in 1..Len(z) : i < j => Q[z[i]] < Q[z[j]]
  BY DEF SetOver, RisingIn
<1>3. \A q \in 1..Len(z) : Q[con[a]] < Q[z[q]] /\ Q[z[q]] < Q[con[b]]
  BY SetColumns
<1>4. \A i \in 1..Len(con) : /\ i <= a => Q[con[i]] <= Q[con[a]]
                             /\ i >= b => Q[con[b]] <= Q[con[i]]
  <2> SUFFICES ASSUME NEW i \in 1..Len(con)
               PROVE  /\ i <= a => Q[con[i]] <= Q[con[a]]
                      /\ i >= b => Q[con[b]] <= Q[con[i]]
    OBVIOUS
  <2>1. (i <= a => i = a \/ i < a) /\ (i >= b => i = b \/ b < i)
    BY <1>1
  <2> QED BY <1>1, <1>2, <2>1
<1>5. ASSUME NEW q \in 1..(Len(z) - 1), e = << z[q], z[q + 1] >>
      PROVE  /\ \A s \in 1..Len(z) : Reaches(Q, e, z[s]) => EndOf(e, z[s])
             /\ \A i \in 1..Len(con) : (i <= a \/ i >= b) => ~ Reaches(Q, e, con[i])
  <2>1. e[1] = z[q] /\ e[2] = z[q + 1] /\ q \in 1..Len(z) /\ q + 1 \in 1..Len(z) /\ q < q + 1
    BY <1>1, <1>5
  <2>2. Q[z[q]] < Q[z[q + 1]]
    BY <1>2, <2>1
  <2>3. ASSUME NEW s \in 1..Len(z), Reaches(Q, e, z[s]) PROVE EndOf(e, z[s])
    <3>1. Q[z[q]] <= Q[z[s]] /\ Q[z[s]] <= Q[z[q + 1]]
      BY <1>1, <2>1, <2>2, <2>3, SMTT(20) DEF Reaches, Between
    <3>2. s < q \/ s = q \/ s = q + 1 \/ q + 1 < s
      BY <1>1, <2>1
    <3>3. s = q \/ s = q + 1
      BY <1>1, <1>2, <2>1, <3>1, <3>2, SMTT(20)
    <3> QED BY <2>1, <3>3 DEF EndOf
  <2>4. ASSUME NEW i \in 1..Len(con), i <= a \/ i >= b, Reaches(Q, e, con[i]) PROVE FALSE
    <3>1. Q[z[q]] <= Q[con[i]] /\ Q[con[i]] <= Q[z[q + 1]]
      BY <1>1, <2>1, <2>2, <2>4, SMTT(20) DEF Reaches, Between
    <3>2. Q[con[i]] <= Q[con[a]] \/ Q[con[b]] <= Q[con[i]]
      BY <1>4, <2>4
    <3>3. Q[con[a]] < Q[z[q]] /\ Q[z[q + 1]] < Q[con[b]]
      BY <1>3, <2>1
    <3>4. /\ Q[z[q]] \in Int /\ Q[z[q + 1]] \in Int /\ Q[con[i]] \in Int
          /\ Q[con[a]] \in Int /\ Q[con[b]] \in Int
      BY <1>1, <2>1
    <3> QED BY <3>1, <3>2, <3>3, <3>4, SMTT(20)
  <2> QED BY <2>3, <2>4
<1>6. ASSUME NEW j, NEW q, SpokeAt(a, b, z, j, q),
             e = << con[j], z[q] >> \/ e = << z[q], con[j] >>
      PROVE  /\ \A s \in 1..Len(z) : Reaches(Q, e, z[s]) => EndOf(e, z[s])
             /\ \A i \in 1..Len(con) : (i <= a \/ i >= b) => (Reaches(Q, e, con[i]) => EndOf(e, con[i]))
  <2>1. /\ j \in a..b /\ q \in 1..Len(z) /\ j \in 1..Len(con)
        /\ (j = a /\ q = 1) \/ (j = b /\ q = Len(z)) \/ Len(z) = 1
    BY <1>1, <1>6, SetColumns DEF SpokeAt
  <2>2. /\ \A w : Reaches(Q, e, w) <=> Between(Q[con[j]], Q[z[q]], Q[w])
        /\ \A w : EndOf(e, w) <=> (w = con[j] \/ w = z[q])
    BY <1>6 DEF Reaches, EndOf, Between
  <2>3. /\ Q[con[a]] <= Q[con[j]] /\ Q[con[j]] <= Q[con[b]]
        /\ Q[con[a]] < Q[z[q]] /\ Q[z[q]] < Q[con[b]]
        /\ Q[con[j]] \in Int /\ Q[z[q]] \in Int /\ Q[con[a]] \in Int /\ Q[con[b]] \in Int
    BY <1>1, <1>3, <2>1, SetColumns
  <2>4. ASSUME NEW s \in 1..Len(z), Between(Q[con[j]], Q[z[q]], Q[z[s]]) PROVE s = q
    <3>1. CASE Len(z) = 1
      BY <2>1, <3>1
    <3>2. CASE j = a /\ q = 1
      <4>1. Q[z[s]] <= Q[z[q]] /\ Q[z[s]] \in Int
        BY <1>1, <2>3, <2>4, <3>2 DEF Between
      <4>2. q = s \/ q < s
        BY <1>1, <3>2
      <4> QED BY <1>2, <2>1, <2>3, <4>1, <4>2
    <3>3. CASE j = b /\ q = Len(z)
      <4>1. Q[z[q]] <= Q[z[s]] /\ Q[z[s]] \in Int
        BY <1>1, <2>3, <2>4, <3>3 DEF Between
      <4>2. q = s \/ s < q
        BY <1>1, <3>3
      <4> QED BY <1>2, <2>1, <2>3, <4>1, <4>2
    <3> QED BY <2>1, <3>1, <3>2, <3>3
  <2>5. ASSUME NEW i \in 1..Len(con), i <= a \/ i >= b, Between(Q[con[j]], Q[z[q]], Q[con[i]])
        PROVE  i = j
    <3>1. CASE i <= a
      <4>1. Q[con[i]] <= Q[con[a]] /\ Q[con[i]] \in Int
        BY <1>1, <1>4, <3>1
      <4>2. Q[con[j]] <= Q[con[i]]
        BY <2>3, <2>5, <4>1 DEF Between
      <4>3. i = j \/ i < j
        BY <1>1, <2>1, <3>1
      <4> QED BY <1>2, <2>1, <2>3, <4>1, <4>2, <4>3, SMTT(20)
    <3>2. CASE i >= b
      <4>1. Q[con[b]] <= Q[con[i]] /\ Q[con[i]] \in Int
        BY <1>1, <1>4, <3>2
      <4>2. Q[con[i]] <= Q[con[j]]
        BY <2>3, <2>5, <4>1 DEF Between
      <4>3. i = j \/ j < i
        BY <1>1, <2>1, <3>2
      <4> QED BY <1>2, <2>1, <2>3, <4>1, <4>2, <4>3, SMTT(20)
    <3> QED BY <2>5, <3>1, <3>2
  <2> QED BY <2>2, <2>4, <2>5
<1> QED BY <1>5, <1>6 DEF SetEdge

LEMMA CrossingFlips ==
  ASSUME NEW V, NEW Q, NEW h, Points(Q, h, V),
         NEW a \in V, NEW b \in V, NEW p \in V, NEW q \in V
  PROVE  /\ Crossing(Q, h, b, a, p, q) <=> Crossing(Q, h, a, b, p, q)
         /\ Crossing(Q, h, a, b, q, p) <=> Crossing(Q, h, a, b, p, q)
         /\ Crossing(Q, h, p, q, a, b) <=> Crossing(Q, h, a, b, p, q)
<1>1. /\ Turn(Q, h, b, a, p) = - Turn(Q, h, a, b, p) /\ Turn(Q, h, a, b, p) \in Int
      /\ Turn(Q, h, b, a, q) = - Turn(Q, h, a, b, q) /\ Turn(Q, h, a, b, q) \in Int
      /\ Turn(Q, h, q, p, a) = - Turn(Q, h, p, q, a) /\ Turn(Q, h, p, q, a) \in Int
      /\ Turn(Q, h, q, p, b) = - Turn(Q, h, p, q, b) /\ Turn(Q, h, p, q, b) \in Int
  BY TurnFlips
<1> QED BY <1>1 DEF Crossing, Opposite

SetNodes(z) == {z[q] : q \in 1..Len(z)}

WithSet(V, z) == V \cup SetNodes(z)

LEMMA SetPoints ==
  ASSUME NEW Q, NEW h, NEW V, NEW con, NEW a, NEW b, NEW z, SetOver(Q, h, V, con, a, b, z)
  PROVE  /\ Points(Q, h, WithSet(V, z)) /\ Points(Q, h, V)
         /\ \A q \in 1..Len(z) : z[q] \in WithSet(V, z) /\ z[q] \notin V
         /\ \A w \in WithSet(V, z) : w \in V \/ \E q \in 1..Len(z) : w = z[q]
         /\ \A i \in a..b : con[i] \in WithSet(V, z)
<1>1. \A q \in 1..Len(z) : Q[z[q]] \in Int /\ h[z[q]] \in Int /\ z[q] \notin V
  <2> SUFFICES ASSUME NEW q \in 1..Len(z) PROVE Q[z[q]] \in Int /\ h[z[q]] \in Int /\ z[q] \notin V
    OBVIOUS
  <2>1. Q[z[q]] \in Int /\ h[z[q]] = h[z[1]] /\ h[z[1]] \in Int /\ z[q] \notin V
    BY SetColumns
  <2> QED BY <2>1
<1>2. \A w \in WithSet(V, z) : w \in V \/ \E q \in 1..Len(z) : w = z[q]
  BY DEF SetNodes, WithSet
<1>3. Points(Q, h, V)
  BY DEF SetOver
<1>4. Points(Q, h, WithSet(V, z))
  BY <1>1, <1>2, <1>3 DEF Points
<1>5. \A i \in a..b : con[i] \in WithSet(V, z)
  BY SetColumns DEF WithSet
<1>6. \A q \in 1..Len(z) : z[q] \in WithSet(V, z)
  BY DEF SetNodes, WithSet
<1> QED BY <1>1, <1>2, <1>3, <1>4, <1>5, <1>6

LEMMA SetEdgeEnds ==
  ASSUME NEW con, NEW a, NEW b, NEW z, NEW e, SetEdge(con, a, b, z, e), Len(z) \in Nat
  PROVE  /\ (\E q \in 1..Len(z) : e[1] = z[q]) \/ (\E i \in a..b : e[1] = con[i])
         /\ (\E q \in 1..Len(z) : e[2] = z[q]) \/ (\E i \in a..b : e[2] = con[i])
         /\ \E q \in 1..Len(z) : e[1] = z[q] \/ e[2] = z[q]
<1>1. ASSUME NEW q \in 1..(Len(z) - 1), e = << z[q], z[q + 1] >>
      PROVE  (\E s \in 1..Len(z) : e[1] = z[s]) /\ (\E s \in 1..Len(z) : e[2] = z[s])
  <2>1. q \in 1..Len(z) /\ q + 1 \in 1..Len(z) /\ e[1] = z[q] /\ e[2] = z[q + 1]
    BY <1>1
  <2> QED BY <2>1
<1>2. ASSUME NEW i, NEW q, SpokeAt(a, b, z, i, q), e = << con[i], z[q] >>
      PROVE  (\E j \in a..b : e[1] = con[j]) /\ (\E s \in 1..Len(z) : e[2] = z[s])
  <2>1. i \in a..b /\ q \in 1..Len(z) /\ e[1] = con[i] /\ e[2] = z[q]
    BY <1>2 DEF SpokeAt
  <2> QED BY <2>1
<1>3. ASSUME NEW i, NEW q, SpokeAt(a, b, z, i, q), e = << z[q], con[i] >>
      PROVE  (\E j \in a..b : e[2] = con[j]) /\ (\E s \in 1..Len(z) : e[1] = z[s])
  <2>1. i \in a..b /\ q \in 1..Len(z) /\ e[2] = con[i] /\ e[1] = z[q]
    BY <1>3 DEF SpokeAt
  <2> QED BY <2>1
<1> QED BY <1>1, <1>2, <1>3 DEF SetEdge

(* The chain lies on a line.                                               *)
LEMMA ChainTurn ==
  ASSUME NEW Q, NEW h, NEW V, NEW con, NEW a, NEW b, NEW z, SetOver(Q, h, V, con, a, b, z),
         NEW q \in 1..Len(z), NEW s \in 1..Len(z), NEW t \in 1..Len(z)
  PROVE  Turn(Q, h, z[q], z[s], z[t]) = 0
<1>1. /\ Q[z[q]] \in Int /\ Q[z[s]] \in Int /\ Q[z[t]] \in Int /\ h[z[1]] \in Int
      /\ h[z[q]] = h[z[1]] /\ h[z[s]] = h[z[1]] /\ h[z[t]] = h[z[1]]
  BY SetColumns
<1>2. ASSUME NEW o \in Int, NEW p \in Int, NEW u \in Int, NEW g \in Int
      PROVE  TurnOf(o, g, p, g, u, g) = 0
  BY DEF TurnOf
<1>3. TurnOf(Q[z[q]], h[z[1]], Q[z[s]], h[z[1]], Q[z[t]], h[z[1]]) = 0
  BY <1>1, <1>2
<1> QED BY <1>1, <1>3 DEF Turn

LEMMA SpokesApart ==
  ASSUME NEW Q, NEW h, NEW V, NEW con, NEW a, NEW b, NEW z, SetOver(Q, h, V, con, a, b, z),
         NEW i, NEW q, SpokeAt(a, b, z, i, q), NEW j, NEW s, SpokeAt(a, b, z, j, s)
  PROVE  ~ Crossing(Q, h, con[i], z[q], con[j], z[s])
<1>1. /\ i \in a..b /\ j \in a..b /\ q \in 1..Len(z) /\ s \in 1..Len(z) /\ Len(z) \in Nat \ {0}
      /\ (i = a /\ q = 1) \/ (i = b /\ q = Len(z)) \/ Len(z) = 1
      /\ (j = a /\ s = 1) \/ (j = b /\ s = Len(z)) \/ Len(z) = 1
  BY SetColumns DEF SpokeAt
<1> DEFINE W == WithSet(V, z)
<1>3. /\ Points(Q, h, W) /\ \A t \in 1..Len(z) : z[t] \in W
      /\ \A t \in a..b : con[t] \in W
  BY SetPoints
<1> HIDE DEF W
<1>4. con[i] \in W /\ con[j] \in W /\ z[q] \in W /\ z[s] \in W
  BY <1>1, <1>3
<1>5. CASE q = s
  <2>1. Turn(Q, h, con[i], z[q], z[s]) = 0
    BY <1>3, <1>4, <1>5, TurnAtEnds
  <2> QED BY <2>1 DEF Crossing, Opposite
<1>6. ASSUME Len(z) > 1 PROVE ~ Crossing(Q, h, con[a], z[1], con[b], z[Len(z)])
  <2>1. /\ a \in a..b /\ b \in a..b /\ a < b /\ 1 \in 1..Len(z) /\ Len(z) \in 1..Len(z)
        /\ Q[con[a]] < Q[z[1]] /\ Q[con[a]] \in Int /\ h[con[a]] \in Int /\ h[con[a]] < h[z[1]]
        /\ Q[z[1]] \in Int /\ h[z[1]] \in Int
    <3>1. a \in a..b /\ b \in a..b /\ a < b /\ 1 \in 1..Len(z) /\ Len(z) \in 1..Len(z)
      BY SetColumns
    <3> QED BY <3>1, SetColumns
  <2>2. Turn(Q, h, con[a], z[1], con[b]) < 0
    <3>1. Q[con[a]] <= Q[z[1]]
      BY <2>1
    <3> QED BY <2>1, <3>1, FanLeft
  <2>3. Q[z[Len(z)]] \in Int /\ h[z[Len(z)]] = h[z[1]] /\ Q[z[1]] < Q[z[Len(z)]]
    BY <1>6, <2>1 DEF SetOver, RisingIn
  <2>4. Turn(Q, h, con[a], z[1], z[Len(z)]) < 0
    <3>1. ASSUME NEW m \in Int, NEW n \in Int, NEW o \in Int, NEW p \in Int, NEW t \in Int,
                 n < p, o < t
          PROVE  TurnOf(m, n, o, p, t, p) < 0
      <4> DEFINE d == t - o
                 g == p - n
      <4>1. d \in Int /\ g \in Int /\ d > 0 /\ g > 0
        BY <3>1
      <4>2. TurnOf(m, n, o, p, t, p) = - (d * g)
        BY DEF TurnOf
      <4> HIDE DEF d, g
      <4>3. d * g > 0 /\ d * g \in Int
        BY <4>1, Signs
      <4> QED BY <4>2, <4>3
    <3>2. TurnOf(Q[con[a]], h[con[a]], Q[z[1]], h[z[1]], Q[z[Len(z)]], h[z[1]]) < 0
      BY <2>1, <2>3, <3>1
    <3> QED BY <2>3, <3>2 DEF Turn
  <2>5. Turn(Q, h, con[a], z[1], z[Len(z)]) \in Int /\ Turn(Q, h, con[a], z[1], con[b]) \in Int
    BY <1>3, <2>1, TurnFlips
  <2> QED BY <2>2, <2>4, <2>5 DEF Crossing, Opposite
<1>7. CASE q # s /\ i = a /\ q = 1
  <2>1. j = b /\ s = Len(z) /\ Len(z) > 1
    <3>1. ASSUME Len(z) = 1 PROVE FALSE
      <4>1. q \in 1..1 /\ s \in 1..1
        BY <1>1, <3>1
      <4>2. q = 1 /\ s = 1
        BY <4>1
      <4> QED BY <1>7, <4>2
    <3> QED BY <1>1, <1>7, <3>1
  <2> QED BY <1>6, <1>7, <2>1
<1>8. CASE q # s /\ ~ (i = a /\ q = 1)
  <2>1. i = b /\ q = Len(z) /\ j = a /\ s = 1 /\ Len(z) > 1
    <3>1. ASSUME Len(z) = 1 PROVE FALSE
      <4>1. q \in 1..1 /\ s \in 1..1
        BY <1>1, <3>1
      <4>2. q = 1 /\ s = 1
        BY <4>1
      <4> QED BY <1>8, <4>2
    <3> QED BY <1>1, <1>8, <3>1
  <2>2. ~ Crossing(Q, h, con[j], z[s], con[i], z[q])
    BY <1>6, <2>1
  <2> QED BY <1>3, <1>4, <2>2, CrossingFlips
<1> QED BY <1>5, <1>7, <1>8

(* No two edges of the set cross.                                          *)
LEMMA NewApart ==
  ASSUME NEW Q, NEW h, NEW V, NEW con, NEW a, NEW b, NEW z, SetOver(Q, h, V, con, a, b, z),
         NEW e, SetEdge(con, a, b, z, e), NEW f, SetEdge(con, a, b, z, f)
  PROVE  ~ Crossing(Q, h, e[1], e[2], f[1], f[2])
<1>0. Len(z) \in Nat
  BY SetColumns
<1>1. ASSUME NEW q \in 1..(Len(z) - 1), NEW d, d = << z[q], z[q + 1] >>,
             NEW g, SetEdge(con, a, b, z, g)
      PROVE  /\ ~ Crossing(Q, h, d[1], d[2], g[1], g[2])
             /\ ~ Crossing(Q, h, g[1], g[2], d[1], d[2])
  <2>1. q \in 1..Len(z) /\ q + 1 \in 1..Len(z) /\ d[1] = z[q] /\ d[2] = z[q + 1]
    BY <1>0, <1>1
  <2>2. Turn(Q, h, d[1], d[2], g[1]) = 0 \/ Turn(Q, h, d[1], d[2], g[2]) = 0
    <3>1. PICK s \in 1..Len(z) : g[1] = z[s] \/ g[2] = z[s]
      BY <1>0, <1>1, SetEdgeEnds
    <3>2. Turn(Q, h, z[q], z[q + 1], z[s]) = 0
      BY <2>1, ChainTurn
    <3> QED BY <2>1, <3>1, <3>2
  <2> QED BY <2>2 DEF Crossing, Opposite
<1> DEFINE W == WithSet(V, z)
<1>3. /\ Points(Q, h, W) /\ \A t \in 1..Len(z) : z[t] \in W
      /\ \A t \in a..b : con[t] \in W
  BY SetPoints
<1> HIDE DEF W
<1>4. ASSUME NEW i, NEW q, SpokeAt(a, b, z, i, q), e = << con[i], z[q] >> \/ e = << z[q], con[i] >>,
             NEW j, NEW s, SpokeAt(a, b, z, j, s), f = << con[j], z[s] >> \/ f = << z[s], con[j] >>
      PROVE  ~ Crossing(Q, h, e[1], e[2], f[1], f[2])
  <2>1. ~ Crossing(Q, h, con[i], z[q], con[j], z[s])
    BY <1>4, SpokesApart
  <2>2. con[i] \in W /\ con[j] \in W /\ z[q] \in W /\ z[s] \in W
    BY <1>3, <1>4 DEF SpokeAt
  <2>3. PICK o \in W, p \in W, u \in W, v \in W : o = con[i] /\ p = z[q] /\ u = con[j] /\ v = z[s]
    BY <2>2
  <2>4. /\ ~ Crossing(Q, h, p, o, u, v) /\ ~ Crossing(Q, h, o, p, v, u)
        /\ ~ Crossing(Q, h, o, p, u, v) /\ ~ Crossing(Q, h, p, o, v, u)
    BY <1>3, <2>1, <2>3, CrossingFlips
  <2>5. (e[1] = o /\ e[2] = p) \/ (e[1] = p /\ e[2] = o)
    BY <1>4, <2>3
  <2>6. (f[1] = u /\ f[2] = v) \/ (f[1] = v /\ f[2] = u)
    BY <1>4, <2>3
  <2> QED BY <2>4, <2>5, <2>6
<1> QED BY <1>1, <1>4 DEF SetEdge

(***************************************************************************)
(* A drawing without crossings, and the step that adds a set to it.        *)
(***************************************************************************)
PlaneDrawing(Q, h, V, E) ==
  /\ Points(Q, h, V)
  /\ \A v, w \in V : (Q[v] = Q[w] /\ h[v] = h[w]) => v = w
  /\ \A e \in E : e[1] \in V /\ e[2] \in V
  /\ \A e \in E, w \in V : EndOf(e, w) \/ ~ OnEdge(Q, h, e[1], e[2], w)
  /\ \A e, f \in E : ~ Crossing(Q, h, e[1], e[2], f[1], f[2])

(* Each pair of neighbours on the new contour is one of the old contour,   *)
(* left or right of the section, or an edge of the set.                    *)
ContourWith(con, a, b, z, con2) ==
  /\ \A i \in 2..Len(con2) :
       \/ \E j \in 2..Len(con) : /\ j <= a \/ j > b
                                 /\ con2[i - 1] = con[j - 1] /\ con2[i] = con[j]
       \/ SetEdge(con, a, b, z, << con2[i - 1], con2[i] >>)
  /\ \A i \in 1..Len(con2) :
       \/ \E j \in 1..Len(con) : (j <= a \/ j >= b) /\ con2[i] = con[j]
       \/ \E q \in 1..Len(z) : con2[i] = z[q]

LEMMA SetDrawn ==
  ASSUME NEW Q, NEW h, NEW V, NEW con, NEW a, NEW b, NEW z, SetOver(Q, h, V, con, a, b, z),
         UnderContour(Q, h, V, con), NEW E, OverEdges(Q, h, E, con), PlaneDrawing(Q, h, V, E),
         NEW F, \A e \in F : SetEdge(con, a, b, z, e)
  PROVE  PlaneDrawing(Q, h, WithSet(V, z), E \cup F)
<1> DEFINE W == WithSet(V, z)
<1>1. /\ Points(Q, h, W) /\ Points(Q, h, V)
      /\ \A q \in 1..Len(z) : z[q] \in W /\ z[q] \notin V
      /\ \A w \in W : w \in V \/ \E q \in 1..Len(z) : w = z[q]
      /\ \A i \in a..b : con[i] \in W
  BY SetPoints
<1>2. V \subseteq W
  BY DEF WithSet
<1> HIDE DEF W
<1>3. /\ \A v, w \in V : (Q[v] = Q[w] /\ h[v] = h[w]) => v = w
      /\ \A e \in E : e[1] \in V /\ e[2] \in V
      /\ \A e \in E, w \in V : EndOf(e, w) \/ ~ OnEdge(Q, h, e[1], e[2], w)
      /\ \A e, f \in E : ~ Crossing(Q, h, e[1], e[2], f[1], f[2])
  BY DEF PlaneDrawing
<1>4. Len(z) \in Nat
  BY SetColumns
<1>5. \A v, w \in W : (Q[v] = Q[w] /\ h[v] = h[w]) => v = w
  <2>1. ASSUME NEW v \in V, NEW q \in 1..Len(z), Q[v] = Q[z[q]], h[v] = h[z[q]] PROVE FALSE
    <3>1. /\ Q[z[q]] \in Int /\ h[z[q]] = h[z[1]] /\ h[z[1]] \in Int
          /\ Q[con[a]] < Q[z[q]] /\ Q[z[q]] < Q[con[b]]
      BY SetColumns
    <3>2. Q[con[a]] \in Int /\ Q[con[b]] \in Int
      BY SetColumns
    <3>3. Q[con[a]] <= Q[v] /\ Q[v] <= Q[con[b]]
      BY <2>1, <3>1, <3>2
    <3>4. h[v] < h[z[1]]
      BY <3>3, UnderTop
    <3> QED BY <2>1, <3>1, <3>4
  <2>2. ASSUME NEW q \in 1..Len(z), NEW s \in 1..Len(z), Q[z[q]] = Q[z[s]] PROVE q = s
    <3>1. Q[z[q]] \in Int /\ Q[z[s]] \in Int
      BY SetColumns
    <3>2. q < s \/ q = s \/ s < q
      BY <1>4
    <3>3. (q < s => Q[z[q]] < Q[z[s]]) /\ (s < q => Q[z[s]] < Q[z[q]])
      BY DEF SetOver, RisingIn
    <3> QED BY <2>2, <3>1, <3>2, <3>3
  <2> SUFFICES ASSUME NEW v \in W, NEW w \in W, Q[v] = Q[w], h[v] = h[w] PROVE v = w
    OBVIOUS
  <2>3. CASE v \in V /\ w \in V
    BY <1>3, <2>3
  <2>4. CASE v \in V /\ w \notin V
    BY <1>1, <2>1, <2>4
  <2>5. CASE v \notin V /\ w \in V
    BY <1>1, <2>1, <2>5
  <2>6. CASE v \notin V /\ w \notin V
    <3>1. PICK q \in 1..Len(z) : v = z[q]
      BY <1>1, <2>6
    <3>2. PICK s \in 1..Len(z) : w = z[s]
      BY <1>1, <2>6
    <3> QED BY <2>2, <3>1, <3>2
  <2> QED BY <2>3, <2>4, <2>5, <2>6
<1>6. \A e \in F : e[1] \in W /\ e[2] \in W
  <2> SUFFICES ASSUME NEW e \in F PROVE e[1] \in W /\ e[2] \in W
    OBVIOUS
  <2>1. SetEdge(con, a, b, z, e)
    OBVIOUS
  <2> QED BY <1>1, <1>4, <2>1, SetEdgeEnds
<1>7. \A e \in E \cup F : e[1] \in W /\ e[2] \in W
  BY <1>2, <1>3, <1>6
<1>8. \A e \in E, q \in 1..Len(z) : Reaches(Q, e, z[q]) => Over(Q, h, e[1], e[2], z[q])
  BY <1>3, OldOver
<1>9. \A e \in F, w \in V : Reaches(Q, e, w) => EndOf(e, w) \/ Under(Q, h, e[1], e[2], w)
  BY NewUnder
<1>10. \A e \in E \cup F, w \in W : EndOf(e, w) \/ ~ OnEdge(Q, h, e[1], e[2], w)
  <2> SUFFICES ASSUME NEW e \in E \cup F, NEW w \in W, OnEdge(Q, h, e[1], e[2], w) PROVE EndOf(e, w)
    OBVIOUS
  <2>1. e[1] \in W /\ e[2] \in W
    BY <1>7
  <2>2. Reaches(Q, e, w)
    BY DEF OnEdge, Reaches
  <2>3. ~ (Over(Q, h, e[1], e[2], w) \/ Under(Q, h, e[1], e[2], w))
    BY <1>1, <2>1, OffEdge
  <2>4. CASE w \in V /\ e \in E
    BY <1>3, <2>4
  <2>5. CASE w \in V /\ e \in F
    BY <1>9, <2>2, <2>3, <2>5
  <2>6. CASE w \notin V /\ e \in E
    BY <1>1, <1>8, <2>2, <2>3, <2>6
  <2>7. CASE w \notin V /\ e \in F
    <3>1. PICK q \in 1..Len(z) : w = z[q]
      BY <1>1, <2>7
    <3>2. SetEdge(con, a, b, z, e) /\ Reaches(Q, e, z[q])
      BY <2>2, <2>7, <3>1
    <3> QED BY <3>1, <3>2, NewEnds
  <2> QED BY <2>4, <2>5, <2>6, <2>7
<1>11. ASSUME NEW e \in E, NEW f \in F PROVE ~ Crossing(Q, h, e[1], e[2], f[1], f[2])
  <2>1. /\ e[1] \in W /\ e[2] \in W /\ f[1] \in W /\ f[2] \in W /\ e[1] \in V /\ e[2] \in V
    BY <1>3, <1>7
  <2>2. ASSUME NEW d, (\E q \in 1..Len(z) : d = z[q]) \/ (\E i \in a..b : d = con[i]),
               Between(Q[e[1]], Q[e[2]], Q[d])
        PROVE  d \in {e[1], e[2]} \/ Over(Q, h, e[1], e[2], d)
    <3>1. CASE \E q \in 1..Len(z) : d = z[q]
      BY <1>8, <2>2, <3>1 DEF Reaches
    <3>2. ASSUME NEW i \in a..b, d = con[i] PROVE d \in {e[1], e[2]} \/ Over(Q, h, e[1], e[2], d)
      <4>1. i \in 1..Len(con) /\ Reaches(Q, e, con[i])
        BY <2>2, <3>2, SetColumns DEF Reaches
      <4> QED BY <3>2, <4>1 DEF OverEdges, EndOf
    <3> QED BY <2>2, <3>1, <3>2
  <2>3. SetEdge(con, a, b, z, f)
    OBVIOUS
  <2>4. /\ (\E q \in 1..Len(z) : f[1] = z[q]) \/ (\E i \in a..b : f[1] = con[i])
        /\ (\E q \in 1..Len(z) : f[2] = z[q]) \/ (\E i \in a..b : f[2] = con[i])
    BY <1>4, <2>3, SetEdgeEnds
  <2>5. /\ Between(Q[f[1]], Q[f[2]], Q[e[1]]) => e[1] \in {f[1], f[2]} \/ Under(Q, h, f[1], f[2], e[1])
        /\ Between(Q[f[1]], Q[f[2]], Q[e[2]]) => e[2] \in {f[1], f[2]} \/ Under(Q, h, f[1], f[2], e[2])
    BY <1>9, <2>1 DEF Reaches, EndOf
  <2>6. Stacked(Q, h, e[1], e[2], f[1], f[2])
    BY <2>2, <2>4, <2>5 DEF Stacked
  <2> QED BY <1>1, <2>1, <2>6, StackedApart
<1>12. \A e, f \in E \cup F : ~ Crossing(Q, h, e[1], e[2], f[1], f[2])
  <2> SUFFICES ASSUME NEW e \in E \cup F, NEW f \in E \cup F
               PROVE  ~ Crossing(Q, h, e[1], e[2], f[1], f[2])
    OBVIOUS
  <2>1. CASE e \in E /\ f \in E
    BY <1>3, <2>1
  <2>2. CASE e \in E /\ f \in F
    BY <1>11, <2>2
  <2>3. CASE e \in F /\ f \in E
    <3>1. ~ Crossing(Q, h, f[1], f[2], e[1], e[2])
      BY <1>11, <2>3
    <3>2. e[1] \in W /\ e[2] \in W /\ f[1] \in W /\ f[2] \in W
      BY <1>7
    <3> QED BY <1>1, <3>1, <3>2, CrossingFlips
  <2>4. CASE e \in F /\ f \in F
    BY <2>4, NewApart
  <2> QED BY <2>1, <2>2, <2>3, <2>4
<1> QED BY <1>1, <1>5, <1>7, <1>10, <1>12 DEF PlaneDrawing, W

LEMMA SetContour ==
  ASSUME NEW Q, NEW h, NEW V, NEW con, NEW a, NEW b, NEW z, SetOver(Q, h, V, con, a, b, z),
         UnderContour(Q, h, V, con), NEW E, OverEdges(Q, h, E, con), PlaneDrawing(Q, h, V, E),
         NEW F, \A e \in F : SetEdge(con, a, b, z, e), NEW con2, ContourWith(con, a, b, z, con2)
  PROVE  /\ UnderContour(Q, h, WithSet(V, z), con2)
         /\ OverEdges(Q, h, E \cup F, con2)
<1> DEFINE W == WithSet(V, z)
<1>1. /\ \A w \in W : w \in V \/ \E q \in 1..Len(z) : w = z[q]
  BY SetPoints
<1> HIDE DEF W
<1>2. /\ a \in Int /\ b \in Int /\ a < b /\ a \in 1..Len(con) /\ b \in 1..Len(con)
      /\ \A i \in 1..Len(con) : Q[con[i]] \in Int
      /\ \A i, j \in 1..Len(con) : i < j => Q[con[i]] < Q[con[j]]
  BY DEF SetOver, RisingIn, Points
<1>3. \A q \in 1..Len(z) : /\ Q[z[q]] \in Int
                           /\ Q[con[a]] < Q[z[q]] /\ Q[z[q]] < Q[con[b]]
  BY SetColumns
<1>4. UnderContour(Q, h, W, con2)
  <2> SUFFICES ASSUME NEW i \in 2..Len(con2), NEW w \in W,
                      Reaches(Q, << con2[i - 1], con2[i] >>, w)
               PROVE  EndOf(<< con2[i - 1], con2[i] >>, w) \/ Under(Q, h, con2[i - 1], con2[i], w)
    BY DEF UnderContour
  <2> DEFINE e == << con2[i - 1], con2[i] >>
  <2>1. e[1] = con2[i - 1] /\ e[2] = con2[i]
    OBVIOUS
  <2>2. ASSUME NEW j \in 2..Len(con), j <= a \/ j > b, con2[i - 1] = con[j - 1], con2[i] = con[j]
        PROVE  EndOf(e, w) \/ Under(Q, h, con2[i - 1], con2[i], w)
    <3>1. CASE w \in V
      BY <2>2, <3>1 DEF UnderContour
    <3>2. ASSUME NEW q \in 1..Len(z), w = z[q] PROVE FALSE
      <4>1. j - 1 \in 1..Len(con) /\ j \in 1..Len(con) /\ j - 1 < j
        BY <1>2
      <4>2. /\ Q[con[j - 1]] \in Int /\ Q[con[j]] \in Int /\ Q[con[j - 1]] < Q[con[j]]
        BY <1>2, <4>1
      <4>3. Q[con[j - 1]] <= Q[z[q]] /\ Q[z[q]] <= Q[con[j]]
        BY <1>3, <2>2, <3>2, <4>2, SMTT(20) DEF Reaches, Between
      <4>4. j = a \/ j < a \/ j - 1 = b \/ b < j - 1
        BY <1>2, <2>2, <4>1, SMTT(20)
      <4>5. Q[con[j]] <= Q[con[a]] \/ Q[con[b]] <= Q[con[j - 1]]
        <5>1. /\ j < a => Q[con[j]] < Q[con[a]]
              /\ b < j - 1 => Q[con[b]] < Q[con[j - 1]]
          BY <1>2, <4>1
        <5>2. Q[con[a]] \in Int /\ Q[con[b]] \in Int
          BY <1>2
        <5> QED BY <4>2, <4>4, <5>1, <5>2, SMTT(20)
      <4>6. /\ Q[con[a]] \in Int /\ Q[con[b]] \in Int /\ Q[z[q]] \in Int
            /\ Q[con[a]] < Q[z[q]] /\ Q[z[q]] < Q[con[b]]
        BY <1>2, <1>3
      <4>7. PICK qa \in Int, qb \in Int, t \in Int : qa = Q[con[a]] /\ qb = Q[con[b]] /\ t = Q[z[q]]
        BY <4>6
      <4>8. PICK u \in Int, v \in Int : u = Q[con[j - 1]] /\ v = Q[con[j]]
        BY <4>2
      <4>9. u <= t /\ t <= v /\ (v <= qa \/ qb <= u) /\ qa < t /\ t < qb
        BY <4>3, <4>5, <4>6, <4>7, <4>8
      <4> QED BY <4>9
    <3> QED BY <1>1, <3>1, <3>2
  <2>3. ASSUME SetEdge(con, a, b, z, e)
        PROVE  EndOf(e, w) \/ Under(Q, h, con2[i - 1], con2[i], w)
    <3>1. CASE w \in V
      <4>1. EndOf(e, w) \/ Under(Q, h, e[1], e[2], w)
        <5> HIDE DEF e
        <5>1. Reaches(Q, e, w)
          BY DEF e
        <5> QED BY <2>3, <3>1, <5>1, NewUnder
      <4> QED BY <2>1, <4>1
    <3>2. ASSUME NEW q \in 1..Len(z), w = z[q] PROVE EndOf(e, w)
      <4> HIDE DEF e
      <4>1. Reaches(Q, e, z[q])
        BY <3>2 DEF e
      <4> QED BY <2>3, <3>2, <4>1, NewEnds
    <3> QED BY <1>1, <3>1, <3>2
  <2> QED BY <2>2, <2>3 DEF ContourWith
<1>5. OverEdges(Q, h, E \cup F, con2)
  <2> SUFFICES ASSUME NEW i \in 1..Len(con2), NEW e \in E \cup F, Reaches(Q, e, con2[i])
               PROVE  EndOf(e, con2[i]) \/ Over(Q, h, e[1], e[2], con2[i])
    BY DEF OverEdges
  <2>1. ASSUME NEW j \in 1..Len(con), j <= a \/ j >= b, con2[i] = con[j]
        PROVE  EndOf(e, con2[i]) \/ Over(Q, h, e[1], e[2], con2[i])
    <3>1. CASE e \in E
      BY <2>1, <3>1 DEF OverEdges
    <3>2. CASE e \in F
      <4>1. SetEdge(con, a, b, z, e) /\ Reaches(Q, e, con[j])
        BY <2>1, <3>2
      <4> QED BY <2>1, <4>1, NewEnds
    <3> QED BY <3>1, <3>2
  <2>2. ASSUME NEW q \in 1..Len(z), con2[i] = z[q]
        PROVE  EndOf(e, con2[i]) \/ Over(Q, h, e[1], e[2], con2[i])
    <3>0. Reaches(Q, e, z[q])
      BY <2>2
    <3>1. CASE e \in E
      <4>1. e[1] \in V /\ e[2] \in V
        BY <3>1 DEF PlaneDrawing
      <4>2. Over(Q, h, e[1], e[2], z[q])
        BY <3>0, <3>1, <4>1, OldOver
      <4> QED BY <2>2, <4>2
    <3>2. CASE e \in F
      <4>1. SetEdge(con, a, b, z, e)
        BY <3>2
      <4> QED BY <2>2, <3>0, <4>1, NewEnds
    <3> QED BY <3>1, <3>2
  <2> QED BY <2>1, <2>2 DEF ContourWith
<1> QED BY <1>4, <1>5 DEF W

-----------------------------------------------------------------------------
(***************************************************************************)
(* The state: the drawing so far has no crossing, however far its parts    *)
(* are moved to the right later, as long as no node of the contour is      *)
(* moved less than one to its left.                                        *)
(***************************************************************************)
SpreadOn(rho, con) ==
  /\ rho \in [Nodes -> Int]
  /\ \A i, j \in 1..Len(con) : i < j => rho[con[i]] <= rho[con[j]]

(* How far the drawing before the set is moved, if the drawing after it is *)
(* moved by rho.                                                           *)
Before(rho) ==
  [u \in Nodes |-> MoveOf(u) + rho[IF u \in Inner THEN Upper(At(c, u)) ELSE u]]

LEMMA NewContour ==
  ASSUME Placing, PlaceSet
  PROVE  /\ LeftPlace \in Nat /\ RightPlace \in Nat /\ l \in Nat \ {0}
         /\ Len(contour) \in Nat
         /\ Len(contour') = LeftPlace + l + (Len(contour) - RightPlace + 1)
         /\ \A q \in 1..LeftPlace : contour'[q] = contour[q]
         /\ \A q \in 1..l : contour'[LeftPlace + q] = Vk.nodes[q]
         /\ \A q \in RightPlace..Len(contour) :
              contour'[q - RightPlace + 1 + LeftPlace + l] = contour[q]
<1> DEFINE a == LeftPlace
           b == RightPlace
           d == PutOn(contour, Vk)
<1>1. SectionAt(a, b)
  BY SectionPlaces
<1>2. a \in 1..Len(contour) /\ b \in 1..Len(contour) /\ FitsAt(contour, Vk, a, b)
  BY <1>1 DEF SectionAt
<1>3. PutOnOK(Nodes, contour, Vk) /\ Len(contour) \in Nat /\ l \in Nat \ {0}
  BY PlacingFacts
<1>4. contour' = d
  BY DEF PlaceSet
<1>5. Spliced(Nodes, contour, Vk, a, b, d)
  <2>1. PutOnOK(Nodes, contour, Vk) /\ FitsAt(contour, Vk, a, b)
    BY <1>2, <1>3
  <2> QED BY <2>1, PutOnNodes
<1> HIDE DEF a, b, d
<1>6. /\ Len(d) = a + l + (Len(contour) - b + 1)
      /\ \A q \in 1..a : d[q] = contour[q]
      /\ \A q \in 1..l : d[a + q] = Vk.nodes[q]
      /\ \A q \in b..Len(contour) : d[q - b + 1 + a + l] = contour[q]
  BY <1>5 DEF Spliced, l
<1>7. a \in Nat /\ b \in Nat
  BY <1>2, <1>3
<1> QED BY <1>3, <1>4, <1>6, <1>7 DEF a, b

(* The places of the contour: left of the section with cl, inside it, and  *)
(* right of it with cr.                                                    *)
LEMMA ContourParts ==
  ASSUME Placing, NEW q \in 1..Len(contour)
  PROVE  /\ contour[q] \in Nodes
         /\ (q <= LeftPlace \/ q >= RightPlace) => contour[q] \notin Inner
         /\ (q > LeftPlace /\ q < RightPlace) =>
              \E i \in 2..(r - 1) : i = q - LeftPlace + 1 /\ contour[q] = c[i]
<1> DEFINE a == LeftPlace
           b == RightPlace
<1>1. SectionAt(a, b)
  BY SectionPlaces
<1>2. /\ a \in 1..Len(contour) /\ b \in 1..Len(contour) /\ a < b
      /\ r = b - a + 1 /\ r \in Nat /\ r >= 2
      /\ \A i \in 1..r : c[i] = contour[a + i - 1]
  BY <1>1 DEF SectionAt
<1>3. contour[q] \in Nodes /\ Len(contour) \in Nat
  BY SectionOnContour
<1> HIDE DEF a, b
<1>4. ASSUME q <= a \/ q >= b, contour[q] \in Inner PROVE FALSE
  <2>1. PICK i \in 2..(r - 1) : contour[q] = c[i]
    BY <1>4 DEF Inner
  <2>2. i \in 1..r
    BY <1>2
  <2>3. q = a + i - 1
    BY <1>1, <2>1, <2>2, SectionNodes
  <2> QED BY <1>2, <1>3, <1>4, <2>3
<1>5. ASSUME q > a, q < b PROVE \E i \in 2..(r - 1) : i = q - a + 1 /\ contour[q] = c[i]
  <2>1. PICK i \in Int : i = q - a + 1
    BY <1>2, <1>3
  <2>2. i \in 2..(r - 1) /\ i \in 1..r /\ a + i - 1 = q
    BY <1>2, <1>3, <1>5, <2>1
  <2> QED BY <1>2, <2>1, <2>2
<1> QED BY <1>3, <1>4, <1>5 DEF a, b

LEMMA BeforeValues ==
  ASSUME Placing, NEW rho \in [Nodes -> Int], NEW sigma, sigma = Before(rho)
  PROVE  /\ sigma \in [Nodes -> Int]
         /\ \A q \in 1..Len(contour) :
              /\ q <= LeftPlace => sigma[contour[q]] = rho[contour[q]]
              /\ q >= RightPlace => sigma[contour[q]] = offset + rho[contour[q]]
         /\ \A i \in 2..(r - 1) : /\ sigma[c[i]] = Move(i) + rho[Upper(i)]
                                  /\ Upper(i) \in {c[1], c[r], Vk.nodes[1]}
         /\ sigma[c[1]] = rho[c[1]] /\ sigma[c[r]] = offset + rho[c[r]]
<1>1. /\ \A v : MoveOf(v) \in 0..offset
      /\ \A q \in 1..Len(contour) :
           /\ q <= LeftPlace => MoveOf(contour[q]) = 0
           /\ q >= RightPlace => MoveOf(contour[q]) = offset
      /\ MoveOf(c[1]) = 0 /\ MoveOf(c[r]) = offset
      /\ \A i \in 2..(r - 1) : MoveOf(c[i]) = Move(i)
  BY MoveFacts
<1>2. offset \in Nat
  BY SetFits
<1>3. /\ c[1] \in Nodes /\ c[r] \in Nodes /\ Vk.nodes[1] \in Nodes
      /\ c[1] \notin Inner /\ c[r] \notin Inner
      /\ \A v \in Inner : /\ At(c, v) \in 2..(r - 1) /\ c[At(c, v)] = v
                          /\ Upper(At(c, v)) \in {c[1], c[r], Vk.nodes[1]}
  BY InnerFacts
<1>4. /\ \A u \in Nodes : sigma[u] = MoveOf(u) + rho[IF u \in Inner THEN Upper(At(c, u)) ELSE u]
      /\ sigma \in [Nodes -> Int]
  <2>1. ASSUME NEW u \in Nodes
        PROVE  MoveOf(u) + rho[IF u \in Inner THEN Upper(At(c, u)) ELSE u] \in Int
    <3>1. MoveOf(u) \in Int
      BY <1>1, <1>2
    <3>2. (IF u \in Inner THEN Upper(At(c, u)) ELSE u) \in Nodes
      BY <1>3
    <3> QED BY <3>1, <3>2
  <2>2. sigma = [u \in Nodes |-> MoveOf(u) + rho[IF u \in Inner THEN Upper(At(c, u)) ELSE u]]
    BY DEF Before
  <2> QED BY <2>1, <2>2
<1>5. ASSUME NEW q \in 1..Len(contour)
      PROVE  /\ q <= LeftPlace => sigma[contour[q]] = rho[contour[q]]
             /\ q >= RightPlace => sigma[contour[q]] = offset + rho[contour[q]]
  <2>1. /\ contour[q] \in Nodes
        /\ (q <= LeftPlace \/ q >= RightPlace) => contour[q] \notin Inner
    BY ContourParts
  <2>2. rho[contour[q]] \in Int
    BY <2>1
  <2>3. (q <= LeftPlace \/ q >= RightPlace) => sigma[contour[q]] = MoveOf(contour[q]) + rho[contour[q]]
    BY <1>4, <2>1
  <2> QED BY <1>1, <2>2, <2>3
<1>6. ASSUME NEW i \in 2..(r - 1)
      PROVE  /\ sigma[c[i]] = Move(i) + rho[Upper(i)]
             /\ Upper(i) \in {c[1], c[r], Vk.nodes[1]}
  <2>1. c[i] \in Inner /\ c[i] \in Nodes
    <3>1. c[i] \in Inner
      BY DEF Inner
    <3> QED BY <3>1, InnerFacts
  <2>2. At(c, c[i]) = i
    <3>1. SectionAt(LeftPlace, RightPlace) /\ i \in 1..r
      <4>1. r \in Nat
        BY SectionOnContour
      <4> QED BY <4>1, SectionPlaces
    <3> QED BY <3>1, SectionNodes
  <2> QED BY <1>1, <1>3, <1>4, <2>1, <2>2
<1>7. sigma[c[1]] = rho[c[1]] /\ sigma[c[r]] = offset + rho[c[r]]
  <2>1. rho[c[1]] \in Int
    BY <1>3
  <2> QED BY <1>1, <1>3, <1>4, <2>1
<1> QED BY <1>4, <1>5, <1>6, <1>7

LEMMA SpreadAfter ==
  ASSUME Placing, PlaceSet, NEW rho, SpreadOn(rho, contour')
  PROVE  /\ \A p, q \in 1..Len(contour) : (p < q /\ (q <= LeftPlace \/ p >= RightPlace)) =>
              rho[contour[p]] <= rho[contour[q]]
         /\ \A q, s \in 1..l : q < s => rho[Vk.nodes[q]] <= rho[Vk.nodes[s]]
         /\ \A q \in 1..l : rho[c[1]] <= rho[Vk.nodes[q]] /\ rho[Vk.nodes[q]] <= rho[c[r]]
<1> DEFINE a == LeftPlace
           b == RightPlace
           n == Len(contour)
           d == contour'
           z == Vk.nodes
<1>1. /\ a \in Nat /\ b \in Nat /\ l \in Nat \ {0} /\ n \in Nat
      /\ Len(d) = a + l + (n - b + 1)
      /\ \A q \in 1..a : d[q] = contour[q]
      /\ \A q \in 1..l : d[a + q] = z[q]
      /\ \A q \in b..n : d[q - b + 1 + a + l] = contour[q]
  BY NewContour
<1>2. a \in 1..n /\ b \in 1..n /\ a < b /\ contour[a] = c[1] /\ contour[b] = c[r]
  BY SectionOnContour
<1>3. \A i, j \in 1..Len(d) : i < j => rho[d[i]] <= rho[d[j]]
  BY DEF SpreadOn
<1> HIDE DEF a, b, n, d, z
<1>4. ASSUME NEW p \in 1..n, NEW q \in 1..n, p < q, q <= a
      PROVE  rho[contour[p]] <= rho[contour[q]]
  <2>1. p \in 1..a /\ q \in 1..a /\ p \in 1..Len(d) /\ q \in 1..Len(d)
    BY <1>1, <1>2, <1>4
  <2>2. rho[d[p]] <= rho[d[q]]
    BY <1>3, <1>4, <2>1
  <2> QED BY <1>1, <2>1, <2>2
<1>5. ASSUME NEW p \in 1..n, NEW q \in 1..n, p < q, p >= b
      PROVE  rho[contour[p]] <= rho[contour[q]]
  <2> DEFINE i == p - b + 1 + a + l
             j == q - b + 1 + a + l
  <2>1. p \in b..n /\ q \in b..n /\ i \in 1..Len(d) /\ j \in 1..Len(d) /\ i < j
    BY <1>1, <1>2, <1>5
  <2>2. rho[d[i]] <= rho[d[j]]
    BY <1>3, <2>1
  <2> QED BY <1>1, <2>1, <2>2
<1>6. ASSUME NEW q \in 1..l, NEW s \in 1..l, q < s PROVE rho[z[q]] <= rho[z[s]]
  <2>1. a + q \in 1..Len(d) /\ a + s \in 1..Len(d) /\ a + q < a + s
    BY <1>1, <1>2, <1>6
  <2>2. rho[d[a + q]] <= rho[d[a + s]]
    BY <1>3, <2>1
  <2> QED BY <1>1, <2>2
<1>7. ASSUME NEW q \in 1..l PROVE rho[c[1]] <= rho[z[q]] /\ rho[z[q]] <= rho[c[r]]
  <2> DEFINE j == b - b + 1 + a + l
  <2>1. /\ a \in 1..a /\ b \in b..n /\ a \in 1..Len(d) /\ a + q \in 1..Len(d) /\ j \in 1..Len(d)
        /\ a < a + q /\ a + q < j
    BY <1>1, <1>2
  <2>2. rho[d[a]] <= rho[d[a + q]] /\ rho[d[a + q]] <= rho[d[j]]
    BY <1>3, <2>1
  <2>3. d[a] = c[1] /\ d[a + q] = z[q] /\ d[j] = c[r]
    BY <1>1, <1>2, <2>1
  <2> QED BY <2>2, <2>3
<1> QED BY <1>4, <1>5, <1>6, <1>7 DEF a, b, n, z

(* The walks down do not move further what is left of where it stops.      *)
LEMMA MoveRises ==
  ASSUME Placing
  PROVE  \A i, j \in 2..(r - 1) : i < j =>
           /\ Move(i) <= Move(j)
           /\ \/ Upper(i) = Upper(j)
              \/ Upper(i) = c[1] /\ Upper(j) \in {c[r], Vk.nodes[1]}
              \/ Upper(i) = Vk.nodes[1] /\ Upper(j) = c[r]
<1>1. alpha \in Int /\ beta \in Int /\ alpha <= beta /\ r \in Nat
  BY WalkFromLeft, WalkFromRight, WalksMeet, SectionOnContour
<1>2. PICK o \in Nat : offset = 2 * o
  BY SetFits
<1>3. offset \div 2 = o /\ 0 <= o /\ o <= offset /\ offset \in Nat
  BY <1>2
<1> SUFFICES ASSUME NEW i \in 2..(r - 1), NEW j \in 2..(r - 1), i < j
             PROVE  /\ Move(i) <= Move(j)
                    /\ \/ Upper(i) = Upper(j)
                       \/ Upper(i) = c[1] /\ Upper(j) \in {c[r], Vk.nodes[1]}
                       \/ Upper(i) = Vk.nodes[1] /\ Upper(j) = c[r]
  OBVIOUS
<1>4. i \in Int /\ j \in Int
  BY <1>1
<1>5. Move(i) <= Move(j)
  BY <1>1, <1>3, <1>4 DEF Move
<1>6. \/ Upper(i) = Upper(j)
      \/ Upper(i) = c[1] /\ Upper(j) \in {c[r], Vk.nodes[1]}
      \/ Upper(i) = Vk.nodes[1] /\ Upper(j) = c[r]
  BY <1>1, <1>4 DEF Upper
<1> QED BY <1>5, <1>6

LEMMA SpreadBefore ==
  ASSUME Placing, PlaceSet, NEW rho, SpreadOn(rho, contour'), NEW sigma, sigma = Before(rho)
  PROVE  SpreadOn(sigma, contour)
<1> DEFINE a == LeftPlace
           b == RightPlace
           n == Len(contour)
           z1 == Vk.nodes[1]
<1>1. rho \in [Nodes -> Int]
  BY DEF SpreadOn
<1>2. /\ sigma \in [Nodes -> Int]
      /\ \A q \in 1..n : /\ q <= a => sigma[contour[q]] = rho[contour[q]]
                         /\ q >= b => sigma[contour[q]] = offset + rho[contour[q]]
      /\ \A i \in 2..(r - 1) : /\ sigma[c[i]] = Move(i) + rho[Upper(i)]
                               /\ Upper(i) \in {c[1], c[r], z1}
  BY <1>1, BeforeValues
<1>3. /\ \A p, q \in 1..n : (p < q /\ (q <= a \/ p >= b)) => rho[contour[p]] <= rho[contour[q]]
      /\ \A q \in 1..l : rho[c[1]] <= rho[Vk.nodes[q]] /\ rho[Vk.nodes[q]] <= rho[c[r]]
  BY SpreadAfter
<1>4. /\ 1 \in 1..l /\ offset \in Nat /\ r \in Nat
      /\ a \in 1..n /\ b \in 1..n /\ n \in Nat /\ a < b
      /\ contour[a] = c[1] /\ contour[b] = c[r] /\ c[1] \in Nodes /\ c[r] \in Nodes /\ z1 \in Nodes
      /\ \A q \in 1..n : contour[q] \in Nodes
  <2>1. 1 \in 1..l /\ 1 \in 1..r /\ r \in 1..r
    BY SectionOnContour
  <2> QED BY <2>1, SectionOnContour, SetFits
<1>5. /\ rho[c[1]] <= rho[z1] /\ rho[z1] <= rho[c[r]]
      /\ rho[c[1]] \in Int /\ rho[z1] \in Int /\ rho[c[r]] \in Int
  BY <1>1, <1>3, <1>4
<1>6. \A i \in 2..(r - 1) : Move(i) \in 0..offset
  BY MoveAndShift
<1> HIDE DEF a, b, n, z1
<1>7. \A q \in 1..n : rho[contour[q]] \in Int
  BY <1>1, <1>4
<1>8. ASSUME NEW q \in 1..n, q > a, q < b
      PROVE  \E i \in 2..(r - 1) : i = q - a + 1 /\ contour[q] = c[i]
  BY <1>8, ContourParts DEF a, b, n
<1>9. \A i \in 2..(r - 1) : /\ sigma[c[i]] \in Int
                            /\ rho[c[1]] <= sigma[c[i]] /\ sigma[c[i]] <= offset + rho[c[r]]
  <2> SUFFICES ASSUME NEW i \in 2..(r - 1)
               PROVE  /\ sigma[c[i]] \in Int
                      /\ rho[c[1]] <= sigma[c[i]] /\ sigma[c[i]] <= offset + rho[c[r]]
    OBVIOUS
  <2>1. PICK m \in Int : m = Move(i) /\ 0 <= m /\ m <= offset
    BY <1>4, <1>6
  <2>2. PICK t \in Int : t = rho[Upper(i)] /\ rho[c[1]] <= t /\ t <= rho[c[r]]
    BY <1>2, <1>5
  <2>3. sigma[c[i]] = m + t
    BY <1>2, <2>1, <2>2
  <2> QED BY <1>4, <1>5, <2>1, <2>2, <2>3
<1>10. ASSUME NEW p \in 1..n, NEW q \in 1..n, p < q
       PROVE  sigma[contour[p]] <= sigma[contour[q]]
  <2>0. /\ (p <= a => rho[contour[p]] <= rho[c[1]])
        /\ (q >= b => rho[c[r]] <= rho[contour[q]])
    <3>1. (p <= a => p = a \/ p < a) /\ (q >= b => q = b \/ b < q)
      BY <1>4
    <3> QED BY <1>3, <1>4, <1>5, <3>1
  <2>1. CASE q <= a
    BY <1>2, <1>3, <1>4, <1>10, <2>1
  <2>2. CASE p >= b
    <3>1. q >= b
      BY <1>4, <1>10, <2>2
    <3>2. rho[contour[p]] <= rho[contour[q]]
      BY <1>3, <1>10, <2>2
    <3> QED BY <1>2, <1>4, <1>7, <2>2, <3>1, <3>2
  <2>3. CASE p <= a /\ q >= b
    <3>1. rho[contour[p]] \in Int /\ rho[contour[q]] \in Int
      BY <1>7
    <3>2. sigma[contour[p]] = rho[contour[p]] /\ sigma[contour[q]] = offset + rho[contour[q]]
      BY <1>2, <2>3
    <3> QED BY <1>4, <1>5, <2>0, <2>3, <3>1, <3>2
  <2>4. CASE p <= a /\ q > a /\ q < b
    <3>1. PICK i \in 2..(r - 1) : contour[q] = c[i]
      BY <1>8, <2>4
    <3>2. sigma[c[i]] \in Int /\ rho[c[1]] <= sigma[c[i]]
      BY <1>9
    <3>3. sigma[contour[p]] = rho[contour[p]] /\ rho[contour[p]] \in Int /\ rho[contour[p]] <= rho[c[1]]
      BY <1>2, <1>7, <2>0, <2>4
    <3> QED BY <1>5, <3>1, <3>2, <3>3
  <2>5. CASE p > a /\ p < b /\ q >= b
    <3>1. PICK i \in 2..(r - 1) : contour[p] = c[i]
      BY <1>8, <2>5
    <3>2. sigma[c[i]] \in Int /\ sigma[c[i]] <= offset + rho[c[r]]
      BY <1>9
    <3>3. sigma[contour[q]] = offset + rho[contour[q]] /\ rho[contour[q]] \in Int /\ rho[c[r]] <= rho[contour[q]]
      BY <1>2, <1>7, <2>0, <2>5
    <3> QED BY <1>4, <1>5, <3>1, <3>2, <3>3
  <2>6. CASE p > a /\ q < b
    <3>1. p < b /\ q > a
      BY <1>4, <1>10, <2>6
    <3>2. PICK i \in 2..(r - 1) : i = p - a + 1 /\ contour[p] = c[i]
      BY <1>8, <2>6, <3>1
    <3>3. PICK j \in 2..(r - 1) : j = q - a + 1 /\ contour[q] = c[j]
      BY <1>8, <2>6, <3>1
    <3>4. i < j
      BY <1>4, <1>10, <3>2, <3>3
    <3>5. /\ Move(i) <= Move(j)
          /\ \/ Upper(i) = Upper(j)
             \/ Upper(i) = c[1] /\ Upper(j) \in {c[r], z1}
             \/ Upper(i) = z1 /\ Upper(j) = c[r]
      BY <3>4, MoveRises DEF z1
    <3>6. rho[Upper(i)] <= rho[Upper(j)] /\ rho[Upper(i)] \in Int /\ rho[Upper(j)] \in Int
      BY <1>2, <1>5, <3>5
    <3>7. PICK m \in Int, o \in Int : m = Move(i) /\ o = Move(j) /\ m <= o
      BY <1>4, <1>6, <3>5
    <3>8. sigma[c[i]] = m + rho[Upper(i)] /\ sigma[c[j]] = o + rho[Upper(j)]
      BY <1>2, <3>7
    <3> QED BY <3>2, <3>3, <3>6, <3>7, <3>8
  <2>7. p \in Int /\ q \in Int /\ a \in Int /\ b \in Int
    BY <1>4
  <2> QED BY <2>1, <2>2, <2>3, <2>4, <2>5, <2>6, <2>7
<1> QED BY <1>2, <1>10 DEF SpreadOn, n

(* The edges the sets put so far have.                                     *)
EdgesOfSet(i) ==
  LET S == order[i]
      chain == {<< S.nodes[j], S.nodes[j + 1] >> : j \in 1..(Len(S.nodes) - 1)}
  IN IF i = 1 THEN chain
     ELSE chain \cup {<< S.left, Head(S.nodes) >>, << Last(S.nodes), S.right >>}
          \cup IF Len(S.nodes) > 1 THEN {}
               ELSE {<< v, S.nodes[1] >> : v \in ToSet(Covered(Contours(order)[i - 1], S))}

PlacedEdges(n) == UNION {EdgesOfSet(i) : i \in 1..n}

LEMMA AllEdges ==
  ASSUME IsShelling(order)
  PROVE  Edges = PlacedEdges(Len(order))
<1>1. DOMAIN order = 1..Len(order)
  BY DEF IsShelling, Shelling
<1>2. Edges = UNION {EdgesOfSet(i) : i \in DOMAIN order}
  BY DEF Edges, EdgesOf, EdgesOfSet
<1> QED BY <1>1, <1>2 DEF PlacedEdges

LEMMA EdgesGrow ==
  ASSUME NEW n \in Nat
  PROVE  PlacedEdges(n + 1) = PlacedEdges(n) \cup EdgesOfSet(n + 1)
<1>1. 1..(n + 1) = (1..n) \cup {n + 1}
  OBVIOUS
<1> QED BY <1>1 DEF PlacedEdges

(* The edges of Vk in the terms of the step.                               *)
LEMMA SetEdges ==
  ASSUME Placing, NEW e \in EdgesOfSet(k + 1)
  PROVE  SetEdge(contour, LeftPlace, RightPlace, Vk.nodes, e)
<1> DEFINE a == LeftPlace
           b == RightPlace
           z == Vk.nodes
<1>1. SectionAt(a, b)
  BY SectionPlaces
<1>2. /\ a \in 1..Len(contour) /\ b \in 1..Len(contour) /\ a < b /\ Len(contour) \in Nat
      /\ contour[a] = Vk.left /\ contour[b] = Vk.right
      /\ r = b - a + 1 /\ r \in Nat
      /\ \A i \in 1..r : c[i] = contour[a + i - 1] /\ a + i - 1 \in a..b
  BY <1>1, PlacingFacts DEF SectionAt, FitsAt
<1>3. /\ k \in Nat /\ k + 1 # 1 /\ z \in Seq(Nodes) /\ Len(z) \in Nat \ {0}
      /\ contour = Contours(order)[k]
  BY PlacingFacts DEF l, Placing, LayoutInv
<1>4. Head(z) = z[1] /\ Last(z) = z[Len(z)]
  BY <1>3 DEF Last
<1>5. \/ \E q \in 1..(Len(z) - 1) : e = << z[q], z[q + 1] >>
      \/ e = << contour[a], z[1] >>
      \/ e = << z[Len(z)], contour[b] >>
      \/ Len(z) = 1 /\ \E v \in Inner : e = << v, z[1] >>
  <2>1. e \in {<< z[j], z[j + 1] >> : j \in 1..(Len(z) - 1)}
              \cup {<< Vk.left, Head(z) >>, << Last(z), Vk.right >>}
              \cup IF Len(z) > 1 THEN {} ELSE {<< v, z[1] >> : v \in ToSet(Covered(contour, Vk))}
    <3>1. (k + 1) - 1 = k
      BY <1>3
    <3> QED BY <1>3, <3>1 DEF EdgesOfSet, Vk
  <2>2. ToSet(Covered(contour, Vk)) = Inner
    BY CoveredIsInner
  <2>3. ~ (Len(z) > 1) => Len(z) = 1
    <3>1. \A m \in Nat \ {0} : ~ (m > 1) => m = 1
      OBVIOUS
    <3> QED BY <1>3, <3>1
  <2> QED BY <1>2, <1>4, <2>1, <2>2, <2>3
<1> HIDE DEF a, b, z
<1>6. ASSUME NEW i, NEW q, SpokeAt(a, b, z, i, q), e = << contour[i], z[q] >> \/ e = << z[q], contour[i] >>
      PROVE  SetEdge(contour, a, b, z, e)
  BY <1>6 DEF SetEdge
<1>7. CASE \E q \in 1..(Len(z) - 1) : e = << z[q], z[q + 1] >>
  BY <1>7 DEF SetEdge, a, b, z
<1>8. CASE e = << contour[a], z[1] >>
  <2>1. SpokeAt(a, b, z, a, 1)
    BY <1>2, <1>3 DEF SpokeAt
  <2> QED BY <1>6, <1>8, <2>1 DEF a, b, z
<1>9. CASE e = << z[Len(z)], contour[b] >>
  <2>1. SpokeAt(a, b, z, b, Len(z))
    BY <1>2, <1>3 DEF SpokeAt
  <2> QED BY <1>6, <1>9, <2>1 DEF a, b, z
<1>10. CASE Len(z) = 1 /\ \E v \in Inner : e = << v, z[1] >>
  <2>1. PICK i \in 2..(r - 1) : e = << c[i], z[1] >>
    BY <1>10 DEF Inner
  <2>2. PICK j \in a..b : c[i] = contour[j]
    <3>1. i \in 1..r
      BY <1>2
    <3> QED BY <1>2, <3>1
  <2>3. SpokeAt(a, b, z, j, 1)
    BY <1>10 DEF SpokeAt
  <2> QED BY <1>6, <2>1, <2>2, <2>3 DEF a, b, z
<1> QED BY <1>5, <1>7, <1>8, <1>9, <1>10

(* The new contour in the terms of the step.                               *)
LEMMA NewContourWith ==
  ASSUME Placing, PlaceSet
  PROVE  ContourWith(contour, LeftPlace, RightPlace, Vk.nodes, contour')
<1> DEFINE a == LeftPlace
           b == RightPlace
           n == Len(contour)
           d == contour'
           z == Vk.nodes
<1>1. /\ a \in Nat /\ b \in Nat /\ Len(z) \in Nat \ {0} /\ n \in Nat
      /\ Len(d) = a + Len(z) + (n - b + 1)
      /\ \A q \in 1..a : d[q] = contour[q]
      /\ \A q \in 1..Len(z) : d[a + q] = z[q]
      /\ \A q \in b..n : d[q - b + 1 + a + Len(z)] = contour[q]
  BY NewContour DEF l
<1>2. a \in 1..n /\ b \in 1..n /\ a < b /\ contour[a] = c[1] /\ contour[b] = c[r]
  BY SectionOnContour
<1>3. \A i \in 2..Len(d) : OldPair(i) \/ NewPair(i)
  BY ContourPairs
<1>4. ASSUME NEW i \in 2..Len(d), OldPair(i)
      PROVE  \E j \in 2..Len(contour) : /\ j <= a \/ j > b
                                        /\ d[i - 1] = contour[j - 1] /\ d[i] = contour[j]
  BY <1>4 DEF OldPair
<1> HIDE DEF a, b, n, d, z
<1>5. ASSUME NEW i \in 2..Len(d), NewPair(i)
      PROVE  SetEdge(contour, a, b, z, << d[i - 1], d[i] >>)
  <2>0. ASSUME NEW j, NEW q, SpokeAt(a, b, z, j, q),
               \/ << d[i - 1], d[i] >> = << contour[j], z[q] >>
               \/ << d[i - 1], d[i] >> = << z[q], contour[j] >>
        PROVE  SetEdge(contour, a, b, z, << d[i - 1], d[i] >>)
    BY <2>0 DEF SetEdge
  <2>1. CASE d[i - 1] = contour[a] /\ d[i] = z[1]
    <3>1. SpokeAt(a, b, z, a, 1)
      BY <1>1, <1>2 DEF SpokeAt
    <3> QED BY <2>0, <2>1, <3>1
  <2>2. ASSUME NEW q \in 2..Len(z), d[i - 1] = z[q - 1], d[i] = z[q]
        PROVE  SetEdge(contour, a, b, z, << d[i - 1], d[i] >>)
    <3>1. q - 1 \in 1..(Len(z) - 1) /\ (q - 1) + 1 = q
      BY <1>1
    <3>2. << d[i - 1], d[i] >> = << z[q - 1], z[(q - 1) + 1] >>
      BY <2>2, <3>1
    <3> QED BY <3>1, <3>2 DEF SetEdge
  <2>3. CASE d[i - 1] = z[Len(z)] /\ d[i] = contour[b]
    <3>1. SpokeAt(a, b, z, b, Len(z))
      BY <1>1, <1>2 DEF SpokeAt
    <3> QED BY <2>0, <2>3, <3>1
  <2>4. \/ d[i - 1] = contour[a] /\ d[i] = z[1]
        \/ \E q \in 2..Len(z) : d[i - 1] = z[q - 1] /\ d[i] = z[q]
        \/ d[i - 1] = z[Len(z)] /\ d[i] = contour[b]
    BY <1>2, <1>5 DEF NewPair, l, d, z
  <2> QED BY <2>1, <2>2, <2>3, <2>4
<1>6. ASSUME NEW i \in 1..Len(d)
      PROVE  \/ \E j \in 1..Len(contour) : (j <= a \/ j >= b) /\ d[i] = contour[j]
             \/ \E q \in 1..Len(z) : d[i] = z[q]
  <2>1. CASE i <= a
    <3>1. i \in 1..a /\ i \in 1..n
      BY <1>1, <1>2, <2>1
    <3> QED BY <1>1, <2>1, <3>1 DEF n
  <2>2. CASE i > a /\ i <= a + Len(z)
    <3>1. i - a \in 1..Len(z) /\ a + (i - a) = i
      BY <1>1, <2>2
    <3> QED BY <1>1, <3>1
  <2>3. CASE i > a + Len(z)
    <3>0. i - a - Len(z) - 1 + b \in Int
      BY <1>1
    <3>1. PICK q \in Int : q = i - a - Len(z) - 1 + b
      BY <3>0
    <3>2. q \in b..n /\ q \in 1..n /\ q >= b /\ q - b + 1 + a + Len(z) = i
      BY <1>1, <1>2, <2>3, <3>1
    <3> QED BY <1>1, <3>2 DEF n
  <2> QED BY <1>1, <2>1, <2>2, <2>3
<1> QED BY <1>3, <1>4, <1>5, <1>6 DEF ContourWith, a, b, d, z

-----------------------------------------------------------------------------
(***************************************************************************)
(* Where the set lies.                                                     *)
(***************************************************************************)
LEMMA FallsAlong ==
  ASSUME NEW lo \in Int, NEW hi \in Int, NEW H, \A i \in lo..hi : H[i] \in Int,
         \A i \in (lo + 1)..hi : H[i] <= H[i - 1]
  PROVE  \A i, j \in lo..hi : i < j => H[j] <= H[i]
<1> SUFFICES ASSUME NEW i \in lo..hi PROVE \A j \in lo..hi : i < j => H[j] <= H[i]
  OBVIOUS
<1> DEFINE T == {j \in Int : H[j] <= H[i]}
<1>1. i \in T /\ i \in Int /\ i <= hi
  OBVIOUS
<1>2. ASSUME NEW j \in i..(hi - 1), j \in T PROVE j + 1 \in T
  <2>1. j + 1 \in (lo + 1)..hi /\ (j + 1) - 1 = j /\ j \in lo..hi /\ j + 1 \in lo..hi
    OBVIOUS
  <2>2. H[j + 1] <= H[j] /\ H[j + 1] \in Int /\ H[j] \in Int /\ H[i] \in Int /\ H[j] <= H[i]
    BY <1>2, <2>1
  <2> QED BY <2>1, <2>2
<1>3. \A j \in i..hi : j \in T
  <2> HIDE DEF T
  <2> QED BY <1>1, <1>2, Upwards
<1> QED BY <1>3

LEMMA RisesAlong ==
  ASSUME NEW lo \in Int, NEW hi \in Int, NEW H, \A i \in lo..hi : H[i] \in Int,
         \A i \in (lo + 1)..hi : H[i - 1] <= H[i]
  PROVE  \A i, j \in lo..hi : i < j => H[i] <= H[j]
<1> SUFFICES ASSUME NEW i \in lo..hi PROVE \A j \in lo..hi : i < j => H[i] <= H[j]
  OBVIOUS
<1> DEFINE T == {j \in Int : H[i] <= H[j]}
<1>1. i \in T /\ i \in Int /\ i <= hi
  OBVIOUS
<1>2. ASSUME NEW j \in i..(hi - 1), j \in T PROVE j + 1 \in T
  <2>1. j + 1 \in (lo + 1)..hi /\ (j + 1) - 1 = j /\ j \in lo..hi /\ j + 1 \in lo..hi
    OBVIOUS
  <2>2. H[j] <= H[j + 1] /\ H[j + 1] \in Int /\ H[j] \in Int /\ H[i] \in Int /\ H[i] <= H[j]
    BY <1>2, <2>1
  <2> QED BY <2>1, <2>2
<1>3. \A j \in i..hi : j \in T
  <2> HIDE DEF T
  <2> QED BY <1>1, <1>2, Upwards
<1> QED BY <1>3

(* A path that advances and nowhere climbs or falls more than it advances. *)
LEMMA ClimbsAlong ==
  ASSUME NEW hi \in Int, NEW D, NEW H, \A i \in 1..hi : D[i] \in Int /\ H[i] \in Int,
         \A i \in 2..hi : /\ D[i - 1] < D[i]
                          /\ H[i] - H[i - 1] <= D[i] - D[i - 1]
                          /\ H[i - 1] - H[i] <= D[i] - D[i - 1]
  PROVE  \A i, j \in 1..hi : i < j =>
           /\ D[i] < D[j]
           /\ H[j] - H[i] <= D[j] - D[i]
           /\ H[i] - H[j] <= D[j] - D[i]
<1> DEFINE Climb(i, j) == /\ D[i] < D[j]
                          /\ H[j] - H[i] <= D[j] - D[i]
                          /\ H[i] - H[j] <= D[j] - D[i]
<1> SUFFICES ASSUME NEW i \in 1..hi PROVE \A j \in 1..hi : i < j => Climb(i, j)
  OBVIOUS
<1> DEFINE T == {j \in Int : j = i \/ Climb(i, j)}
<1>1. i \in T /\ i \in Int /\ i <= hi
  OBVIOUS
<1>2. ASSUME NEW j \in i..(hi - 1), j \in T PROVE j + 1 \in T
  <2>1. j + 1 \in 2..hi /\ (j + 1) - 1 = j /\ j \in 1..hi /\ j + 1 \in 1..hi /\ j + 1 \in Int
    OBVIOUS
  <2>2. /\ D[j] < D[j + 1]
        /\ H[j + 1] - H[j] <= D[j + 1] - D[j]
        /\ H[j] - H[j + 1] <= D[j + 1] - D[j]
    BY <2>1
  <2>3. PICK d \in Int, e \in Int, f \in Int : d = D[i] /\ e = D[j] /\ f = D[j + 1]
    BY <2>1
  <2>4. PICK u \in Int, v \in Int, w \in Int : u = H[i] /\ v = H[j] /\ w = H[j + 1]
    BY <2>1
  <2>5. Climb(i, j + 1)
    <3>1. e < f /\ w - v <= f - e /\ v - w <= f - e
      BY <2>2, <2>3, <2>4
    <3>2. CASE j = i
      BY <2>2, <3>2
    <3>3. CASE Climb(i, j)
      <4>1. d < e /\ v - u <= e - d /\ u - v <= e - d
        BY <2>3, <2>4, <3>3
      <4>2. d < f /\ w - u <= f - d /\ u - w <= f - d
        BY <3>1, <4>1
      <4> QED BY <2>3, <2>4, <4>2
    <3> QED BY <1>2, <3>2, <3>3
  <2> QED BY <2>1, <2>5
<1>3. \A j \in i..hi : j \in T
  <2> HIDE DEF T
  <2> QED BY <1>1, <1>2, Upwards
<1> QED BY <1>3

LEMMA SectionClimb ==
  ASSUME Placing
  PROVE  \A i, j \in 1..r : i < j =>
           /\ Distance(i) < Distance(j)
           /\ y[c[j]] - y[c[i]] <= Distance(j) - Distance(i)
           /\ y[c[i]] - y[c[j]] <= Distance(j) - Distance(i)
<1>1. /\ r \in Nat /\ \A i \in 1..r : y[c[i]] \in Nat /\ Distance(i) \in Int
  BY SectionSlopes, SectionDistances
<1>2. PICK D, H : D = [i \in 1..r |-> Distance(i)] /\ H = [i \in 1..r |-> y[c[i]]]
  OBVIOUS
<1>3. \A i \in 1..r : D[i] = Distance(i) /\ H[i] = y[c[i]] /\ D[i] \in Int /\ H[i] \in Int
  BY <1>1, <1>2
<1>4. ASSUME NEW i \in 2..r
      PROVE  /\ D[i - 1] < D[i]
             /\ H[i] - H[i - 1] <= D[i] - D[i - 1]
             /\ H[i - 1] - H[i] <= D[i] - D[i - 1]
  <2>1. i - 1 \in 1..r /\ i \in 1..r
    BY <1>1
  <2>2. PICK w \in Int : w = x[c[i]] /\ w > 0
    BY SectionSlopes
  <2>3. \/ y[c[i]] - y[c[i - 1]] = w
        \/ y[c[i]] - y[c[i - 1]] = - w
        \/ y[c[i]] - y[c[i - 1]] = 0 /\ w = 2
    BY <2>2, SectionSlopes
  <2>4. D[i] = D[i - 1] + w
    BY <1>3, <2>1, <2>2, SectionDistances
  <2>5. PICK d \in Int, u \in Int, v \in Int : d = D[i - 1] /\ u = H[i - 1] /\ v = H[i]
    BY <1>3, <2>1
  <2>6. v - u = w \/ v - u = - w \/ (v - u = 0 /\ w = 2)
    BY <1>3, <2>1, <2>3, <2>5
  <2>7. d < d + w /\ v - u <= (d + w) - d /\ u - v <= (d + w) - d
    BY <2>2, <2>6
  <2> QED BY <2>4, <2>5, <2>7
<1>5. \A i, j \in 1..r : i < j =>
           /\ D[i] < D[j]
           /\ H[j] - H[i] <= D[j] - D[i]
           /\ H[i] - H[j] <= D[j] - D[i]
  <2>1. \A i \in 1..r : D[i] \in Int /\ H[i] \in Int
    BY <1>3
  <2>2. \A i \in 2..r : /\ D[i - 1] < D[i]
                         /\ H[i] - H[i - 1] <= D[i] - D[i - 1]
                         /\ H[i - 1] - H[i] <= D[i] - D[i - 1]
    BY <1>4
  <2>3. r \in Int
    BY <1>1
  <2> QED BY <2>1, <2>2, <2>3, ClimbsAlong
<1> QED BY <1>3, <1>5

LEMMA ContourClimb ==
  ASSUME NEW X, NEW root, GridReady(X, root)
  PROVE  \A i, j \in 1..Len(contour) : i < j =>
           /\ X[contour[i]] < X[contour[j]]
           /\ y[contour[j]] - y[contour[i]] <= X[contour[j]] - X[contour[i]]
           /\ y[contour[i]] - y[contour[j]] <= X[contour[j]] - X[contour[i]]
<1> DEFINE n == Len(contour)
<1>1. /\ Placing /\ X \in [Nodes -> Nat] /\ y \in [Nodes -> Nat] /\ x \in [Nodes -> Int]
      /\ \A i \in 2..n : X[contour[i]] = X[contour[i - 1]] + x[contour[i]]
      /\ \A i \in 2..n :
           LET dx == x[contour[i]]
               dy == y[contour[i]] - y[contour[i - 1]]
           IN dx > 0 /\ (dy \in {dx, - dx} \/ (dy = 0 /\ dx = 2))
  BY DEF GridReady, Located, Placing, LayoutInv, TypeOK, ContourSlopes
<1>2. n \in Nat /\ \A i \in 1..n : contour[i] \in Nodes
  BY <1>1, SectionOnContour
<1> HIDE DEF n
<1>3. PICK D, H : D = [i \in 1..n |-> X[contour[i]]] /\ H = [i \in 1..n |-> y[contour[i]]]
  OBVIOUS
<1>4. \A i \in 1..n : D[i] = X[contour[i]] /\ H[i] = y[contour[i]] /\ D[i] \in Int /\ H[i] \in Int
  BY <1>1, <1>2, <1>3
<1>5. ASSUME NEW i \in 2..n
      PROVE  /\ D[i - 1] < D[i]
             /\ H[i] - H[i - 1] <= D[i] - D[i - 1]
             /\ H[i - 1] - H[i] <= D[i] - D[i - 1]
  <2>1. i - 1 \in 1..n /\ i \in 1..n
    BY <1>2
  <2>2. PICK w \in Int : w = x[contour[i]]
    BY <1>1, <1>2, <2>1
  <2>3. PICK d \in Int, u \in Int, v \in Int : d = D[i - 1] /\ u = H[i - 1] /\ v = H[i]
    BY <1>4, <2>1
  <2>4. D[i] = d + w /\ w > 0 /\ (v - u = w \/ v - u = - w \/ (v - u = 0 /\ w = 2))
    BY <1>1, <1>4, <2>1, <2>2, <2>3
  <2>5. d < d + w /\ v - u <= (d + w) - d /\ u - v <= (d + w) - d
    BY <2>4
  <2> QED BY <2>3, <2>4, <2>5
<1>6. \A i, j \in 1..n : i < j =>
           /\ D[i] < D[j]
           /\ H[j] - H[i] <= D[j] - D[i]
           /\ H[i] - H[j] <= D[j] - D[i]
  <2>1. \A i \in 1..n : D[i] \in Int /\ H[i] \in Int
    BY <1>4
  <2>2. \A i \in 2..n : /\ D[i - 1] < D[i]
                         /\ H[i] - H[i - 1] <= D[i] - D[i - 1]
                         /\ H[i - 1] - H[i] <= D[i] - D[i - 1]
    BY <1>5
  <2>3. n \in Int
    BY <1>2
  <2> QED BY <2>1, <2>2, <2>3, ClimbsAlong
<1> QED BY <1>4, <1>6 DEF n

(* cr is shifted far enough that the first node of the set sees what is    *)
(* right of the descent from cl, and the last what is left of the descent  *)
(* from cr.                                                                *)
LEMMA LeftGap ==
  ASSUME Placing, NEW s \in 2..r
  PROVE  Distance(s) + y[c[1]] - y[c[s]] + (offset \div 2) > 0
<1>1. /\ r \in Nat /\ r >= 2 /\ \A i \in 1..r : y[c[i]] \in Nat /\ Distance(i) \in Int
      /\ Distance(1) = 0
  BY SectionSlopes, SectionDistances
<1>2. 1 \in 1..r /\ 2 \in 1..r /\ s \in 1..r /\ 1 < s /\ (s = 2 \/ 2 < s) /\ 1 < 2
  BY <1>1
<1>3. PICK o \in Nat : offset = 2 * o
  BY SetFits
<1>4. offset \div 2 = o /\ (EdgeInside => o > 0)
  BY <1>3, SetFits
<1>5. PICK d \in Int, e \in Int : d = Distance(2) /\ e = Distance(s)
  BY <1>1, <1>2
<1>6. PICK u \in Int, v \in Int, w \in Int : u = y[c[1]] /\ v = y[c[2]] /\ w = y[c[s]]
  BY <1>1, <1>2
<1>7. 0 < d /\ w - u <= e
  <2>1. Distance(1) < Distance(2) /\ y[c[s]] - y[c[1]] <= Distance(s) - Distance(1)
    BY <1>2, SectionClimb
  <2> QED BY <1>1, <1>5, <1>6, <2>1
<1>8. w - v <= e - d
  <2>1. CASE s = 2
    BY <1>5, <1>6, <2>1
  <2>2. CASE 2 < s
    <3>1. y[c[s]] - y[c[2]] <= Distance(s) - Distance(2)
      BY <1>2, <2>2, SectionClimb
    <3> QED BY <1>5, <1>6, <3>1
  <2> QED BY <1>2, <2>1, <2>2
<1>9. ~ EdgeInside => v <= u
  BY <1>6 DEF EdgeInside
<1>10. e + u - w + o > 0
  BY <1>4, <1>7, <1>8, <1>9
<1> QED BY <1>4, <1>5, <1>6, <1>10

LEMMA RightGap ==
  ASSUME Placing, NEW s \in 1..(r - 1)
  PROVE  Distance(r) - Distance(s) + y[c[r]] - y[c[s]] + offset - (offset \div 2) > 0
<1>1. /\ r \in Nat /\ r >= 2 /\ \A i \in 1..r : y[c[i]] \in Nat /\ Distance(i) \in Int
  BY SectionSlopes, SectionDistances
<1>2. PICK t \in Int : t = r - 1
  BY <1>1
<1>3. t \in 1..r /\ r \in 1..r /\ s \in 1..r /\ s < r /\ (s = t \/ s < t) /\ t < r
  BY <1>1, <1>2
<1>4. PICK o \in Nat : offset = 2 * o
  BY SetFits
<1>5. offset \div 2 = o /\ (EdgeInside => o > 0) /\ offset - o = o
  BY <1>4, SetFits
<1>6. PICK d \in Int, e \in Int, f \in Int : d = Distance(t) /\ e = Distance(s) /\ f = Distance(r)
  BY <1>1, <1>3
<1>7. PICK u \in Int, v \in Int, w \in Int : u = y[c[r]] /\ v = y[c[t]] /\ w = y[c[s]]
  BY <1>1, <1>3
<1>8. d < f /\ w - u <= f - e
  <2>1. Distance(t) < Distance(r) /\ y[c[s]] - y[c[r]] <= Distance(r) - Distance(s)
    BY <1>3, SectionClimb
  <2> QED BY <1>6, <1>7, <2>1
<1>9. w - v <= d - e
  <2>1. CASE s = t
    BY <1>6, <1>7, <2>1
  <2>2. CASE s < t
    <3>1. y[c[s]] - y[c[t]] <= Distance(t) - Distance(s)
      BY <1>3, <2>2, SectionClimb
    <3> QED BY <1>6, <1>7, <3>1
  <2> QED BY <1>3, <2>1, <2>2
<1>10. ~ EdgeInside => v <= u
  BY <1>2, <1>7 DEF EdgeInside
<1>11. f - e + u - w + o > 0
  BY <1>5, <1>8, <1>9, <1>10
<1>12. offset \in Int /\ o \in Int
  BY <1>4
<1> QED BY <1>5, <1>6, <1>7, <1>11, <1>12

(* How far a node of the section is moved, compared with the set.          *)
LEMMA BeforeSection ==
  ASSUME Placing, PlaceSet, NEW rho, SpreadOn(rho, contour'), NEW sigma, sigma = Before(rho),
         NEW s \in 1..r
  PROVE  /\ sigma[c[s]] \in Int /\ rho[Vk.nodes[1]] \in Int /\ rho[Vk.nodes[l]] \in Int
         /\ s > alpha => sigma[c[s]] >= rho[Vk.nodes[1]] + (offset \div 2)
         /\ s < beta => sigma[c[s]] <= rho[Vk.nodes[l]] + (offset \div 2)
<1> DEFINE z1 == Vk.nodes[1]
           zl == Vk.nodes[l]
<1>1. rho \in [Nodes -> Int]
  BY DEF SpreadOn
<1>2. /\ sigma \in [Nodes -> Int]
      /\ \A i \in 2..(r - 1) : /\ sigma[c[i]] = Move(i) + rho[Upper(i)]
                               /\ Upper(i) \in {c[1], c[r], z1}
      /\ sigma[c[1]] = rho[c[1]] /\ sigma[c[r]] = offset + rho[c[r]]
  BY <1>1, BeforeValues
<1>3. /\ 1 \in 1..l /\ l \in 1..l /\ r \in Nat /\ r >= 2 /\ l \in Nat
      /\ c[1] \in Nodes /\ c[r] \in Nodes /\ c[s] \in Nodes /\ z1 \in Nodes /\ zl \in Nodes
  <2>1. 1 \in 1..l /\ l \in 1..l /\ 1 \in 1..r /\ r \in 1..r
    BY SectionOnContour
  <2> QED BY <2>1, SectionOnContour
<1>4. /\ rho[c[1]] <= rho[z1] /\ rho[zl] <= rho[c[r]] /\ rho[z1] <= rho[c[r]]
      /\ rho[c[1]] <= rho[zl] /\ rho[z1] <= rho[zl]
  <2>1. rho[z1] <= rho[zl]
    <3>1. CASE l = 1
      BY <1>1, <1>3, <3>1
    <3>2. CASE 1 < l
      BY <1>3, <3>2, SpreadAfter
    <3> QED BY <1>3, <3>1, <3>2
  <2> QED BY <1>3, <2>1, SpreadAfter
<1>5. PICK o \in Nat : offset = 2 * o
  BY SetFits
<1>6. offset \div 2 = o /\ offset \in Int /\ o <= offset
  BY <1>5
<1>7. alpha \in Int /\ beta \in Int /\ alpha \in 1..r /\ beta \in 1..r
  BY <1>3, WalkFromLeft, WalkFromRight
<1>8. PICK t1 \in Int, tl \in Int, u1 \in Int, ur \in Int :
        t1 = rho[z1] /\ tl = rho[zl] /\ u1 = rho[c[1]] /\ ur = rho[c[r]]
  BY <1>1, <1>3
<1>9. sigma[c[s]] \in Int
  BY <1>2, <1>3
<1> HIDE DEF z1, zl
<1>10. CASE s = 1
  <2>1. sigma[c[s]] <= tl + o
    BY <1>2, <1>4, <1>8, <1>10
  <2>2. ~ s > alpha
    BY <1>7, <1>10
  <2> QED BY <1>6, <1>8, <1>9, <2>1, <2>2 DEF z1, zl
<1>11. CASE s = r
  <2>1. sigma[c[s]] >= t1 + o
    BY <1>2, <1>4, <1>5, <1>8, <1>11
  <2>2. ~ s < beta
    BY <1>3, <1>7, <1>11
  <2> QED BY <1>6, <1>8, <1>9, <2>1, <2>2 DEF z1, zl
<1>12. CASE s \in 2..(r - 1)
  <2>1. Move(s) \in 0..offset
    BY <1>12, MoveAndShift
  <2>2. PICK m \in Int : m = Move(s)
    BY <1>6, <2>1
  <2>3. s > alpha => m >= o
    BY <1>3, <1>6, <1>7, <2>2 DEF Move
  <2>4. s < beta => m <= o
    BY <1>3, <1>6, <1>7, <2>2 DEF Move
  <2>5. /\ s > alpha => Upper(s) \in {c[r], z1}
        /\ s < beta => Upper(s) \in {c[1], z1}
    BY <1>3, <1>7 DEF Upper, z1
  <2>6. PICK t \in Int : t = rho[Upper(s)]
    BY <1>2, <1>8, <1>12
  <2>7. (s > alpha => t >= t1) /\ (s < beta => t <= tl)
    BY <1>4, <1>8, <2>5, <2>6
  <2>8. sigma[c[s]] = m + t
    BY <1>2, <1>12, <2>2, <2>6
  <2> QED BY <1>6, <1>8, <1>9, <2>3, <2>4, <2>7, <2>8 DEF z1, zl
<1>13. s = 1 \/ s = r \/ s \in 2..(r - 1)
  BY <1>3
<1> QED BY <1>10, <1>11, <1>12, <1>13

LEMMA WalkHeights ==
  ASSUME Placing
  PROVE  /\ \A i, j \in 1..alpha : i < j => y[c[j]] <= y[c[i]]
         /\ \A i, j \in beta..r : i < j => y[c[i]] <= y[c[j]]
<1>1. /\ r \in Nat /\ \A i \in 1..r : y[c[i]] \in Nat
      /\ alpha \in 1..r /\ beta \in 1..r /\ alpha \in Int /\ beta \in Int
  BY SectionSlopes, WalkFromLeft, WalkFromRight
<1>2. PICK H : H = [i \in 1..r |-> y[c[i]]]
  OBVIOUS
<1>3. \A i \in 1..r : H[i] = y[c[i]] /\ H[i] \in Int
  BY <1>1, <1>2
<1>4. \A i, j \in 1..alpha : i < j => H[j] <= H[i]
  <2>0. PICK o \in Int : o = 1
    OBVIOUS
  <2>1. \A i \in o..alpha : H[i] \in Int
    BY <1>1, <1>3, <2>0
  <2>2. ASSUME NEW i \in (o + 1)..alpha PROVE H[i] <= H[i - 1]
    <3>1. i \in 2..alpha /\ i \in 1..r /\ i - 1 \in 1..r
      BY <1>1, <2>0
    <3>2. y[c[i]] < y[c[i - 1]]
      BY <3>1, WalkFromLeft
    <3> QED BY <1>3, <3>1, <3>2
  <2>3. \A i, j \in o..alpha : i < j => H[j] <= H[i]
    BY <1>1, <2>1, <2>2, FallsAlong
  <2> QED BY <2>0, <2>3
<1>5. \A i, j \in beta..r : i < j => H[i] <= H[j]
  <2>1. \A i \in beta..r : H[i] \in Int
    BY <1>1, <1>3
  <2>2. ASSUME NEW i \in (beta + 1)..r PROVE H[i - 1] <= H[i]
    <3>1. i \in 1..r /\ i - 1 \in 1..r
      BY <1>1
    <3>2. y[c[i]] > y[c[i - 1]]
      BY WalkFromRight
    <3> QED BY <1>3, <3>1, <3>2
  <2>3. beta \in Int /\ r \in Int
    BY <1>1
  <2> QED BY <2>1, <2>2, <2>3, RisesAlong
<1>6. /\ \A i \in 1..alpha : H[i] = y[c[i]]
      /\ \A i \in beta..r : H[i] = y[c[i]]
  BY <1>1, <1>3
<1> QED BY <1>4, <1>5, <1>6

(* Q and h place the nodes where they are once those that hang on a node   *)
(* of the contour have been moved with it, by rho.                         *)
DrawnBy(X, root, rho, Q, h) ==
  \A v \in PlacedNodes(k) : Q[v] = X[v] + rho[root[v]] /\ h[v] = y[v]

PlaneFor(X, root) ==
  \A rho, Q, h :
    (SpreadOn(rho, contour) /\ DrawnBy(X, root, rho, Q, h)) =>
      /\ PlaneDrawing(Q, h, PlacedNodes(k), PlacedEdges(k))
      /\ UnderContour(Q, h, PlacedNodes(k), contour)
      /\ OverEdges(Q, h, PlacedEdges(k), contour)

(* A drawing after the set is one before it, moved by Before(rho).         *)
LEMMA DrawnBefore ==
  ASSUME NEW X, NEW root, GridReady(X, root), PlaceSet, NEW Y, Y = NewX(X, root),
         NEW R, R = NewRoot(root), NEW rho, SpreadOn(rho, contour'),
         NEW Q, NEW h, DrawnBy(Y, R, rho, Q, h)', NEW sigma, sigma = Before(rho)
  PROVE  /\ DrawnBy(X, root, sigma, Q, h)
         /\ \A q \in 1..l : /\ Q[Vk.nodes[q]] = X[c[1]] + xz1 + 2 * (q - 1) + rho[Vk.nodes[q]]
                            /\ h[Vk.nodes[q]] = yz1
<1>1. Placing /\ Located(X, root) /\ \A v \in Nodes : HangsOK(v)
  BY DEF GridReady
<1>2. /\ X \in [Nodes -> Nat] /\ root \in [Nodes -> Nodes] /\ rho \in [Nodes -> Int]
      /\ \A v \in Nodes : upper[v] = None => root[v] = v
  BY <1>1 DEF Located, SpreadOn
<1>3. /\ PlacedNodes(k)' = PlacedNodes(k) \cup ToSet(Vk.nodes)
      /\ PlacedNodes(k) \cap ToSet(Vk.nodes) = {}
  BY <1>1, ContourAfter, PlacedGrow
<1>4. \A v \in PlacedNodes(k)' : Q[v] = Y[v] + rho[R[v]] /\ h[v] = y'[v]
  BY DEF DrawnBy
<1>5. \A v \in Nodes :
        R[v] = IF root[v] \in Inner THEN Upper(At(c, root[v])) ELSE root[v]
  BY DEF NewRoot, Inner
<1>6. /\ \A q \in 1..l : Y[Vk.nodes[q]] = X[c[1]] + xz1 + 2 * (q - 1)
      /\ \A v \in Nodes \ ToSet(Vk.nodes) : Y[v] = X[v] + MoveOf(root[v])
  BY NewXValues
<1>7. PlacedNodes(k) \subseteq Nodes
  <2>1. IsShelling(order) /\ k \in 1..Len(order)
    <3>1. LayoutInv /\ phase = "sets" /\ k \in 1..Len(order)
      BY <1>1 DEF Placing, LayoutInv
    <3> QED BY <3>1, OrderFacts
  <2> QED BY <2>1, PlacedFinite
<1>8. ASSUME NEW v \in PlacedNodes(k)
      PROVE  Q[v] = X[v] + sigma[root[v]] /\ h[v] = y[v]
  <2>1. v \in Nodes /\ v \notin ToSet(Vk.nodes) /\ v \in PlacedNodes(k)'
    BY <1>3, <1>7
  <2>2. h[v] = y[v]
    BY <1>1, <1>4, <2>1, UpperAfter
  <2>3. Q[v] = X[v] + MoveOf(root[v]) + rho[R[v]]
    BY <1>4, <1>6, <2>1
  <2>4. sigma[root[v]] = MoveOf(root[v]) + rho[R[v]]
    <3>1. root[v] \in Nodes
      BY <1>2, <2>1
    <3> QED BY <1>5, <2>1, <3>1 DEF Before
  <2>5. X[v] \in Int /\ MoveOf(root[v]) \in Int /\ rho[R[v]] \in Int
    <3>1. MoveOf(root[v]) \in 0..offset /\ offset \in Nat
      BY <1>1, MoveFacts, SetFits
    <3>2. R[v] \in Nodes
      <4>1. /\ {c[1], c[r]} \subseteq Nodes /\ Vk.nodes[1] \in Nodes
            /\ \A w \in Inner : Upper(At(c, w)) \in {c[1], c[r], Vk.nodes[1]}
        BY <1>1, InnerFacts
      <4> QED BY <1>2, <1>5, <2>1, <4>1
    <3> QED BY <1>2, <2>1, <3>1, <3>2
  <2> QED BY <2>2, <2>3, <2>4, <2>5
<1>9. ASSUME NEW q \in 1..l
      PROVE  /\ Q[Vk.nodes[q]] = X[c[1]] + xz1 + 2 * (q - 1) + rho[Vk.nodes[q]]
             /\ h[Vk.nodes[q]] = yz1
  <2> DEFINE v == Vk.nodes[q]
  <2>1. v \in Nodes /\ v \in ToSet(Vk.nodes)
    BY <1>1, SectionOnContour
  <2> HIDE DEF v
  <2>2. v \notin PlacedNodes(k) /\ v \in PlacedNodes(k)'
    BY <1>3, <2>1
  <2>3. root[v] = v
    BY <1>1, <1>2, <2>1, <2>2 DEF HangsOK
  <2>4. v \notin Inner
    BY <1>1, <2>1, InnerFacts
  <2>5. R[v] = v
    BY <1>5, <2>1, <2>3, <2>4
  <2>6. h[v] = yz1
    BY <1>1, <1>4, <2>1, <2>2, UpperAfter
  <2> QED BY <1>4, <1>6, <2>2, <2>5, <2>6 DEF v
<1> QED BY <1>8, <1>9 DEF DrawnBy

(* The set lies over the section of any drawing it is put on.              *)
LEMMA SetIsOver ==
  ASSUME NEW X, NEW root, GridReady(X, root), PlaceSet, NEW Y, Y = NewX(X, root),
         NEW R, R = NewRoot(root), NEW rho, SpreadOn(rho, contour'),
         NEW Q, NEW h, DrawnBy(Y, R, rho, Q, h)'
  PROVE  SetOver(Q, h, PlacedNodes(k), contour, LeftPlace, RightPlace, Vk.nodes)
<1> DEFINE n == Len(contour)
           a == LeftPlace
           b == RightPlace
           z == Vk.nodes
           V == PlacedNodes(k)
<1>1. PICK sigma : sigma = Before(rho)
  OBVIOUS
<1>2. /\ DrawnBy(X, root, sigma, Q, h)
      /\ \A q \in 1..l : /\ Q[z[q]] = X[c[1]] + xz1 + 2 * (q - 1) + rho[z[q]]
                         /\ h[z[q]] = yz1
  BY <1>1, DrawnBefore
<1>3. /\ Placing /\ Located(X, root) /\ X \in [Nodes -> Nat] /\ y \in [Nodes -> Nat]
      /\ root \in [Nodes -> Nodes] /\ rho \in [Nodes -> Int]
  BY DEF GridReady, Located, Placing, LayoutInv, TypeOK, SpreadOn
<1>4. /\ sigma \in [Nodes -> Int]
      /\ \A i, j \in 1..n : i < j => sigma[contour[i]] <= sigma[contour[j]]
      /\ sigma[c[1]] = rho[c[1]] /\ sigma[c[r]] = offset + rho[c[r]]
  <2>1. SpreadOn(sigma, contour)
    BY <1>1, <1>3, SpreadBefore
  <2> QED BY <1>1, <1>3, <2>1, BeforeValues DEF SpreadOn
<1>5. V \subseteq Nodes /\ V \cap ToSet(z) = {} /\ ToSet(contour) \subseteq V
  <2>1. IsShelling(order) /\ k \in 1..Len(order)
    <3>1. LayoutInv /\ phase = "sets" /\ k \in 1..Len(order)
      BY <1>3 DEF Placing, LayoutInv
    <3> QED BY <3>1, OrderFacts
  <2> QED BY <1>3, <2>1, PlacedFinite, PlacedGrow
<1>6. /\ a \in 1..n /\ b \in 1..n /\ a < b /\ n \in Nat
      /\ contour[a] = c[1] /\ contour[b] = c[r]
      /\ \A i \in 1..r : c[i] \in Nodes /\ c[i] \in ToSet(contour)
      /\ \A q \in 1..l : z[q] \in Nodes /\ z[q] \in ToSet(z)
      /\ \A q \in 1..n : contour[q] \in Nodes /\ contour[q] \in ToSet(contour)
      /\ 1 \in 1..r /\ r \in 1..r /\ 1 \in 1..l /\ l \in 1..l /\ r \in Nat /\ r >= 2 /\ l \in Nat
  BY <1>3, SectionOnContour
<1>7. r = b - a + 1 /\ \A i \in 1..r : c[i] = contour[a + i - 1]
  <2>1. SectionAt(a, b)
    BY <1>3, SectionPlaces
  <2> QED BY <2>1 DEF SectionAt
<1>8. /\ xz1 \in Nat \ {0} /\ offset \in Nat
      /\ yz1 = y[c[1]] + xz1
      /\ x_cr - (xz1 + 2 * (l - 1)) = yz1 - y[c[r]]
      /\ \A i \in 1..r : y[c[i]] < yz1
  BY <1>3, SetFits
<1>9. l = Len(z)
  BY DEF l
<1> HIDE DEF n, a, b, z, V
<1>10. \A v \in V : /\ Q[v] = X[v] + sigma[root[v]] /\ h[v] = y[v]
                    /\ Q[v] \in Int /\ h[v] \in Int
  <2> SUFFICES ASSUME NEW v \in V
               PROVE  /\ Q[v] = X[v] + sigma[root[v]] /\ h[v] = y[v]
                      /\ Q[v] \in Int /\ h[v] \in Int
    OBVIOUS
  <2>1. Q[v] = X[v] + sigma[root[v]] /\ h[v] = y[v]
    BY <1>2 DEF DrawnBy, V
  <2>2. X[v] \in Int /\ y[v] \in Int /\ sigma[root[v]] \in Int
    BY <1>3, <1>4, <1>5
  <2> QED BY <2>1, <2>2
<1>11. \A q \in 1..n : /\ Q[contour[q]] = X[contour[q]] + sigma[contour[q]]
                       /\ h[contour[q]] = y[contour[q]] /\ contour[q] \in V
  <2>1. \A v \in ToSet(contour) : root[v] = v
    <3>1. PICK P : P = NewX(X, root)
      OBVIOUS
    <3> QED BY <3>1, NewXValues
  <2> QED BY <1>5, <1>6, <1>10, <2>1
<1>12. RisingIn(Q, contour)
  <2> SUFFICES ASSUME NEW i \in 1..n, NEW j \in 1..n, i < j
               PROVE  Q[contour[i]] < Q[contour[j]]
    BY DEF RisingIn, n
  <2>1. X[contour[i]] < X[contour[j]]
    BY ContourClimb DEF n
  <2>2. sigma[contour[i]] <= sigma[contour[j]]
    BY <1>4
  <2>3. /\ X[contour[i]] \in Int /\ X[contour[j]] \in Int
        /\ sigma[contour[i]] \in Int /\ sigma[contour[j]] \in Int
    BY <1>3, <1>4, <1>6
  <2> QED BY <1>11, <2>1, <2>2, <2>3
<1>13. \A q \in 1..l : /\ rho[z[q]] \in Int /\ Q[z[q]] \in Int
                       /\ Q[z[q]] = X[c[1]] + xz1 + 2 * (q - 1) + rho[z[q]]
                       /\ h[z[q]] = yz1
  <2> SUFFICES ASSUME NEW q \in 1..l PROVE rho[z[q]] \in Int /\ Q[z[q]] \in Int
    BY <1>2
  <2>1. rho[z[q]] \in Int /\ X[c[1]] \in Int /\ xz1 \in Int /\ q \in Int
    BY <1>3, <1>6, <1>8
  <2> QED BY <1>2, <2>1
<1>14. /\ \A q, s \in 1..l : q < s => rho[z[q]] <= rho[z[s]]
       /\ \A q \in 1..l : rho[c[1]] <= rho[z[q]] /\ rho[z[q]] <= rho[c[r]]
  BY <1>3, SpreadAfter DEF z
<1>15. RisingIn(Q, z)
  <2> SUFFICES ASSUME NEW q \in 1..l, NEW s \in 1..l, q < s
               PROVE  Q[z[q]] < Q[z[s]]
    BY <1>9 DEF RisingIn
  <2>1. PICK t \in Int, u \in Int : t = rho[z[q]] /\ u = rho[z[s]] /\ t <= u
    BY <1>13, <1>14
  <2>2. PICK X1 \in Int, w \in Int : X1 = X[c[1]] /\ w = xz1
    BY <1>3, <1>6, <1>8
  <2>3. X1 + w + 2 * (q - 1) + t < X1 + w + 2 * (s - 1) + u
    BY <1>6, <2>1
  <2>4. /\ Q[z[q]] = X1 + w + 2 * (q - 1) + t
        /\ Q[z[s]] = X1 + w + 2 * (s - 1) + u
    BY <1>13, <2>1, <2>2
  <2> QED BY <2>3, <2>4
(* The nodes of the section.                                               *)
<1>16. \A s \in 1..r : /\ Q[c[s]] = X[c[1]] + Distance(s) + sigma[c[s]]
                       /\ h[c[s]] = y[c[s]] /\ y[c[s]] \in Int
                       /\ X[c[1]] \in Int /\ Distance(s) \in Int /\ sigma[c[s]] \in Int
                       /\ a + s - 1 \in 1..n
  <2> SUFFICES ASSUME NEW s \in 1..r
               PROVE  /\ Q[c[s]] = X[c[1]] + Distance(s) + sigma[c[s]]
                      /\ h[c[s]] = y[c[s]] /\ y[c[s]] \in Int
                      /\ X[c[1]] \in Int /\ Distance(s) \in Int /\ sigma[c[s]] \in Int
                      /\ a + s - 1 \in 1..n
    OBVIOUS
  <2>1. a + s - 1 \in 1..n /\ c[s] = contour[a + s - 1]
    BY <1>6, <1>7
  <2>2. X[c[s]] = X[c[1]] + Distance(s)
    BY <1>3, SectionX
  <2>3. X[c[1]] \in Int /\ Distance(s) \in Int /\ sigma[c[s]] \in Int /\ y[c[s]] \in Int
    BY <1>3, <1>4, <1>6, SectionDistances
  <2>4. Q[c[s]] = X[c[s]] + sigma[c[s]] /\ h[c[s]] = y[c[s]]
    BY <1>11, <2>1
  <2> QED BY <2>1, <2>2, <2>3, <2>4
<1>17. Distance(1) = 0
  BY <1>3, SectionDistances
<1>18. x_cr = Distance(r) + offset
  BY DEF x_cr
<1>19. Q[c[1]] < Q[z[1]] /\ Q[z[l]] < Q[c[r]]
  <2>1. PICK X1 \in Int, d \in Int, w \in Int, o \in Int :
          X1 = X[c[1]] /\ d = Distance(r) /\ w = xz1 /\ o = offset /\ w > 0
    BY <1>6, <1>8, <1>16
  <2>2. PICK u1 \in Int, ur \in Int, t1 \in Int, tl \in Int :
          /\ u1 = rho[c[1]] /\ ur = rho[c[r]] /\ t1 = rho[z[1]] /\ tl = rho[z[l]]
          /\ u1 <= t1 /\ tl <= ur
    BY <1>3, <1>6, <1>13, <1>14
  <2>3. /\ Q[c[1]] = X1 + 0 + u1 /\ Q[c[r]] = X1 + d + (o + ur)
    BY <1>4, <1>6, <1>16, <1>17, <2>1, <2>2
  <2>4. Q[z[1]] = X1 + w + 2 * (1 - 1) + t1 /\ Q[z[l]] = X1 + w + 2 * (l - 1) + tl
    BY <1>6, <1>13, <2>1, <2>2
  <2>5. d + o - (w + 2 * (l - 1)) > 0
    <3>1. PICK f \in Int, g \in Int : f = y[c[r]] /\ g = yz1 /\ f < g
      BY <1>3, <1>6, <1>8
    <3>2. PICK p \in Int, s \in Int : p = 2 * (l - 1) /\ s = x_cr
      BY <1>6, <1>18, <2>1
    <3>3. s = d + o /\ s - (w + p) = g - f
      BY <1>8, <1>18, <2>1, <3>1, <3>2
    <3>4. d + o - (w + p) > 0
      BY <3>1, <3>3
    <3> QED BY <3>2, <3>4
  <2> QED BY <1>6, <2>1, <2>2, <2>3, <2>4, <2>5
<1>20. /\ alpha \in Int /\ beta \in Int /\ alpha \in 1..r /\ beta \in 1..r
  BY <1>3, <1>6, WalkFromLeft, WalkFromRight
<1>21. PICK m \in Int : m = offset \div 2 /\ offset - m = offset - (offset \div 2)
  BY <1>8
<1>22. ASSUME NEW s \in 1..r, NEW t \in 1..r, s < t
       PROVE  /\ h[c[t]] - h[c[s]] <= Q[c[t]] - Q[c[s]]
              /\ h[c[s]] - h[c[t]] <= Q[c[t]] - Q[c[s]]
              /\ h[c[t]] <= h[c[s]] \/ yz1 - h[c[t]] > Q[z[1]] - Q[c[t]]
              /\ h[c[s]] <= h[c[t]] \/ yz1 - h[c[s]] > Q[c[s]] - Q[z[l]]
  <2>1. PICK X1 \in Int, d \in Int, e \in Int, u \in Int, v \in Int :
          /\ X1 = X[c[1]] /\ d = Distance(s) /\ e = Distance(t)
          /\ u = sigma[c[s]] /\ v = sigma[c[t]]
    BY <1>16
  <2>2. PICK f \in Int, g \in Int : f = y[c[s]] /\ g = y[c[t]]
    BY <1>16
  <2>3. Q[c[s]] = X1 + d + u /\ Q[c[t]] = X1 + e + v /\ h[c[s]] = f /\ h[c[t]] = g
    BY <1>16, <2>1, <2>2
  <2>4. g - f <= e - d /\ f - g <= e - d
    BY <1>3, <1>22, <2>1, <2>2, SectionClimb
  <2>5. u <= v
    <3>1. a + s - 1 \in 1..n /\ a + t - 1 \in 1..n /\ a + s - 1 < a + t - 1
      BY <1>6, <1>16, <1>22
    <3>2. sigma[contour[a + s - 1]] <= sigma[contour[a + t - 1]]
      BY <1>4, <3>1
    <3> QED BY <1>7, <2>1, <3>2
  <2>6. g - f <= (X1 + e + v) - (X1 + d + u) /\ f - g <= (X1 + e + v) - (X1 + d + u)
    BY <2>4, <2>5
  <2>7. PICK w \in Int, t1 \in Int, tl \in Int :
          w = xz1 /\ t1 = rho[z[1]] /\ tl = rho[z[l]]
    BY <1>6, <1>8, <1>13
  <2>8. Q[z[1]] = X1 + w + 2 * (1 - 1) + t1 /\ Q[z[l]] = X1 + w + 2 * (l - 1) + tl
    BY <1>6, <1>13, <2>1, <2>7
  <2>9. PICK f1 \in Int, fr \in Int, dr \in Int, yz \in Int, o \in Int :
          f1 = y[c[1]] /\ fr = y[c[r]] /\ dr = Distance(r) /\ yz = yz1 /\ o = offset
    BY <1>3, <1>6, <1>8, <1>16, SMTT(20)
  <2>10. yz = f1 + w /\ dr + o - (w + 2 * (l - 1)) = yz - fr
    <3>1. PICK p \in Int, q \in Int : p = 2 * (l - 1) /\ q = x_cr
      BY <1>6, <1>18, <2>9
    <3>2. q = dr + o /\ q - (w + p) = yz - fr /\ yz = f1 + w
      BY <1>8, <1>18, <2>7, <2>9, <3>1
    <3>3. dr + o - (w + p) = yz - fr
      BY <3>2
    <3> QED BY <3>1, <3>2, <3>3
  <2>11. g <= f \/ yz - g > X1 + w + 2 * (1 - 1) + t1 - (X1 + e + v)
    <3>1. CASE t <= alpha
      <4>1. s \in 1..alpha /\ t \in 1..alpha
        BY <1>20, <1>22, <3>1
      <4>2. y[c[t]] <= y[c[s]]
        BY <1>3, <1>22, <4>1, WalkHeights
      <4> QED BY <2>2, <4>2
    <3>2. CASE t > alpha
      <4>1. t \in 2..r
        BY <1>6, <1>22
      <4>2. e + f1 - g + m > 0
        BY <1>3, <1>21, <2>1, <2>2, <2>9, <4>1, LeftGap
      <4>3. v >= t1 + m
        <5>1. sigma[c[t]] >= rho[Vk.nodes[1]] + (offset \div 2)
          BY <1>1, <1>3, <3>2, BeforeSection
        <5> QED BY <1>21, <2>1, <2>7, <5>1 DEF z
      <4> QED BY <1>21, <2>10, <4>2, <4>3
    <3> QED BY <1>20, <3>1, <3>2
  <2>12. f <= g \/ yz - f > X1 + d + u - (X1 + w + 2 * (l - 1) + tl)
    <3>1. CASE s >= beta
      <4>1. s \in beta..r /\ t \in beta..r
        BY <1>20, <1>22, <3>1
      <4>2. y[c[s]] <= y[c[t]]
        BY <1>3, <1>22, <4>1, WalkHeights
      <4> QED BY <2>2, <4>2
    <3>2. CASE s < beta
      <4>1. s \in 1..(r - 1)
        BY <1>6, <1>22
      <4>2. dr - d + fr - f + o - m > 0
        <5>1. Distance(r) - Distance(s) + y[c[r]] - y[c[s]] + offset - (offset \div 2) > 0
          BY <1>3, <4>1, RightGap
        <5> QED BY <1>21, <2>1, <2>2, <2>9, <5>1
      <4>3. u <= tl + m
        <5>1. sigma[c[s]] <= rho[Vk.nodes[l]] + (offset \div 2)
          BY <1>1, <1>3, <3>2, BeforeSection
        <5> QED BY <1>21, <2>1, <2>7, <5>1 DEF z
      <4>4. l \in Int
        BY <1>6
      <4> QED BY <1>21, <2>10, <4>2, <4>3, <4>4
    <3> QED BY <1>20, <3>1, <3>2
  <2>13. PICK p \in Int, q \in Int, p1 \in Int, pl \in Int :
           /\ p = X1 + d + u /\ q = X1 + e + v
           /\ p1 = X1 + w + 2 * (1 - 1) + t1 /\ pl = X1 + w + 2 * (l - 1) + tl
    <3>1. l \in Int
      BY <1>6
    <3> QED BY <3>1
  <2>14. /\ Q[c[s]] = p /\ Q[c[t]] = q /\ h[c[s]] = f /\ h[c[t]] = g
         /\ Q[z[1]] = p1 /\ Q[z[l]] = pl
    BY <2>3, <2>8, <2>13
  <2>15. /\ g - f <= q - p /\ f - g <= q - p
         /\ g <= f \/ yz - g > p1 - q
         /\ f <= g \/ yz - f > p - pl
    BY <2>6, <2>11, <2>12, <2>13
  <2>16. /\ h[c[t]] - h[c[s]] <= Q[c[t]] - Q[c[s]] /\ h[c[s]] - h[c[t]] <= Q[c[t]] - Q[c[s]]
    BY <2>14, <2>15
  <2>17. h[c[t]] <= h[c[s]] \/ yz1 - h[c[t]] > Q[z[1]] - Q[c[t]]
    BY <2>9, <2>14, <2>15
  <2>18. h[c[s]] <= h[c[t]] \/ yz1 - h[c[s]] > Q[c[s]] - Q[z[l]]
    BY <2>9, <2>14, <2>15
  <2> QED BY <2>16, <2>17, <2>18
<1>23. \A j \in a..b : \E s \in 1..r : s = j - a + 1 /\ contour[j] = c[s]
  <2> SUFFICES ASSUME NEW j \in a..b PROVE \E s \in 1..r : s = j - a + 1 /\ contour[j] = c[s]
    OBVIOUS
  <2>1. j - a + 1 \in 1..r /\ a + (j - a + 1) - 1 = j
    BY <1>6, <1>7
  <2>2. PICK s \in 1..r : s = j - a + 1 /\ a + s - 1 = j
    BY <2>1
  <2> QED BY <1>7, <2>2
<1>24. h[z[1]] = yz1 /\ yz1 \in Int
  BY <1>3, <1>6, <1>8, <1>13
<1>25. \A j \in a..b : h[contour[j]] < h[z[1]]
  BY <1>8, <1>16, <1>23, <1>24
<1>26. \A i, j \in a..b : i < j =>
         /\ h[contour[j]] - h[contour[i]] <= Q[contour[j]] - Q[contour[i]]
         /\ h[contour[i]] - h[contour[j]] <= Q[contour[j]] - Q[contour[i]]
         /\ h[contour[j]] <= h[contour[i]] \/ h[z[1]] - h[contour[j]] > Q[z[1]] - Q[contour[j]]
         /\ h[contour[i]] <= h[contour[j]] \/ h[z[1]] - h[contour[i]] > Q[contour[i]] - Q[z[l]]
  <2> SUFFICES ASSUME NEW i \in a..b, NEW j \in a..b, i < j
               PROVE
         /\ h[contour[j]] - h[contour[i]] <= Q[contour[j]] - Q[contour[i]]
         /\ h[contour[i]] - h[contour[j]] <= Q[contour[j]] - Q[contour[i]]
         /\ h[contour[j]] <= h[contour[i]] \/ h[z[1]] - h[contour[j]] > Q[z[1]] - Q[contour[j]]
         /\ h[contour[i]] <= h[contour[j]] \/ h[z[1]] - h[contour[i]] > Q[contour[i]] - Q[z[l]]
    OBVIOUS
  <2>1. PICK s \in 1..r, t \in 1..r :
          s = i - a + 1 /\ t = j - a + 1 /\ contour[i] = c[s] /\ contour[j] = c[t]
    BY <1>23
  <2>2. s < t
    BY <1>6, <2>1
  <2> QED BY <1>22, <1>24, <2>1, <2>2
<1>27. Points(Q, h, V)
  BY <1>10 DEF Points
<1>28. /\ \A i \in 1..n : contour[i] \in V
       /\ \A q \in 1..l : z[q] \notin V
  BY <1>5, <1>6, <1>11
<1>29. l \in Nat \ {0}
  BY <1>6
<1>30. \A q \in 1..l : Q[z[q]] \in Int /\ h[z[q]] = h[z[1]]
  BY <1>13, <1>24
<1>31. Q[contour[a]] < Q[z[1]] /\ Q[z[l]] < Q[contour[b]]
  BY <1>6, <1>19
<1>32. n = Len(contour)
  BY DEF n
<1> HIDE DEF l
<1>33. SetOver(Q, h, V, contour, a, b, z)
  BY <1>6, <1>9, <1>12, <1>15, <1>24, <1>25, <1>26, <1>27, <1>28, <1>29, <1>30, <1>31, <1>32
     DEF SetOver
<1> QED BY <1>33 DEF V, a, b, z

LEMMA PlaneAfterSet ==
  ASSUME NEW X, NEW root, GridReady(X, root), PlaceSet, NEW Y, Y = NewX(X, root),
         NEW R, R = NewRoot(root), PlaneFor(X, root)
  PROVE  PlaneFor(Y, R)'
<1> DEFINE V == PlacedNodes(k)
           E == PlacedEdges(k)
           F == EdgesOfSet(k + 1)
           z == Vk.nodes
           a == LeftPlace
           b == RightPlace
<1>1. Placing
  BY DEF GridReady
<1>2. /\ PlacedNodes(k)' = V \cup ToSet(z) /\ order' = order /\ k' = k + 1
      /\ Vk.nodes \in Path(Nodes) /\ k \in Nat
  BY <1>1, ContourAfter, PlacingFacts
<1>3. PlacedNodes(k)' = WithSet(V, z)
  <2>1. ToSet(z) = SetNodes(z)
    <3>1. \A v : v \in ToSet(z) <=> \E i \in 1..Len(z) : z[i] = v
      BY <1>2, PathIndices
    <3> QED BY <3>1 DEF SetNodes
  <2> QED BY <1>2, <2>1 DEF WithSet
<1>4. PlacedEdges(k)' = E \cup F
  <2>1. PlacedEdges(k)' = PlacedEdges(k + 1)
    BY <1>2 DEF PlacedEdges, EdgesOfSet
  <2> QED BY <1>2, <2>1, EdgesGrow
<1>5. \A e \in F : SetEdge(contour, a, b, z, e)
  BY <1>1, SetEdges
<1>6. ContourWith(contour, a, b, z, contour')
  BY <1>1, NewContourWith
<1> HIDE DEF V, E, F, z, a, b
<1>7. ASSUME NEW rho, NEW Q, NEW h, SpreadOn(rho, contour'), DrawnBy(Y, R, rho, Q, h)'
      PROVE  /\ PlaneDrawing(Q, h, WithSet(V, z), E \cup F)
             /\ UnderContour(Q, h, WithSet(V, z), contour')
             /\ OverEdges(Q, h, E \cup F, contour')
  <2>1. PICK sigma : sigma = Before(rho)
    OBVIOUS
  <2>2. SpreadOn(sigma, contour) /\ DrawnBy(X, root, sigma, Q, h)
    BY <1>1, <1>7, <2>1, SpreadBefore, DrawnBefore
  <2>3. PlaneDrawing(Q, h, V, E) /\ UnderContour(Q, h, V, contour) /\ OverEdges(Q, h, E, contour)
    BY <2>2 DEF PlaneFor, V, E
  <2>4. SetOver(Q, h, V, contour, a, b, z)
    BY <1>7, SetIsOver DEF V, z, a, b
  <2>5. PlaneDrawing(Q, h, WithSet(V, z), E \cup F)
    BY <1>5, <2>3, <2>4, SetDrawn
  <2>6. /\ UnderContour(Q, h, WithSet(V, z), contour')
        /\ OverEdges(Q, h, E \cup F, contour')
    <3>1. PICK d : d = contour'
      OBVIOUS
    <3>2. ContourWith(contour, a, b, z, d)
      BY <1>6, <3>1
    <3>3. UnderContour(Q, h, WithSet(V, z), d) /\ OverEdges(Q, h, E \cup F, d)
      BY <1>5, <2>3, <2>4, <3>2, SetContour
    <3> QED BY <3>1, <3>3
  <2> QED BY <2>5, <2>6
<1>8. ASSUME NEW rho, NEW Q, NEW h, (SpreadOn(rho, contour) /\ DrawnBy(Y, R, rho, Q, h))'
      PROVE  (/\ PlaneDrawing(Q, h, PlacedNodes(k), PlacedEdges(k))
              /\ UnderContour(Q, h, PlacedNodes(k), contour)
              /\ OverEdges(Q, h, PlacedEdges(k), contour))'
  <2>1. SpreadOn(rho, contour') /\ DrawnBy(Y, R, rho, Q, h)'
    BY <1>8
  <2>2. /\ PlaneDrawing(Q, h, WithSet(V, z), E \cup F)
        /\ UnderContour(Q, h, WithSet(V, z), contour')
        /\ OverEdges(Q, h, E \cup F, contour')
    BY <1>7, <2>1
  <2>3. PlacedNodes(k)' = WithSet(V, z) /\ PlacedEdges(k)' = E \cup F
    BY <1>3, <1>4
  <2> QED BY <2>2, <2>3
<1> QED BY <1>8 DEF PlaneFor

-----------------------------------------------------------------------------
(***************************************************************************)
(* The base.                                                               *)
(***************************************************************************)
LEMMA LevelPath ==
  ASSUME NEW Q, NEW h, NEW con, Len(con) \in Nat,
         \A i \in 1..Len(con) : Q[con[i]] \in Int /\ h[con[i]] = 0,
         \A i, j \in 1..Len(con) : i < j => Q[con[i]] < Q[con[j]],
         NEW V, \A i \in 1..Len(con) : con[i] \in V, \A v \in V : \E i \in 1..Len(con) : v = con[i],
         NEW E, \A e \in E : \E i \in 2..Len(con) : e = << con[i - 1], con[i] >>
  PROVE  /\ PlaneDrawing(Q, h, V, E)
         /\ UnderContour(Q, h, V, con)
         /\ OverEdges(Q, h, E, con)
<1> DEFINE n == Len(con)
<1>0. n \in Nat
  OBVIOUS
<1>11. /\ \A i \in 1..n : Q[con[i]] \in Int /\ h[con[i]] = 0
       /\ \A i, j \in 1..n : i < j => Q[con[i]] < Q[con[j]]
       /\ \A i \in 1..n : con[i] \in V
       /\ \A v \in V : \E i \in 1..n : v = con[i]
       /\ \A e \in E : \E i \in 2..n : e = << con[i - 1], con[i] >>
  OBVIOUS
<1>12. n = Len(con)
  OBVIOUS
<1> HIDE DEF n
<1>1. ASSUME NEW i \in 2..n, NEW j \in 1..n, Reaches(Q, << con[i - 1], con[i] >>, con[j])
      PROVE  EndOf(<< con[i - 1], con[i] >>, con[j])
  <2>1. i - 1 \in 1..n /\ i \in 1..n
    BY <1>0
  <2>2. /\ Q[con[i - 1]] \in Int /\ Q[con[i]] \in Int /\ Q[con[j]] \in Int
        /\ Q[con[i - 1]] < Q[con[i]]
        /\ j < i - 1 => Q[con[j]] < Q[con[i - 1]]
        /\ i < j => Q[con[i]] < Q[con[j]]
    <3>1. Q[con[i - 1]] \in Int /\ Q[con[i]] \in Int /\ Q[con[j]] \in Int
      BY <1>11, <2>1
    <3>2. \A f, g \in 1..n : f < g => Q[con[f]] < Q[con[g]]
      BY <1>11
    <3>3. i - 1 < i
      OBVIOUS
    <3>4. Q[con[i - 1]] < Q[con[i]]
      BY <2>1, <3>2, <3>3
    <3>5. j < i - 1 => Q[con[j]] < Q[con[i - 1]]
      BY <2>1, <3>2
    <3>6. i < j => Q[con[i]] < Q[con[j]]
      BY <2>1, <3>2
    <3> QED BY <3>1, <3>4, <3>5, <3>6
  <2>3. Q[con[i - 1]] <= Q[con[j]] /\ Q[con[j]] <= Q[con[i]]
    BY <1>1, <2>2 DEF Reaches, Between
  <2>4. j = i - 1 \/ j = i
    BY <1>0, <2>1, <2>2, <2>3, SMTT(20)
  <2> QED BY <2>4 DEF EndOf
<1>2. Points(Q, h, V) /\ \A v \in V : h[v] = 0 /\ Q[v] \in Int
  <2>1. 0 \in Int
    OBVIOUS
  <2> QED BY <1>11, <2>1 DEF Points
<1>3. ASSUME NEW v \in V, NEW w \in V, Q[v] = Q[w] PROVE v = w
  <2>1. PICK i \in 1..n, j \in 1..n : v = con[i] /\ w = con[j]
    BY <1>11
  <2>2. Q[con[i]] \in Int /\ Q[con[j]] \in Int /\ Q[con[i]] = Q[con[j]]
    BY <1>11, <1>3, <2>1
  <2>3. /\ i < j => Q[con[i]] < Q[con[j]]
        /\ j < i => Q[con[j]] < Q[con[i]]
    BY <1>11, <2>1
  <2>4. i \in Int /\ j \in Int /\ ~ i < j /\ ~ j < i
    BY <1>0, <2>1, <2>2, <2>3
  <2>5. i = j
    BY <2>4
  <2> QED BY <2>1, <2>5
<1>4. ASSUME NEW e \in E PROVE e[1] \in V /\ e[2] \in V
  <2>1. PICK i \in 2..n : e = << con[i - 1], con[i] >>
    BY <1>11
  <2>2. i - 1 \in 1..n /\ i \in 1..n
    BY <1>0
  <2> QED BY <1>11, <2>1, <2>2
<1>5. ASSUME NEW e \in E, NEW w \in V, Reaches(Q, e, w) PROVE EndOf(e, w)
  <2>1. PICK i \in 2..n : e = << con[i - 1], con[i] >>
    BY <1>11
  <2>2. PICK j \in 1..n : w = con[j]
    BY <1>11
  <2> QED BY <1>1, <1>5, <2>1, <2>2
<1>6. ASSUME NEW e \in E, NEW w \in V, OnEdge(Q, h, e[1], e[2], w) PROVE EndOf(e, w)
  BY <1>5, <1>6 DEF OnEdge, Reaches
<1>7. ASSUME NEW e \in E, NEW f \in E PROVE ~ Crossing(Q, h, e[1], e[2], f[1], f[2])
  <2>1. e[1] \in V /\ e[2] \in V /\ f[1] \in V
    BY <1>4
  <2>2. PICK u \in Int, v \in Int, w \in Int : u = Q[e[1]] /\ v = Q[e[2]] /\ w = Q[f[1]]
    BY <1>2, <2>1
  <2>3. TurnOf(u, 0, v, 0, w, 0) = 0
    BY DEF TurnOf
  <2>4. Turn(Q, h, e[1], e[2], f[1]) = 0
    BY <1>2, <2>1, <2>2, <2>3 DEF Turn
  <2> QED BY <2>4 DEF Crossing, Opposite
<1>8. PlaneDrawing(Q, h, V, E)
  BY <1>2, <1>3, <1>4, <1>6, <1>7 DEF PlaneDrawing
<1>9. UnderContour(Q, h, V, con)
  BY <1>11, <1>12, <1>1 DEF UnderContour
<1>10. OverEdges(Q, h, E, con)
  BY <1>11, <1>12, <1>5 DEF OverEdges
<1> QED BY <1>8, <1>9, <1>10

(* The set after the base is put on a drawing without crossings.           *)
LEMMA BasePlane ==
  ASSUME GridInv, phase = "sets", k = 1, NEW X, NEW root, Located(X, root)
  PROVE  PlaneFor(X, root)
<1> DEFINE n == Len(contour)
           V == PlacedNodes(k)
           E == PlacedEdges(k)
<1>1. /\ LayoutInv /\ << Found, BaseLength >> \in Sizes /\ \A v \in Nodes : HangsOK(v)
      /\ y = [v \in Nodes |-> 0]
      /\ y[contour[1]] = 0 /\ y[contour[Len(contour)]] = 0
  BY DEF GridInv
<1>2. /\ IsShelling(order) /\ Len(order) \in Nat /\ Len(order) >= 2
      /\ contour = Contours(order)[1]
  BY <1>1, OrderFacts, BaseOnGrid DEF LayoutInv
<1>3. GridReady(X, root) /\ Placing
  BY <1>1, <1>2 DEF GridReady, Placing
<1>4. contour = order[1].nodes
  <2>1. order \in Seq(ShellingOrderSet) /\ Len(order) >= 1
    BY <1>2 DEF IsShelling, Shelling
  <2>2. Contours(order)[1] = order[1].nodes
    BY <2>1, ContoursStep
  <2> QED BY <1>2, <2>2
<1>5. /\ n \in Nat /\ contour \in Path(Nodes)
      /\ \A i \in 1..n : contour[i] \in Nodes /\ contour[i] \in ToSet(contour)
      /\ \A v \in ToSet(contour) : \E i \in 1..n : v = contour[i]
  <2>1. contour \in Path(Nodes)
    BY <1>3, PlacingFacts
  <2> QED BY <2>1, PathIndices
<1>6. V = ToSet(contour)
  <2>1. \A j : j \in 1..1 <=> j = 1
    OBVIOUS
  <2> QED BY <1>4, <2>1 DEF PlacedNodes
<1>7. \A e \in E : \E i \in 2..n : e = << contour[i - 1], contour[i] >>
  <2> SUFFICES ASSUME NEW e \in E PROVE \E i \in 2..n : e = << contour[i - 1], contour[i] >>
    OBVIOUS
  <2>1. e \in EdgesOfSet(1)
    <3>1. \A j : j \in 1..1 <=> j = 1
      OBVIOUS
    <3> QED BY <3>1 DEF PlacedEdges
  <2>2. PICK j \in 1..(n - 1) : e = << contour[j], contour[j + 1] >>
    BY <1>4, <2>1 DEF EdgesOfSet
  <2>3. j + 1 \in 2..n /\ (j + 1) - 1 = j
    BY <1>5
  <2> QED BY <2>2, <2>3
<1> HIDE DEF n, V, E
<1>8. ASSUME NEW rho, NEW Q, NEW h, SpreadOn(rho, contour), DrawnBy(X, root, rho, Q, h)
      PROVE  /\ PlaneDrawing(Q, h, V, E)
             /\ UnderContour(Q, h, V, contour)
             /\ OverEdges(Q, h, E, contour)
  <2>1. /\ rho \in [Nodes -> Int] /\ X \in [Nodes -> Nat]
        /\ \A i, j \in 1..n : i < j => rho[contour[i]] <= rho[contour[j]]
    BY <1>8 DEF SpreadOn, Located, n
  <2>2. \A v \in V : Q[v] = X[v] + rho[root[v]] /\ h[v] = y[v]
    BY <1>8 DEF DrawnBy, V
  <2>3. ASSUME NEW i \in 1..n
        PROVE  Q[contour[i]] = X[contour[i]] + rho[contour[i]] /\ h[contour[i]] = 0
    <3>1. contour[i] \in V /\ contour[i] \in Nodes /\ contour[i] \in ToSet(contour)
      BY <1>5, <1>6
    <3>2. root[contour[i]] = contour[i]
      BY <1>1, <3>1 DEF HangsOK, Located
    <3> QED BY <1>1, <2>2, <3>1, <3>2
  <2>4. \A i \in 1..n : X[contour[i]] \in Int /\ rho[contour[i]] \in Int
    BY <1>5, <2>1
  <2>5. \A i \in 1..n : Q[contour[i]] \in Int /\ h[contour[i]] = 0
    BY <2>3, <2>4
  <2>6. ASSUME NEW i \in 1..n, NEW j \in 1..n, i < j PROVE Q[contour[i]] < Q[contour[j]]
    <3>1. X[contour[i]] < X[contour[j]]
      BY <1>3, <2>6, ContourClimb DEF n
    <3>2. rho[contour[i]] <= rho[contour[j]]
      BY <2>1, <2>6
    <3> QED BY <2>3, <2>4, <3>1, <3>2
  <2>7. /\ \A i \in 1..n : contour[i] \in V
        /\ \A v \in V : \E i \in 1..n : v = contour[i]
    BY <1>5, <1>6
  <2>8. n = Len(contour) /\ n \in Nat
    BY <1>5 DEF n
  <2>9. \A i, j \in 1..n : i < j => Q[contour[i]] < Q[contour[j]]
    BY <2>6
  <2> QED BY <1>7, <2>5, <2>7, <2>8, <2>9, LevelPath DEF n
<1> QED BY <1>8 DEF PlaneFor, V, E

(* Every node of the graph is in a set of the order.                       *)
LEMMA AllPlaced ==
  ASSUME LayoutInv, phase \notin {"peel", "leftmost"}
  PROVE  GraphNodes \subseteq PlacedNodes(Len(order))
<1>1. PartitionOK /\ OrderOK /\ Rest = {} /\ order[1] = partition[1] /\ Len(order) \in Nat \ {0}
  BY OrderFacts DEF LayoutInv, OrderInv
<1> SUFFICES ASSUME NEW v \in 1..Found PROVE v \in PlacedNodes(Len(order))
  BY DEF GraphNodes
<1>2. PICK i \in 1..Len(partition) : v \in ToSet(partition[i].nodes)
  BY <1>1 DEF PartitionOK
<1>3. PICK j \in 1..Len(order) : order[j] = partition[i]
  <2>1. CASE i = 1
    <3>1. 1 \in 1..Len(order)
      BY <1>1
    <3> QED BY <1>1, <2>1, <3>1
  <2>2. CASE i # 1
    <3>1. Len(partition) \in Nat
      BY <1>1, PartitionSets
    <3>2. i \in 2..Len(partition) /\ i \notin Rest
      BY <1>1, <2>2, <3>1
    <3>3. Contains(order, partition[i])
      BY <1>1, <3>2 DEF OrderOK
    <3> QED BY <3>3 DEF Contains
  <2> QED BY <2>1, <2>2
<1> QED BY <1>2, <1>3 DEF PlacedNodes

-----------------------------------------------------------------------------
(***************************************************************************)
(* The invariant: the drawing so far has no crossing, and in the last      *)
(* phase that is so of the coordinates the nodes will have in the end.     *)
(***************************************************************************)
PlaneInv ==
  /\ GridInv
  /\ phase = "sets" =>
       \E X, root : Located(X, root) /\ WidthOK(X) /\ (k > 1 => PlaneFor(X, root))
  /\ phase \in {"inner", "drawn"} =>
       \E X : Resolved(X) /\ PlaneDrawing(X, y, PlacedNodes(Len(order)), Edges)

LEMMA SetKeepsPlane ==
  ASSUME PlaneInv, PlaceSet
  PROVE  PlaneInv'
<1>1. GridInv /\ GridInv' /\ phase = "sets" /\ k < Len(order) /\ LayoutInv /\ phase' = "sets"
  BY PlaceSetKeepsGrid DEF PlaneInv, PlaceSet, GridInv, orderVars
<1>2. Placing /\ k \in Nat \ {0}
  <2>1. Placing /\ k \in 1..Len(order)
    BY <1>1 DEF Placing, LayoutInv
  <2> QED BY <2>1
<1>3. PICK X, root : Located(X, root) /\ WidthOK(X) /\ (k > 1 => PlaneFor(X, root))
  BY <1>1 DEF PlaneInv
<1>4. GridReady(X, root)
  BY <1>1, <1>2, <1>3 DEF GridReady, GridInv
<1>5. k = 1 => y = [v \in Nodes |-> 0]
  BY <1>1 DEF GridInv
<1>6. PlaneFor(X, root)
  <2>1. CASE k = 1
    BY <1>1, <1>3, <2>1, BasePlane
  <2>2. CASE k # 1
    BY <1>2, <1>3, <2>2
  <2> QED BY <2>1, <2>2
<1>7. PICK Y : Y = NewX(X, root)
  OBVIOUS
<1>8. PICK R : R = NewRoot(root)
  OBVIOUS
<1>9. Located(Y, R)' /\ WidthOK(Y)' /\ PlaneFor(Y, R)'
  BY <1>3, <1>4, <1>5, <1>6, <1>7, <1>8, LocatedAfter, WidthAfter, PlaneAfterSet
<1>10. \E Q, S : Located(Q, S)' /\ WidthOK(Q)' /\ (k' > 1 => PlaneFor(Q, S)')
  BY <1>9
<1> QED BY <1>1, <1>10 DEF PlaneInv

LEMMA ContourKeepsPlane ==
  ASSUME PlaneInv, PlaceContour
  PROVE  PlaneInv'
<1>1. /\ GridInv /\ GridInv' /\ LayoutInv /\ phase = "sets" /\ k = Len(order) /\ phase' = "inner"
      /\ order' = order /\ y' = y /\ << Found, BaseLength >> \in Sizes
  BY PlaceContourKeepsGrid DEF PlaneInv, PlaceContour, GridInv
<1>2. k \in Nat /\ k > 1 /\ k \in 1..Len(order) /\ IsShelling(order)
  BY <1>1, BaseOnGrid, OrderFacts DEF LayoutInv
<1>3. PICK X, root : Located(X, root) /\ WidthOK(X) /\ PlaneFor(X, root)
  BY <1>1, <1>2 DEF PlaneInv
<1>4. Resolved(X)'
  BY <1>1, <1>3, ContourResolves
<1>5. PICK rho : rho = [v \in Nodes |-> 0]
  OBVIOUS
<1>6. SpreadOn(rho, contour)
  <2>1. contour \in Path(Nodes)
    <3>1. ContourOf(Nodes, order, k) /\ contour = Contours(order)[k]
      BY <1>1, <1>2, ShellingContours DEF IsShelling, LayoutInv
    <3> QED BY <3>1 DEF ContourOf
  <2>2. \A i \in 1..Len(contour) : contour[i] \in Nodes
    BY <2>1, PathIndices
  <2>3. \A i \in 1..Len(contour) : rho[contour[i]] = 0
    BY <1>5, <2>2
  <2>4. rho \in [Nodes -> Int]
    BY <1>5
  <2> QED BY <2>3, <2>4 DEF SpreadOn
<1>7. DrawnBy(X, root, rho, X, y)
  <2> SUFFICES ASSUME NEW v \in PlacedNodes(k) PROVE X[v] = X[v] + rho[root[v]]
    BY DEF DrawnBy
  <2>1. v \in Nodes
    BY <1>2, PlacedFinite
  <2>2. X[v] \in Nat /\ root[v] \in Nodes
    BY <1>3, <2>1 DEF Located
  <2>3. rho[root[v]] = 0
    BY <1>5, <2>2
  <2> QED BY <2>2, <2>3
<1>8. PlaneDrawing(X, y, PlacedNodes(k), PlacedEdges(k))
  BY <1>3, <1>6, <1>7 DEF PlaneFor
<1>9. PlaneDrawing(X, y, PlacedNodes(Len(order)), Edges)
  BY <1>1, <1>2, <1>8, AllEdges
<1>10. /\ PlacedNodes(Len(order))' = PlacedNodes(Len(order)) /\ Edges' = Edges
  BY <1>1 DEF PlacedNodes, Edges
<1>11. PlaneDrawing(X, y', PlacedNodes(Len(order))', Edges')
  BY <1>1, <1>9, <1>10
<1>12. \E Q : Resolved(Q)' /\ PlaneDrawing(Q, y', PlacedNodes(Len(order))', Edges')
  BY <1>4, <1>11
<1> QED BY <1>1, <1>12 DEF PlaneInv

LEMMA InnerKeepsPlane ==
  ASSUME PlaneInv, PlaceInner
  PROVE  PlaneInv'
<1>1. /\ GridInv /\ GridInv' /\ phase = "inner" /\ phase' = "inner"
      /\ order' = order /\ y' = y
  BY PlaceInnerKeepsGrid DEF PlaneInv, PlaceInner, orderVars
<1>2. PICK X : Resolved(X) /\ PlaneDrawing(X, y, PlacedNodes(Len(order)), Edges)
  BY <1>1 DEF PlaneInv
<1>3. Resolved(X)'
  BY <1>1, <1>2, InnerResolves
<1>4. PlacedNodes(Len(order))' = PlacedNodes(Len(order)) /\ Edges' = Edges
  BY <1>1 DEF PlacedNodes, Edges
<1>5. PlaneDrawing(X, y', PlacedNodes(Len(order))', Edges')
  BY <1>1, <1>2, <1>4
<1>6. \E Q : Resolved(Q)' /\ PlaneDrawing(Q, y', PlacedNodes(Len(order))', Edges')
  BY <1>3, <1>5
<1> QED BY <1>1, <1>6 DEF PlaneInv

LEMMA DrawnKeepsPlane ==
  ASSUME PlaneInv, Drawn
  PROVE  PlaneInv'
<1>1. /\ GridInv' /\ phase = "inner" /\ phase' = "drawn"
      /\ UNCHANGED << partition, order, k, contour, x, y, upper >>
  BY DrawnKeepsGrid DEF PlaneInv, Drawn, layoutVars
<1>2. PICK X : Resolved(X) /\ PlaneDrawing(X, y, PlacedNodes(Len(order)), Edges)
  BY <1>1, SMTT(20) DEF PlaneInv
<1>3. Resolved(X)'
  BY <1>1, <1>2 DEF Resolved, Found, BaseLength, V1, PlacedNodes
<1>4. PlacedNodes(Len(order))' = PlacedNodes(Len(order)) /\ Edges' = Edges
  BY <1>1 DEF PlacedNodes, Edges
<1>5. PlaneDrawing(X, y', PlacedNodes(Len(order))', Edges')
  BY <1>1, <1>2, <1>4
<1>6. \E Q : Resolved(Q)' /\ PlaneDrawing(Q, y', PlacedNodes(Len(order))', Edges')
  BY <1>3, <1>5
<1> QED BY <1>1, <1>6 DEF PlaneInv

LEMMA StutterKeepsPlane ==
  ASSUME PlaneInv, UNCHANGED vars
  PROVE  PlaneInv'
<1>1. UNCHANGED << phase, partition, order, k, contour, x, y, upper >>
  BY DEF vars, orderVars, layoutVars
<1>2. GridInv'
  BY StutterKeepsGrid DEF PlaneInv
<1>3. \A n : PlacedNodes(n)' = PlacedNodes(n) /\ PlacedEdges(n)' = PlacedEdges(n)
  BY <1>1 DEF PlacedNodes, PlacedEdges, EdgesOfSet
<1>4. Edges' = Edges /\ PlacedNodes(Len(order))' = PlacedNodes(Len(order))
  BY <1>1 DEF Edges, PlacedNodes
<1>5. \A X, root : Located(X, root) /\ WidthOK(X) => Located(X, root)' /\ WidthOK(X)'
  BY <1>1, SMTT(20) DEF Located, WidthOK, Width, PlacedNodes
<1>6. \A X : Resolved(X) => Resolved(X)'
  BY <1>1 DEF Resolved, Found, BaseLength, V1, PlacedNodes
<1>7. PlacedNodes(k)' = PlacedNodes(k) /\ PlacedEdges(k)' = PlacedEdges(k)
  BY <1>1 DEF PlacedNodes, PlacedEdges, EdgesOfSet
<1>8. \A X, root, rho, Q, h : DrawnBy(X, root, rho, Q, h)' => DrawnBy(X, root, rho, Q, h)
  BY <1>1, <1>7 DEF DrawnBy
<1>9. \A X, root : PlaneFor(X, root) => PlaneFor(X, root)'
  BY <1>1, <1>7, <1>8 DEF PlaneFor
<1>10. ASSUME phase' = "sets"
       PROVE  \E X, root : Located(X, root)' /\ WidthOK(X)' /\ (k' > 1 => PlaneFor(X, root)')
  BY <1>1, <1>5, <1>9, <1>10 DEF PlaneInv
<1>11. ASSUME phase' \in {"inner", "drawn"}
       PROVE  \E X : Resolved(X)' /\ PlaneDrawing(X, y', PlacedNodes(Len(order))', Edges')
  BY <1>1, <1>4, <1>6, <1>11 DEF PlaneInv
<1> QED BY <1>2, <1>10, <1>11 DEF PlaneInv

LEMMA FirstKeepsPlane ==
  ASSUME PlaneInv, (OrderNext /\ UNCHANGED layoutVars) \/ PlaceBase
  PROVE  PlaneInv'
<1>1. CASE OrderNext /\ UNCHANGED layoutVars
  <2>1. GridInv' /\ phase' \in {"peel", "leftmost", "base"}
    BY <1>1, OrderKeepsGrid
       DEF PlaneInv, OrderNext, FindSet, InitLeftmost, PopNode, TakeSet, OrderDone
  <2> QED BY <2>1 DEF PlaneInv
<1>2. CASE PlaceBase
  <2>1. GridInv' /\ phase' = "sets" /\ k' = 1
    BY <1>2, PlaceBaseKeepsGrid DEF PlaneInv, PlaceBase
  <2>2. PICK X, root : Located(X, root)' /\ WidthOK(X)'
    BY <2>1 DEF GridInv
  <2>3. ~ k' > 1
    BY <2>1
  <2>4. \E Q, S : Located(Q, S)' /\ WidthOK(Q)' /\ (k' > 1 => PlaneFor(Q, S)')
    BY <2>2, <2>3
  <2> QED BY <2>1, <2>4 DEF PlaneInv
<1> QED BY <1>1, <1>2

(* The invariant of the drawing.                                           *)
THEOREM PlaneInvariant == Spec => []PlaneInv
<1>1. LayoutInit => PlaneInv
  <2> SUFFICES ASSUME LayoutInit PROVE PlaneInv
    OBVIOUS
  <2>1. LayoutInv /\ phase = "peel"
    BY InitLayoutInv DEF LayoutInit, Init
  <2>2. GridInv
    BY <2>1 DEF GridInv
  <2> QED BY <2>1, <2>2 DEF PlaneInv
<1>2. PlaneInv /\ [Next]_vars => PlaneInv'
  BY FirstKeepsPlane, SetKeepsPlane, ContourKeepsPlane, InnerKeepsPlane, DrawnKeepsPlane,
     StutterKeepsPlane DEF Next
<1> QED BY <1>1, <1>2, PTL DEF Spec

-----------------------------------------------------------------------------
(***************************************************************************)
(* The drawing in the end.                                                 *)
(***************************************************************************)
LEMMA SideIsTurn ==
  ASSUME NEW u, NEW v, NEW w, Turn(x, y, u, v, w) \in Int
  PROVE  /\ Side(u, v, w) = 1 => Turn(x, y, u, v, w) > 0
         /\ Side(u, v, w) = -1 => Turn(x, y, u, v, w) < 0
         /\ Side(u, v, w) = 0 => Turn(x, y, u, v, w) = 0
         /\ Side(u, v, w) \in {-1, 0, 1}
<1> DEFINE d == Turn(x, y, u, v, w)
<1>1. Side(u, v, w) = IF d > 0 THEN 1 ELSE IF d < 0 THEN -1 ELSE 0
  BY DEF Side, Turn, TurnOf
<1>2. d \in Int
  OBVIOUS
<1> HIDE DEF d
<1>3. /\ Side(u, v, w) = 1 => d > 0
      /\ Side(u, v, w) = -1 => d < 0
      /\ Side(u, v, w) = 0 => d = 0
      /\ Side(u, v, w) \in {-1, 0, 1}
  BY <1>1, <1>2
<1> QED BY <1>3 DEF d

LEMMA OppositeSides ==
  ASSUME NEW u, NEW v, NEW p, NEW q,
         Turn(x, y, u, v, p) \in Int, Turn(x, y, u, v, q) \in Int,
         Side(u, v, p) * Side(u, v, q) = -1
  PROVE  Opposite(Turn(x, y, u, v, p), Turn(x, y, u, v, q))
<1>1. Side(u, v, p) \in {-1, 0, 1} /\ Side(u, v, q) \in {-1, 0, 1}
  BY SideIsTurn
<1>2. \A s, t \in {-1, 0, 1} : s * t = -1 => (s = 1 /\ t = -1) \/ (s = -1 /\ t = 1)
  OBVIOUS
<1>3. \/ Side(u, v, p) = 1 /\ Side(u, v, q) = -1
      \/ Side(u, v, p) = -1 /\ Side(u, v, q) = 1
  BY <1>1, <1>2
<1> QED BY <1>3, SideIsTurn DEF Opposite

LEMMA PlaneHasNoCrossing ==
  ASSUME NEW V, GraphNodes \subseteq V, PlaneDrawing(x, y, V, Edges)
  PROVE  NoCrossing
<1>1. ASSUME NEW u \in V, NEW v \in V, NEW w \in V PROVE Turn(x, y, u, v, w) \in Int
  BY TurnFlips DEF PlaneDrawing
<1>2. \A e \in Edges : e[1] \in V /\ e[2] \in V
  BY DEF PlaneDrawing
<1>3. \A u, v \in GraphNodes : (x[u] = x[v] /\ y[u] = y[v]) => u = v
  BY DEF PlaneDrawing
<1>4. ASSUME NEW e \in Edges, NEW w \in GraphNodes \ {e[1], e[2]}, Side(e[1], e[2], w) = 0,
             Between(x[e[1]], x[e[2]], x[w]), Between(y[e[1]], y[e[2]], y[w])
      PROVE  FALSE
  <2>1. e[1] \in V /\ e[2] \in V /\ w \in V
    BY <1>2
  <2>2. Turn(x, y, e[1], e[2], w) = 0
    BY <1>1, <1>4, <2>1, SideIsTurn
  <2>3. OnEdge(x, y, e[1], e[2], w) /\ ~ EndOf(e, w)
    BY <1>4, <2>2 DEF OnEdge, EndOf
  <2> QED BY <2>1, <2>3 DEF PlaneDrawing
<1>5. ASSUME NEW e \in Edges, NEW f \in Edges,
             Side(e[1], e[2], f[1]) * Side(e[1], e[2], f[2]) = -1,
             Side(f[1], f[2], e[1]) * Side(f[1], f[2], e[2]) = -1
      PROVE  FALSE
  <2>1. /\ Turn(x, y, e[1], e[2], f[1]) \in Int /\ Turn(x, y, e[1], e[2], f[2]) \in Int
        /\ Turn(x, y, f[1], f[2], e[1]) \in Int /\ Turn(x, y, f[1], f[2], e[2]) \in Int
    BY <1>1, <1>2
  <2>2. Crossing(x, y, e[1], e[2], f[1], f[2])
    BY <1>5, <2>1, OppositeSides DEF Crossing
  <2> QED BY <2>2 DEF PlaneDrawing
<1> QED BY <1>3, <1>4, <1>5 DEF NoCrossing

(* "without edge crossings" (PlanarStraightLayout.h:49): in the drawing    *)
(* computeCoordinates ends with no two edges cross, no two nodes have the  *)
(* same place, and no edge runs through a node, for every graph the sets   *)
(* can make and every number of its nodes.                                 *)
THEOREM NoEdgesCross == Spec => []NoCrossing
<1>1. ASSUME PlaneInv, phase = "drawn" PROVE NoCrossing
  <2>1. LayoutInv /\ k = 0
    BY <1>1 DEF PlaneInv, GridInv
  <2>2. PICK X : Resolved(X) /\ PlaneDrawing(X, y, PlacedNodes(Len(order)), Edges)
    BY <1>1 DEF PlaneInv
  <2>3. x = X
    <3>1. PlacedNodes(k) = {}
      BY <2>1 DEF PlacedNodes
    <3>2. /\ \A v \in Nodes : x[v] = X[v]
          /\ X = [v \in Nodes |-> X[v]]
      BY <2>2, <3>1 DEF Resolved
    <3>3. x = [v \in Nodes |-> x[v]]
      BY <2>1 DEF LayoutInv, TypeOK
    <3> QED BY <3>2, <3>3
  <2>4. PlaneDrawing(x, y, PlacedNodes(Len(order)), Edges)
    BY <2>2, <2>3
  <2>5. GraphNodes \subseteq PlacedNodes(Len(order))
    BY <1>1, <2>1, AllPlaced
  <2> QED BY <2>4, <2>5, PlaneHasNoCrossing
<1>2. PlaneInv => NoCrossing
  BY <1>1 DEF NoCrossing
<1> QED BY <1>2, PlaneInvariant, PTL

=============================================================================
