----------------------------- MODULE WsqTreeProofs -----------------------------
(***************************************************************************)
(* The two trees of nbis/wsq/tree.cpp for images of every size: the bands  *)
(* of the quantization tree are the boxes that the transform ends with     *)
(* (BandsAligned), and from 81 by 81 pixels on each of them has a variance *)
(* (BandsMeasured).                                                        *)
(***************************************************************************)
EXTENDS WsqCodec, WsqTransform, InductionFacts, TLAPS

(* What fits a short is stored as it is. *)
LEMMA ShortIdentity ==
  ASSUME NEW z \in Int, -32768 <= z, z <= 32767
  PROVE  Short(z) = z
<1>1. 0 <= z + 32768 /\ z + 32768 <= 65535
  OBVIOUS
<1>2. (z + 32768) % 65536 = z + 32768
  BY <1>1
<1>3. QED BY <1>2 DEF Short

-----------------------------------------------------------------------------
(* The two trees.                                                          *)

(* t is f, with what g has beyond it.                                      *)
Extends(t, f, g) ==
  /\ DOMAIN t = DOMAIN f \cup DOMAIN g
  /\ \A n \in DOMAIN f : t[n] = f[n]
  /\ \A n \in DOMAIN g : n \notin DOMAIN f => t[n] = g[n]

LEMMA Extended == \A f, g : Extends(f ++ g, f, g)
BY DEF Extends, ++

LEMMA Halves ==
  ASSUME NEW n \in Nat
  PROVE  /\ Lo(n) \in Nat /\ Hi(n) \in Nat /\ Lo(n) + Hi(n) = n
         /\ n <= 2 * Lo(n) /\ 2 * Lo(n) <= n + 1
         /\ 2 * Hi(n) <= n /\ n <= 2 * Hi(n) + 1
BY DEF Lo, Hi

LEMMA CutSizes ==
  ASSUME NEW len \in Nat, NEW inverted \in BOOLEAN, NEW i \in 1..4
  PROVE  /\ Cuts(len, inverted)[i] \in Nat
         /\ 4 * Cuts(len, inverted)[i] <= len + 3
         /\ len <= 4 * Cuts(len, inverted)[i] + 3
<1> DEFINE a == First(len, inverted)
           b == Rest(len, inverted)
<1>1. \/ a = Lo(len) /\ b = Hi(len)
      \/ a = Hi(len) /\ b = Lo(len)
  BY Halves DEF First, Rest
<1>2. a \in Nat /\ b \in Nat
  BY <1>1, Halves
<1>3. \A c \in {Lo(a), Hi(a), Hi(b), Lo(b)} : c \in Nat /\ 4 * c <= len + 3 /\ len <= 4 * c + 3
  <2> HIDE DEF a, b
  <2>1. Lo(len) \in Nat /\ Hi(len) \in Nat /\ 2 * Lo(len) <= len + 1 /\ len <= 2 * Hi(len) + 1
        /\ Lo(len) >= Hi(len)
    BY DEF Lo, Hi
  <2>2. a \in Nat /\ 2 * a <= len + 1 /\ len <= 2 * a + 1
    BY <1>1, <2>1
  <2>3. b \in Nat /\ 2 * b <= len + 1 /\ len <= 2 * b + 1
    BY <1>1, <2>1
  <2>4. \A m \in Nat : 2 * m <= len + 1 /\ len <= 2 * m + 1 =>
          \A c \in {Lo(m), Hi(m)} : c \in Nat /\ 4 * c <= len + 3 /\ len <= 4 * c + 3
    BY DEF Lo, Hi
  <2>5. QED BY <2>2, <2>3, <2>4
<1>4. Cuts(len, inverted)[i] \in {Lo(a), Hi(a), Hi(b), Lo(b)}
  BY DEF Cuts
<1>5. QED BY <1>3, <1>4

(* Every side of the boxes that q_tree16 makes is a cut of the box's.      *)
CutFrom(q, b, rw, cl) ==
  \E i, j \in 1..4 : q.lenx = Cuts(b.lenx, cl)[i] /\ q.leny = Cuts(b.leny, rw)[j]

LEMMA SidesOf16 ==
  ASSUME NEW p \in Nat, NEW b, b.lenx \in Nat, b.leny \in Nat,
         NEW rw \in BOOLEAN, NEW cl \in BOOLEAN, NEW n \in p..(p + 15)
  PROVE  CutFrom(q_tree16(p, b, rw, cl)[n], b, rw, cl)
<1> DEFINE Col(i) == (i % 2) + 2 * ((i \div 4) % 2) + 1
           Row(i) == ((i \div 2) % 2) + 2 * (i \div 8) + 1
<1>1. n - p \in 0..15
  OBVIOUS
<1>2. \A i \in 0..15 : Col(i) \in 1..4 /\ Row(i) \in 1..4
  OBVIOUS
<1>3. Col(n - p) \in 1..4 /\ Row(n - p) \in 1..4
  BY <1>1, <1>2
<1>4. /\ q_tree16(p, b, rw, cl)[n].lenx = Cuts(b.lenx, cl)[Col(n - p)]
      /\ q_tree16(p, b, rw, cl)[n].leny = Cuts(b.leny, rw)[Row(n - p)]
  BY DEF q_tree16, Box
<1>5. QED BY <1>3, <1>4 DEF CutFrom

(* q is quarter j of a box that is split at fx and fy.                     *)
QuarterIs(q, j, b, fx, fy) ==
  /\ q = Box(q.x, q.y, q.lenx, q.leny)
  /\ j \in {1, 3} => q.x = b.x /\ q.lenx = fx
  /\ j \in {2, 4} => q.x = b.x + fx /\ q.lenx = b.lenx - fx
  /\ j \in {1, 2} => q.y = b.y /\ q.leny = fy
  /\ j \in {3, 4} => q.y = b.y + fy /\ q.leny = b.leny - fy

LEMMA Quarter ==
  ASSUME NEW b, NEW fx, NEW fy, NEW j \in 1..4
  PROVE  QuarterIs(Quarters(b, fx, fy)[j], j, b, fx, fy)
<1>1. CASE j = 1  BY <1>1 DEF Quarters, Box, QuarterIs
<1>2. CASE j = 2  BY <1>2 DEF Quarters, Box, QuarterIs
<1>3. CASE j = 3  BY <1>3 DEF Quarters, Box, QuarterIs
<1>4. CASE j = 4  BY <1>4 DEF Quarters, Box, QuarterIs
<1>5. QED BY <1>1, <1>2, <1>3, <1>4

(* The four cuts of a side, by the halves they are of.                     *)
LEMMA FourCuts ==
  ASSUME NEW len \in Nat, NEW inverted \in BOOLEAN,
         NEW a, a = First(len, inverted), NEW cuts, cuts = Cuts(len, inverted)
  PROVE  /\ a \in Nat /\ a <= len
         /\ cuts[1] = Lo(a) /\ cuts[2] = a - cuts[1]
         /\ cuts[3] = Hi(len - a) /\ cuts[4] = len - a - cuts[3]
         /\ cuts[1] \in Nat /\ cuts[2] \in Nat /\ cuts[3] \in Nat /\ cuts[4] \in Nat
         /\ Before(cuts, 1) = 0 /\ Before(cuts, 2) = cuts[1]
         /\ Before(cuts, 3) = a /\ Before(cuts, 4) = a + cuts[3]
<1> DEFINE b == len - a
<1>1. a \in Nat /\ b \in Nat
  BY DEF First, Lo, Hi
<1>2. cuts = <<Lo(a), Hi(a), Hi(b), Lo(b)>>
  BY DEF Cuts, Rest
<1> HIDE DEF b
<1>3. \A n \in Nat : Lo(n) \in Nat /\ Hi(n) \in Nat /\ Hi(n) = n - Lo(n) /\ Lo(n) = n - Hi(n)
  BY DEF Lo, Hi
<1>4. Lo(a) \in Nat /\ Hi(a) \in Nat /\ Lo(b) \in Nat /\ Hi(b) \in Nat
  BY <1>1, <1>3
<1>5. cuts[1] = Lo(a) /\ cuts[2] = Hi(a) /\ cuts[3] = Hi(b) /\ cuts[4] = Lo(b)
  BY <1>2
<1>6. /\ Before(cuts, 1) = 0 /\ Before(cuts, 2) = Lo(a)
      /\ Before(cuts, 3) = Lo(a) + Hi(a) /\ Before(cuts, 4) = Lo(a) + Hi(a) + Hi(b)
  BY <1>4, <1>5 DEF Before
<1>7. a <= len
  BY <1>1 DEF b
<1>8. Before(cuts, 3) = a /\ Before(cuts, 4) = a + cuts[3]
  BY <1>1, <1>3, <1>4, <1>5, <1>6
<1>9. QED BY <1>1, <1>3, <1>4, <1>5, <1>6, <1>7, <1>8 DEF b

(* Where q_tree16 puts band 4 * (j - 1) + k - 1: it is quarter k of        *)
(* quarter j, of which those to the right and below are inverted.          *)
SixteenthIs(q, j, k, half) ==
  q = Quarters(half, IF j \in {2, 4} THEN Hi(half.lenx) ELSE Lo(half.lenx),
                     IF j \in {3, 4} THEN Hi(half.leny) ELSE Lo(half.leny))[k]

LEMMA QuartersOf16 ==
  ASSUME NEW p \in Nat, NEW b, b.x \in Nat, b.y \in Nat, b.lenx \in Nat, b.leny \in Nat,
         NEW rw \in BOOLEAN, NEW cl \in BOOLEAN, NEW j \in 1..4, NEW k \in 1..4,
         NEW half, half = Quarters(b, First(b.lenx, cl), First(b.leny, rw))[j]
  PROVE  SixteenthIs(q_tree16(p, b, rw, cl)[p + 4 * (j - 1) + k - 1], j, k, half)
<1> DEFINE Col(i) == (i % 2) + 2 * ((i \div 4) % 2) + 1
           Row(i) == ((i \div 2) % 2) + 2 * (i \div 8) + 1
           m == 4 * (j - 1) + k - 1
           c == Col(m)
           r == Row(m)
           xs == Cuts(b.lenx, cl)
           ys == Cuts(b.leny, rw)
           fx == First(b.lenx, cl)
           fy == First(b.leny, rw)
           gx == IF j \in {2, 4} THEN Hi(half.lenx) ELSE Lo(half.lenx)
           gy == IF j \in {3, 4} THEN Hi(half.leny) ELSE Lo(half.leny)
           part == Quarters(half, gx, gy)[k]
<1>1. /\ c = (IF k \in {1, 3} THEN 1 ELSE 2) + (IF j \in {1, 3} THEN 0 ELSE 2)
      /\ r = (IF k \in {1, 2} THEN 1 ELSE 2) + (IF j \in {1, 2} THEN 0 ELSE 2)
  OBVIOUS
<1>2. q_tree16(p, b, rw, cl)[p + m] = Box(b.x + Before(xs, c), b.y + Before(ys, r), xs[c], ys[r])
  <2>1. p + m \in p..(p + 15) /\ p + m - p = m
    OBVIOUS
  <2>2. QED BY <2>1 DEF q_tree16
<1>3. p + m = p + 4 * (j - 1) + k - 1
  OBVIOUS
<1> HIDE DEF c, r, xs, ys, fx, fy, part
<1>4. /\ j \in {1, 3} => half.x = b.x /\ half.lenx = fx
      /\ j \in {2, 4} => half.x = b.x + fx /\ half.lenx = b.lenx - fx
      /\ j \in {1, 2} => half.y = b.y /\ half.leny = fy
      /\ j \in {3, 4} => half.y = b.y + fy /\ half.leny = b.leny - fy
  <2>1. half = Quarters(b, fx, fy)[j]
    BY DEF fx, fy
  <2>2. QuarterIs(half, j, b, fx, fy)
    BY <2>1, Quarter, Zenon
  <2>3. QED BY <2>2 DEF QuarterIs
<1>5. /\ part = Box(part.x, part.y, part.lenx, part.leny)
      /\ k \in {1, 3} => part.x = half.x /\ part.lenx = gx
      /\ k \in {2, 4} => part.x = half.x + gx /\ part.lenx = half.lenx - gx
      /\ k \in {1, 2} => part.y = half.y /\ part.leny = gy
      /\ k \in {3, 4} => part.y = half.y + gy /\ part.leny = half.leny - gy
  <2> HIDE DEF gx, gy
  <2>1. QuarterIs(part, k, half, gx, gy)
    BY Quarter, Zenon DEF part
  <2>2. QED BY <2>1 DEF QuarterIs
<1>6. /\ j \in {1, 3} => gx = Lo(fx)
      /\ j \in {2, 4} => gx = Hi(b.lenx - fx)
      /\ j \in {1, 2} => gy = Lo(fy)
      /\ j \in {3, 4} => gy = Hi(b.leny - fy)
  BY <1>4
<1> HIDE DEF gx, gy
<1>7. /\ fx \in Nat /\ fx <= b.lenx
      /\ xs[1] = Lo(fx) /\ xs[2] = fx - xs[1]
      /\ xs[3] = Hi(b.lenx - fx) /\ xs[4] = b.lenx - fx - xs[3]
      /\ xs[1] \in Nat /\ xs[2] \in Nat /\ xs[3] \in Nat /\ xs[4] \in Nat
      /\ Before(xs, 1) = 0 /\ Before(xs, 2) = xs[1]
      /\ Before(xs, 3) = fx /\ Before(xs, 4) = fx + xs[3]
  <2>1. b.lenx \in Nat /\ xs = Cuts(b.lenx, cl) /\ fx = First(b.lenx, cl)
    BY DEF xs, fx
  <2>2. QED BY <2>1, FourCuts, SMTT(30)
<1>8. /\ fy \in Nat /\ fy <= b.leny
      /\ ys[1] = Lo(fy) /\ ys[2] = fy - ys[1]
      /\ ys[3] = Hi(b.leny - fy) /\ ys[4] = b.leny - fy - ys[3]
      /\ ys[1] \in Nat /\ ys[2] \in Nat /\ ys[3] \in Nat /\ ys[4] \in Nat
      /\ Before(ys, 1) = 0 /\ Before(ys, 2) = ys[1]
      /\ Before(ys, 3) = fy /\ Before(ys, 4) = fy + ys[3]
  <2>1. b.leny \in Nat /\ ys = Cuts(b.leny, rw) /\ fy = First(b.leny, rw)
    BY DEF ys, fy
  <2>2. QED BY <2>1, FourCuts, SMTT(30)
<1>9. b.x + Before(xs, c) = part.x /\ xs[c] = part.lenx
  <2>1. CASE j \in {1, 3} /\ k \in {1, 3}
    <3>1. c = 1
      BY <2>1, <1>1
    <3>2. /\ half.x = b.x
          /\ half.lenx = fx
          /\ gx = Lo(fx)
      BY <2>1, <1>4, <1>6
    <3>3. /\ part.x = half.x
          /\ part.lenx = gx
      BY <2>1, <1>5
    <3>4. QED BY <3>1, <3>2, <3>3, <1>7
  <2>2. CASE j \in {1, 3} /\ k \in {2, 4}
    <3>1. c = 2
      BY <2>2, <1>1
    <3>2. /\ half.x = b.x
          /\ half.lenx = fx
          /\ gx = Lo(fx)
      BY <2>2, <1>4, <1>6
    <3>3. /\ part.x = half.x + gx
          /\ part.lenx = half.lenx - gx
      BY <2>2, <1>5
    <3>4. QED BY <3>1, <3>2, <3>3, <1>7
  <2>3. CASE j \in {2, 4} /\ k \in {1, 3}
    <3>1. c = 3
      BY <2>3, <1>1
    <3>2. /\ half.x = b.x + fx
          /\ half.lenx = b.lenx - fx
          /\ gx = Hi(b.lenx - fx)
      BY <2>3, <1>4, <1>6
    <3>3. /\ part.x = half.x
          /\ part.lenx = gx
      BY <2>3, <1>5
    <3>4. QED BY <3>1, <3>2, <3>3, <1>7
  <2>4. CASE j \in {2, 4} /\ k \in {2, 4}
    <3>1. c = 4
      BY <2>4, <1>1
    <3>2. /\ half.x = b.x + fx
          /\ half.lenx = b.lenx - fx
          /\ gx = Hi(b.lenx - fx)
      BY <2>4, <1>4, <1>6
    <3>3. /\ part.x = half.x + gx
          /\ part.lenx = half.lenx - gx
      BY <2>4, <1>5
    <3>4. QED BY <3>1, <3>2, <3>3, <1>7
  <2>5. QED BY <2>1, <2>2, <2>3, <2>4
<1>10. b.y + Before(ys, r) = part.y /\ ys[r] = part.leny
  <2>1. CASE j \in {1, 2} /\ k \in {1, 2}
    <3>1. r = 1
      BY <2>1, <1>1
    <3>2. /\ half.y = b.y
          /\ half.leny = fy
          /\ gy = Lo(fy)
      BY <2>1, <1>4, <1>6
    <3>3. /\ part.y = half.y
          /\ part.leny = gy
      BY <2>1, <1>5
    <3>4. QED BY <3>1, <3>2, <3>3, <1>8
  <2>2. CASE j \in {1, 2} /\ k \in {3, 4}
    <3>1. r = 2
      BY <2>2, <1>1
    <3>2. /\ half.y = b.y
          /\ half.leny = fy
          /\ gy = Lo(fy)
      BY <2>2, <1>4, <1>6
    <3>3. /\ part.y = half.y + gy
          /\ part.leny = half.leny - gy
      BY <2>2, <1>5
    <3>4. QED BY <3>1, <3>2, <3>3, <1>8
  <2>3. CASE j \in {3, 4} /\ k \in {1, 2}
    <3>1. r = 3
      BY <2>3, <1>1
    <3>2. /\ half.y = b.y + fy
          /\ half.leny = b.leny - fy
          /\ gy = Hi(b.leny - fy)
      BY <2>3, <1>4, <1>6
    <3>3. /\ part.y = half.y
          /\ part.leny = gy
      BY <2>3, <1>5
    <3>4. QED BY <3>1, <3>2, <3>3, <1>8
  <2>4. CASE j \in {3, 4} /\ k \in {3, 4}
    <3>1. r = 4
      BY <2>4, <1>1
    <3>2. /\ half.y = b.y + fy
          /\ half.leny = b.leny - fy
          /\ gy = Hi(b.leny - fy)
      BY <2>4, <1>4, <1>6
    <3>3. /\ part.y = half.y + gy
          /\ part.leny = half.leny - gy
      BY <2>4, <1>5
    <3>4. QED BY <3>1, <3>2, <3>3, <1>8
  <2>5. QED BY <2>1, <2>2, <2>3, <2>4
<1>11. part = Box(b.x + Before(xs, c), b.y + Before(ys, r), xs[c], ys[r])
  BY <1>5, <1>9, <1>10, Zenon
<1>12. QED BY <1>2, <1>3, <1>11 DEF part, gx, gy, SixteenthIs

-----------------------------------------------------------------------------
(* t is b with its quarters, of which the last may be left out.            *)
IsTree(t, p1, p2, b, quarters) ==
  /\ DOMAIN t = {p1} \cup p2..(p2 + quarters - 1)
  /\ t[p1] = b
  /\ \A j \in 1..quarters :
       t[p2 + j - 1] = Quarters(b, IF p1 = 4 THEN Hi(b.lenx) ELSE Lo(b.lenx),
                                   IF p1 = 5 THEN Hi(b.leny) ELSE Lo(b.leny))[j]

LEMMA Tree4 ==
  ASSUME NEW p1 \in Nat, NEW p2 \in Nat, p1 < p2, NEW b, NEW stop1 \in BOOLEAN,
         NEW quarters, quarters = IF stop1 THEN 3 ELSE 4
  PROVE  IsTree(w_tree4(p1, p2, b, stop1), p1, p2, b, quarters)
<1> DEFINE t == w_tree4(p1, p2, b, stop1)
           q == Quarters(b, First(b.lenx, p1 = 4), First(b.leny, p1 = 5))
           last == IF stop1 THEN p2 + 2 ELSE p2 + 3
           f == [n \in {p1} |-> b]
           g == [n \in p2..last |-> q[n - p2 + 1]]
<1>1. t = f ++ g
  BY DEF w_tree4
<1> HIDE DEF t
<1>2. p1 \notin p2..last
  OBVIOUS
<1>3. DOMAIN t = {p1} \cup p2..last /\ t[p1] = b
  <2>1. {p1} = DOMAIN f /\ p2..last = DOMAIN g
    OBVIOUS
  <2> HIDE DEF last, q, f, g
  <2>2. Extends(t, f, g)
    BY <1>1, Extended, Zenon
  <2>3. f[p1] = b
    BY DEF f
  <2>4. QED BY <2>1, <2>2, <2>3 DEF Extends
<1>4. ASSUME NEW j \in 1..quarters PROVE t[p2 + j - 1] = q[j]
  <2>1. p2 + j - 1 \in p2..last /\ p2 + j - 1 - p2 + 1 = j
    OBVIOUS
  <2>2. {p1} = DOMAIN f /\ p2..last = DOMAIN g
    OBVIOUS
  <2> HIDE DEF last, q, f, g
  <2>3. Extends(t, f, g)
    BY <1>1, Extended, Zenon
  <2>4. t[p2 + j - 1] = g[p2 + j - 1]
    BY <1>2, <2>1, <2>2, <2>3 DEF Extends
  <2>5. g[p2 + j - 1] = q[p2 + j - 1 - p2 + 1]
    BY <2>1 DEF g
  <2>6. QED BY <2>1, <2>4, <2>5
<1>5. q = Quarters(b, IF p1 = 4 THEN Hi(b.lenx) ELSE Lo(b.lenx),
                      IF p1 = 5 THEN Hi(b.leny) ELSE Lo(b.leny))
  BY DEF First
<1> HIDE DEF q
<1>6. last = p2 + quarters - 1
  OBVIOUS
<1> HIDE DEF last
<1>7. QED BY <1>3, <1>4, <1>5, <1>6 DEF IsTree, t

(* The nodes of the wavelet tree, each from the one it is a part of.       *)
LEMMA NodesOf ==
  ASSUME NEW w \in Nat, NEW h \in Nat, NEW t, t = build_w_tree(w, h)
  PROVE  /\ t[0] = Box(0, 0, w, h)
         /\ \A j \in 1..3 : t[j] = Quarters(t[0], Lo(w), Lo(h))[j]
         /\ t[1] = Box(0, 0, Lo(w), Lo(h))
         /\ t[14] = Box(0, 0, Lo(Lo(w)), Lo(Lo(h)))
         /\ t[4] = Box(Lo(Lo(w)), 0, Hi(Lo(w)), Lo(Lo(h)))
         /\ t[5] = Box(0, Lo(Lo(h)), Lo(Lo(w)), Hi(Lo(h)))
         /\ \A j \in 1..4 : t[5 + j] = Quarters(t[4], Hi(t[4].lenx), Lo(t[4].leny))[j]
         /\ \A j \in 1..4 : t[9 + j] = Quarters(t[5], Lo(t[5].lenx), Hi(t[5].leny))[j]
         /\ \A j \in 1..4 : t[14 + j] = Quarters(t[14], Lo(t[14].lenx), Lo(t[14].leny))[j]
         /\ t[19] = Box(0, 0, Lo(t[15].lenx), Lo(t[15].leny))
<1> DEFINE b0 == Box(0, 0, w, h)
           b4 == Box(Lo(Lo(w)), 0, Hi(Lo(w)), Lo(Lo(h)))
           b5 == Box(0, Lo(Lo(h)), Lo(Lo(w)), Hi(Lo(h)))
           b14 == Box(0, 0, Lo(Lo(w)), Lo(Lo(h)))
           t0 == w_tree4(0, 1, b0, TRUE)
           t4 == w_tree4(4, 6, b4, FALSE)
           t5 == w_tree4(5, 10, b5, FALSE)
           t14 == w_tree4(14, 15, b14, FALSE)
           b19 == Box(0, 0, Lo(t14[15].lenx), Lo(t14[15].leny))
           t19 == [n \in {19} |-> b19]
<1>1. t = ((t19 ++ t14) ++ t5) ++ t4 ++ t0
  BY DEF build_w_tree, Below, WithLowest, Box
<1>2. /\ b0.lenx = w /\ b0.leny = h
      /\ b4.lenx = Hi(Lo(w)) /\ b4.leny = Lo(Lo(h))
      /\ b5.lenx = Lo(Lo(w)) /\ b5.leny = Hi(Lo(h))
      /\ b14.lenx = Lo(Lo(w)) /\ b14.leny = Lo(Lo(h))
  BY DEF Box
<1> HIDE DEF b0, b4, b5, b14
<1>3. /\ DOMAIN t0 = {0} \cup 1..3 /\ t0[0] = b0
      /\ \A j \in 1..3 : t0[j] = Quarters(b0, Lo(w), Lo(h))[j]
  <2>1. IsTree(t0, 0, 1, b0, 3)
    <3>1. 0 \in Nat /\ 1 \in Nat /\ 0 < 1 /\ TRUE \in BOOLEAN /\ 3 = IF TRUE THEN 3 ELSE 4
      OBVIOUS
    <3>2. QED BY <3>1, Tree4, Zenon
  <2> HIDE DEF t0
  <2>2. QED BY <1>2, <2>1 DEF IsTree
<1>4. /\ DOMAIN t4 = {4} \cup 6..9 /\ t4[4] = b4
      /\ \A j \in 1..4 : t4[5 + j] = Quarters(b4, Hi(b4.lenx), Lo(b4.leny))[j]
  <2>1. IsTree(t4, 4, 6, b4, 4)
    <3>1. 4 \in Nat /\ 6 \in Nat /\ 4 < 6 /\ FALSE \in BOOLEAN /\ 4 = IF FALSE THEN 3 ELSE 4
      OBVIOUS
    <3>2. QED BY <3>1, Tree4, Zenon
  <2> HIDE DEF t4
  <2>2. QED BY <1>2, <2>1 DEF IsTree
<1>5. /\ DOMAIN t5 = {5} \cup 10..13 /\ t5[5] = b5
      /\ \A j \in 1..4 : t5[9 + j] = Quarters(b5, Lo(b5.lenx), Hi(b5.leny))[j]
  <2>1. IsTree(t5, 5, 10, b5, 4)
    <3>1. 5 \in Nat /\ 10 \in Nat /\ 5 < 10 /\ FALSE \in BOOLEAN /\ 4 = IF FALSE THEN 3 ELSE 4
      OBVIOUS
    <3>2. QED BY <3>1, Tree4, Zenon
  <2> HIDE DEF t5
  <2>2. QED BY <1>2, <2>1 DEF IsTree
<1>6. /\ DOMAIN t14 = {14} \cup 15..18 /\ t14[14] = b14
      /\ \A j \in 1..4 : t14[14 + j] = Quarters(b14, Lo(b14.lenx), Lo(b14.leny))[j]
  <2>1. IsTree(t14, 14, 15, b14, 4)
    <3>1. 14 \in Nat /\ 15 \in Nat /\ 14 < 15 /\ FALSE \in BOOLEAN /\ 4 = IF FALSE THEN 3 ELSE 4
      OBVIOUS
    <3>2. QED BY <3>1, Tree4, Zenon
  <2> HIDE DEF t14
  <2>2. QED BY <1>2, <2>1 DEF IsTree
<1> HIDE DEF t0, t4, t5, t14, b19
<1>7. /\ DOMAIN (t19 ++ t14) = 14..19
      /\ (t19 ++ t14)[19] = b19
      /\ \A n \in 14..18 : (t19 ++ t14)[n] = t14[n]
  <2>1. DOMAIN t19 = {19} /\ t19[19] = b19
    OBVIOUS
  <2> HIDE DEF t19
  <2>2. {19} = DOMAIN t19 /\ {14} \cup 15..18 = DOMAIN t14
    BY <1>6, <2>1
  <2>3. Extends(t19 ++ t14, t19, t14)
    BY Extended, Zenon
  <2>4. {19} \cup ({14} \cup 15..18) = 14..19
    OBVIOUS
  <2>5. QED BY <2>1, <2>2, <2>3, <2>4 DEF Extends
<1> HIDE DEF t19
<1> DEFINE u14 == t19 ++ t14
           u5 == u14 ++ t5
           u4 == u5 ++ t4
<1>8. /\ DOMAIN u14 = 14..19 /\ u14[19] = b19 /\ \A n \in 14..18 : u14[n] = t14[n]
  BY <1>7
<1> HIDE DEF u14
<1>9. /\ DOMAIN u5 = {5} \cup 10..19
      /\ \A n \in 14..19 : u5[n] = u14[n]
      /\ \A n \in {5} \cup 10..13 : u5[n] = t5[n]
  <2>1. Extends(u5, u14, t5)
    BY Extended, Zenon DEF u5
  <2>2. 14..19 = DOMAIN u14 /\ {5} \cup 10..13 = DOMAIN t5
    BY <1>5, <1>8
  <2>3. (14..19) \cup ({5} \cup 10..13) = {5} \cup 10..19
    OBVIOUS
  <2>4. QED BY <2>1, <2>2, <2>3 DEF Extends
<1> HIDE DEF u5
<1>10. /\ DOMAIN u4 = 4..19
       /\ \A n \in {5} \cup 10..19 : u4[n] = u5[n]
       /\ \A n \in {4} \cup 6..9 : u4[n] = t4[n]
  <2>1. Extends(u4, u5, t4)
    BY Extended, Zenon DEF u4
  <2>2. {5} \cup 10..19 = DOMAIN u5 /\ {4} \cup 6..9 = DOMAIN t4
    BY <1>4, <1>9
  <2>3. ({5} \cup 10..19) \cup ({4} \cup 6..9) = 4..19
    OBVIOUS
  <2>4. QED BY <2>1, <2>2, <2>3 DEF Extends
<1>11. t = u4 ++ t0
  BY <1>1 DEF u4, u5, u14
<1> HIDE DEF u4
<1>12. /\ \A n \in 4..19 : t[n] = u4[n]
       /\ \A n \in 0..3 : t[n] = t0[n]
  <2>1. Extends(t, u4, t0)
    BY <1>11, Extended, Zenon
  <2>2. 4..19 = DOMAIN u4 /\ {0} \cup 1..3 = DOMAIN t0
    BY <1>3, <1>10, <1>11
  <2>3. (4..19) \cup ({0} \cup 1..3) = 0..19
    OBVIOUS
  <2>4. QED BY <2>1, <2>2, <2>3 DEF Extends
<1>13. /\ t[0] = b0 /\ t[4] = b4 /\ t[5] = b5 /\ t[14] = b14 /\ t[19] = b19
       /\ \A j \in 1..3 : t[j] = t0[j]
       /\ \A j \in 1..4 : t[5 + j] = t4[5 + j]
       /\ \A j \in 1..4 : t[9 + j] = t5[9 + j]
       /\ \A j \in 1..4 : t[14 + j] = t14[14 + j]
  <2>1. t[0] = b0
    BY <1>3, <1>12
  <2>2. t[4] = b4
    BY <1>4, <1>10, <1>12
  <2>3. t[5] = b5
    BY <1>5, <1>9, <1>10, <1>12
  <2>4. t[14] = b14 /\ t[19] = b19
    BY <1>6, <1>8, <1>9, <1>10, <1>12
  <2>5. \A j \in 1..3 : t[j] = t0[j]
    BY <1>12
  <2>6. \A j \in 1..4 : t[5 + j] = t4[5 + j]
    <3>1. \A j \in 1..4 : 5 + j \in 6..9 /\ 5 + j \in 4..19
      OBVIOUS
    <3>2. QED BY <3>1, <1>10, <1>12
  <2>7. \A j \in 1..4 : t[9 + j] = t5[9 + j]
    <3>1. \A j \in 1..4 : 9 + j \in 10..13 /\ 9 + j \in 10..19 /\ 9 + j \in 4..19
      OBVIOUS
    <3>2. QED BY <3>1, <1>9, <1>10, <1>12
  <2>8. \A j \in 1..4 : t[14 + j] = t14[14 + j]
    <3>1. \A j \in 1..4 : 14 + j \in 14..18 /\ 14 + j \in 14..19 /\ 14 + j \in 10..19 /\ 14 + j \in 4..19
      OBVIOUS
    <3>2. QED BY <3>1, <1>8, <1>9, <1>10, <1>12
  <2>9. QED BY <2>1, <2>2, <2>3, <2>4, <2>5, <2>6, <2>7, <2>8
<1>14. t[1] = Box(0, 0, Lo(w), Lo(h))
  <2>1. t[1] = Quarters(b0, Lo(w), Lo(h))[1]
    BY <1>3, <1>13
  <2>2. b0.x = 0 /\ b0.y = 0
    BY DEF b0, Box
  <2>3. QED BY <2>1, <2>2 DEF Quarters
<1>15. b19 = Box(0, 0, Lo(t[15].lenx), Lo(t[15].leny))
  <2>1. t[15] = t14[15]
    <3>1. t[14 + 1] = t14[14 + 1]
      BY <1>13
    <3>2. QED BY <3>1
  <2>2. QED BY <2>1 DEF b19
<1>16. \A j \in 1..4 : /\ t[5 + j] = Quarters(b4, Hi(b4.lenx), Lo(b4.leny))[j]
                       /\ t[9 + j] = Quarters(b5, Lo(b5.lenx), Hi(b5.leny))[j]
                       /\ t[14 + j] = Quarters(b14, Lo(b14.lenx), Lo(b14.leny))[j]
  BY <1>4, <1>5, <1>6, <1>13
<1>17. \A j \in 1..3 : t[j] = Quarters(t[0], Lo(w), Lo(h))[j]
  BY <1>3, <1>13
<1>18. /\ \A j \in 1..4 : t[5 + j] = Quarters(t[4], Hi(t[4].lenx), Lo(t[4].leny))[j]
       /\ \A j \in 1..4 : t[9 + j] = Quarters(t[5], Lo(t[5].lenx), Hi(t[5].leny))[j]
       /\ \A j \in 1..4 : t[14 + j] = Quarters(t[14], Lo(t[14].lenx), Lo(t[14].leny))[j]
  BY <1>13, <1>16
<1>19. /\ t[4] = Box(Lo(Lo(w)), 0, Hi(Lo(w)), Lo(Lo(h)))
       /\ t[5] = Box(0, Lo(Lo(h)), Lo(Lo(w)), Hi(Lo(h)))
       /\ t[14] = Box(0, 0, Lo(Lo(w)), Lo(Lo(h)))
       /\ t[0] = Box(0, 0, w, h)
  BY <1>13 DEF b0, b4, b5, b14
<1>20. QED BY <1>13, <1>14, <1>15, <1>17, <1>18, <1>19

-----------------------------------------------------------------------------
(* Which call of build_q_tree each band comes from: the last that writes it.*)
BandsFrom(q, t) ==
  /\ DOMAIN q = 0..63
  /\ \A n \in 0..3 : q[n] = q_tree4(0, t[19])[n]
  /\ \A n \in 4..18 : q[n] = q_tree16(3, t[14], FALSE, FALSE)[n]
  /\ \A n \in 19..34 : q[n] = q_tree16(19, t[4], FALSE, TRUE)[n]
  /\ \A n \in 35..50 : q[n] = q_tree16(35, t[5], TRUE, FALSE)[n]
  /\ \A n \in 51..63 : q[n] = q_tree16(48, t[0], FALSE, FALSE)[n]

LEMMA BandsOf ==
  ASSUME NEW t, NEW q, q = build_q_tree(t)
  PROVE  BandsFrom(q, t)
<1> DEFINE a == q_tree4(0, t[19])
           b == q_tree16(35, t[5], TRUE, FALSE)
           c == q_tree16(48, t[0], FALSE, FALSE)
           d == q_tree16(19, t[4], FALSE, TRUE)
           e == q_tree16(3, t[14], FALSE, FALSE)
           ab == a ++ b
           abc == ab ++ c
           abcd == abc ++ d
<1>1. q = abcd ++ e
  BY DEF build_q_tree
<1>2. DOMAIN a = 0..3
  BY DEF q_tree4
<1>3. DOMAIN b = 35..50 /\ DOMAIN c = 48..63 /\ DOMAIN d = 19..34 /\ DOMAIN e = 3..18
  BY DEF q_tree16
<1> HIDE DEF a, b, c, d, e
<1>4. DOMAIN ab = 0..3 \cup 35..50 /\ (\A n \in 0..3 : ab[n] = a[n]) /\ (\A n \in 35..50 : ab[n] = b[n])
  <2>1. Extends(ab, a, b)
    BY Extended, Zenon
  <2>2. QED BY <2>1, <1>2, <1>3 DEF Extends
<1> HIDE DEF ab
<1>5. /\ DOMAIN abc = 0..3 \cup 35..63
      /\ \A n \in 0..3 \cup 35..50 : abc[n] = ab[n]
      /\ \A n \in 51..63 : abc[n] = c[n]
  <2>1. Extends(abc, ab, c)
    BY Extended, Zenon
  <2>2. (0..3 \cup 35..50) \cup 48..63 = 0..3 \cup 35..63
    OBVIOUS
  <2>3. QED BY <2>1, <2>2, <1>3, <1>4 DEF Extends
<1> HIDE DEF abc
<1>6. /\ DOMAIN abcd = 0..3 \cup 19..63
      /\ \A n \in 0..3 \cup 35..63 : abcd[n] = abc[n]
      /\ \A n \in 19..34 : abcd[n] = d[n]
  <2>1. Extends(abcd, abc, d)
    BY Extended, Zenon
  <2>2. (0..3 \cup 35..63) \cup 19..34 = 0..3 \cup 19..63
    OBVIOUS
  <2>3. QED BY <2>1, <2>2, <1>3, <1>5 DEF Extends
<1> HIDE DEF abcd
<1>7. /\ DOMAIN q = 0..63
      /\ \A n \in 0..3 \cup 19..63 : q[n] = abcd[n]
      /\ \A n \in 4..18 : q[n] = e[n]
  <2>1. Extends(q, abcd, e)
    BY <1>1, Extended, Zenon
  <2>2. (0..3 \cup 19..63) \cup 3..18 = 0..63
    OBVIOUS
  <2>3. QED BY <2>1, <2>2, <1>3, <1>6 DEF Extends
<1>8. \A n \in 0..3 : q[n] = a[n]
  BY <1>4, <1>5, <1>6, <1>7
<1>9. \A n \in 19..34 : q[n] = d[n]
  BY <1>6, <1>7
<1>10. \A n \in 35..50 : q[n] = b[n]
  BY <1>4, <1>5, <1>6, <1>7
<1>11. \A n \in 51..63 : q[n] = c[n]
  BY <1>5, <1>6, <1>7
<1>12. QED BY <1>7, <1>8, <1>9, <1>10, <1>11 DEF a, b, c, d, e, BandsFrom

-----------------------------------------------------------------------------
(* Nodes, bands 0..59 and the quarter that is dropped, under one number:   *)
(* nodes have their own, bands come after them.                            *)
Region(w, h, k) ==
  IF k \in 0..19 THEN build_w_tree(w, h)[k]
  ELSE IF k \in 20..79 THEN build_q_tree(build_w_tree(w, h))[k - 20]
  ELSE Quarters(build_w_tree(w, h)[0], Lo(w), Lo(h))[4]

(* What a node is split into. *)
SplitOf(i, b) == Quarters(b, First(b.lenx, i \in InvertedRows), First(b.leny, i \in InvertedCols))

(* The regions that node i is split into, as they stand in the two trees. *)
Children == << <<1, 2, 3, 80>>, <<14, 4, 5, 71>>, <<72, 73, 74, 75>>, <<76, 77, 78, 79>>,
                <<6, 7, 8, 9>>, <<10, 11, 12, 13>>, <<39, 40, 41, 42>>, <<43, 44, 45, 46>>,
                <<47, 48, 49, 50>>, <<51, 52, 53, 54>>, <<55, 56, 57, 58>>, <<59, 60, 61, 62>>,
                <<63, 64, 65, 66>>, <<67, 68, 69, 70>>, <<15, 16, 17, 18>>, <<19, 24, 25, 26>>,
                <<27, 28, 29, 30>>, <<31, 32, 33, 34>>, <<35, 36, 37, 38>>, <<20, 21, 22, 23>> >>

(* Node i is split as a quarter j is that q_tree16 cuts.                   *)
ChildIs(q, i, half, k) == q = SplitOf(i, half)[k]
Inverted(i, j) == (j \in {2, 4} <=> i \in InvertedRows) /\ (j \in {3, 4} <=> i \in InvertedCols)

LEMMA ChildrenOf16 ==
  ASSUME NEW p \in Nat, NEW b, b.x \in Nat, b.y \in Nat, b.lenx \in Nat, b.leny \in Nat,
         NEW rw \in BOOLEAN, NEW cl \in BOOLEAN, NEW i \in 0..19, NEW j \in 1..4, NEW half,
         half = Quarters(b, First(b.lenx, cl), First(b.leny, rw))[j],
         Inverted(i, j),
         NEW k \in 1..4
  PROVE  ChildIs(q_tree16(p, b, rw, cl)[p + 4 * (j - 1) + k - 1], i, half, k)
<1>1. SixteenthIs(q_tree16(p, b, rw, cl)[p + 4 * (j - 1) + k - 1], j, k, half)
  BY QuartersOf16, Zenon
<1>2. /\ First(half.lenx, i \in InvertedRows) = IF j \in {2, 4} THEN Hi(half.lenx) ELSE Lo(half.lenx)
      /\ First(half.leny, i \in InvertedCols) = IF j \in {3, 4} THEN Hi(half.leny) ELSE Lo(half.leny)
  BY DEF First, Inverted
<1>3. QED BY <1>1, <1>2 DEF SplitOf, SixteenthIs, ChildIs

LEMMA ChildrenAreQuarters ==
  ASSUME NEW w \in Nat, NEW h \in Nat, NEW i \in 0..19, NEW k \in 1..4
  PROVE  Region(w, h, Children[i + 1][k]) = SplitOf(i, Region(w, h, i))[k]
<1> DEFINE t == build_w_tree(w, h)
           q == build_q_tree(t)
           r(n) == Region(w, h, n)
<1>1. /\ \A n \in 0..19 : r(n) = t[n]
      /\ \A n \in 20..79 : r(n) = q[n - 20]
      /\ r(80) = Quarters(t[0], Lo(w), Lo(h))[4]
  BY DEF Region
<1>2. /\ t[0] = Box(0, 0, w, h)
      /\ \A j \in 1..3 : t[j] = Quarters(t[0], Lo(w), Lo(h))[j]
      /\ t[1] = Box(0, 0, Lo(w), Lo(h))
      /\ t[14] = Box(0, 0, Lo(Lo(w)), Lo(Lo(h)))
      /\ t[4] = Box(Lo(Lo(w)), 0, Hi(Lo(w)), Lo(Lo(h)))
      /\ t[5] = Box(0, Lo(Lo(h)), Lo(Lo(w)), Hi(Lo(h)))
      /\ \A j \in 1..4 : t[5 + j] = Quarters(t[4], Hi(t[4].lenx), Lo(t[4].leny))[j]
      /\ \A j \in 1..4 : t[9 + j] = Quarters(t[5], Lo(t[5].lenx), Hi(t[5].leny))[j]
      /\ \A j \in 1..4 : t[14 + j] = Quarters(t[14], Lo(t[14].lenx), Lo(t[14].leny))[j]
      /\ t[19] = Box(0, 0, Lo(t[15].lenx), Lo(t[15].leny))
  BY NodesOf
<1> HIDE DEF t
<1>3. /\ \A n \in 0..3 : q[n] = q_tree4(0, t[19])[n]
      /\ \A n \in 4..18 : q[n] = q_tree16(3, t[14], FALSE, FALSE)[n]
      /\ \A n \in 19..34 : q[n] = q_tree16(19, t[4], FALSE, TRUE)[n]
      /\ \A n \in 35..50 : q[n] = q_tree16(35, t[5], TRUE, FALSE)[n]
      /\ \A n \in 51..63 : q[n] = q_tree16(48, t[0], FALSE, FALSE)[n]
  <2>1. BandsFrom(q, t)
    BY BandsOf, Zenon
  <2> HIDE DEF q
  <2>2. QED BY <2>1 DEF BandsFrom
<1> HIDE DEF q, r
<1>4. \A b \in {t[0], t[4], t[5], t[14]} :
        b.x \in Nat /\ b.y \in Nat /\ b.lenx \in Nat /\ b.leny \in Nat
  <2>1. \A n \in Nat : Lo(n) \in Nat /\ Hi(n) \in Nat
    BY Halves
  <2>2. Lo(w) \in Nat /\ Lo(h) \in Nat
    BY <2>1
  <2>3. Lo(Lo(w)) \in Nat /\ Hi(Lo(w)) \in Nat /\ Lo(Lo(h)) \in Nat /\ Hi(Lo(h)) \in Nat
    BY <2>1, <2>2
  <2>4. t[0].x = 0 /\ t[0].y = 0 /\ t[0].lenx = w /\ t[0].leny = h
    BY <1>2 DEF Box
  <2>5. t[4].x = Lo(Lo(w)) /\ t[4].y = 0 /\ t[4].lenx = Hi(Lo(w)) /\ t[4].leny = Lo(Lo(h))
    BY <1>2 DEF Box
  <2>6. t[5].x = 0 /\ t[5].y = Lo(Lo(h)) /\ t[5].lenx = Lo(Lo(w)) /\ t[5].leny = Hi(Lo(h))
    BY <1>2 DEF Box
  <2>7. t[14].x = 0 /\ t[14].y = 0 /\ t[14].lenx = Lo(Lo(w)) /\ t[14].leny = Lo(Lo(h))
    BY <1>2 DEF Box
  <2>8. QED BY <2>3, <2>4, <2>5, <2>6, <2>7
<1>5. ASSUME NEW i0 \in 6..9, NEW k0 \in 1..4
      PROVE  q_tree16(19, t[4], FALSE, TRUE)[19 + 4 * (i0 - 5 - 1) + k0 - 1] = SplitOf(i0, t[i0])[k0]
  <2> DEFINE j == i0 - 5
  <2>1. j \in 1..4 /\ 19 \in Nat /\ i0 \in 0..19 /\ FALSE \in BOOLEAN /\ TRUE \in BOOLEAN
    BY <1>5
  <2>2. Inverted(i0, j)
    BY <1>5 DEF Inverted, InvertedRows, InvertedCols
  <2>3. t[i0] = Quarters(t[4], First(t[4].lenx, TRUE), First(t[4].leny, FALSE))[j]
    <3>1. First(t[4].lenx, TRUE) = Hi(t[4].lenx) /\ First(t[4].leny, FALSE) = Lo(t[4].leny)
      BY DEF First
    <3>2. i0 = 5 + j
      BY <1>5
    <3> HIDE DEF j
    <3>3. t[5 + j] = Quarters(t[4], Hi(t[4].lenx), Lo(t[4].leny))[j]
      BY <1>2, <2>1
    <3>4. QED BY <3>1, <3>2, <3>3
  <2>4. t[4].x \in Nat /\ t[4].y \in Nat /\ t[4].lenx \in Nat /\ t[4].leny \in Nat
    BY <1>4
  <2>5. i0 - 5 - 1 = j - 1
    OBVIOUS
  <2> HIDE DEF j
  <2>6. k0 \in 1..4
    BY <1>5
  <2>7. ChildIs(q_tree16(19, t[4], FALSE, TRUE)[19 + 4 * (j - 1) + k0 - 1], i0, t[i0], k0)
    BY <2>1, <2>2, <2>3, <2>4, <2>6, ChildrenOf16, ZenonT(30)
  <2>8. QED BY <2>5, <2>7 DEF ChildIs
<1>6. ASSUME NEW i0 \in 10..13, NEW k0 \in 1..4
      PROVE  q_tree16(35, t[5], TRUE, FALSE)[35 + 4 * (i0 - 9 - 1) + k0 - 1] = SplitOf(i0, t[i0])[k0]
  <2> DEFINE j == i0 - 9
  <2>1. j \in 1..4 /\ 35 \in Nat /\ i0 \in 0..19 /\ TRUE \in BOOLEAN /\ FALSE \in BOOLEAN
    BY <1>6
  <2>2. Inverted(i0, j)
    BY <1>6 DEF Inverted, InvertedRows, InvertedCols
  <2>3. t[i0] = Quarters(t[5], First(t[5].lenx, FALSE), First(t[5].leny, TRUE))[j]
    <3>1. First(t[5].lenx, FALSE) = Lo(t[5].lenx) /\ First(t[5].leny, TRUE) = Hi(t[5].leny)
      BY DEF First
    <3>2. i0 = 9 + j
      BY <1>6
    <3> HIDE DEF j
    <3>3. t[9 + j] = Quarters(t[5], Lo(t[5].lenx), Hi(t[5].leny))[j]
      BY <1>2, <2>1
    <3>4. QED BY <3>1, <3>2, <3>3
  <2>4. t[5].x \in Nat /\ t[5].y \in Nat /\ t[5].lenx \in Nat /\ t[5].leny \in Nat
    BY <1>4
  <2>5. i0 - 9 - 1 = j - 1
    OBVIOUS
  <2> HIDE DEF j
  <2>6. k0 \in 1..4
    BY <1>6
  <2>7. ChildIs(q_tree16(35, t[5], TRUE, FALSE)[35 + 4 * (j - 1) + k0 - 1], i0, t[i0], k0)
    BY <2>1, <2>2, <2>3, <2>4, <2>6, ChildrenOf16, ZenonT(30)
  <2>8. QED BY <2>5, <2>7 DEF ChildIs
<1>7. ASSUME NEW i0 \in 15..18, NEW k0 \in 1..4
      PROVE  q_tree16(3, t[14], FALSE, FALSE)[3 + 4 * (i0 - 14 - 1) + k0 - 1] = SplitOf(i0, t[i0])[k0]
  <2> DEFINE j == i0 - 14
  <2>1. j \in 1..4 /\ 3 \in Nat /\ i0 \in 0..19 /\ FALSE \in BOOLEAN /\ FALSE \in BOOLEAN
    BY <1>7
  <2>2. Inverted(i0, j)
    BY <1>7 DEF Inverted, InvertedRows, InvertedCols
  <2>3. t[i0] = Quarters(t[14], First(t[14].lenx, FALSE), First(t[14].leny, FALSE))[j]
    <3>1. First(t[14].lenx, FALSE) = Lo(t[14].lenx) /\ First(t[14].leny, FALSE) = Lo(t[14].leny)
      BY DEF First
    <3>2. i0 = 14 + j
      BY <1>7
    <3> HIDE DEF j
    <3>3. t[14 + j] = Quarters(t[14], Lo(t[14].lenx), Lo(t[14].leny))[j]
      BY <1>2, <2>1
    <3>4. QED BY <3>1, <3>2, <3>3
  <2>4. t[14].x \in Nat /\ t[14].y \in Nat /\ t[14].lenx \in Nat /\ t[14].leny \in Nat
    BY <1>4
  <2>5. i0 - 14 - 1 = j - 1
    OBVIOUS
  <2> HIDE DEF j
  <2>6. k0 \in 1..4
    BY <1>7
  <2>7. ChildIs(q_tree16(3, t[14], FALSE, FALSE)[3 + 4 * (j - 1) + k0 - 1], i0, t[i0], k0)
    BY <2>1, <2>2, <2>3, <2>4, <2>6, ChildrenOf16, ZenonT(30)
  <2>8. QED BY <2>5, <2>7 DEF ChildIs
<1>8. ASSUME NEW i0 \in 1..3, NEW k0 \in 1..4
      PROVE  q_tree16(48, t[0], FALSE, FALSE)[48 + 4 * (i0 - 0 - 1) + k0 - 1] = SplitOf(i0, t[i0])[k0]
  <2> DEFINE j == i0 - 0
  <2>1. j \in 1..4 /\ 48 \in Nat /\ i0 \in 0..19 /\ FALSE \in BOOLEAN /\ FALSE \in BOOLEAN
    BY <1>8
  <2>2. Inverted(i0, j)
    BY <1>8 DEF Inverted, InvertedRows, InvertedCols
  <2>3. t[i0] = Quarters(t[0], First(t[0].lenx, FALSE), First(t[0].leny, FALSE))[j]
    <3>1. First(t[0].lenx, FALSE) = Lo(w) /\ First(t[0].leny, FALSE) = Lo(h)
      BY <1>2 DEF First, Box
    <3>2. i0 = 0 + j
      BY <1>8
    <3> HIDE DEF j
    <3>3. t[0 + j] = Quarters(t[0], Lo(w), Lo(h))[j]
      BY <1>2, <2>1, <3>2, <1>8
    <3>4. QED BY <3>1, <3>2, <3>3
  <2>4. t[0].x \in Nat /\ t[0].y \in Nat /\ t[0].lenx \in Nat /\ t[0].leny \in Nat
    BY <1>4
  <2>5. i0 - 0 - 1 = j - 1
    OBVIOUS
  <2> HIDE DEF j
  <2>6. k0 \in 1..4
    BY <1>8
  <2>7. ChildIs(q_tree16(48, t[0], FALSE, FALSE)[48 + 4 * (j - 1) + k0 - 1], i0, t[i0], k0)
    BY <2>1, <2>2, <2>3, <2>4, <2>6, ChildrenOf16, ZenonT(30)
  <2>8. QED BY <2>5, <2>7 DEF ChildIs
<1>9. r(i) = t[i]
  BY <1>1
<1>10. CASE i = 0
  <2>1. Children[i + 1] = <<1, 2, 3, 80>>
    BY <1>10 DEF Children
  <2>2. SplitOf(i, t[i]) = Quarters(t[0], Lo(w), Lo(h))
    BY <1>2, <1>10 DEF SplitOf, First, InvertedRows, InvertedCols, Box
  <2>3. k \in 1..3 => r(k) = Quarters(t[0], Lo(w), Lo(h))[k]
    BY <1>1, <1>2
  <2>4. CASE k = 4
    BY <1>1, <1>9, <2>1, <2>2, <2>4 DEF r
  <2>5. CASE k \in 1..3
    BY <1>9, <2>1, <2>2, <2>3, <2>5 DEF r
  <2>6. QED BY <2>4, <2>5
<1>11. CASE i = 1
  <2>1. Children[i + 1] = <<14, 4, 5, 71>>
    BY <1>11 DEF Children
  <2>2. SplitOf(i, t[i]) = Quarters(t[1], Lo(Lo(w)), Lo(Lo(h)))
    BY <1>2, <1>11 DEF SplitOf, First, InvertedRows, InvertedCols, Box
  <2>3. Lo(w) \in Nat /\ Lo(h) \in Nat
    BY Halves
  <2>4. /\ Lo(w) - Lo(Lo(w)) = Hi(Lo(w)) /\ Lo(h) - Lo(Lo(h)) = Hi(Lo(h))
        /\ 0 + Lo(Lo(w)) = Lo(Lo(w)) /\ 0 + Lo(Lo(h)) = Lo(Lo(h))
    <3>1. \A n \in Nat : n - Lo(n) = Hi(n) /\ 0 + Lo(n) = Lo(n)
      BY DEF Lo, Hi
    <3>2. QED BY <2>3, <3>1
  <2>5. t[1].x = 0 /\ t[1].y = 0 /\ t[1].lenx = Lo(w) /\ t[1].leny = Lo(h)
    BY <1>2 DEF Box
  <2>6. Quarters(t[1], Lo(Lo(w)), Lo(Lo(h)))
          = << Box(0, 0, Lo(Lo(w)), Lo(Lo(h))), Box(Lo(Lo(w)), 0, Hi(Lo(w)), Lo(Lo(h))),
               Box(0, Lo(Lo(h)), Lo(Lo(w)), Hi(Lo(h))),
               Box(Lo(Lo(w)), Lo(Lo(h)), Hi(Lo(w)), Hi(Lo(h))) >>
    BY <2>4, <2>5 DEF Quarters
  <2>7. CASE k = 1
    BY <1>1, <1>2, <1>9, <2>1, <2>2, <2>6, <2>7 DEF r
  <2>8. CASE k = 2
    BY <1>1, <1>2, <1>9, <2>1, <2>2, <2>6, <2>8 DEF r
  <2>9. CASE k = 3
    BY <1>1, <1>2, <1>9, <2>1, <2>2, <2>6, <2>9 DEF r
  <2>10. CASE k = 4
    <3>1. q_tree16(48, t[0], FALSE, FALSE)[48 + 4 * (i - 0 - 1) + k - 1] = SplitOf(i, t[i])[k]
      <4>1. i \in 1..3
        BY <1>11
      <4>2. QED BY <4>1, <1>8, Zenon
    <3>2. r(71) = q[51]
      <4>1. 71 \in 20..79 /\ 71 - 20 = 51
        OBVIOUS
      <4>2. QED BY <1>1, <4>1
    <3>3. q[51] = q_tree16(48, t[0], FALSE, FALSE)[51]
      <4>1. 51 \in 51..63
        OBVIOUS
      <4>2. QED BY <4>1, <1>3, Zenon
    <3>4. 48 + 4 * (i - 0 - 1) + k - 1 = 51
      BY <1>11, <2>10
    <3>5. Children[i + 1][k] = 71
      BY <2>1, <2>10
    <3>6. QED BY <1>9, <3>1, <3>2, <3>3, <3>4, <3>5 DEF r
  <2>11. QED BY <2>7, <2>8, <2>9, <2>10
<1>12. CASE i = 4
  <2>1. Children[i + 1] = <<6, 7, 8, 9>>
    BY <1>12 DEF Children
  <2>2. SplitOf(i, t[i]) = Quarters(t[4], Hi(t[4].lenx), Lo(t[4].leny))
    BY <1>12 DEF SplitOf, First, InvertedRows, InvertedCols
  <2>3. Children[i + 1][k] = 5 + k /\ 5 + k \in 0..19
    BY <2>1
  <2>4. r(5 + k) = t[5 + k]
    BY <1>1, <2>3
  <2>5. QED BY <1>2, <1>9, <2>2, <2>3, <2>4 DEF r
<1>13. CASE i = 5
  <2>1. Children[i + 1] = <<10, 11, 12, 13>>
    BY <1>13 DEF Children
  <2>2. SplitOf(i, t[i]) = Quarters(t[5], Lo(t[5].lenx), Hi(t[5].leny))
    BY <1>13 DEF SplitOf, First, InvertedRows, InvertedCols
  <2>3. Children[i + 1][k] = 9 + k /\ 9 + k \in 0..19
    BY <2>1
  <2>4. r(9 + k) = t[9 + k]
    BY <1>1, <2>3
  <2>5. QED BY <1>2, <1>9, <2>2, <2>3, <2>4 DEF r
<1>14. CASE i = 14
  <2>1. Children[i + 1] = <<15, 16, 17, 18>>
    BY <1>14 DEF Children
  <2>2. SplitOf(i, t[i]) = Quarters(t[14], Lo(t[14].lenx), Lo(t[14].leny))
    BY <1>14 DEF SplitOf, First, InvertedRows, InvertedCols
  <2>3. Children[i + 1][k] = 14 + k /\ 14 + k \in 0..19
    BY <2>1
  <2>4. r(14 + k) = t[14 + k]
    BY <1>1, <2>3
  <2>5. QED BY <1>2, <1>9, <2>2, <2>3, <2>4 DEF r
<1>15. CASE i \in 6..9
  <2>1. Children[i + 1][k] = 39 + 4 * (i - 6) + k - 1
    <3>1. CASE i = 6
      BY <3>1 DEF Children
    <3>2. CASE i = 7
      BY <3>2 DEF Children
    <3>3. CASE i = 8
      BY <3>3 DEF Children
    <3>4. CASE i = 9
      BY <3>4 DEF Children
    <3>5. QED BY <1>15, <3>1, <3>2, <3>3, <3>4
  <2>2. r(39 + 4 * (i - 6) + k - 1) = q[19 + 4 * (i - 5 - 1) + k - 1]
    <3>1. 39 + 4 * (i - 6) + k - 1 \in 20..79
      BY <1>15
    <3>2. 39 + 4 * (i - 6) + k - 1 - 20 = 19 + 4 * (i - 5 - 1) + k - 1
      BY <1>15
    <3>3. QED BY <1>1, <3>1, <3>2
  <2>3. q[19 + 4 * (i - 5 - 1) + k - 1] = q_tree16(19, t[4], FALSE, TRUE)[19 + 4 * (i - 5 - 1) + k - 1]
    <3>1. 19 + 4 * (i - 5 - 1) + k - 1 \in 19..34
      BY <1>15
    <3>2. QED BY <1>3, <3>1
  <2>4. q_tree16(19, t[4], FALSE, TRUE)[19 + 4 * (i - 5 - 1) + k - 1] = SplitOf(i, t[i])[k]
    <3>1. i \in 6..9
      BY <1>15
    <3>2. QED BY <3>1, <1>5, Zenon
  <2>5. QED BY <1>9, <2>1, <2>2, <2>3, <2>4 DEF r
<1>16. CASE i \in 10..13
  <2>1. Children[i + 1][k] = 55 + 4 * (i - 10) + k - 1
    <3>1. CASE i = 10
      BY <3>1 DEF Children
    <3>2. CASE i = 11
      BY <3>2 DEF Children
    <3>3. CASE i = 12
      BY <3>3 DEF Children
    <3>4. CASE i = 13
      BY <3>4 DEF Children
    <3>5. QED BY <1>16, <3>1, <3>2, <3>3, <3>4
  <2>2. r(55 + 4 * (i - 10) + k - 1) = q[35 + 4 * (i - 9 - 1) + k - 1]
    <3>1. 55 + 4 * (i - 10) + k - 1 \in 20..79
      BY <1>16
    <3>2. 55 + 4 * (i - 10) + k - 1 - 20 = 35 + 4 * (i - 9 - 1) + k - 1
      BY <1>16
    <3>3. QED BY <1>1, <3>1, <3>2
  <2>3. q[35 + 4 * (i - 9 - 1) + k - 1] = q_tree16(35, t[5], TRUE, FALSE)[35 + 4 * (i - 9 - 1) + k - 1]
    <3>1. 35 + 4 * (i - 9 - 1) + k - 1 \in 35..50
      BY <1>16
    <3>2. QED BY <1>3, <3>1
  <2>4. q_tree16(35, t[5], TRUE, FALSE)[35 + 4 * (i - 9 - 1) + k - 1] = SplitOf(i, t[i])[k]
    <3>1. i \in 10..13
      BY <1>16
    <3>2. QED BY <3>1, <1>6, Zenon
  <2>5. QED BY <1>9, <2>1, <2>2, <2>3, <2>4 DEF r
<1>17. CASE i \in 16..18
  <2>1. Children[i + 1][k] = 27 + 4 * (i - 16) + k - 1
    <3>1. CASE i = 16
      BY <3>1 DEF Children
    <3>2. CASE i = 17
      BY <3>2 DEF Children
    <3>3. CASE i = 18
      BY <3>3 DEF Children
    <3>4. QED BY <1>17, <3>1, <3>2, <3>3
  <2>2. r(27 + 4 * (i - 16) + k - 1) = q[3 + 4 * (i - 14 - 1) + k - 1]
    <3>1. 27 + 4 * (i - 16) + k - 1 \in 20..79
      BY <1>17
    <3>2. 27 + 4 * (i - 16) + k - 1 - 20 = 3 + 4 * (i - 14 - 1) + k - 1
      BY <1>17
    <3>3. QED BY <1>1, <3>1, <3>2
  <2>3. q[3 + 4 * (i - 14 - 1) + k - 1] = q_tree16(3, t[14], FALSE, FALSE)[3 + 4 * (i - 14 - 1) + k - 1]
    <3>1. 3 + 4 * (i - 14 - 1) + k - 1 \in 4..18
      BY <1>17
    <3>2. QED BY <1>3, <3>1
  <2>4. q_tree16(3, t[14], FALSE, FALSE)[3 + 4 * (i - 14 - 1) + k - 1] = SplitOf(i, t[i])[k]
    <3>1. i \in 15..18
      BY <1>17
    <3>2. QED BY <3>1, <1>7, Zenon
  <2>5. QED BY <1>9, <2>1, <2>2, <2>3, <2>4 DEF r
<1>18. CASE i \in 2..3
  <2>1. Children[i + 1][k] = 72 + 4 * (i - 2) + k - 1
    <3>1. CASE i = 2
      BY <3>1 DEF Children
    <3>2. CASE i = 3
      BY <3>2 DEF Children
    <3>3. QED BY <1>18, <3>1, <3>2
  <2>2. r(72 + 4 * (i - 2) + k - 1) = q[48 + 4 * (i - 0 - 1) + k - 1]
    <3>1. 72 + 4 * (i - 2) + k - 1 \in 20..79
      BY <1>18
    <3>2. 72 + 4 * (i - 2) + k - 1 - 20 = 48 + 4 * (i - 0 - 1) + k - 1
      BY <1>18
    <3>3. QED BY <1>1, <3>1, <3>2
  <2>3. q[48 + 4 * (i - 0 - 1) + k - 1] = q_tree16(48, t[0], FALSE, FALSE)[48 + 4 * (i - 0 - 1) + k - 1]
    <3>1. 48 + 4 * (i - 0 - 1) + k - 1 \in 51..63
      BY <1>18
    <3>2. QED BY <1>3, <3>1
  <2>4. q_tree16(48, t[0], FALSE, FALSE)[48 + 4 * (i - 0 - 1) + k - 1] = SplitOf(i, t[i])[k]
    <3>1. i \in 1..3
      BY <1>18
    <3>2. QED BY <3>1, <1>8, Zenon
  <2>5. QED BY <1>9, <2>1, <2>2, <2>3, <2>4 DEF r
<1>19. CASE i = 15
  <2>1. Children[i + 1] = <<19, 24, 25, 26>>
    BY <1>19 DEF Children
  <2>2. CASE k = 1
    <3>1. t[15] = Quarters(t[14], Lo(t[14].lenx), Lo(t[14].leny))[1] /\ t[14].x = 0 /\ t[14].y = 0
      <4>1. t[14 + 1] = Quarters(t[14], Lo(t[14].lenx), Lo(t[14].leny))[1]
        BY <1>2
      <4>2. QED BY <1>2, <4>1 DEF Box
    <3>2. t[15].x = 0 /\ t[15].y = 0
      BY <3>1 DEF Quarters, Box
    <3>3. SplitOf(15, t[15])[1] = Box(t[15].x, t[15].y, Lo(t[15].lenx), Lo(t[15].leny))
      BY DEF SplitOf, First, InvertedRows, InvertedCols, Quarters
    <3>4. QED BY <1>1, <1>2, <1>9, <1>19, <2>1, <2>2, <3>2, <3>3 DEF r
  <2>3. CASE k \in 2..4
    <3>1. Children[i + 1][k] = 22 + k
      BY <2>1, <2>3
    <3>2. r(22 + k) = q[2 + k]
      <4>1. 22 + k \in 20..79 /\ 22 + k - 20 = 2 + k
        BY <2>3
      <4>2. QED BY <1>1, <4>1
    <3>3. q[2 + k] = q_tree16(3, t[14], FALSE, FALSE)[2 + k]
      <4>1. 2 + k \in 4..18
        BY <2>3
      <4>2. QED BY <1>3, <4>1
    <3>4. q_tree16(3, t[14], FALSE, FALSE)[3 + 4 * (i - 14 - 1) + k - 1] = SplitOf(i, t[i])[k]
      <4>1. i \in 15..18
        BY <1>19
      <4>2. QED BY <4>1, <1>7, Zenon
    <3>5. 3 + 4 * (i - 14 - 1) + k - 1 = 2 + k
      BY <1>19
    <3>6. QED BY <1>9, <1>19, <3>1, <3>2, <3>3, <3>4, <3>5 DEF r
  <2>4. QED BY <2>2, <2>3
<1>20. CASE i = 19
  <2>1. Children[i + 1][k] = 19 + k
    BY <1>20 DEF Children
  <2>2. r(19 + k) = q[k - 1] /\ q[k - 1] = q_tree4(0, t[19])[k - 1]
    <3>1. 19 + k \in 20..79 /\ 19 + k - 20 = k - 1 /\ k - 1 \in 0..3
      OBVIOUS
    <3>2. QED BY <1>1, <1>3, <3>1
  <2>3. q_tree4(0, t[19])[k - 1] = Quarters(t[19], Lo(t[19].lenx), Lo(t[19].leny))[k]
    <3>1. k - 1 \in 0..(0 + 3) /\ k - 1 - 0 + 1 = k
      OBVIOUS
    <3>2. QED BY <3>1 DEF q_tree4
  <2>4. SplitOf(19, t[19]) = Quarters(t[19], Lo(t[19].lenx), Lo(t[19].leny))
    BY DEF SplitOf, First, InvertedRows, InvertedCols
  <2>5. QED BY <1>9, <1>20, <2>1, <2>2, <2>3, <2>4 DEF r
<1>21. QED BY <1>10, <1>11, <1>12, <1>13, <1>14, <1>15, <1>16, <1>17, <1>18, <1>19, <1>20

-----------------------------------------------------------------------------
(* How many nodes have been split when a box appears, and the boxes there  *)
(* are when i nodes have been split.                                       *)
Born(k) ==
  CASE k = 0 -> 0
    [] k \in 1..3 \cup {80} -> 1
    [] k \in {4, 5, 14, 71} -> 2
    [] k \in 72..75 -> 3
    [] k \in 76..79 -> 4
    [] k \in 6..9 -> 5
    [] k \in 10..13 -> 6
    [] k \in 39..70 -> 7 + ((k - 39) \div 4)
    [] k \in 15..18 -> 15
    [] k \in {19} \cup 24..26 -> 16
    [] k \in 27..38 -> 17 + ((k - 27) \div 4)
    [] k \in 20..23 -> 20
Pieces(i) == {k \in 0..80 : Born(k) <= i /\ (k <= 19 => i <= k)}

LEMMA BornBetween ==
  ASSUME NEW k \in 0..80
  PROVE  /\ Born(k) \in 0..20
         /\ k \in 1..19 => Born(k) <= k
         /\ \A i \in 0..19 : Born(k) = i + 1 <=> \E j \in 1..4 : k = Children[i + 1][j]
<1>1. /\ k = 0 => Born(k) = 0
      /\ k \in 1..3 \cup {80} => Born(k) = 1
      /\ k \in {4, 5, 14, 71} => Born(k) = 2
      /\ k \in 72..75 => Born(k) = 3
      /\ k \in 76..79 => Born(k) = 4
      /\ k \in 6..9 => Born(k) = 5
      /\ k \in 10..13 => Born(k) = 6
      /\ k \in 39..70 => Born(k) = 7 + ((k - 39) \div 4)
      /\ k \in 15..18 => Born(k) = 15
      /\ k \in {19} \cup 24..26 => Born(k) = 16
      /\ k \in 27..38 => Born(k) = 17 + ((k - 27) \div 4)
      /\ k \in 20..23 => Born(k) = 20
  BY DEF Born
<1>2. Born(k) \in 0..20 /\ (k \in 1..19 => Born(k) <= k)
  BY <1>1
<1>3. \A n \in 1..20 : Born(k) = n <=> \E j \in 1..4 : k = Children[n][j]
  BY <1>1, SMTT(60) DEF Children
<1>4. ASSUME NEW i \in 0..19
      PROVE  Born(k) = i + 1 <=> \E j \in 1..4 : k = Children[i + 1][j]
  <2>1. i + 1 \in 1..20
    OBVIOUS
  <2>2. QED BY <1>3, <2>1
<1>5. QED BY <1>2, <1>4

LEMMA PiecesGrow ==
  /\ Pieces(0) = {0}
  /\ Pieces(20) = 20..80
  /\ \A i \in 0..19 : /\ i \in Pieces(i)
                      /\ Pieces(i + 1) = (Pieces(i) \ {i}) \cup {Children[i + 1][j] : j \in 1..4}
                      /\ \A j \in 1..4 : Children[i + 1][j] \in 0..80
<1>0. \A k \in 0..80 : /\ Born(k) \in 0..20
                       /\ k \in 1..19 => Born(k) <= k
                       /\ Born(k) = 0 <=> k = 0
  <2>1. ASSUME NEW k \in 0..80
        PROVE  Born(k) \in 0..20 /\ (k \in 1..19 => Born(k) <= k) /\ (Born(k) = 0 <=> k = 0)
    <3>1. Born(k) \in 0..20 /\ (k \in 1..19 => Born(k) <= k)
      BY BornBetween
    <3>2. Born(k) = 0 <=> k = 0
      BY DEF Born
    <3>3. QED BY <3>1, <3>2
  <2>2. QED BY <2>1
<1>1. Pieces(0) = {0}
  BY <1>0 DEF Pieces
<1>2. Pieces(20) = 20..80
  BY <1>0 DEF Pieces
<1>3. ASSUME NEW i \in 0..19
      PROVE  /\ i \in Pieces(i)
             /\ Pieces(i + 1) = (Pieces(i) \ {i}) \cup {Children[i + 1][j] : j \in 1..4}
             /\ \A j \in 1..4 : Children[i + 1][j] \in 0..80
  <2> DEFINE children == {Children[i + 1][j] : j \in 1..4}
  <2>0. i + 1 \in 1..20
    OBVIOUS
  <2>1. \A j \in 1..4 : Children[i + 1][j] \in (i + 1)..80
    <3>1. \A n \in 1..20 : \A j \in 1..4 : Children[n][j] \in n..80
      BY SMTT(60) DEF Children
    <3>2. QED BY <2>0, <3>1
  <2>2. i \in Pieces(i)
    <3>1. CASE i = 0
      BY <1>1, <3>1
    <3>2. CASE i \in 1..19
      BY <3>2, <1>0 DEF Pieces
    <3>3. QED BY <3>1, <3>2
  <2>3. \A k \in 0..80 : Born(k) = i + 1 <=> k \in children
    BY BornBetween
  <2>4. children \subseteq (i + 1)..80
    BY <2>1
  <2> HIDE DEF children
  <2>5. Pieces(i + 1) = (Pieces(i) \ {i}) \cup children
    <3>1. ASSUME NEW k \in 0..80
          PROVE  k \in Pieces(i + 1) <=> k \in (Pieces(i) \ {i}) \cup children
      <4>1. Born(k) \in 0..20
        BY BornBetween
      <4>2. k \in Pieces(i + 1) <=> Born(k) <= i + 1 /\ (k <= 19 => i + 1 <= k)
        BY DEF Pieces
      <4>3. k \in Pieces(i) <=> Born(k) <= i /\ (k <= 19 => i <= k)
        BY DEF Pieces
      <4>4. Born(k) = i + 1 <=> k \in children
        BY <2>3
      <4>5. k \in children => i + 1 <= k
        BY <2>4
      <4>6. QED BY <4>1, <4>2, <4>3, <4>4, <4>5
    <3>2. Pieces(i + 1) \subseteq 0..80 /\ Pieces(i) \subseteq 0..80 /\ children \subseteq 0..80
      BY <2>4 DEF Pieces
    <3>3. QED BY <3>1, <3>2
  <2>6. QED BY <2>1, <2>2, <2>5 DEF children
<1>4. QED BY <1>1, <1>2, <1>3

-----------------------------------------------------------------------------
(* A box inside another, and boxes that do not overlap.                    *)
Boxes == [x : Nat, y : Nat, lenx : Nat, leny : Nat]

Within(a, b) ==
  /\ b.x <= a.x /\ a.x + a.lenx <= b.x + b.lenx
  /\ b.y <= a.y /\ a.y + a.leny <= b.y + b.leny

Apart(a, b) ==
  \/ a.x + a.lenx <= b.x \/ b.x + b.lenx <= a.x
  \/ a.y + a.leny <= b.y \/ b.y + b.leny <= a.y

LEMMA Geometry ==
  ASSUME NEW a \in Boxes, NEW b \in Boxes, NEW c \in Boxes
  PROVE  /\ Within(a, a)
         /\ Within(a, b) /\ Within(b, c) => Within(a, c)
         /\ Apart(a, b) => Apart(b, a)
         /\ Within(a, b) /\ Apart(b, c) => Apart(a, c)
         /\ NonEmpty(a) => ~Apart(a, a)
BY DEF Boxes, Within, Apart, NonEmpty

(* What a box is split into: boxes inside it, with no overlap; of an empty *)
(* box they are empty.                                                     *)
LEMMA PartsOfBox ==
  ASSUME NEW b \in Boxes, NEW i
  PROVE  /\ \A j \in 1..4 : /\ SplitOf(i, b)[j] \in Boxes
                            /\ Within(SplitOf(i, b)[j], b)
                            /\ NonEmpty(SplitOf(i, b)[j]) => NonEmpty(b)
         /\ \A j, k \in 1..4 : j # k => Apart(SplitOf(i, b)[j], SplitOf(i, b)[k])
<1> DEFINE fx == First(b.lenx, i \in InvertedRows)
           fy == First(b.leny, i \in InvertedCols)
           part(j) == SplitOf(i, b)[j]
<1>1. fx \in Nat /\ fx <= b.lenx /\ fy \in Nat /\ fy <= b.leny
  BY DEF First, Lo, Hi, Boxes
<1>2. ASSUME NEW j \in 1..4 PROVE QuarterIs(part(j), j, b, fx, fy)
  <2>1. part(j) = Quarters(b, fx, fy)[j]
    BY DEF SplitOf
  <2> HIDE DEF fx, fy, part
  <2>2. QED BY <2>1, Quarter, Zenon
<1> HIDE DEF fx, fy, part
<1>3. ASSUME NEW j \in 1..4
      PROVE  part(j) \in Boxes /\ Within(part(j), b) /\ (NonEmpty(part(j)) => NonEmpty(b))
  <2>0. b.x \in Nat /\ b.y \in Nat /\ b.lenx \in Nat /\ b.leny \in Nat
    BY DEF Boxes
  <2>1. /\ part(j).x \in Nat /\ part(j).lenx \in Nat
        /\ b.x <= part(j).x /\ part(j).x + part(j).lenx <= b.x + b.lenx
        /\ part(j).lenx > 0 => b.lenx > 0
    <3>1. CASE j \in {1, 3}
      BY <1>1, <1>2, <2>0, <3>1 DEF QuarterIs
    <3>2. CASE j \in {2, 4}
      BY <1>1, <1>2, <2>0, <3>2 DEF QuarterIs
    <3>3. QED BY <3>1, <3>2
  <2>2. /\ part(j).y \in Nat /\ part(j).leny \in Nat
        /\ b.y <= part(j).y /\ part(j).y + part(j).leny <= b.y + b.leny
        /\ part(j).leny > 0 => b.leny > 0
    <3>1. CASE j \in {1, 2}
      BY <1>1, <1>2, <2>0, <3>1 DEF QuarterIs
    <3>2. CASE j \in {3, 4}
      BY <1>1, <1>2, <2>0, <3>2 DEF QuarterIs
    <3>3. QED BY <3>1, <3>2
  <2>3. part(j) = Box(part(j).x, part(j).y, part(j).lenx, part(j).leny)
    BY <1>2 DEF QuarterIs
  <2>4. part(j) \in Boxes
    BY <2>1, <2>2, <2>3 DEF Box, Boxes
  <2>5. QED BY <2>1, <2>2, <2>4 DEF Within, NonEmpty
<1>4. ASSUME NEW j \in 1..4, NEW k \in 1..4, j # k
      PROVE  Apart(part(j), part(k))
  <2>1. b.x \in Nat /\ b.y \in Nat /\ b.lenx \in Nat /\ b.leny \in Nat
    BY DEF Boxes
  <2>2. QuarterIs(part(j), j, b, fx, fy) /\ QuarterIs(part(k), k, b, fx, fy)
    BY <1>2
  <2>3. CASE j \in {1, 3} /\ k \in {2, 4}
    BY <1>1, <2>1, <2>2, <2>3 DEF QuarterIs, Apart
  <2>4. CASE j \in {2, 4} /\ k \in {1, 3}
    BY <1>1, <2>1, <2>2, <2>4 DEF QuarterIs, Apart
  <2>5. CASE j \in {1, 2} /\ k \in {3, 4}
    BY <1>1, <2>1, <2>2, <2>5 DEF QuarterIs, Apart
  <2>6. CASE j \in {3, 4} /\ k \in {1, 2}
    BY <1>1, <2>1, <2>2, <2>6 DEF QuarterIs, Apart
  <2>7. QED BY <1>4, <2>3, <2>4, <2>5, <2>6
<1>5. QED BY <1>3, <1>4, Zenon DEF part

-----------------------------------------------------------------------------
(* The boxes after i splits.                                               *)
Filled(w, h, i) == {Region(w, h, k) : k \in {m \in Pieces(i) : NonEmpty(Region(w, h, m))}}

Tiled(w, h, i) ==
  /\ \A k \in Pieces(i) : Region(w, h, k) \in Boxes /\ Within(Region(w, h, k), Box(0, 0, w, h))
  /\ \A k, m \in Pieces(i) : k # m => Apart(Region(w, h, k), Region(w, h, m))

LEMMA TiledFirst ==
  ASSUME NEW w \in Nat \ {0}, NEW h \in Nat \ {0}
  PROVE  Tiled(w, h, 0) /\ Filled(w, h, 0) = {Box(0, 0, w, h)}
<1>1. Region(w, h, 0) = Box(0, 0, w, h)
  BY NodesOf DEF Region
<1>2. Pieces(0) = {0}
  BY PiecesGrow
<1>3. Box(0, 0, w, h) \in Boxes /\ NonEmpty(Box(0, 0, w, h))
  BY DEF Boxes, Box, NonEmpty
<1>4. Within(Box(0, 0, w, h), Box(0, 0, w, h))
  BY <1>3, Geometry
<1>5. QED BY <1>1, <1>2, <1>3, <1>4, Zenon DEF Tiled, Filled

LEMMA TiledNext ==
  ASSUME NEW w \in Nat, NEW h \in Nat, NEW i \in 0..19, Tiled(w, h, i)
  PROVE  /\ Tiled(w, h, i + 1)
         /\ Filled(w, h, i + 1) = SplitNode(build_w_tree(w, h), Filled(w, h, i), i)
<1> DEFINE r(k) == Region(w, h, k)
           b == r(i)
           image == Box(0, 0, w, h)
           child(j) == Children[i + 1][j]
           children == {child(j) : j \in 1..4}
<1>0. image \in Boxes
  BY DEF Boxes, Box
<1>1. /\ i \in Pieces(i)
      /\ Pieces(i + 1) = (Pieces(i) \ {i}) \cup children
  BY PiecesGrow
<1>2. b \in Boxes /\ Within(b, image)
  BY <1>1 DEF Tiled
<1>3. \A j \in 1..4 : r(child(j)) = SplitOf(i, b)[j]
  BY ChildrenAreQuarters
<1>4. /\ \A k \in Pieces(i) : r(k) \in Boxes /\ Within(r(k), image)
      /\ \A k, m \in Pieces(i) : k # m => Apart(r(k), r(m))
  BY DEF Tiled
<1> HIDE DEF r, image, child
<1>5. /\ \A j \in 1..4 : r(child(j)) \in Boxes /\ Within(r(child(j)), b)
                         /\ (NonEmpty(r(child(j))) => NonEmpty(b))
      /\ \A j, k \in 1..4 : j # k => Apart(r(child(j)), r(child(k)))
  <2>1. /\ \A j \in 1..4 : /\ SplitOf(i, b)[j] \in Boxes
                           /\ Within(SplitOf(i, b)[j], b)
                           /\ NonEmpty(SplitOf(i, b)[j]) => NonEmpty(b)
        /\ \A j, k \in 1..4 : j # k => Apart(SplitOf(i, b)[j], SplitOf(i, b)[k])
    BY <1>2, PartsOfBox, Zenon
  <2> HIDE DEF b
  <2>2. QED BY <1>3, <2>1
<1> HIDE DEF b
<1>6. \A k \in children : r(k) \in Boxes /\ Within(r(k), b) /\ (NonEmpty(r(k)) => NonEmpty(b))
  BY <1>5
<1>7. \A k, m \in children : k # m => Apart(r(k), r(m))
  BY <1>5
<1>8. ToSet(SplitOf(i, b)) = {r(k) : k \in children}
  <2>1. DOMAIN SplitOf(i, b) = 1..4
    BY DEF SplitOf, Quarters
  <2>2. ToSet(SplitOf(i, b)) = {SplitOf(i, b)[j] : j \in 1..4}
    BY <2>1 DEF ToSet
  <2>3. QED BY <1>3, <2>2
<1> HIDE DEF children
<1>9. Tiled(w, h, i + 1)
  <2>1. ASSUME NEW k \in Pieces(i + 1)
        PROVE  r(k) \in Boxes /\ Within(r(k), image)
    <3>1. CASE k \in Pieces(i)
      BY <1>4, <3>1
    <3>2. CASE k \in children
      <4>1. r(k) \in Boxes /\ Within(r(k), b)
        BY <1>6, <3>2
      <4>2. QED BY <1>0, <1>2, <4>1, Geometry
    <3>3. QED BY <1>1, <3>1, <3>2
  <2>2. ASSUME NEW k \in Pieces(i + 1), NEW m \in Pieces(i + 1), k # m
        PROVE  Apart(r(k), r(m))
    <3>1. r(k) \in Boxes /\ r(m) \in Boxes
      BY <2>1
    <3>2. CASE k \in Pieces(i) \ {i} /\ m \in Pieces(i) \ {i}
      BY <1>4, <2>2, <3>2
    <3>3. CASE k \in children /\ m \in children
      BY <1>7, <2>2, <3>3
    <3>4. CASE k \in children /\ m \in Pieces(i) \ {i}
      <4>1. Apart(b, r(m))
        BY <1>1, <1>4, <3>4 DEF b
      <4>2. Within(r(k), b)
        BY <1>6, <3>4
      <4>3. QED BY <1>2, <3>1, <4>1, <4>2, Geometry
    <3>5. CASE m \in children /\ k \in Pieces(i) \ {i}
      <4>1. Apart(b, r(k))
        BY <1>1, <1>4, <3>5 DEF b
      <4>2. Within(r(m), b)
        BY <1>6, <3>5
      <4>3. Apart(r(m), r(k))
        BY <1>2, <3>1, <4>1, <4>2, Geometry
      <4>4. QED BY <3>1, <4>3, Geometry
    <3>6. QED BY <1>1, <3>2, <3>3, <3>4, <3>5
  <2>3. QED BY <2>1, <2>2 DEF Tiled, r, image
<1>10. Filled(w, h, i + 1) = SplitNode(build_w_tree(w, h), Filled(w, h, i), i)
  <2>1. b = build_w_tree(w, h)[i]
    BY DEF b, r, Region
  <2>2. SplitNode(build_w_tree(w, h), Filled(w, h, i), i)
          = (Filled(w, h, i) \ {b}) \cup {box \in {r(k) : k \in children} : NonEmpty(box)}
    <3>1. SplitNode(build_w_tree(w, h), Filled(w, h, i), i)
            = (Filled(w, h, i) \ {b}) \cup {box \in ToSet(SplitOf(i, b)) : NonEmpty(box)}
      BY <2>1, Zenon DEF SplitNode, SplitOf
    <3>2. QED BY <1>8, <3>1, Zenon
  <2>3. Filled(w, h, i) \ {b} = {r(k) : k \in {m \in Pieces(i) \ {i} : NonEmpty(r(m))}}
    <3>1. ASSUME NEW k \in Pieces(i), NonEmpty(r(k)), k # i PROVE r(k) # b
      <4>1. Apart(r(k), b) /\ r(k) \in Boxes
        BY <1>1, <1>4, <3>1 DEF b
      <4>2. ~Apart(r(k), r(k))
        BY <3>1, <4>1, Geometry
      <4>3. QED BY <4>1, <4>2
    <3>2. Filled(w, h, i) = {r(k) : k \in {m \in Pieces(i) : NonEmpty(r(m))}}
      BY DEF Filled, r
    <3>3. b = r(i)
      BY DEF b
    <3>4. QED BY <3>1, <3>2, <3>3
  <2>4. Filled(w, h, i + 1) = {r(k) : k \in {m \in Pieces(i + 1) : NonEmpty(r(m))}}
    BY DEF Filled, r
  <2>5. QED BY <1>1, <2>2, <2>3, <2>4
<1>11. QED BY <1>9, <1>10

(* The fold of SplitNode goes through the nodes in order. *)
LEMMA Splits ==
  ASSUME NEW t
  PROVE  \E at : /\ at[0] = {t[0]}
                 /\ \A n \in 0..19 : at[n + 1] = SplitNode(t, at[n], n)
                 /\ at[20] = Leaves(t)
<1> DEFINE s == [i \in 1..20 |-> i - 1]
           OnceMore(g, u) == IF u = {} THEN {t[0]}
                             ELSE SplitNode(t, g[u \ {Max(u)}], s[Max(u)])
           Folds(g, n) == g = [u \in SUBSET (1..n) |-> OnceMore(g, u)]
<1>1. DOMAIN s = 1..20 /\ \A n \in 1..20 : s[n] = n - 1
  OBVIOUS
<1>2. Leaves(t) = (CHOOSE g : g = [u \in SUBSET DOMAIN s |-> OnceMore(g, u)])[DOMAIN s]
  BY DEF Leaves, FoldLeft, MapThenFoldSet
<1> HIDE DEF s
<1>3. \E g : Folds(g, 20)
  <2> DEFINE S == {n \in Nat : \E g : Folds(g, n)}
  <2>1. 0 \in S
    <3> DEFINE g == [u \in SUBSET (1..0) |-> {t[0]}]
    <3>1. \A u \in SUBSET (1..0) : u = {}
      OBVIOUS
    <3>2. Folds(g, 0)
      BY <3>1
    <3>3. QED BY <3>2
  <2>2. ASSUME NEW n \in S PROVE n + 1 \in S
    <3>1. PICK g : Folds(g, n)
      BY <2>2
    <3> DEFINE h == [u \in SUBSET (1..(n + 1)) |-> OnceMore(g, u)]
    <3>2. n \in Nat
      BY <2>2
    <3>3. ASSUME NEW u \in SUBSET (1..n) PROVE h[u] = g[u]
      <4>1. u \in SUBSET (1..(n + 1))
        BY <3>2
      <4>2. g[u] = OnceMore(g, u)
        BY <3>1
      <4>3. QED BY <4>1, <4>2
    <3>4. ASSUME NEW u \in SUBSET (1..(n + 1)) PROVE OnceMore(h, u) = OnceMore(g, u)
      <4>1. CASE u = {}
        BY <4>1
      <4>2. CASE u # {}
        <5>1. h[u \ {Max(u)}] = g[u \ {Max(u)}]
          BY <3>2, <3>3, <4>2, Topless
        <5>2. QED BY <4>2, <5>1
      <4>3. QED BY <4>1, <4>2
    <3> HIDE DEF OnceMore
    <3>5. Folds(h, n + 1)
      BY <3>4
    <3> HIDE DEF Folds, h
    <3>6. \E k : Folds(k, n + 1)
      BY <3>5
    <3>7. QED BY <3>2, <3>6
  <2>3. S \in SUBSET Nat
    OBVIOUS
  <2> HIDE DEF S, Folds
  <2>4. S = Nat
    BY <2>1, <2>2, <2>3, SetInduction
  <2>5. QED BY <2>4 DEF S
<1> DEFINE g == CHOOSE g : Folds(g, 20)
<1>4. Folds(g, 20)
  BY <1>3, Zenon
<1>5. Leaves(t) = g[1..20]
  BY <1>1, <1>2
<1> HIDE DEF g
<1> DEFINE at == [n \in 0..20 |-> g[1..n]]
<1>6. ASSUME NEW u \in SUBSET (1..20) PROVE g[u] = OnceMore(g, u)
  BY <1>4
<1>7. at[0] = {t[0]}
  <2>1. 1..0 = {} /\ {} \in SUBSET (1..20)
    OBVIOUS
  <2>2. g[{}] = {t[0]}
    BY <1>6, <2>1
  <2>3. QED BY <2>1, <2>2
<1>8. ASSUME NEW n \in 0..19
      PROVE  at[n + 1] = SplitNode(t, at[n], n)
  <2>1. n \in Nat /\ n \in 0..20 /\ n + 1 \in 0..20 /\ 1..(n + 1) \in SUBSET (1..20)
    OBVIOUS
  <2>2. g[1..(n + 1)] = OnceMore(g, 1..(n + 1))
    BY <1>6, <2>1
  <2>3. 1..(n + 1) # {} /\ Max(1..(n + 1)) = n + 1 /\ (1..(n + 1)) \ {Max(1..(n + 1))} = 1..n
    BY <2>1, Prefix
  <2>4. OnceMore(g, 1..(n + 1)) = SplitNode(t, g[1..n], n)
    <3>1. s[n + 1] = n
      BY <1>1
    <3>2. QED BY <2>3, <3>1
  <2>5. QED BY <2>1, <2>2, <2>4
<1>9. at[20] = Leaves(t)
  BY <1>5
<1> HIDE DEF at
<1>10. QED BY <1>7, <1>8, <1>9

(* What the transform ends with. *)
LEMMA LeavesOf ==
  ASSUME NEW w \in Nat \ {0}, NEW h \in Nat \ {0}
  PROVE  Tiled(w, h, 20) /\ Leaves(build_w_tree(w, h)) = Filled(w, h, 20)
<1> DEFINE t == build_w_tree(w, h)
<1>1. t[0] = Box(0, 0, w, h)
  BY NodesOf
<1> HIDE DEF t
<1>2. PICK at : /\ at[0] = {t[0]}
                /\ \A n \in 0..19 : at[n + 1] = SplitNode(t, at[n], n)
                /\ at[20] = Leaves(t)
  BY Splits
<1> DEFINE Sound(n) == Tiled(w, h, n) /\ at[n] = Filled(w, h, n)
           S == {n \in Nat : n <= 20 => Sound(n)}
<1>3. 0 \in S
  <2>1. Sound(0)
    BY <1>1, <1>2, TiledFirst
  <2>2. QED BY <2>1
<1>4. ASSUME NEW n \in S PROVE n + 1 \in S
  <2>1. SUFFICES ASSUME n + 1 <= 20 PROVE Sound(n + 1)
    OBVIOUS
  <2>2. n \in 0..19 /\ Sound(n)
    BY <2>1
  <2> HIDE DEF S
  <2>3. at[n + 1] = SplitNode(t, at[n], n)
    BY <1>2, <2>2
  <2>4. Tiled(w, h, n + 1) /\ Filled(w, h, n + 1) = SplitNode(t, Filled(w, h, n), n)
    BY <2>2, TiledNext DEF t
  <2>5. QED BY <2>2, <2>3, <2>4
<1>5. S \in SUBSET Nat
  OBVIOUS
<1> HIDE DEF S
<1>6. S = Nat
  BY <1>3, <1>4, <1>5, SetInduction
<1>7. Sound(20)
  BY <1>6 DEF S
<1>8. QED BY <1>2, <1>7 DEF t

(* The sides that a short holds. *)
Short16(w, h) == w <= 32767 /\ h <= 32767

(* The bands are stored in 16 bits, which hold them.                       *)
LEMMA StoredBands ==
  ASSUME NEW w \in Nat \ {0}, NEW h \in Nat \ {0}, Short16(w, h), NEW n \in 0..59
  PROVE  build_wsq_trees(w, h).q_tree[n] = Region(w, h, n + 20)
<1> DEFINE q == build_q_tree(build_w_tree(w, h))
           b == Region(w, h, n + 20)
<1>1. b = q[n]
  BY DEF Region
<1>2. DOMAIN q = 0..63
  <2> DEFINE t == build_w_tree(w, h)
  <2> HIDE DEF t
  <2>1. BandsFrom(build_q_tree(t), t)
    BY BandsOf, Zenon
  <2>2. QED BY <2>1 DEF BandsFrom, t
<1>3. b \in Boxes /\ Within(b, Box(0, 0, w, h))
  <2>1. n + 20 \in Pieces(20)
    <3>1. Pieces(20) = 20..80
      BY PiecesGrow, Zenon
    <3>2. n + 20 \in 20..80
      OBVIOUS
    <3>3. QED BY <3>1, <3>2
  <2>2. w \in Nat \ {0} /\ h \in Nat \ {0}
    OBVIOUS
  <2>3. QED BY <2>1, <2>2, LeavesOf DEF Tiled
<1>4. build_wsq_trees(w, h).q_tree[n] = AsStored(q[n])
  <2> HIDE DEF q
  <2>1. n \in DOMAIN q
    BY <1>2
  <2>2. build_wsq_trees(w, h).q_tree = Stored(q)
    BY DEF build_wsq_trees, Trees, q
  <2>3. QED BY <2>1, <2>2 DEF Stored
<1> HIDE DEF q, b
<1>5. /\ \A z \in {b.x, b.y, b.lenx, b.leny} : z \in Int /\ -32768 <= z /\ z <= 32767
      /\ b = [x |-> b.x, y |-> b.y, lenx |-> b.lenx, leny |-> b.leny]
  BY <1>3 DEF Boxes, Within, Box, Short16
<1>6. Short(b.x) = b.x /\ Short(b.y) = b.y /\ Short(b.lenx) = b.lenx /\ Short(b.leny) = b.leny
  BY <1>5, ShortIdentity
<1>7. AsStored(b) = b
  BY <1>5, <1>6 DEF AsStored, Box
<1>8. QED BY <1>1, <1>4, <1>7 DEF b

(* For every size that two shorts hold, build_wsq_trees makes two trees    *)
(* that agree: the boxes that are left when the nodes of the wavelet tree  *)
(* are split in turn are the bands of the quantization tree that have a    *)
(* pixel, and the last quarter of the image, which is dropped.             *)
THEOREM BandsAreLeaves ==
  ASSUME NEW w \in Nat \ {0}, NEW h \in Nat \ {0}, Short16(w, h)
  PROVE  Aligned(build_wsq_trees(w, h), w, h)
<1> DEFINE t == build_wsq_trees(w, h)
           r(k) == Region(w, h, k)
<1>1. t.w_tree = build_w_tree(w, h)
  BY DEF build_wsq_trees, Trees
<1>2. Quarters(t.w_tree[0], Lo(w), Lo(h))[4] = r(80)
  BY <1>1 DEF Region
<1>3. /\ Pieces(20) = 20..80
      /\ \A k \in 20..80 : r(k) \in Boxes
      /\ \A k \in 20..79 : Apart(r(k), r(80))
      /\ Leaves(t.w_tree) = {r(k) : k \in {m \in 20..80 : NonEmpty(r(m))}}
  <2>1. Pieces(20) = 20..80
    BY PiecesGrow
  <2>2. w \in Nat \ {0} /\ h \in Nat \ {0}
    OBVIOUS
  <2>3. Tiled(w, h, 20) /\ Leaves(t.w_tree) = Filled(w, h, 20)
    BY <1>1, <2>2, LeavesOf
  <2>4. Leaves(t.w_tree) = {r(k) : k \in {m \in 20..80 : NonEmpty(r(m))}}
    BY <2>1, <2>3 DEF Filled
  <2> HIDE DEF r
  <2>5. /\ \A k \in 20..80 : r(k) \in Boxes
        /\ \A k, m \in 20..80 : k # m => Apart(r(k), r(m))
    BY <2>1, <2>3, Zenon DEF Tiled, r
  <2>6. ASSUME NEW k \in 20..79 PROVE Apart(r(k), r(80))
    <3>1. k \in 20..80 /\ 80 \in 20..80 /\ k # 80
      OBVIOUS
    <3>2. QED BY <2>5, <3>1, Zenon
  <2> HIDE DEF t
  <2>7. QED BY <2>1, <2>4, <2>5, <2>6
<1>4. ASSUME NEW n \in 0..59 PROVE t.q_tree[n] = r(n + 20)
  <2>1. build_wsq_trees(w, h).q_tree[n] = Region(w, h, n + 20)
    BY StoredBands, Zenon
  <2>2. QED BY <2>1
<1> HIDE DEF t, r
<1>5. {t.q_tree[n] : n \in {m \in 0..59 : NonEmpty(t.q_tree[m])}}
        = {r(k) : k \in {m \in 20..79 : NonEmpty(r(m))}}
  <2>1. \A k \in 20..79 : k - 20 \in 0..59 /\ (k - 20) + 20 = k
    OBVIOUS
  <2>2. \A n \in 0..59 : n + 20 \in 20..79
    OBVIOUS
  <2>3. QED BY <1>4, <2>1, <2>2
<1>6. ASSUME NEW k \in 20..79, NonEmpty(r(k)) PROVE r(k) # r(80)
  <2>1. r(k) \in Boxes /\ Apart(r(k), r(80))
    BY <1>3
  <2>2. ~Apart(r(k), r(k))
    BY <1>6, <2>1, Geometry
  <2>3. QED BY <2>1, <2>2
<1>7. {r(k) : k \in {m \in 20..79 : NonEmpty(r(m))}} = Leaves(t.w_tree) \ {r(80)}
  BY <1>3, <1>6
<1>8. QED BY <1>2, <1>5, <1>7 DEF Aligned, t

(* The sizes of images that BandsMeasured is about, as two bytes hold them. *)
Sizable(w, h) == w > 80 /\ h > 80 /\ w <= 65535 /\ h <= 65535

(* A side of a band: three pixels or more, and few enough for a short.     *)
Side(n) == n \in Nat /\ 3 <= n /\ n <= 16384
Sides(b) == Side(b.lenx) /\ Side(b.leny)

LEMMA SidesOfCuts ==
  ASSUME NEW len \in Nat, 12 <= len, len <= 65535, NEW inverted \in BOOLEAN, NEW i \in 1..4
  PROVE  Side(Cuts(len, inverted)[i])
BY CutSizes DEF Side

(* The boxes that are cut into bands. *)
Cuttable(b) ==
  /\ b.lenx \in Nat /\ 12 <= b.lenx /\ b.lenx <= 65535
  /\ b.leny \in Nat /\ 12 <= b.leny /\ b.leny <= 65535

LEMMA SidesOfBands ==
  ASSUME NEW p \in Nat, NEW b, Cuttable(b), NEW rw \in BOOLEAN, NEW cl \in BOOLEAN, NEW n \in p..(p + 15)
  PROVE  Sides(q_tree16(p, b, rw, cl)[n])
<1> DEFINE q == q_tree16(p, b, rw, cl)[n]
<1>1. b.lenx \in Nat /\ b.leny \in Nat
  BY DEF Cuttable
<1>2. CutFrom(q, b, rw, cl)
  BY <1>1, SidesOf16, Zenon
<1> HIDE DEF q
<1>3. PICK i \in 1..4, j \in 1..4 : q.lenx = Cuts(b.lenx, cl)[i] /\ q.leny = Cuts(b.leny, rw)[j]
  BY <1>2 DEF CutFrom
<1>4. Side(Cuts(b.lenx, cl)[i]) /\ Side(Cuts(b.leny, rw)[j])
  BY SidesOfCuts DEF Cuttable
<1>5. QED BY <1>3, <1>4 DEF Sides, q

LEMMA BandSides ==
  ASSUME NEW w \in Nat, NEW h \in Nat, Sizable(w, h), NEW n \in 0..59
  PROVE  Sides(build_q_tree(build_w_tree(w, h))[n])
<1> DEFINE t == build_w_tree(w, h)
           q == build_q_tree(t)
<1>1. /\ t[0] = Box(0, 0, w, h)
      /\ t[4] = Box(Lo(Lo(w)), 0, Hi(Lo(w)), Lo(Lo(h)))
      /\ t[5] = Box(0, Lo(Lo(h)), Lo(Lo(w)), Hi(Lo(h)))
      /\ t[14] = Box(0, 0, Lo(Lo(w)), Lo(Lo(h)))
      /\ t[14 + 1] = Quarters(t[14], Lo(t[14].lenx), Lo(t[14].leny))[1]
      /\ t[19] = Box(0, 0, Lo(t[15].lenx), Lo(t[15].leny))
  BY NodesOf
<1> HIDE DEF t
<1>2. BandsFrom(q, t)
  BY BandsOf, Zenon
<1> HIDE DEF q
<1>3. \A m \in Nat : m > 80 /\ m <= 65535 =>
        /\ \A c \in {m, Lo(Lo(m)), Hi(Lo(m))} : c \in Nat /\ 12 <= c /\ c <= 65535
        /\ Lo(Lo(Lo(Lo(m)))) \in Nat /\ 6 <= Lo(Lo(Lo(Lo(m)))) /\ Lo(Lo(Lo(Lo(m)))) <= 30000
  BY DEF Lo, Hi
<1>4. \A b \in {t[0], t[4], t[5], t[14]} : Cuttable(b)
  <2>1. \A c \in {w, Lo(Lo(w)), Hi(Lo(w)), h, Lo(Lo(h)), Hi(Lo(h))} : c \in Nat /\ 12 <= c /\ c <= 65535
    BY <1>3 DEF Sizable
  <2>2. QED BY <1>1, <2>1 DEF Cuttable, Box
<1>5. CASE n \in 0..3
  <2>1. q[n] = q_tree4(0, t[19])[n]
    BY <1>2, <1>5 DEF BandsFrom
  <2>2. t[19].lenx = Lo(Lo(Lo(Lo(w)))) /\ t[19].leny = Lo(Lo(Lo(Lo(h))))
    BY <1>1 DEF Quarters, Box
  <2>3. \A c \in {t[19].lenx, t[19].leny} : c \in Nat /\ 6 <= c /\ c <= 30000
    BY <1>3, <2>2 DEF Sizable
  <2>4. \A c \in {t[19].lenx, t[19].leny} : Side(Lo(c)) /\ Side(c - Lo(c))
    BY <2>3 DEF Side, Lo
  <2> DEFINE b == t[19]
             fx == Lo(b.lenx)
             fy == Lo(b.leny)
  <2>5. n + 1 \in 1..4 /\ q[n] = Quarters(b, fx, fy)[n + 1]
    <3>1. n \in 0..(0 + 3) /\ n - 0 + 1 = n + 1 /\ n + 1 \in 1..4
      BY <1>5
    <3>2. QED BY <2>1, <3>1 DEF q_tree4
  <2>6. Side(fx) /\ Side(b.lenx - fx) /\ Side(fy) /\ Side(b.leny - fy)
    BY <2>4
  <2> HIDE DEF b, fx, fy
  <2>7. QuarterIs(q[n], n + 1, b, fx, fy)
    BY <2>5, Quarter, Zenon
  <2>8. QED BY <2>5, <2>6, <2>7 DEF QuarterIs, Sides, q, t
<1>6. CASE n \in 4..18
  <2>1. q[n] = q_tree16(3, t[14], FALSE, FALSE)[n]
    BY <1>2, <1>6 DEF BandsFrom
  <2>2. n \in 3..(3 + 15) /\ 3 \in Nat /\ FALSE \in BOOLEAN
    BY <1>6
  <2>3. Sides(q_tree16(3, t[14], FALSE, FALSE)[n])
    BY <1>4, <2>2, SidesOfBands, Zenon
  <2>4. QED BY <2>1, <2>3 DEF q, t
<1>7. CASE n \in 19..34
  <2>1. q[n] = q_tree16(19, t[4], FALSE, TRUE)[n]
    BY <1>2, <1>7 DEF BandsFrom
  <2>2. n \in 19..(19 + 15) /\ 19 \in Nat /\ FALSE \in BOOLEAN /\ TRUE \in BOOLEAN
    BY <1>7
  <2>3. Sides(q_tree16(19, t[4], FALSE, TRUE)[n])
    BY <1>4, <2>2, SidesOfBands, Zenon
  <2>4. QED BY <2>1, <2>3 DEF q, t
<1>8. CASE n \in 35..50
  <2>1. q[n] = q_tree16(35, t[5], TRUE, FALSE)[n]
    BY <1>2, <1>8 DEF BandsFrom
  <2>2. n \in 35..(35 + 15) /\ 35 \in Nat /\ FALSE \in BOOLEAN /\ TRUE \in BOOLEAN
    BY <1>8
  <2>3. Sides(q_tree16(35, t[5], TRUE, FALSE)[n])
    BY <1>4, <2>2, SidesOfBands, Zenon
  <2>4. QED BY <2>1, <2>3 DEF q, t
<1>9. CASE n \in 51..59
  <2>1. q[n] = q_tree16(48, t[0], FALSE, FALSE)[n]
    <3>1. n \in 51..63
      BY <1>9
    <3>2. QED BY <1>2, <3>1, Zenon DEF BandsFrom
  <2>2. n \in 48..(48 + 15) /\ 48 \in Nat /\ FALSE \in BOOLEAN
    BY <1>9
  <2>3. Sides(q_tree16(48, t[0], FALSE, FALSE)[n])
    BY <1>4, <2>2, SidesOfBands, Zenon
  <2>4. QED BY <2>1, <2>3 DEF q, t
<1>10. QED BY <1>5, <1>6, <1>7, <1>8, <1>9

(* A rectangle inside a band of such sides has two pixels or more.         *)
LEMMA Measurable ==
  ASSUME NEW b, Sides(b)
  PROVE  IsNumber(b) /\ IsNumber(Cropped(b))
<1>1. \A m, n \in Nat : m >= 2 /\ n >= 1 => m * n > 1
  <2>1. ASSUME NEW m \in Nat, NEW n \in Nat, m >= 2, n >= 1 PROVE m * n > 1
    <3>1. m * (n - 1) >= 0
      BY <2>1
    <3>2. m * n = m * (n - 1) + m
      OBVIOUS
    <3>3. QED BY <2>1, <3>1, <3>2
  <2>2. QED BY <2>1
<1>2. b.lenx \in Nat /\ b.leny \in Nat /\ b.lenx >= 3 /\ b.leny >= 3
  BY DEF Sides, Side
<1>3. Area(b) > 1
  BY <1>1, <1>2 DEF Area
<1>4. /\ (3 * b.lenx) \div 4 \in Nat /\ (3 * b.lenx) \div 4 >= 2
      /\ (7 * b.leny) \div 16 \in Nat /\ (7 * b.leny) \div 16 >= 1
  BY <1>2
<1>5. Area(Cropped(b)) = ((3 * b.lenx) \div 4) * ((7 * b.leny) \div 16)
  BY DEF Area, Cropped, Box
<1>6. Area(Cropped(b)) > 1
  BY <1>1, <1>4, <1>5
<1>7. QED BY <1>3, <1>6 DEF IsNumber

(* For every frame that is more than 80 pixels wide and high, variance()   *)
(* takes each of the sixty bands of build_wsq_trees for large enough,      *)
(* whether it measures the whole band or the rectangle in its middle.      *)
THEOREM EveryBandMeasured ==
  ASSUME NEW w \in Nat, NEW h \in Nat, Sizable(w, h), NEW smooth \in BOOLEAN
  PROVE  variance(build_wsq_trees(w, h).q_tree, smooth) = 0..59
<1> DEFINE u == build_q_tree(build_w_tree(w, h))
           q == build_wsq_trees(w, h).q_tree
<1>1. q = Stored(u)
  BY DEF build_wsq_trees, Trees
<1>2. DOMAIN u = 0..63
  <2> DEFINE t == build_w_tree(w, h)
  <2> HIDE DEF t
  <2>1. BandsFrom(build_q_tree(t), t)
    BY BandsOf, Zenon
  <2>2. QED BY <2>1 DEF BandsFrom, t
<1>3. ASSUME NEW n \in 0..59 PROVE Sides(u[n])
  BY BandSides
<1> HIDE DEF u, q
<1>4. ASSUME NEW n \in 0..59 PROVE Sides(q[n])
  <2>1. q[n] = AsStored(u[n])
    BY <1>1, <1>2 DEF Stored
  <2>2. Side(u[n].lenx) /\ Side(u[n].leny)
    BY <1>3 DEF Sides
  <2>3. Short(u[n].lenx) = u[n].lenx /\ Short(u[n].leny) = u[n].leny
    BY <2>2, ShortIdentity DEF Side
  <2>4. QED BY <2>1, <2>2, <2>3 DEF AsStored, Box, Sides
<1>5. ASSUME NEW n \in 0..59
      PROVE  IsNumber(q[n]) /\ IsNumber(Cropped(q[n]))
  BY <1>4, Measurable
<1>6. QED BY <1>5 DEF variance, q

-----------------------------------------------------------------------------
(* Every image is one whose sides are shorts.                              *)
OriginalsFit ==
  \A o \in Originals : o.width \in Nat \ {0} /\ o.height \in Nat \ {0} /\ Short16(o.width, o.height)

(* Whatever the image, wsq_decompose leaves the bands that quantize() and  *)
(* the block sizes count on: the two calculations of tree.cpp agree, for   *)
(* odd and for inverted splits, for sides too short for a band as well.    *)
THEOREM AlwaysAligned ==
  ASSUME OriginalsFit
  PROVE  FSpec => []BandsAligned
<1>1. FInit => original \in Originals
  BY DEF FInit
<1>2. original \in Originals /\ [FNext]_fvars => (original \in Originals)'
  BY DEF FNext, wsq_decompose, wsq_reconstruct, fvars
<1>3. original \in Originals => BandsAligned
  <2> SUFFICES ASSUME original \in Originals PROVE BandsAligned
    OBVIOUS
  <2>1. /\ original.width \in Nat \ {0} /\ original.height \in Nat \ {0}
        /\ Short16(original.width, original.height)
    BY DEF OriginalsFit
  <2>2. Aligned(build_wsq_trees(original.width, original.height), original.width, original.height)
    BY <2>1, BandsAreLeaves, Zenon
  <2>3. QED BY <2>2 DEF BandsAligned, Tree
<1>4. QED BY <1>1, <1>2, <1>3, PTL DEF FSpec

-----------------------------------------------------------------------------
(* As long as one thread decodes, the trees are those of its own image.    *)
Local(d) ==
  /\ "pc" \in DOMAIN d
  /\ d.pc \notin {"idle", "done"} => "w" \in DOMAIN d /\ "h" \in DOMAIN d

Alone(t) ==
  /\ t \in DOMAIN decoder /\ Local(decoder[t])
  /\ decoder[t].pc = "data" => trees = build_wsq_trees(decoder[t].w, decoder[t].h)

LEMMA AloneEnds ==
  ASSUME NEW t, Alone(t), NEW out, decoder' = [decoder EXCEPT ![t] = [pc |-> "done", out |-> out]]
  PROVE  Alone(t)'
<1>1. t \in DOMAIN decoder' /\ decoder'[t] = [pc |-> "done", out |-> out]
  BY DEF Alone
<1>2. QED BY <1>1 DEF Alone, Local

LEMMA AloneEnd ==
  ASSUME NEW t, Alone(t), NEW out, NEW dtt,
         End(t, out, dtt) \/ Refuse(t, dtt) \/ Crash(t)
  PROVE  Alone(t)'
<1>1. \E o : decoder' = [decoder EXCEPT ![t] = [pc |-> "done", out |-> o]]
  BY Zenon DEF End, Refuse, Crash
<1>2. QED BY <1>1, AloneEnds

LEMMA AloneGoes ==
  ASSUME NEW t, Alone(t), NEW d, Local(d), d.pc # "data", Goes(t, d)
  PROVE  Alone(t)'
<1>1. t \in DOMAIN decoder' /\ decoder'[t] = d
  BY DEF Alone, Goes
<1>2. QED BY <1>1 DEF Alone

(* Where the loop over the data goes. *)
LEMMA LocalAt ==
  ASSUME NEW d, Local(d), d.pc \notin {"idle", "done"}, NEW marker
  PROVE  Local(At(d, marker)) /\ At(d, marker).pc # "data"
BY DEF At, Local

LEMMA AloneSymbol ==
  ASSUME NEW t, Alone(t), decoder[t].pc = "symbol", NEW r, NEW sym,
         NoSymbol(t, r) \/ Put(t, sym, r)
  PROVE  Alone(t)'
<1> DEFINE d == decoder[t]
<1>1. Local(d) /\ d.pc = "symbol"
  BY DEF Alone
<1>2. CASE NoSymbol(t, r)
  <2> DEFINE e == [d EXCEPT !.at = r.at, !.marker = r.code2]
  <2>1. Local(e) /\ e.pc = "symbol"
    BY <1>1 DEF Local
  <2>2. Local([e EXCEPT !.pc = "trailer"]) /\ [e EXCEPT !.pc = "trailer"].pc = "trailer"
    BY <2>1 DEF Local
  <2> HIDE DEF e
  <2>3. \/ Goes(t, [e EXCEPT !.pc = "trailer"]) \/ Goes(t, At(e, r.code2))
        \/ Crash(t) \/ Refuse(t, dtt_table)
    BY <1>2, Zenon DEF NoSymbol, e
  <2>4. Local(At(e, r.code2)) /\ At(e, r.code2).pc # "data"
    BY <2>1, LocalAt
  <2>5. QED BY <2>2, <2>3, <2>4, AloneGoes, AloneEnd
<1>3. CASE Put(t, sym, r)
  <2> DEFINE e == [d EXCEPT !.at = r.at, !.left = r.left]
             n == IF sym <= 100 THEN sym ELSE r.out
             run == [e EXCEPT !.ipc = @ + n]
             coef == [e EXCEPT !.ipc = @ + 1,
                        !.sip = Append(@, [at |-> e.ipc, v |-> Coefficient(sym, r.out)])]
  <2>1. Local(e) /\ e.pc = "symbol"
    BY <1>1 DEF Local
  <2>2. Goes(t, run) \/ Goes(t, coef) \/ Crash(t) \/ Refuse(t, dtt_table)
    BY <1>3, Zenon DEF Put
  <2> HIDE DEF e, n
  <2>3. Local(run) /\ run.pc = "symbol" /\ Local(coef) /\ coef.pc = "symbol"
    BY <2>1 DEF Local
  <2> HIDE DEF run, coef
  <2>4. QED BY <2>2, <2>3, AloneGoes, AloneEnd
<1>4. QED BY <1>2, <1>3

LEMMA AloneDecode ==
  ASSUME NEW t, Alone(t), Decode(t)
  PROVE  Alone(t)'
<1> DEFINE d == decoder[t]
<1>1. Local(d)
  BY DEF Alone
<1>2. CASE \E kind \in Kinds : Begin(t, kind)
  <2>1. PICK kind \in Kinds : Begin(t, kind)
    BY <1>2
  <2>2. \/ Refuse(t, [dtt_table EXCEPT !.filters = "null"])
        \/ \E at, m : decoder' = [decoder EXCEPT ![t] =
             [pc |-> "head", kind |-> kind, at |-> at, marker |-> m,
              w |-> 0, h |-> 0, ppi |-> 0, blk |-> 0, left |-> 0, table |-> NoTable, tabid |-> 0,
              ipc |-> 0, ipc_mx |-> 0, ipc_q |-> FALSE, sip |-> <<>>]]
    BY <2>1, Zenon DEF Begin
  <2>3. ASSUME NEW at, NEW m,
               decoder' = [decoder EXCEPT ![t] =
                 [pc |-> "head", kind |-> kind, at |-> at, marker |-> m,
                  w |-> 0, h |-> 0, ppi |-> 0, blk |-> 0, left |-> 0, table |-> NoTable, tabid |-> 0,
                  ipc |-> 0, ipc_mx |-> 0, ipc_q |-> FALSE, sip |-> <<>>]]
        PROVE  Alone(t)'
    BY <2>3 DEF Alone, Local
  <2>4. QED BY <2>2, <2>3, AloneEnd
<1>3. CASE Table(t)
  <2>1. d.pc \in {"head", "block", "trailer"}
    BY <1>3 DEF Table, EndOf
  <2>2. PICK dtt, at, m :
          \/ Refuse(t, dtt)
          \/ decoder' = [decoder EXCEPT ![t].at = at, ![t].marker = m]
    BY <1>3, Zenon DEF Table
  <2>3. CASE decoder' = [decoder EXCEPT ![t].at = at, ![t].marker = m]
    <3>1. t \in DOMAIN decoder' /\ decoder'[t] = [d EXCEPT !.at = at, !.marker = m]
      BY <2>3 DEF Alone
    <3>2. DOMAIN decoder'[t] = DOMAIN d /\ decoder'[t].pc = d.pc
      BY <1>1, <3>1 DEF Local
    <3>3. QED BY <1>1, <2>1, <3>1, <3>2 DEF Alone, Local
  <2>4. QED BY <2>2, <2>3, AloneEnd
<1>4. CASE Frame(t)
  <2>1. d.pc = "head"
    BY <1>4 DEF Frame
  <2>2. PICK at, ppi, frm :
          \/ Refuse(t, dtt_table)
          \/ /\ Goes(t, [d EXCEPT !.pc = "data", !.at = at, !.ppi = ppi,
                                  !.w = frm.width, !.h = frm.height])
             /\ trees' = build_wsq_trees(frm.width, frm.height)
    BY <1>4, Zenon DEF Frame
  <2>3. CASE /\ Goes(t, [d EXCEPT !.pc = "data", !.at = at, !.ppi = ppi,
                                  !.w = frm.width, !.h = frm.height])
             /\ trees' = build_wsq_trees(frm.width, frm.height)
    <3> DEFINE e == [d EXCEPT !.pc = "data", !.at = at, !.ppi = ppi, !.w = frm.width, !.h = frm.height]
    <3>1. DOMAIN e = DOMAIN d /\ e.w = frm.width /\ e.h = frm.height
      BY <1>1, <2>1 DEF Local
    <3>2. t \in DOMAIN decoder' /\ decoder'[t] = e
      BY <2>3 DEF Goes, Alone
    <3> HIDE DEF e
    <3>3. QED BY <1>1, <2>1, <2>3, <3>1, <3>2 DEF Alone, Local
  <2>4. QED BY <2>2, <2>3, AloneEnd
<1>5. CASE StartData(t)
  <2>1. PICK at, mx, m :
          \/ Refuse(t, dtt_table)
          \/ Goes(t, At([d EXCEPT !.at = at, !.ipc_mx = mx], m))
    BY <1>5, Zenon DEF StartData
  <2> DEFINE e == [d EXCEPT !.at = at, !.ipc_mx = mx]
  <2>2. Local(e) /\ e.pc = "data"
    BY <1>1, <1>5 DEF Local, StartData
  <2> HIDE DEF e
  <2>3. Local(At(e, m)) /\ At(e, m).pc # "data"
    BY <2>2, LocalAt
  <2>4. QED BY <2>1, <2>3, AloneGoes, AloneEnd DEF e
<1>6. CASE BlockHeader(t)
  <2>1. PICK at, id, table :
          \/ Refuse(t, dtt_table)
          \/ Goes(t, [Limit(d) EXCEPT !.pc = "symbol", !.at = at, !.left = 0, !.tabid = id,
                                      !.table = table])
    BY <1>6, Zenon DEF BlockHeader
  <2>2. DOMAIN Limit(d) = DOMAIN d
    BY DEF Limit
  <2>3. "w" \in DOMAIN d /\ "h" \in DOMAIN d /\ "pc" \in DOMAIN d
    BY <1>1, <1>6 DEF Local, BlockHeader
  <2> DEFINE e == [Limit(d) EXCEPT !.pc = "symbol", !.at = at, !.left = 0, !.tabid = id, !.table = table]
  <2>4. DOMAIN e = DOMAIN d /\ e.pc = "symbol"
    BY <2>2, <2>3
  <2>5. Local(e) /\ e.pc # "data"
    BY <2>3, <2>4 DEF Local
  <2> HIDE DEF e
  <2>6. QED BY <2>1, <2>5, AloneGoes, AloneEnd DEF e
<1>7. CASE Symbol(t)
  <2>1. d.pc = "symbol" /\ \E r, sym : NoSymbol(t, r) \/ Put(t, sym, r)
    BY <1>7, Zenon DEF Symbol
  <2>2. QED BY <2>1, AloneSymbol
<1>8. CASE Trailer(t)
  <2>1. d.pc = "trailer" /\ Goes(t, At(d, d.marker))
    BY <1>8 DEF Trailer
  <2>2. Local(At(d, d.marker)) /\ At(d, d.marker).pc # "data"
    BY <1>1, <2>1, LocalAt
  <2>3. QED BY <2>1, <2>2, AloneGoes
<1>9. CASE Finish(t)
  <2>1. \E out : End(t, out, dtt_table) \/ Refuse(t, dtt_table) \/ Crash(t)
    BY <1>9, Zenon DEF Finish
  <2>2. QED BY <2>1, AloneEnd
<1>10. QED BY <1>2, <1>3, <1>4, <1>5, <1>6, <1>7, <1>8, <1>9 DEF Decode

LEMMA AloneStep ==
  ASSUME NEW t, Threads = {t}, Alone(t), [CNext]_cvars
  PROVE  Alone(t)'
<1>1. CASE UNCHANGED <<decoder, trees>>
  BY <1>1 DEF Alone
<1>2. CASE TakeNext(t)
  <2>1. t \in DOMAIN decoder' /\ decoder'[t] = Idle
    BY <1>2 DEF TakeNext, Alone
  <2>2. QED BY <2>1 DEF Alone, Local, Idle
<1>3. CASE Decode(t)
  BY <1>3, AloneDecode
<1>4. [CNext]_cvars => UNCHANGED <<decoder, trees>> \/ Decode(t) \/ TakeNext(t)
  <2>1. \A img, text : wsq_encode_mem(t, img, text) => UNCHANGED <<decoder, trees>>
    BY DEF wsq_encode_mem, globals
  <2>2. \A data, list : Edit(t, data, list) => UNCHANGED <<decoder, trees>>
    BY DEF Edit, globals
  <2>3. DeleteComments(t) => UNCHANGED <<decoder, trees>>
    BY <2>2 DEF DeleteComments
  <2>4. \A text : AddComment(t, text) => UNCHANGED <<decoder, trees>>
    BY <2>2, Zenon DEF AddComment
  <2>5. \A at : Remark(t, at) => UNCHANGED <<decoder, trees>>
    BY <2>2, Zenon DEF Remark
  <2>6. \A len : CutShort(t, len) => UNCHANGED <<decoder, trees>>
    BY DEF CutShort, globals
  <2>7. UNCHANGED cvars => UNCHANGED <<decoder, trees>>
    BY DEF cvars
  <2>8. QED BY <2>1, <2>3, <2>4, <2>5, <2>6, <2>7, Zenon DEF CNext
<1>5. QED BY <1>1, <1>2, <1>3, <1>4

(* A thread that decodes alone has a variance for every band of an image   *)
(* of 81 by 81 pixels or more, up to what two bytes hold: variance() drops *)
(* no band for its size, neither in its rectangle nor as a whole.          *)
THEOREM AlwaysMeasured ==
  ASSUME NEW t, Threads = {t}
  PROVE  CSpec /\ []FrameSizes => []BandsMeasured
<1>1. CInit => Alone(t)
  BY DEF CInit, Alone, Local, Idle
<1>2. Alone(t) /\ [CNext]_cvars => Alone(t)'
  BY AloneStep
<1>3. Alone(t) /\ FrameSizes => BandsMeasured
  <2> SUFFICES ASSUME Alone(t), FrameSizes, decoder[t].pc = "data",
                      decoder[t].w > 80, decoder[t].h > 80, NEW smooth \in BOOLEAN
               PROVE  variance(trees.q_tree, smooth) = 0..59
    BY DEF BandsMeasured
  <2>1. trees = build_wsq_trees(decoder[t].w, decoder[t].h)
    BY DEF Alone
  <2>2. decoder[t].w \in Nat /\ decoder[t].h \in Nat /\ Sizable(decoder[t].w, decoder[t].h)
    BY DEF FrameSizes, Sizable
  <2>3. variance(build_wsq_trees(decoder[t].w, decoder[t].h).q_tree, smooth) = 0..59
    BY <2>2, EveryBandMeasured, Zenon
  <2>4. QED BY <2>1, <2>3
<1>4. QED BY <1>1, <1>2, <1>3, PTL DEF CSpec
=============================================================================
