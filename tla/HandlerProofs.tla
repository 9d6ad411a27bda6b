---------------------------- MODULE HandlerProofs ----------------------------
(***************************************************************************)
(* The handlers that compare templates, for all elements and lengths of a  *)
(* request, any number of free threads, every unit of the scores and every *)
(* tolerance up to a fifth of the threshold: the surfaces of multi_score   *)
(* and the loops over scores, what verify_get makes of a request and a     *)
(* biocard of any size, and compare_get of rest_compare.cpp and search_get *)
(* of rest_search.cpp, which give every element a task of its own.         *)
(***************************************************************************)
EXTENDS FusionLoop, VerifyGet, CompareTasks, SearchTasks, InductionFacts,
        FiniteSetTheorems, SequenceTheorems, TLAPS

-----------------------------------------------------------------------------
(* Score fusion and verification (multi_score, verify_get).                *)

(* The corners are whole numbers of fortieths of the unit.                 *)
K == Unit \div 40
E == ABIS_FLOAT_THRESHOLD

LEMMA Corners ==
  /\ K \in Nat /\ K >= 1 /\ Unit = 40 * K /\ T = 20 * K
  /\ T \div 4 = 5 * K /\ T \div 2 = 10 * K /\ (T * 4) \div 5 = 16 * K
  /\ (T * 3) \div 2 = 30 * K /\ T * 2 = 40 * K
  /\ E \in Nat /\ E >= 1 /\ E <= 4 * K
<1>1. K \in Nat /\ K >= 1 /\ Unit = 40 * K
  BY FusionOK DEF K
<1>2. T = 20 * K
  BY <1>1 DEF T, ABIS_INTEGRA_THRESHOLD
<1>3. /\ T \div 4 = 5 * K /\ T \div 2 = 10 * K /\ (T * 4) \div 5 = 16 * K
      /\ (T * 3) \div 2 = 30 * K /\ T * 2 = 40 * K /\ T \div 5 = 4 * K
  BY <1>1, <1>2
<1>4. QED BY <1>1, <1>2, <1>3, FusionOK DEF E

(* Products and quotients keep an order.                                   *)
LEMMA Product ==
  ASSUME NEW a \in Int, NEW b \in Int, NEW c \in Int, a <= b, 0 <= c
  PROVE  a * c <= b * c
OBVIOUS

LEMMA Quotient ==
  ASSUME NEW n \in Int, NEW d \in Nat, d > 0
  PROVE  n \div d \in Int /\ d * (n \div d) <= n /\ n < d * (n \div d) + d
OBVIOUS

LEMMA QuotientAtMost ==
  ASSUME NEW n \in Int, NEW d \in Nat, d > 0, NEW c \in Int, n <= c * d
  PROVE  n \div d <= c
<1>1. PICK q \in Int : q = n \div d /\ d * q <= n
  BY Quotient
<1>2. SUFFICES ASSUME q >= c + 1 PROVE FALSE
  BY <1>1
<1>3. (c + 1) * d <= q * d
  BY <1>2, Product, c + 1 \in Int
<1>4. QED BY <1>1, <1>3

LEMMA QuotientAtLeast ==
  ASSUME NEW n \in Int, NEW d \in Nat, d > 0, NEW c \in Int, c * d <= n
  PROVE  c <= n \div d
<1>1. PICK q \in Int : q = n \div d /\ n < d * q + d
  BY Quotient
<1>2. SUFFICES ASSUME q + 1 <= c PROVE FALSE
  BY <1>1
<1>3. (q + 1) * d <= c * d
  BY <1>2, Product, q + 1 \in Int
<1>4. QED BY <1>1, <1>3

LEMMA QuotientMonotone ==
  ASSUME NEW n \in Int, NEW m \in Int, NEW d \in Nat, d > 0, n <= m
  PROVE  n \div d <= m \div d
<1>1. PICK q \in Int : q = n \div d /\ d * q <= n
  BY Quotient
<1>2. q * d <= m
  BY <1>1
<1>3. QED BY <1>1, <1>2, QuotientAtLeast

-----------------------------------------------------------------------------
(* The surfaces as polynomials over the square of the unit.                *)
D == 1600 * K * K
LowNum(x, y) == 400 * K * K * x + 400 * K * K * y + 24 * K * x * y
MixedNum(x, y) ==
  8000 * K * K * K + 400 * K * K * x + 880 * K * K * y - 4 * K * x * y - 4 * E * x * y
HighNum(x, y) == 32000 * K * K * K + 800 * K * K * x + 800 * K * K * y

LEMMA Polynomials ==
  ASSUME NEW x \in Int, NEW y \in Int
  PROVE  /\ Low(x, y) = LowNum(x, y) \div D
         /\ Mixed(x, y) = MixedNum(x - 20 * K, y) \div D
         /\ High(x, y) = HighNum(x - 20 * K, y - 20 * K) \div D
         /\ D \in Nat /\ D > 0
         /\ LowNum(x, y) \in Int /\ MixedNum(x, y) \in Int /\ HighNum(x, y) \in Int
<1>1. PICK k \in Nat, e \in Nat, u \in Nat :
        k = K /\ e = E /\ u = 40 * k /\ k >= 1 /\ u = Unit /\ T = 20 * k
  BY Corners
<1>2. u * u = 1600 * k * k
  BY <1>1
<1>3. D = u * u /\ D \in Nat /\ D > 0
  <2>1. 1600 * k * k \in Nat /\ k * k >= 1
    BY <1>1
  <2>2. QED BY <1>1, <1>2, <2>1 DEF D
<1>4. \A z \in Int : 40 * k * z = u * z
  BY <1>1
<1>5. Low(x, y) = LowNum(x, y) \div D
  <2>1. 0 * u * u + 2 * (5 * k - 0) * x * u + 2 * (5 * k - 0) * y * u
          + 4 * (0 - 5 * k - 5 * k + 16 * k) * x * y
        = 400 * k * k * x + 400 * k * k * y + 24 * k * x * y
    BY <1>1
  <2>2. QED BY <1>1, <1>3, <2>1, Corners DEF Low, Surface, LowNum
<1>6. Mixed(x, y) = MixedNum(x - 20 * K, y) \div D
  <2>1. \A v \in Int :
          5 * k * u * u + 2 * (10 * k - 5 * k) * v * u + 2 * (16 * k - 5 * k) * y * u
            + 4 * (5 * k - 10 * k - 16 * k + (20 * k - e)) * v * y
          = 8000 * k * k * k + 400 * k * k * v + 880 * k * k * y - 4 * k * v * y - 4 * e * v * y
    BY <1>1
  <2>2. x - 20 * k \in Int
    BY <1>1
  <2>3. QED BY <1>1, <1>3, <2>1, <2>2, Corners DEF Mixed, Surface, MixedNum, E
<1>7. High(x, y) = HighNum(x - 20 * K, y - 20 * K) \div D
  <2>1. \A v, w \in Int :
          20 * k * u * u + 2 * (30 * k - 20 * k) * v * u + 2 * (30 * k - 20 * k) * w * u
            + 4 * (20 * k - 30 * k - 30 * k + 40 * k) * v * w
          = 32000 * k * k * k + 800 * k * k * v + 800 * k * k * w
    BY <1>1
  <2>2. x - 20 * k \in Int /\ y - 20 * k \in Int
    BY <1>1
  <2>3. QED BY <1>1, <1>3, <2>1, <2>2, Corners DEF High, Surface, HighNum
<1>8. LowNum(x, y) \in Int /\ MixedNum(x, y) \in Int /\ HighNum(x, y) \in Int
  BY Corners DEF LowNum, MixedNum, HighNum
<1>9. QED BY <1>3, <1>5, <1>6, <1>7, <1>8

-----------------------------------------------------------------------------
(* Scores that reach the threshold, and scores that do not.                *)
Fail == 0..(20 * K - E)
Pass == (20 * K - E + 1)..(40 * K)

LEMMA Kinds ==
  /\ 0..Unit = Fail \cup Pass
  /\ \A x \in Fail : x \in Int /\ ~Reaches(x) /\ x \in 0..Unit
  /\ \A x \in Pass : x \in Int /\ Reaches(x) /\ x \in 0..Unit
BY Corners DEF Fail, Pass, Reaches, E

(* Products of what is known about two scores.                             *)
LEMMA LowBounds ==
  ASSUME NEW x \in Fail, NEW y \in Fail
  PROVE  Low(x, y) \in 0..(16 * K)
<1>1. PICK k \in Nat : k = K /\ k >= 1 /\ x \in 0..(20 * k) /\ y \in 0..(20 * k)
  BY Corners DEF Fail
<1>2. 0 <= x * y /\ x * y <= 20 * k * x /\ 0 <= k * x /\ k * x <= 20 * k * k
  <2>1. x * y <= x * (20 * k) /\ k * x <= k * (20 * k) /\ 0 <= x * y /\ 0 <= k * x
    BY <1>1
  <2>2. QED BY <1>1, <2>1
<1>3. 0 <= k * k * x /\ k * k * x <= 20 * k * k * k /\ 0 <= k * k * y /\ k * k * y <= 20 * k * k * k
  <2>1. k * k \in Nat
    BY <1>1
  <2>2. (k * k) * x <= (k * k) * (20 * k) /\ (k * k) * y <= (k * k) * (20 * k)
    BY <1>1, <2>1
  <2>3. 0 <= (k * k) * x /\ 0 <= (k * k) * y
    BY <1>1, <2>1
  <2>4. QED BY <1>1, <2>2, <2>3
<1>4. 0 <= k * x * y /\ k * x * y <= 400 * k * k * k
  <2>1. x * y <= 400 * k * k /\ 0 <= x * y /\ x * y \in Int /\ k * k \in Int
    BY <1>1, <1>2
  <2>2. k * (x * y) <= k * (400 * (k * k)) /\ 0 <= k * (x * y)
    BY <1>1, <2>1
  <2>3. QED BY <1>1, <2>2
<1>5. 0 * D <= LowNum(x, y) /\ LowNum(x, y) <= (16 * K) * D
  BY <1>1, <1>3, <1>4 DEF LowNum, D
<1>6. Low(x, y) = LowNum(x, y) \div D /\ LowNum(x, y) \in Int /\ D \in Nat /\ D > 0
  BY Polynomials DEF Fail
<1>7. Low(x, y) \in Int
  BY <1>6
<1>8. 16 * K \in Int
  BY <1>1
<1>9. QED BY <1>5, <1>6, <1>7, <1>8, QuotientAtMost, QuotientAtLeast, 0 \in Int

LEMMA MixedBounds ==
  ASSUME NEW x \in Pass, NEW y \in Fail
  PROVE  Mixed(x, y) \in 0..(20 * K - E)
<1>1. PICK k \in Nat, e \in Nat, v \in Int :
        /\ k = K /\ e = E /\ k >= 1 /\ e >= 1 /\ e <= 4 * k /\ v = x - 20 * k
        /\ -e <= v /\ v <= 20 * k /\ y \in 0..(20 * k)
  BY Corners DEF Pass, Fail
<1> DEFINE c == 880 * k * k - 4 * k * v - 4 * e * v
           g == 320 * k * k - 80 * k * e
<1>2. MixedNum(v, y) = 8000 * k * k * k + 400 * k * k * v + c * y
  BY <1>1 DEF MixedNum
<1>3. 0 <= c
  <2>1. k * v <= k * (20 * k) /\ e * v <= e * (20 * k) /\ e * k <= (4 * k) * k
    BY <1>1
  <2>2. QED BY <1>1, <2>1
<1>4. 0 <= c * y /\ c * y <= c * (20 * k)
  <2>1. c \in Nat
    BY <1>1, <1>3
  <2> HIDE DEF c
  <2>2. QED BY <1>1, <2>1
<1>5. 0 <= MixedNum(v, y)
  <2>1. k * k * (-e) <= k * k * v /\ k * k * e <= k * k * (4 * k) /\ 0 <= k * k * k
    <3>1. k * k \in Nat
      BY <1>1
    <3>2. (k * k) * (-e) <= (k * k) * v /\ (k * k) * e <= (k * k) * (4 * k) /\ 0 <= (k * k) * k
      BY <1>1, <3>1
    <3>3. QED BY <1>1, <3>2
  <2>2. QED BY <1>1, <1>2, <1>4, <2>1
<1>6. MixedNum(v, y) <= (20 * k - e) * (1600 * k * k)
  <2>1. 0 <= g /\ g \in Int
    <3>1. k * e <= k * (4 * k)
      BY <1>1
    <3>2. QED BY <1>1, <3>1
  <2>2. g * v <= g * (20 * k)
    <3> HIDE DEF g
    <3>1. QED BY <1>1, <2>1
  <2>3. MixedNum(v, y) <= 25600 * k * k * k + g * v
    BY <1>1, <1>2, <1>4
  <2>4. 25600 * k * k * k + g * (20 * k) = (20 * k - e) * (1600 * k * k)
    BY <1>1
  <2>5. g * v \in Int /\ g * (20 * k) \in Int /\ MixedNum(v, y) \in Int
    <3>1. MixedNum(v, y) \in Int
      BY <1>1, Polynomials
    <3> HIDE DEF g
    <3>2. QED BY <1>1, <2>1, <3>1
  <2>6. QED BY <1>1, <2>2, <2>3, <2>4, <2>5
<1>7. Mixed(x, y) = MixedNum(v, y) \div D /\ MixedNum(v, y) \in Int /\ D \in Nat /\ D > 0
  BY <1>1, Polynomials DEF Fail, Pass
<1>8. 0 * D <= MixedNum(v, y) /\ MixedNum(v, y) <= (20 * k - e) * D
  BY <1>1, <1>5, <1>6 DEF D
<1>9. QED BY <1>1, <1>7, <1>8, QuotientAtMost, QuotientAtLeast, 0 \in Int, 20 * k - e \in Int

LEMMA HighBounds ==
  ASSUME NEW x \in Pass, NEW y \in Pass
  PROVE  High(x, y) \in Pass
<1>1. PICK k \in Nat, e \in Nat, v \in Int, w \in Int :
        /\ k = K /\ e = E /\ k >= 1 /\ e >= 1 /\ v = x - 20 * k /\ w = y - 20 * k
        /\ -e + 1 <= v /\ v <= 20 * k /\ -e + 1 <= w /\ w <= 20 * k
  BY Corners DEF Pass
<1>2. PICK q \in Nat : q = k * k
  BY <1>1
<1>3. /\ q * (-e + 1) <= q * v /\ q * v <= q * (20 * k)
      /\ q * (-e + 1) <= q * w /\ q * w <= q * (20 * k)
  BY <1>1, <1>2
<1>4. HighNum(v, w) = 32000 * q * k + 800 * q * v + 800 * q * w /\ D = 1600 * q
  BY <1>1, <1>2 DEF HighNum, D
<1>5. (20 * k - e + 1) * D <= HighNum(v, w) /\ HighNum(v, w) <= (40 * k) * D
  BY <1>1, <1>3, <1>4
<1>6. High(x, y) = HighNum(v, w) \div D /\ HighNum(v, w) \in Int /\ D \in Nat /\ D > 0
  BY <1>1, Polynomials DEF Pass
<1>7. QED BY <1>1, <1>5, <1>6, QuotientAtMost, QuotientAtLeast, 20 * k - e + 1 \in Int, 40 * k \in Int DEF Pass
-----------------------------------------------------------------------------
(* Each surface rises with either score.                                   *)
LEMMA LowMonotone ==
  ASSUME NEW x \in Fail, NEW y \in Fail, NEW a \in Fail, NEW b \in Fail, x <= a, y <= b
  PROVE  Low(x, y) <= Low(a, b)
<1>1. PICK k \in Nat : k = K /\ x \in Nat /\ y \in Nat /\ a \in Nat /\ b \in Nat
  BY Corners DEF Fail
<1>2. PICK q \in Nat : q = k * k
  BY <1>1
<1>3. q * x <= q * a /\ q * y <= q * b
  BY <1>1, <1>2
<1>4. x * y <= a * b /\ x * y \in Nat /\ a * b \in Nat
  <2>1. x * y <= a * y /\ y * a <= b * a
    BY <1>1, Product
  <2>2. QED BY <1>1, <2>1
<1>5. k * (x * y) <= k * (a * b)
  BY <1>1, <1>4
<1>6. /\ LowNum(x, y) = 400 * (q * x) + 400 * (q * y) + 24 * (k * (x * y))
      /\ LowNum(a, b) = 400 * (q * a) + 400 * (q * b) + 24 * (k * (a * b))
  BY <1>1, <1>2 DEF LowNum
<1>7. LowNum(x, y) <= LowNum(a, b)
  BY <1>1, <1>2, <1>3, <1>4, <1>5, <1>6
<1>8. /\ Low(x, y) = LowNum(x, y) \div D /\ LowNum(x, y) \in Int
      /\ Low(a, b) = LowNum(a, b) \div D /\ LowNum(a, b) \in Int
      /\ D \in Nat /\ D > 0
  BY <1>1, Polynomials
<1>9. QED BY <1>7, <1>8, QuotientMonotone

(* The slopes of the mixed surface along each score are not negative.      *)
LEMMA SlopeSecond ==
  ASSUME NEW k \in Nat, NEW e \in Nat, NEW v \in Int, e <= 4 * k, v <= 20 * k
  PROVE  880 * k * k - 4 * k * v - 4 * e * v \in Nat
<1>1. k * v <= k * (20 * k) /\ e * v <= e * (20 * k) /\ e * k <= (4 * k) * k
  OBVIOUS
<1>2. QED BY <1>1

LEMMA SlopeFirst ==
  ASSUME NEW k \in Nat, NEW e \in Nat, NEW y \in Nat, e <= 4 * k, y <= 20 * k
  PROVE  400 * k * k - 4 * k * y - 4 * e * y \in Nat
<1>1. k * y <= k * (20 * k) /\ e * y <= e * (20 * k) /\ e * k <= (4 * k) * k
  OBVIOUS
<1>2. QED BY <1>1

LEMMA MixedMonotone ==
  ASSUME NEW x \in Pass, NEW y \in Fail, NEW a \in Pass, NEW b \in Fail, x <= a, y <= b
  PROVE  Mixed(x, y) <= Mixed(a, b)
<1>1. PICK k \in Nat, e \in Nat, v \in Int, w \in Int :
        /\ k = K /\ e = E /\ v = x - 20 * k /\ w = a - 20 * k
        /\ e <= 4 * k /\ v <= w /\ w <= 20 * k /\ y \in 0..(20 * k) /\ b \in 0..(20 * k)
        /\ x \in Int /\ a \in Int
  BY Corners DEF Pass, Fail
<1>2. PICK h \in Nat : h = 400 * k * k - 4 * k * y - 4 * e * y
  <2>1. y \in Nat /\ y <= 20 * k /\ e <= 4 * k
    BY <1>1
  <2>2. 400 * k * k - 4 * k * y - 4 * e * y \in Nat
    BY <2>1, SlopeFirst
  <2>3. QED BY <2>2
<1>3. PICK c \in Nat : c = 880 * k * k - 4 * k * w - 4 * e * w
  <2>1. w <= 20 * k /\ e <= 4 * k
    BY <1>1
  <2>2. 880 * k * k - 4 * k * w - 4 * e * w \in Nat
    BY <2>1, SlopeSecond
  <2>3. QED BY <2>2
<1>4. h * v <= h * w /\ c * y <= c * b
  BY <1>1, <1>2, <1>3
<1>5. PICK r \in Int : r = 8000 * k * k * k
  BY <1>1
<1>6. MixedNum(v, y) = r + 880 * k * k * y + h * v /\ MixedNum(w, y) = r + 880 * k * k * y + h * w
  BY <1>1, <1>2, <1>5 DEF MixedNum
<1>7. MixedNum(w, y) = r + 400 * k * k * w + c * y /\ MixedNum(w, b) = r + 400 * k * k * w + c * b
  BY <1>1, <1>3, <1>5 DEF MixedNum
<1>8. /\ Mixed(x, y) = MixedNum(v, y) \div D /\ MixedNum(v, y) \in Int
      /\ Mixed(a, b) = MixedNum(w, b) \div D /\ MixedNum(w, b) \in Int
      /\ MixedNum(w, y) \in Int /\ D \in Nat /\ D > 0
  BY <1>1, Polynomials
<1>9. MixedNum(v, y) <= MixedNum(w, y)
  BY <1>1, <1>2, <1>4, <1>5, <1>6
<1>10. MixedNum(w, y) <= MixedNum(w, b)
  BY <1>1, <1>3, <1>4, <1>5, <1>7
<1>11. MixedNum(v, y) <= MixedNum(w, b)
  BY <1>8, <1>9, <1>10
<1>12. QED BY <1>8, <1>11, QuotientMonotone

LEMMA HighMonotone ==
  ASSUME NEW x \in Pass, NEW y \in Pass, NEW a \in Pass, NEW b \in Pass, x <= a, y <= b
  PROVE  High(x, y) <= High(a, b)
<1>1. PICK k \in Nat, v \in Int, w \in Int, f \in Int, g \in Int :
        /\ k = K /\ v = x - 20 * K /\ w = y - 20 * K /\ f = a - 20 * K /\ g = b - 20 * K
        /\ v <= f /\ w <= g
  BY Corners DEF Pass
<1>2. PICK q \in Nat : q = k * k
  BY <1>1
<1>3. q * v <= q * f /\ q * w <= q * g
  BY <1>1, <1>2
<1>4. /\ HighNum(v, w) = 32000 * q * k + 800 * (q * v) + 800 * (q * w)
      /\ HighNum(f, g) = 32000 * q * k + 800 * (q * f) + 800 * (q * g)
  BY <1>1, <1>2 DEF HighNum
<1>5. x \in Int /\ y \in Int /\ a \in Int /\ b \in Int
  BY Corners DEF Pass
<1>6. /\ High(x, y) = HighNum(v, w) \div D /\ High(a, b) = HighNum(f, g) \div D
      /\ D \in Nat /\ D > 0
  BY <1>1, <1>5, Polynomials
<1>7. HighNum(v, w) \in Int /\ HighNum(f, g) \in Int
  BY Polynomials
<1>8. HighNum(v, w) <= HighNum(f, g)
  <2>1. 32000 * q * k \in Int /\ q * v \in Int /\ q * w \in Int /\ q * f \in Int /\ q * g \in Int
    BY <1>2
  <2>2. QED BY <1>3, <1>4, <2>1
<1>9. QED BY <1>6, <1>7, <1>8, QuotientMonotone

(* A score that comes to reach the threshold lifts the fused score across  *)
(* the jump between the first two surfaces.                                *)
LEMMA Jump ==
  ASSUME NEW x \in Fail, NEW y \in Fail, NEW a \in Pass, NEW b \in Fail, y <= b
  PROVE  Low(x, y) <= Mixed(a, b)
<1>1. PICK k \in Nat, e \in Nat, w \in Int :
        /\ k = K /\ e = E /\ w = a - 20 * k /\ e <= 4 * k
        /\ -e <= w /\ w <= 20 * k /\ b \in 0..(20 * k) /\ 20 * k - e \in Fail
        /\ x <= 20 * k - e /\ a \in Int
  BY Corners DEF Pass, Fail
<1>2. Low(x, y) <= Low(20 * k - e, b)
  BY <1>1, LowMonotone
<1>3. PICK h \in Nat : h = 400 * k * k - 4 * k * b - 4 * e * b
  <2>1. b \in Nat /\ b <= 20 * k /\ e <= 4 * k
    BY <1>1
  <2>2. 400 * k * k - 4 * k * b - 4 * e * b \in Nat
    BY <2>1, SlopeFirst
  <2>3. QED BY <2>2
<1>4. h * (-e) <= h * w
  BY <1>1, <1>3
<1>5. LowNum(20 * k - e, b) = 8000 * k * k * k - 400 * k * k * e + 880 * k * k * b - 24 * (k * e * b)
  BY <1>1 DEF LowNum
<1>6. MixedNum(w, b) = 8000 * k * k * k + 880 * k * k * b + h * w
  BY <1>1, <1>3 DEF MixedNum
<1>7. h * (-e) = -(400 * k * k * e) + 4 * (k * e * b) + 4 * (e * e * b)
  BY <1>1, <1>3
<1>8. k * e * b \in Nat /\ e * e * b \in Nat
  BY <1>1
<1>9. /\ Low(20 * k - e, b) = LowNum(20 * k - e, b) \div D /\ LowNum(20 * k - e, b) \in Int
      /\ Mixed(a, b) = MixedNum(w, b) \div D /\ MixedNum(w, b) \in Int
      /\ D \in Nat /\ D > 0
  BY <1>1, Polynomials
<1>10. LowNum(20 * k - e, b) <= MixedNum(w, b)
  <2>1. PICK r \in Int : r = 8000 * k * k * k + 880 * k * k * b
    BY <1>1
  <2>2. PICK s \in Int : s = 400 * k * k * e
    BY <1>1
  <2>3. LowNum(20 * k - e, b) = r - s - 24 * (k * e * b) /\ MixedNum(w, b) = r + h * w
    BY <1>1, <1>5, <1>6, <2>1, <2>2
  <2>4. h * w \in Int
    BY <1>1, <1>3
  <2>5. QED BY <1>4, <1>7, <1>8, <2>2, <2>3, <2>4
<1>11. Low(20 * k - e, b) <= Mixed(a, b)
  BY <1>9, <1>10, QuotientMonotone
<1>12. Low(x, y) \in Int /\ Low(20 * k - e, b) \in Int /\ Mixed(a, b) \in Int
  BY <1>1, <1>9, LowBounds, Corners
<1>13. QED BY <1>2, <1>11, <1>12
-----------------------------------------------------------------------------
(* What multi_score is, by the kinds of its two scores.                    *)
LEMMA Cases ==
  ASSUME NEW x, NEW y
  PROVE  /\ x \in Fail /\ y \in Fail => multi_score(x, y) = Low(x, y)
         /\ x \in Pass /\ y \in Fail => multi_score(x, y) = Mixed(x, y)
         /\ x \in Fail /\ y \in Pass => multi_score(x, y) = Mixed(y, x)
         /\ x \in Pass /\ y \in Pass => multi_score(x, y) = High(x, y)
BY Kinds DEF multi_score

LEMMA LowSymmetric ==
  ASSUME NEW x \in Fail, NEW y \in Fail
  PROVE  Low(x, y) = Low(y, x)
<1>1. x \in Int /\ y \in Int /\ K \in Nat
  BY Corners, Kinds
<1>2. LowNum(x, y) = LowNum(y, x)
  BY <1>1 DEF LowNum
<1>3. QED BY <1>1, <1>2, Polynomials

(* Two scores fuse to a score, and it reaches the threshold exactly when   *)
(* both of them do: the sides of the jump do not overlap.                  *)
LEMMA Sides ==
  ASSUME NEW x \in 0..Unit, NEW y \in 0..Unit
  PROVE  /\ multi_score(x, y) \in Fail \cup Pass
         /\ multi_score(x, y) \in Pass <=> x \in Pass /\ y \in Pass
<1>1. Fail \cap Pass = {}
  BY Kinds
<1>2. \A z \in 0..(16 * K) : z \in Fail
  BY Corners DEF Fail
<1>3. x \in Fail \cup Pass /\ y \in Fail \cup Pass
  BY Kinds
<1>4. CASE x \in Fail /\ y \in Fail
  BY <1>1, <1>2, <1>4, Cases, LowBounds
<1>5. CASE x \in Pass /\ y \in Fail
  BY <1>1, <1>5, Cases, MixedBounds DEF Fail
<1>6. CASE x \in Fail /\ y \in Pass
  BY <1>1, <1>6, Cases, MixedBounds DEF Fail
<1>7. CASE x \in Pass /\ y \in Pass
  BY <1>1, <1>7, Cases, HighBounds
<1>8. QED BY <1>3, <1>4, <1>5, <1>6, <1>7

LEMMA Rises ==
  ASSUME NEW x \in 0..Unit, NEW y \in 0..Unit, NEW a \in 0..Unit, NEW b \in 0..Unit,
         x <= a, y <= b
  PROVE  multi_score(x, y) <= multi_score(a, b)
<1>1. \A f \in Fail, p \in Pass : f \in Int /\ p \in Int /\ f < p
  BY Corners DEF Fail, Pass
<1>2. /\ x \in Fail \cup Pass /\ y \in Fail \cup Pass
      /\ a \in Fail \cup Pass /\ b \in Fail \cup Pass
  BY Kinds
<1>3. (x \in Pass => a \in Pass) /\ (y \in Pass => b \in Pass)
  BY <1>1, <1>2
<1>4. CASE x \in Pass /\ y \in Pass
  BY <1>3, <1>4, Cases, HighMonotone
<1>5. CASE a \in Pass /\ b \in Pass /\ ~(x \in Pass /\ y \in Pass)
  <2>1. multi_score(x, y) \in Fail /\ multi_score(a, b) \in Pass
    BY <1>5, Sides
  <2>2. QED BY <1>1, <2>1
<1>6. CASE a \in Fail /\ b \in Fail
  <2>1. x \in Fail /\ y \in Fail
    BY <1>1, <1>2, <1>3, <1>6
  <2>2. QED BY <1>6, <2>1, Cases, LowMonotone
<1>7. CASE a \in Pass /\ b \in Fail
  <2>1. y \in Fail
    BY <1>1, <1>2, <1>3, <1>7
  <2>2. CASE x \in Pass
    BY <1>7, <2>1, <2>2, Cases, MixedMonotone
  <2>3. CASE x \in Fail
    BY <1>7, <2>1, <2>3, Cases, Jump
  <2>4. QED BY <1>2, <2>2, <2>3
<1>8. CASE a \in Fail /\ b \in Pass
  <2>1. x \in Fail
    BY <1>1, <1>2, <1>3, <1>8
  <2>2. CASE y \in Pass
    BY <1>8, <2>1, <2>2, Cases, MixedMonotone
  <2>3. CASE y \in Fail
    BY <1>8, <2>1, <2>3, Cases, Jump, LowSymmetric
  <2>4. QED BY <1>2, <2>2, <2>3
<1>9. QED BY <1>2, <1>4, <1>5, <1>6, <1>7, <1>8

-----------------------------------------------------------------------------
(* The loop, on any scores.                                                *)
LSpec == LInit /\ [][LNext]_lvars

(* Both results are scores, in order, and the flag tells which side of the *)
(* threshold the first of them is on.                                      *)
LoopInv ==
  /\ score \in 0..Unit
  /\ better \in 0..Unit
  /\ all \in BOOLEAN
  /\ Monotone
  /\ Conjunction

LEMMA LoopStart == LInit => LoopInv
<1>1. \A g \in Grid : g \in 0..Unit /\ g \in Int
  BY GridOK, FusionOK
<1>2. \A g \in Int : Reaches(g) \in BOOLEAN
  BY DEF Reaches
<1>3. QED BY <1>1, <1>2 DEF LInit, LoopInv, Monotone, Conjunction

LEMMA LoopStep == LoopInv /\ [LNext]_lvars => LoopInv'
<1>1. SUFFICES ASSUME LoopInv, [LNext]_lvars PROVE LoopInv'
  OBVIOUS
<1>2. CASE UNCHANGED lvars
  BY <1>1, <1>2 DEF lvars, LoopInv, Monotone, Conjunction
<1>3. CASE LNext
  <2>1. PICK s \in Grid, b \in Grid :
          /\ b >= s
          /\ score' = multi_score(score, s)
          /\ better' = multi_score(better, b)
          /\ all' = (all /\ Reaches(s))
    BY <1>3 DEF LNext
  <2>2. s \in 0..Unit /\ b \in 0..Unit /\ s <= b
    BY <2>1, GridOK, FusionOK
  <2>3. score \in 0..Unit /\ better \in 0..Unit /\ score <= better
    BY <1>1 DEF LoopInv, Monotone
  <2>4. score' \in 0..Unit /\ better' \in 0..Unit
    BY <2>1, <2>2, <2>3, Sides, Kinds
  <2>5. score' <= better'
    BY <2>1, <2>2, <2>3, Rises
  <2>6. Reaches(score)' <=> all'
    <3>1. \A z \in 0..Unit : Reaches(z) <=> z \in Pass
      BY Kinds
    <3>2. score' \in Pass <=> score \in Pass /\ s \in Pass
      BY <2>1, <2>2, <2>3, Sides
    <3>3. Reaches(score') <=> Reaches(score) /\ Reaches(s)
      BY <2>2, <2>3, <2>4, <3>1, <3>2
    <3>4. Reaches(score) <=> all
      BY <1>1 DEF LoopInv, Conjunction
    <3>5. QED BY <2>1, <3>3, <3>4 DEF Reaches
  <2>7. all' \in BOOLEAN
    BY <2>1
  <2>8. QED BY <2>4, <2>5, <2>6, <2>7 DEF LoopInv, Monotone, Conjunction
<1>4. QED BY <1>1, <1>2, <1>3

(* However many scores there are and in whatever order, the result reaches *)
(* the threshold exactly when each of them does (calc_score, the fold of   *)
(* multi_score over a modality's or a person's scores).                    *)
THEOREM AllMustReach == LSpec => []Conjunction
<1>1. LoopInv => Conjunction
  BY DEF LoopInv
<1>2. QED BY <1>1, LoopStart, LoopStep, PTL DEF LSpec

(* A score that gets better never lowers the result, though multi_score    *)
(* jumps at the threshold and depends on the order of its arguments.       *)
THEOREM BetterNeverLowers == LSpec => []Monotone
<1>1. LoopInv => Monotone
  BY DEF LoopInv
<1>2. QED BY <1>1, LoopStart, LoopStep, PTL DEF LSpec

-----------------------------------------------------------------------------
(* The fold of calc_score: it exists, and a score reaches the threshold    *)
(* exactly when every score folded into it does.                           *)
Folded(g, base, seq) == [s \in SUBSET DOMAIN seq |->
  IF s = {} THEN base ELSE multi_score(g[s \ {Max(s)}], seq[Max(s)])]

LEMMA FoldIs ==
  ASSUME NEW base, NEW seq
  PROVE  FoldLeft(multi_score, base, seq)
           = (CHOOSE g : g = Folded(g, base, seq))[DOMAIN seq]
BY DEF FoldLeft, MapThenFoldSet, Folded

(* The fold over the subsets of a prefix.                                  *)
FoldsTo(g, base, seq, n) ==
  /\ g \in [SUBSET (1..n) -> 0..Unit]
  /\ \A s \in SUBSET (1..n) :
       g[s] = IF s = {} THEN base ELSE multi_score(g[s \ {Max(s)}], seq[Max(s)])

LEMMA UnitNat == Unit \in Nat
BY FusionOK

LEMMA ScoreElements ==
  ASSUME NEW seq \in Seq(0..Unit)
  PROVE  /\ Len(seq) \in Nat /\ DOMAIN seq = 1..Len(seq)
         /\ \A i \in 1..Len(seq) : seq[i] \in 0..Unit
<1>1. PICK S : S = 0..Unit
  OBVIOUS
<1>2. seq \in Seq(S)
  BY <1>1
<1>3. Len(seq) \in Nat /\ DOMAIN seq = 1..Len(seq) /\ \A i \in 1..Len(seq) : seq[i] \in S
  BY <1>2
<1>4. QED BY <1>1, <1>3

LEMMA FoldExtends ==
  ASSUME NEW base \in 0..Unit, NEW seq \in Seq(0..Unit), NEW n \in Nat, n + 1 <= Len(seq),
         NEW g, FoldsTo(g, base, seq, n)
  PROVE  \E h : FoldsTo(h, base, seq, n + 1)
<1> DEFINE h == [s \in SUBSET (1..(n + 1)) |->
                   IF s = {} THEN base ELSE multi_score(g[s \ {Max(s)}], seq[Max(s)])]
<1>1. ASSUME NEW s \in SUBSET (1..(n + 1)), s # {}
      PROVE  Max(s) \in s /\ s \ {Max(s)} \in SUBSET (1..n)
  <2>1. s \in SUBSET (0..(n + 1)) /\ n + 1 \in Nat
    BY <1>1
  <2>2. Max(s) \in s /\ \A k \in s : k <= Max(s)
    BY <1>1, <2>1, Greatest
  <2> DEFINE m == Max(s)
  <2>3. m \in s /\ m \in 1..(n + 1) /\ \A k \in s : k <= m
    BY <2>2
  <2> HIDE DEF m
  <2>4. \A k \in s \ {m} : k \in 1..n
    BY <2>3
  <2>5. QED BY <2>3, <2>4 DEF m
<1>2. ASSUME NEW s \in SUBSET (1..(n + 1)), s # {}
      PROVE  /\ g[s \ {Max(s)}] \in 0..Unit /\ seq[Max(s)] \in 0..Unit
             /\ multi_score(g[s \ {Max(s)}], seq[Max(s)]) \in 0..Unit
  <2>1. g[s \ {Max(s)}] \in 0..Unit
    BY <1>1, <1>2 DEF FoldsTo
  <2>2. Max(s) \in 1..Len(seq)
    <3>1. PICK m : m = Max(s) /\ m \in 1..(n + 1)
      BY <1>1, <1>2
    <3>2. QED BY <3>1, ScoreElements
  <2>3. seq[Max(s)] \in 0..Unit
    BY <2>2, ScoreElements
  <2>4. QED BY <2>1, <2>3, Sides, Kinds
<1>3. h \in [SUBSET (1..(n + 1)) -> 0..Unit]
  BY <1>2
<1>4. ASSUME NEW s \in SUBSET (1..n) PROVE h[s] = g[s]
  <2>1. s \in SUBSET (1..(n + 1))
    BY <1>4
  <2>2. QED BY <2>1 DEF FoldsTo
<1>5. ASSUME NEW s \in SUBSET (1..(n + 1))
      PROVE  h[s] = IF s = {} THEN base ELSE multi_score(h[s \ {Max(s)}], seq[Max(s)])
  <2>1. CASE s = {}
    BY <2>1
  <2>2. CASE s # {}
    <3>1. h[s \ {Max(s)}] = g[s \ {Max(s)}]
      BY <1>1, <1>4, <2>2
    <3>2. h[s] = multi_score(g[s \ {Max(s)}], seq[Max(s)])
      BY <2>2
    <3>3. QED BY <2>2, <3>1, <3>2
  <2>3. QED BY <2>1, <2>2
<1> HIDE DEF h
<1>6. FoldsTo(h, base, seq, n + 1)
  BY <1>3, <1>5 DEF FoldsTo
<1>7. QED BY <1>6

LEMMA FoldExists ==
  ASSUME NEW base \in 0..Unit, NEW seq \in Seq(0..Unit)
  PROVE  \E g : FoldsTo(g, base, seq, Len(seq))
<1> DEFINE S == {n \in Nat : n <= Len(seq) => \E g : FoldsTo(g, base, seq, n)}
<1>1. 0 \in S
  <2>1. SUBSET (1..0) = {{}}
    OBVIOUS
  <2>2. FoldsTo([s \in SUBSET (1..0) |-> base], base, seq, 0)
    BY <2>1 DEF FoldsTo
  <2>3. QED BY <2>2
<1>2. ASSUME NEW n \in S PROVE n + 1 \in S
  <2>1. SUFFICES ASSUME n + 1 <= Len(seq) PROVE \E g : FoldsTo(g, base, seq, n + 1)
    OBVIOUS
  <2>2. PICK g : FoldsTo(g, base, seq, n)
    BY <1>2, <2>1
  <2>3. QED BY <2>1, <2>2, FoldExtends
<1>3. S = Nat
  <2> HIDE DEF S
  <2>1. S \in SUBSET Nat
    BY DEF S
  <2>2. QED BY <1>1, <1>2, <2>1, SetInduction
<1>4. QED BY <1>3, ScoreElements

LEMMA FoldReaches ==
  ASSUME NEW base \in 0..Unit, NEW seq \in Seq(0..Unit)
  PROVE  /\ FoldLeft(multi_score, base, seq) \in 0..Unit
         /\ FoldLeft(multi_score, base, seq) \in Pass
              <=> base \in Pass /\ \A i \in 1..Len(seq) : seq[i] \in Pass
<1> DEFINE len == Len(seq)
           g == CHOOSE f : f = Folded(f, base, seq)
<1>1. g = Folded(g, base, seq)
  <2>1. PICK f : FoldsTo(f, base, seq, len)
    BY FoldExists
  <2>2. f = Folded(f, base, seq)
    <3>1. DOMAIN seq = 1..len
      OBVIOUS
    <3>2. f \in [SUBSET (1..len) -> 0..Unit]
      BY <2>1 DEF FoldsTo
    <3>3. QED BY <2>1, <3>1, <3>2 DEF FoldsTo, Folded
  <2>3. QED BY <2>2, Zenon
<1> HIDE DEF g
<1>2. ASSUME NEW s \in SUBSET (1..len)
      PROVE  g[s] = IF s = {} THEN base ELSE multi_score(g[s \ {Max(s)}], seq[Max(s)])
  <2>1. s \in SUBSET DOMAIN seq
    BY ScoreElements
  <2>2. Folded(g, base, seq)[s] = IF s = {} THEN base ELSE multi_score(g[s \ {Max(s)}], seq[Max(s)])
    BY <2>1 DEF Folded
  <2>3. QED BY <1>1, <2>2
<1> DEFINE Fits(n) == /\ g[1..n] \in 0..Unit
                      /\ g[1..n] \in Pass <=> base \in Pass /\ \A i \in 1..n : seq[i] \in Pass
           S == {n \in Nat : n <= len => Fits(n)}
<1>3. 0 \in S
  <2>1. 1..0 = {}
    OBVIOUS
  <2>2. g[{}] = base
    BY <1>2
  <2>3. QED BY <2>1, <2>2
<1>4. ASSUME NEW n \in S PROVE n + 1 \in S
  <2>1. SUFFICES ASSUME n + 1 <= len PROVE Fits(n + 1)
    OBVIOUS
  <2>2. Fits(n) /\ n \in Nat
    BY <1>4, <2>1
  <2>3. Max(1..(n + 1)) = n + 1
    <3>1. 1..(n + 1) \in SUBSET (0..(n + 1)) /\ n + 1 \in 1..(n + 1) /\ n + 1 \in Nat
      BY <2>2
    <3>2. Max(1..(n + 1)) \in 1..(n + 1) /\ \A k \in 1..(n + 1) : k <= Max(1..(n + 1))
      BY <3>1, Greatest
    <3>3. QED BY <3>1, <3>2
  <2>4. (1..(n + 1)) \ {n + 1} = 1..n /\ 1..(n + 1) # {} /\ 1..(n + 1) \in SUBSET (1..len)
    <3>1. len \in Nat /\ n + 1 <= len /\ n \in Nat
      BY <2>1, <2>2, ScoreElements
    <3>2. n + 1 \in 1..(n + 1)
      BY <3>1
    <3>3. 1..(n + 1) \subseteq 1..len
      BY <3>1
    <3>4. (1..(n + 1)) \ {n + 1} = 1..n
      BY <3>1
    <3>5. QED BY <3>2, <3>3, <3>4
  <2>5. g[1..(n + 1)] = multi_score(g[1..n], seq[n + 1])
    BY <1>2, <2>3, <2>4
  <2>6. seq[n + 1] \in 0..Unit
    BY <2>1, <2>2, ScoreElements
  <2>7. \A i \in 1..(n + 1) : i \in 1..n \/ i = n + 1
    BY <2>2
  <2>8. n + 1 \in 1..(n + 1) /\ 1..n \subseteq 1..(n + 1)
    BY <2>2
  <2>9. g[1..(n + 1)] \in Fail \cup Pass
    BY <2>2, <2>5, <2>6, Sides
  <2>10. g[1..(n + 1)] \in Pass <=> g[1..n] \in Pass /\ seq[n + 1] \in Pass
    BY <2>2, <2>5, <2>6, Sides
  <2>11. QED BY <2>2, <2>7, <2>8, <2>9, <2>10, Kinds
<1>5. S = Nat
  <2> HIDE DEF S
  <2>1. S \in SUBSET Nat
    BY DEF S
  <2>2. QED BY <1>3, <1>4, <2>1, SetInduction
<1>6. Fits(len)
  BY <1>5, ScoreElements
<1>7. FoldLeft(multi_score, base, seq) = g[1..len]
  <2>1. DOMAIN seq = 1..len
    OBVIOUS
  <2>2. QED BY <2>1, FoldIs DEF g
<1>8. QED BY <1>6, <1>7

LEMMA NormalScore ==
  ASSUME NEW s \in 0..Unit, NEW t \in 1..Unit
  PROVE  Normal(s, t) \in 0..Unit
<1>1. s \in Nat /\ t \in Nat /\ t > 0 /\ T \in Nat
  BY UnitNat, Corners
<1>2. s * T \in Int /\ 0 * t <= s * T
  BY <1>1
<1>3. (s * T) \div t \in Int /\ 0 <= (s * T) \div t
  BY <1>1, <1>2, Quotient, QuotientAtLeast, 0 \in Int
<1>4. QED BY <1>3, UnitNat DEF Normal

LEMMA NormalIdentity ==
  ASSUME NEW s \in 0..Unit
  PROVE  T \in 1..Unit /\ Normal(s, T) = s
<1>1. s \in Int /\ T \in Nat /\ T > 0 /\ T <= Unit /\ Unit \in Nat
  BY UnitNat, Corners
<1>2. s * T \in Int /\ (s * T) \div T \in Int /\ (s * T) \div T <= s /\ s <= (s * T) \div T
  BY <1>1, Quotient, QuotientAtMost, QuotientAtLeast
<1>3. (s * T) \div T = s
  BY <1>1, <1>2
<1>4. QED BY <1>1, <1>3 DEF Normal

(* calc_score of a vector reaches the threshold exactly when every score,  *)
(* relative to the threshold given, does.                                  *)
LEMMA CalcReaches ==
  ASSUME NEW t \in 1..Unit, NEW seq \in Seq(0..Unit), seq # <<>>
  PROVE  /\ calc_score(seq, t) \in 0..Unit
         /\ calc_score(seq, t) \in Pass <=> \A i \in DOMAIN seq : Normal(seq[i], t) \in Pass
<1> DEFINE normal == [i \in DOMAIN seq |-> Normal(seq[i], t)]
<1>1. PICK len \in Nat : len = Len(seq) /\ len > 0 /\ DOMAIN seq = 1..len
  BY ScoreElements
<1>2. \A i \in 1..len : Normal(seq[i], t) \in 0..Unit
  BY <1>1, ScoreElements, NormalScore
<1>3. /\ normal \in Seq(0..Unit) /\ Len(normal) = len
      /\ \A i \in 1..len : normal[i] = Normal(seq[i], t)
  BY <1>1, <1>2
<1> HIDE DEF normal
<1>4. normal # <<>>
  BY <1>1, <1>3
<1>5. PICK S : S = 0..Unit
  OBVIOUS
<1>6. /\ Head(normal) = normal[1] /\ Tail(normal) \in Seq(S) /\ Len(Tail(normal)) = len - 1
      /\ \A i \in 1..(len - 1) : Tail(normal)[i] = normal[i + 1]
  BY <1>1, <1>3, <1>4, <1>5
<1>7. normal[1] \in 0..Unit
  BY <1>1, <1>2, <1>3
<1>8. calc_score(seq, t) = FoldLeft(multi_score, normal[1], Tail(normal))
  BY <1>6 DEF calc_score, normal
<1>9. /\ calc_score(seq, t) \in 0..Unit
      /\ calc_score(seq, t) \in Pass
           <=> normal[1] \in Pass /\ \A i \in 1..(len - 1) : Tail(normal)[i] \in Pass
  <2>1. PICK rest \in Seq(0..Unit) : rest = Tail(normal) /\ Len(rest) = len - 1
    BY <1>5, <1>6
  <2>2. PICK base \in 0..Unit : base = normal[1]
    BY <1>7
  <2>3. /\ FoldLeft(multi_score, base, rest) \in 0..Unit
        /\ FoldLeft(multi_score, base, rest) \in Pass
             <=> base \in Pass /\ \A i \in 1..Len(rest) : rest[i] \in Pass
    BY FoldReaches
  <2>4. QED BY <1>8, <2>1, <2>2, <2>3
<1>10. (normal[1] \in Pass /\ \A i \in 1..(len - 1) : normal[i + 1] \in Pass)
         <=> \A i \in 1..len : normal[i] \in Pass
  <2>1. \A i \in 1..len : i = 1 \/ (i - 1 \in 1..(len - 1) /\ (i - 1) + 1 = i)
    BY <1>1
  <2>2. 1 \in 1..len /\ \A i \in 1..(len - 1) : i + 1 \in 1..len
    BY <1>1
  <2>3. QED BY <2>1, <2>2
<1>11. QED BY <1>1, <1>3, <1>6, <1>9, <1>10

-----------------------------------------------------------------------------
(* verify_get                                                              *)
LEMMA ConcatAll ==
  ASSUME NEW S, NEW s \in Seq(S), NEW t \in Seq(S), NEW P
  PROVE  /\ s \o t \in Seq(S)
         /\ (\A i \in DOMAIN (s \o t) : (s \o t)[i] \in P)
              <=> (\A i \in DOMAIN s : s[i] \in P) /\ (\A i \in DOMAIN t : t[i] \in P)
         /\ s \o t = <<>> <=> s = <<>> /\ t = <<>>
<1>1. s \o t \in Seq(S) /\ Len(s \o t) = Len(s) + Len(t) /\ Len(s) \in Nat /\ Len(t) \in Nat
  OBVIOUS
<1>2. /\ DOMAIN s = 1..Len(s) /\ DOMAIN t = 1..Len(t)
      /\ DOMAIN (s \o t) = 1..(Len(s) + Len(t))
  BY <1>1
<1>3. /\ \A i \in 1..Len(s) : (s \o t)[i] = s[i]
      /\ \A i \in 1..Len(t) : (s \o t)[Len(s) + i] = t[i]
  OBVIOUS
<1>4. /\ \A i \in 1..Len(s) : i \in 1..(Len(s) + Len(t))
      /\ \A i \in 1..Len(t) : Len(s) + i \in 1..(Len(s) + Len(t))
      /\ \A i \in 1..(Len(s) + Len(t)) :
           i \in 1..Len(s) \/ \E j \in 1..Len(t) : i = Len(s) + j
  <2>1. PICK m \in Nat, n \in Nat : m = Len(s) /\ n = Len(t)
    BY <1>1
  <2>2. ASSUME NEW i \in 1..(m + n), i \notin 1..m
        PROVE  \E j \in 1..n : i = m + j
    <3>1. i - m \in 1..n /\ i = m + (i - m)
      BY <2>2
    <3>2. QED BY <3>1
  <2>3. (\A i \in 1..m : i \in 1..(m + n)) /\ \A i \in 1..n : m + i \in 1..(m + n)
    OBVIOUS
  <2>4. QED BY <2>1, <2>2, <2>3
<1>5. s \o t = <<>> <=> s = <<>> /\ t = <<>>
  BY <1>1
<1>6. ASSUME \A i \in DOMAIN (s \o t) : (s \o t)[i] \in P
      PROVE  (\A i \in DOMAIN s : s[i] \in P) /\ \A i \in DOMAIN t : t[i] \in P
  <2> DEFINE u == s \o t
  <2> HIDE DEF u
  <2>1. (\A i \in 1..Len(s) : u[i] \in P) /\ \A i \in 1..Len(t) : u[Len(s) + i] \in P
    BY <1>2, <1>4, <1>6 DEF u
  <2>2. QED BY <1>2, <1>3, <2>1 DEF u
<1>7. ASSUME \A i \in DOMAIN s : s[i] \in P, \A i \in DOMAIN t : t[i] \in P
      PROVE  \A i \in DOMAIN (s \o t) : (s \o t)[i] \in P
  <2> DEFINE u == s \o t
  <2> HIDE DEF u
  <2>1. (\A i \in 1..Len(s) : u[i] \in P) /\ \A i \in 1..Len(t) : u[Len(s) + i] \in P
    BY <1>2, <1>3, <1>7 DEF u
  <2>2. QED BY <1>2, <1>4, <2>1 DEF u
<1>8. QED BY <1>1, <1>5, <1>6, <1>7

Sufficed(m) == \A i \in DOMAIN scores[m] : Normal(scores[m][i], Threshold[m]) \in Pass

LEMMA ModalReaches ==
  ASSUME NEW m \in Modalities, scores \in [Modalities -> Seq(0..Unit)]
  PROVE  /\ ModalScore(m) \in Seq(0..Unit)
         /\ ModalScore(m) = <<>> <=> scores[m] = <<>>
         /\ (\A i \in DOMAIN ModalScore(m) : ModalScore(m)[i] \in Pass) <=> Sufficed(m)
<1>1. scores[m] \in Seq(0..Unit) /\ Threshold[m] \in 1..Unit
  BY SamplesOK
<1>2. CASE scores[m] = <<>>
  BY <1>2 DEF ModalScore, Sufficed
<1>3. CASE scores[m] # <<>>
  <2>1. PICK c \in 0..Unit : c = calc_score(scores[m], Threshold[m])
    BY <1>1, <1>3, CalcReaches
  <2>2. c \in Pass <=> Sufficed(m)
    BY <1>1, <1>3, <2>1, CalcReaches DEF Sufficed
  <2>3. ModalScore(m) = <<c>>
    BY <1>3, <2>1 DEF ModalScore
  <2>4. <<c>> \in Seq(0..Unit) /\ <<c>> # <<>> /\ DOMAIN <<c>> = {1} /\ <<c>>[1] = c
    BY <2>1
  <2>5. QED BY <1>3, <2>2, <2>3, <2>4
<1>4. QED BY <1>2, <1>3

(* The fused score of the request, from the scores counted.                *)
LEMMA ScoreReaches ==
  ASSUME scores \in [Modalities -> Seq(0..Unit)]
  PROVE  /\ Score \in 0..Unit
         /\ Score \in Pass <=> /\ \E m \in Modalities : scores[m] # <<>>
                              /\ \A m \in Modalities : Sufficed(m)
<1> DEFINE a == ModalScore("face")
           b == ModalScore("finger")
           c == ModalScore("iris")
           fused == a \o b \o c
<1>1. "face" \in Modalities /\ "finger" \in Modalities /\ "iris" \in Modalities
  BY DEF Modalities
<1>2. a \in Seq(0..Unit) /\ b \in Seq(0..Unit) /\ c \in Seq(0..Unit)
  BY <1>1, ModalReaches
<1>3. /\ fused \in Seq(0..Unit)
      /\ fused = <<>> <=> a = <<>> /\ b = <<>> /\ c = <<>>
      /\ (\A i \in DOMAIN fused : fused[i] \in Pass)
           <=> /\ \A i \in DOMAIN a : a[i] \in Pass
               /\ \A i \in DOMAIN b : b[i] \in Pass
               /\ \A i \in DOMAIN c : c[i] \in Pass
  <2> HIDE DEF a, b, c
  <2> DEFINE ab == a \o b
  <2> HIDE DEF ab
  <2>1. ab \in Seq(0..Unit) /\ (ab = <<>> <=> a = <<>> /\ b = <<>>)
    BY <1>2, ConcatAll DEF ab
  <2>2. (\A i \in DOMAIN ab : ab[i] \in Pass)
          <=> (\A i \in DOMAIN a : a[i] \in Pass) /\ \A i \in DOMAIN b : b[i] \in Pass
    BY <1>2, ConcatAll DEF ab
  <2>3. fused \in Seq(0..Unit) /\ (fused = <<>> <=> ab = <<>> /\ c = <<>>)
    BY <1>2, <2>1, ConcatAll DEF ab
  <2>4. (\A i \in DOMAIN fused : fused[i] \in Pass)
          <=> (\A i \in DOMAIN ab : ab[i] \in Pass) /\ \A i \in DOMAIN c : c[i] \in Pass
    BY <1>2, <2>1, ConcatAll DEF ab
  <2> HIDE DEF fused
  <2>5. QED BY <2>1, <2>2, <2>3, <2>4
<1>4. fused = <<>> <=> \A m \in Modalities : scores[m] = <<>>
  BY <1>1, <1>3, ModalReaches DEF Modalities
<1>5. (\A i \in DOMAIN fused : fused[i] \in Pass) <=> \A m \in Modalities : Sufficed(m)
  BY <1>1, <1>3, ModalReaches DEF Modalities
<1>6. Score = IF fused = <<>> THEN 0 ELSE calc_score(fused, T)
  BY DEF Score
<1> HIDE DEF fused
<1>7. CASE fused = <<>>
  <2>1. 0 \in 0..Unit /\ 0 \notin Pass
    BY UnitNat, Corners DEF Pass
  <2>2. QED BY <1>4, <1>6, <1>7, <2>1
<1>8. CASE fused # <<>>
  <2>1. \A i \in DOMAIN fused : fused[i] \in 0..Unit
    BY <1>3, ScoreElements
  <2>2. T \in 1..Unit /\ \A i \in DOMAIN fused : Normal(fused[i], T) = fused[i]
    BY <2>1, NormalIdentity, UnitNat
  <2>3. /\ calc_score(fused, T) \in 0..Unit
        /\ calc_score(fused, T) \in Pass <=> \A i \in DOMAIN fused : Normal(fused[i], T) \in Pass
    BY <1>3, <1>8, <2>2, CalcReaches
  <2>4. QED BY <1>4, <1>5, <1>6, <1>8, <2>2, <2>3
<1>9. QED BY <1>7, <1>8

(* A score of a sample is the best of its scores with the rows; it is no   *)
(* less than the tolerance when a row has another type.                    *)
LinksOK == links \in Seq(Modalities) /\ Len(links) <= MaxLinks

LEMMA BestRow ==
  ASSUME LinksOK, NEW s \in Samples
  PROVE  /\ CmpScore(s) \in 0..Unit
         /\ \A r \in DOMAIN links : links[r] # s.type => ABIS_FLOAT_THRESHOLD <= CmpScore(s)
<1> DEFINE S == {0} \cup {RowScore(s, r) : r \in DOMAIN links}
<1>1. ABIS_FLOAT_THRESHOLD \in 0..Unit /\ 0 \in 0..Unit
  BY Corners, UnitNat DEF E
<1>2. ASSUME NEW c \in -1..Unit PROVE Max({0, c}) \in 0..Unit
  <2>1. CASE c = -1
    <3>1. 0 \in {0, c} /\ \A k \in {0, c} : 0 >= k
      BY <2>1
    <3>2. Max({0, c}) \in {0, c} /\ \A k \in {0, c} : Max({0, c}) >= k
      BY <3>1, Zenon DEF Max
    <3>3. QED BY <2>1, <3>2, UnitNat
  <2>2. CASE c # -1
    <3>1. {0, c} \in SUBSET (0..Unit) /\ {0, c} # {}
      BY <1>2, <2>2, UnitNat
    <3>2. QED BY <3>1, Greatest, UnitNat
  <2>3. QED BY <2>1, <2>2
<1>3. ASSUME NEW r \in DOMAIN links
      PROVE  RowScore(s, r) \in 0..Unit
  <2>1. r \in 1..MaxLinks
    BY SamplesOK DEF LinksOK
  <2>2. s.cmp[r] \in -1..Unit
    BY <2>1, SamplesOK
  <2>3. QED BY <1>1, <1>2, <2>2 DEF RowScore
<1>4. S \in SUBSET (0..Unit) /\ S # {}
  BY <1>1, <1>3
<1>5. CmpScore(s) = Max(S)
  BY DEF CmpScore
<1>6. Max(S) \in S /\ \A k \in S : k <= Max(S)
  <2> HIDE DEF S
  <2>1. QED BY <1>4, Greatest, UnitNat
<1>7. ASSUME NEW r \in DOMAIN links, links[r] # s.type
      PROVE  ABIS_FLOAT_THRESHOLD \in S
  <2>1. RowScore(s, r) = ABIS_FLOAT_THRESHOLD
    BY <1>7 DEF RowScore
  <2>2. QED BY <2>1
<1>8. QED
  <2> HIDE DEF S
  <2>1. QED BY <1>4, <1>5, <1>6, <1>7

(* The scores kept are those of the samples counted so far.                *)
ScoresAreOf(m) ==
  /\ \A s \in Seen : Counted(s) /\ s.type = m =>
       \E i \in DOMAIN scores[m] : scores[m][i] = CmpScore(s)
  /\ \A i \in DOMAIN scores[m] :
       \E s \in Seen : Counted(s) /\ s.type = m /\ scores[m][i] = CmpScore(s)

VerifyInv ==
  /\ LinksOK
  /\ seen \in Seq(Samples)
  /\ scores \in [Modalities -> Seq(0..Unit)]
  /\ \A m \in Modalities : ScoresAreOf(m)
  /\ total \in {-1, -2} \/ total = Score

LEMMA VerifyStart == VInit => VerifyInv
<1>1. SUFFICES ASSUME VInit PROVE VerifyInv
  OBVIOUS
<1>2. LinksOK
  <2>1. PICK n \in 0..MaxLinks : links \in [1..n -> Modalities]
    BY <1>1 DEF VInit
  <2>2. n \in Nat /\ n <= MaxLinks
    BY SamplesOK
  <2>3. QED BY <2>1, <2>2 DEF LinksOK
<1>3. seen \in Seq(Samples) /\ scores \in [Modalities -> Seq(0..Unit)] /\ total = -1
  BY <1>1 DEF VInit
<1>4. \A m \in Modalities : ScoresAreOf(m)
  BY <1>1 DEF VInit, ScoresAreOf, Seen
<1>5. QED BY <1>2, <1>3, <1>4 DEF VerifyInv

LEMMA VerifyCounts ==
  ASSUME VerifyInv, NEW s \in Samples, Verify(s)
  PROVE  VerifyInv'
<1>1. /\ UNCHANGED <<links, total>> /\ seen' = Append(seen, s) /\ total = -1
      /\ scores' = IF Counted(s) THEN [scores EXCEPT ![s.type] = Append(@, CmpScore(s))]
                                 ELSE scores
  BY DEF Verify
<1>2. LinksOK' /\ seen' \in Seq(Samples)
  BY <1>1 DEF VerifyInv, LinksOK
<1>3. CmpScore(s) \in 0..Unit
  BY BestRow DEF VerifyInv
<1>4. scores' \in [Modalities -> Seq(0..Unit)]
  <2>1. CASE Counted(s)
    <3>1. s.type \in Modalities /\ scores[s.type] \in Seq(0..Unit)
      BY <2>1 DEF Counted, VerifyInv
    <3>2. Append(scores[s.type], CmpScore(s)) \in Seq(0..Unit)
      BY <1>3, <3>1
    <3>3. QED BY <1>1, <2>1, <3>1, <3>2 DEF VerifyInv
  <2>2. QED BY <1>1, <2>1 DEF VerifyInv
<1>5. Seen' = Seen \cup {s}
  <2>1. PICK n \in Nat : n = Len(seen)
    BY DEF VerifyInv
  <2>2. /\ DOMAIN seen = 1..n /\ DOMAIN seen' = 1..(n + 1)
        /\ \A i \in 1..n : seen'[i] = seen[i] /\ i \in 1..(n + 1)
        /\ seen'[n + 1] = s /\ n + 1 \in 1..(n + 1)
        /\ \A i \in 1..(n + 1) : i \in 1..n \/ i = n + 1
    BY <1>1, <2>1 DEF VerifyInv
  <2>3. QED BY <2>2 DEF Seen
<1>6. \A r \in Samples : Counted(r)' = Counted(r) /\ CmpScore(r)' = CmpScore(r)
  BY <1>1 DEF Counted, CmpScore, RowScore
<1>7. ASSUME NEW m \in Modalities
      PROVE  ScoresAreOf(m)'
  <2>1. ScoresAreOf(m) /\ Seen \subseteq Samples
    BY DEF VerifyInv, Seen
  <2>2. CASE Counted(s) /\ s.type = m
    <3>1. scores'[m] = Append(scores[m], CmpScore(s)) /\ scores[m] \in Seq(0..Unit)
      BY <1>1, <2>2 DEF VerifyInv
    <3>2. PICK n \in Nat : n = Len(scores[m])
      BY <3>1
    <3>3. /\ DOMAIN scores[m] = 1..n /\ DOMAIN scores'[m] = 1..(n + 1)
          /\ \A i \in 1..n : scores'[m][i] = scores[m][i] /\ i \in 1..(n + 1)
          /\ scores'[m][n + 1] = CmpScore(s) /\ n + 1 \in 1..(n + 1)
          /\ \A i \in 1..(n + 1) : i \in 1..n \/ i = n + 1
      BY <3>1, <3>2, ScoreElements
    <3>4. ASSUME NEW r \in Seen', Counted(r)', r.type = m
          PROVE  \E i \in DOMAIN scores'[m] : scores'[m][i] = CmpScore(r)'
      <4>1. CASE r = s
        BY <1>6, <3>3, <4>1
      <4>2. CASE r # s
        <5>1. r \in Seen /\ Counted(r) /\ CmpScore(r)' = CmpScore(r)
          BY <1>5, <1>6, <2>1, <3>4, <4>2
        <5>2. PICK i \in DOMAIN scores[m] : scores[m][i] = CmpScore(r)
          BY <2>1, <3>4, <5>1 DEF ScoresAreOf
        <5>3. QED BY <3>3, <5>1, <5>2
      <4>3. QED BY <4>1, <4>2
    <3>5. ASSUME NEW i \in DOMAIN scores'[m]
          PROVE  \E r \in Seen' : Counted(r)' /\ r.type = m /\ scores'[m][i] = CmpScore(r)'
      <4>1. CASE i = n + 1
        BY <1>5, <1>6, <2>2, <3>3, <4>1
      <4>2. CASE i \in 1..n
        <5>1. PICK r \in Seen : Counted(r) /\ r.type = m /\ scores[m][i] = CmpScore(r)
          BY <2>1, <3>3, <4>2 DEF ScoresAreOf
        <5>2. QED BY <1>5, <1>6, <2>1, <3>3, <4>2, <5>1
      <4>3. QED BY <3>3, <4>1, <4>2
    <3>6. QED BY <3>4, <3>5 DEF ScoresAreOf
  <2>3. CASE ~(Counted(s) /\ s.type = m)
    <3>1. scores'[m] = scores[m]
      BY <1>1, <2>3 DEF VerifyInv
    <3>2. QED BY <1>5, <1>6, <2>1, <2>3, <3>1 DEF ScoresAreOf
  <2>4. QED BY <2>2, <2>3
<1>8. QED BY <1>1, <1>2, <1>4, <1>7 DEF VerifyInv

LEMMA VerifyStep == VerifyInv /\ [VNext]_vvars => VerifyInv'
<1>1. SUFFICES ASSUME VerifyInv, [VNext]_vvars PROVE VerifyInv'
  OBVIOUS
<1>2. CASE UNCHANGED <<links, seen, scores>> /\ (total' = total \/ total' \in {-2, Score})
  <2>1. /\ Seen' = Seen /\ LinksOK' = LinksOK
        /\ \A s : Counted(s)' = Counted(s) /\ CmpScore(s)' = CmpScore(s)
    BY <1>2 DEF Seen, LinksOK, Counted, CmpScore, RowScore
  <2>2. \A m \in Modalities : ScoresAreOf(m)'
    BY <1>1, <1>2, <2>1 DEF VerifyInv, ScoresAreOf
  <2>3. Score' = Score
    BY <1>2 DEF Score, ModalScore
  <2>4. QED BY <1>1, <1>2, <2>1, <2>2, <2>3 DEF VerifyInv
<1>3. QED
  BY <1>1, <1>2, VerifyCounts DEF VNext, NoLinks, Total, Verified, vvars

LEMMA VerifyAlways == VSpec => []VerifyInv
BY VerifyStart, VerifyStep, PTL DEF VSpec

LEMMA ReachesPass == \A z \in 0..Unit : Reaches(z) <=> z \in Pass
BY Kinds

(* A request is verified exactly when some sample was counted and every    *)
(* counted sample matches: no good sample makes up for one that does not   *)
(* match, in whatever order and however many there are (verify_get).       *)
THEOREM EverySampleMustMatch == VSpec => []EverySampleMatches
<1>1. ASSUME VerifyInv
      PROVE  EverySampleMatches
  <2>1. SUFFICES ASSUME total >= 0
                 PROVE  Reaches(total) <=> /\ \E s \in Seen : Counted(s)
                                           /\ \A s \in Seen : Counted(s) => Matches(s)
    BY DEF EverySampleMatches
  <2>2. total = Score /\ Score \in 0..Unit
    BY <1>1, <2>1, ScoreReaches DEF VerifyInv
  <2>3. Reaches(total) <=> /\ \E m \in Modalities : scores[m] # <<>>
                           /\ \A m \in Modalities : Sufficed(m)
    BY <1>1, <2>2, ScoreReaches, ReachesPass DEF VerifyInv
  <2>4. ASSUME NEW m \in Modalities
        PROVE  (scores[m] # <<>>) <=> (DOMAIN scores[m] # {})
    <3>1. scores[m] \in Seq(0..Unit)
      BY <1>1 DEF VerifyInv
    <3>2. QED BY <3>1, Empty
  <2>5. (\E m \in Modalities : scores[m] # <<>>) <=> \E s \in Seen : Counted(s)
    <3>1. \A s \in Seen : Counted(s) => s.type \in Modalities
      BY DEF Counted
    <3>2. QED BY <1>1, <2>4, <3>1 DEF VerifyInv, ScoresAreOf
  <2>6. ASSUME NEW s \in Seen, Counted(s)
        PROVE  Matches(s) <=> Normal(CmpScore(s), Threshold[s.type]) \in Pass
    <3>1. s \in Samples /\ s.type \in Modalities
      BY <1>1, <2>6 DEF VerifyInv, Seen, Counted
    <3>2. CmpScore(s) \in 0..Unit /\ Threshold[s.type] \in 1..Unit
      BY <1>1, <3>1, BestRow, SamplesOK DEF VerifyInv
    <3>3. QED BY <3>2, NormalScore, ReachesPass DEF Matches
  <2>7. (\A m \in Modalities : Sufficed(m)) <=> \A s \in Seen : Counted(s) => Matches(s)
    <3>1. ASSUME \A m \in Modalities : Sufficed(m), NEW s \in Seen, Counted(s)
          PROVE  Matches(s)
      <4>1. s.type \in Modalities
        BY <3>1 DEF Counted
      <4>2. PICK i \in DOMAIN scores[s.type] : scores[s.type][i] = CmpScore(s)
        BY <1>1, <3>1, <4>1 DEF VerifyInv, ScoresAreOf
      <4>3. QED BY <2>6, <3>1, <4>1, <4>2 DEF Sufficed
    <3>2. ASSUME \A s \in Seen : Counted(s) => Matches(s), NEW m \in Modalities
          PROVE  Sufficed(m)
      <4>1. ASSUME NEW i \in DOMAIN scores[m]
            PROVE  Normal(scores[m][i], Threshold[m]) \in Pass
        <5>1. PICK s \in Seen : Counted(s) /\ s.type = m /\ scores[m][i] = CmpScore(s)
          BY <1>1, <3>2, <4>1 DEF VerifyInv, ScoresAreOf
        <5>2. QED BY <2>6, <3>2, <5>1
      <4>2. QED BY <4>1 DEF Sufficed
    <3>3. QED BY <3>1, <3>2
  <2>8. QED BY <2>3, <2>5, <2>7
<1>2. QED BY <1>1, VerifyAlways, PTL

(* With templates of two modalities in the biocard every extracted sample  *)
(* is counted, so that every one of them must match.                       *)
THEOREM NothingIsLeftOut == VSpec => []NothingLeftOut
<1>1. ASSUME VerifyInv, EverySampleMatches
      PROVE  NothingLeftOut
  <2>1. SUFFICES ASSUME total >= 0, Reaches(total),
                        NEW i \in DOMAIN links, NEW j \in DOMAIN links, links[i] # links[j],
                        NEW s \in Seen, s.ok, s.type \in Modalities
                 PROVE  Matches(s)
    BY DEF NothingLeftOut
  <2>2. PICK r \in DOMAIN links : links[r] # s.type
    BY <2>1
  <2>3. s \in Samples
    BY <1>1 DEF VerifyInv, Seen
  <2>4. ABIS_FLOAT_THRESHOLD <= CmpScore(s) /\ CmpScore(s) \in 0..Unit
    BY <1>1, <2>2, <2>3, BestRow DEF VerifyInv
  <2>5. CmpScore(s) >= ABIS_FLOAT_THRESHOLD
    BY <2>4, Corners, UnitNat DEF E
  <2>6. Counted(s)
    BY <2>1, <2>5 DEF Counted
  <2>7. QED BY <1>1, <2>1, <2>6 DEF EverySampleMatches
<1>2. QED BY <1>1, VerifyAlways, EverySampleMustMatch, PTL

-----------------------------------------------------------------------------
(* Comparison (compare_get).                                               *)

(* What every step keeps of the shape of the state; an array that is not a *)
(* pair lets no task past its first test.                                  *)
Shape ==
  /\ arr \in Seq(Elements)
  /\ pc \in [Tasks -> Accesses \cup {"queued"}]
  /\ type = [t \in Tasks |-> type[t]]
  /\ reg = [t \in Tasks |-> reg[t]]
  /\ freed = [t \in Tasks |-> freed[t]]
  /\ step \in BOOLEAN
  /\ Len(arr) # 2 =>
       /\ ~step /\ tmps = <<>>
       /\ \A t \in Tasks : pc[t] \in {"queued", "step", "push", "end"}

(* Without any template no task gets to push: step is true only as long as *)
(* no task has stored the outcome of its extraction, which is false.       *)
Hopeless == Len(arr) = 2 /\ \A t \in 1..Len(arr) : ~Good(arr[t])
Early == {"queued", "step", "xyt", "tmp", "res", "setStep"}
Late == {"size", "store", "type", "setType", "match", "setMatch"}

Fruitless ==
  /\ tmps = <<>> /\ ~(res > 0)
  /\ \A t \in Tasks :
       /\ pc[t] \notin Late
       /\ pc[t] = "setStep" => reg[t] = 0
       /\ step => pc[t] \in Early

HopelessInv == Hopeless => Fruitless

USE ElementsOK DEF Tasks, At, Goto, Accesses

(* The state begins and stays in shape.                                    *)
LEMMA ShapeInit == Init => Shape /\ HopelessInv
<1> SUFFICES ASSUME Init PROVE Shape /\ HopelessInv
  OBVIOUS
<1>1. arr \in Seq(Elements)
  <2>1. PICK n \in Lengths : arr \in [1..n -> Elements]
    BY DEF Init
  <2>2. QED BY <2>1
<1>2. Shape
  BY <1>1 DEF Init, Shape
<1>3. HopelessInv
  BY DEF Init, HopelessInv, Fruitless, Early, Late
<1>4. QED BY <1>2, <1>3

LEMMA ShapeStep == Shape /\ [Next]_vars => Shape'
<1> SUFFICES ASSUME Shape, [Next]_vars PROVE Shape'
  OBVIOUS
<1> USE DEF Shape
<1>1. ASSUME NEW t \in Tasks, Access(t) PROVE Shape'
  <2>1. CASE Start(t)
    BY <2>1 DEF Start, input, shared
  <2>2. CASE TestStep(t)
    BY <2>2 DEF TestStep, input, shared
  <2>3. CASE XytFromJson(t)
    <3>1. CASE Extract(t)
      BY <2>3, <3>1 DEF XytFromJson, Extract, input
    <3>2. CASE ~arr[t].xyt
      BY <2>3, <3>1, <3>2 DEF XytFromJson, input
    <3>3. QED BY <2>3, <3>1, <3>2 DEF XytFromJson
  <2>4. CASE TmpFromJson(t)
    BY <2>4 DEF TmpFromJson, Extract, input
  <2>5. CASE ReadRes(t)
    BY <2>5 DEF ReadRes, input, shared
  <2>6. CASE SetStep(t)
    BY <2>6 DEF SetStep, input
  <2>7. CASE FreeIfFailed(t)
    BY <2>7 DEF FreeIfFailed, input, shared
  <2>8. CASE TestPush(t)
    BY <2>8 DEF TestPush, input, shared
  <2>9. CASE ReadSize(t)
    BY <2>9 DEF ReadSize, input, shared
  <2>10. CASE StoreTmp(t)
    BY <2>10 DEF StoreTmp, input
  <2>11. CASE TestType(t)
    BY <2>11 DEF TestType, input, shared
  <2>12. CASE SetType(t)
    BY <2>12 DEF SetType, input
  <2>13. CASE ReadType(t)
    BY <2>13 DEF ReadType, input, shared
  <2>14. CASE SetMatch(t)
    BY <2>14 DEF SetMatch, input
  <2>15. QED BY <1>1, <2>1, <2>2, <2>3, <2>4, <2>5, <2>6, <2>7, <2>8, <2>9, <2>10,
                <2>11, <2>12, <2>13, <2>14 DEF Access
<1>2. CASE Answer
  BY <1>2 DEF Answer, input
<1>3. CASE UNCHANGED vars
  BY <1>3 DEF vars, input, local, shared
<1>4. QED BY <1>1, <1>2, <1>3 DEF Next, Answered

(* The array is read only.                                                 *)
LEMMA ArrayStays == [Next]_vars => arr' = arr /\ threads' = threads
<1>1. ASSUME NEW t \in Tasks, Access(t) PROVE arr' = arr /\ threads' = threads
  BY <1>1 DEF Access, Start, TestStep, XytFromJson, Extract, TmpFromJson, ReadRes, SetStep,
              FreeIfFailed, TestPush, ReadSize, StoreTmp, TestType, SetType, ReadType,
              SetMatch, input
<1>2. QED BY <1>1 DEF Next, Answer, Answered, vars, input

(* A task that runs leaves res at most 0, and step false once it has       *)
(* stored it.                                                              *)
LEMMA HopelessStep == Shape /\ HopelessInv /\ [Next]_vars => HopelessInv'
<1> SUFFICES ASSUME Shape, HopelessInv, [Next]_vars, Hopeless' PROVE Fruitless'
  BY DEF HopelessInv
<1>0. arr' = arr /\ Hopeless /\ Fruitless
  BY ArrayStays DEF Hopeless, HopelessInv
<1> USE <1>0 DEF Shape, Fruitless, Early, Late
<1>1. ASSUME NEW t \in Tasks, Access(t) PROVE Fruitless'
  <2>1. CASE Start(t)
    BY <2>1 DEF Start, input, shared
  <2>2. CASE TestStep(t)
    BY <2>2 DEF TestStep, input, shared
  <2>3. ~Good(arr[t]) /\ arr[t] \in Elements
    BY DEF Hopeless
  <2>4. CASE XytFromJson(t)
    <3>1. CASE Extract(t)
      BY <2>3, <2>4, <3>1 DEF XytFromJson, Extract, input, Good
    <3>2. CASE ~arr[t].xyt /\ res' = 0 /\ Goto(t, "tmp") /\ UNCHANGED <<reg, step, tmps>>
      BY <2>4, <3>2
    <3>3. QED BY <2>4, <3>1, <3>2 DEF XytFromJson
  <2>5. CASE TmpFromJson(t)
    BY <2>3, <2>5 DEF TmpFromJson, Extract, input, Good
  <2>6. CASE ReadRes(t)
    BY <2>6 DEF ReadRes, input, shared
  <2>7. CASE SetStep(t)
    <3>1. ~(reg[t] = 1)
      BY <2>7 DEF SetStep
    <3>2. ~step'
      BY <2>7, <3>1, Zenon DEF SetStep
    <3>3. pc' = [pc EXCEPT ![t] = "free"] /\ UNCHANGED <<reg, res, tmps>>
      BY <2>7 DEF SetStep
    <3>4. QED BY <3>2, <3>3
  <2>8. CASE FreeIfFailed(t)
    BY <2>8 DEF FreeIfFailed, input, shared
  <2>9. CASE TestPush(t)
    BY <2>9 DEF TestPush, input, shared
  <2>10. QED BY <1>1, <2>1, <2>2, <2>4, <2>5, <2>6, <2>7, <2>8, <2>9
             DEF Access, ReadSize, StoreTmp, TestType, SetType, ReadType, SetMatch
<1>2. CASE Answer
  BY <1>2 DEF Answer, input
<1>3. CASE UNCHANGED vars
  BY <1>3 DEF vars, input, local, shared
<1>4. QED BY <1>1, <1>2, <1>3 DEF Next, Answered

(* Only the handler answers, and with step and two templates.              *)
LEMMA RefusedStep ==
  Shape /\ HopelessInv /\ NoTemplateRefused /\ [Next]_vars => NoTemplateRefused'
<1> SUFFICES ASSUME Shape, HopelessInv, NoTemplateRefused, [Next]_vars
             PROVE  NoTemplateRefused'
  OBVIOUS
<1>1. arr' = arr
  BY ArrayStays
<1>2. CASE Answer
  <2>1. ASSUME answer'.result = "true" PROVE \E t \in 1..Len(arr) : Good(arr[t])
    <3>1. step /\ Len(tmps) = 2
      BY <1>2, <2>1 DEF Answer
    <3>2. tmps # <<>> /\ Len(arr) = 2
      BY <3>1 DEF Shape
    <3>3. QED BY <3>2 DEF HopelessInv, Fruitless, Hopeless
  <2>2. QED BY <1>1, <2>1 DEF NoTemplateRefused
<1>3. CASE answer' = answer
  BY <1>1, <1>3 DEF NoTemplateRefused
<1>4. ASSUME NEW t \in Tasks, Access(t) PROVE answer' = answer
  BY <1>4 DEF Access, Start, TestStep, XytFromJson, Extract, TmpFromJson, ReadRes, SetStep,
              FreeIfFailed, TestPush, ReadSize, StoreTmp, TestType, SetType, ReadType, SetMatch
<1>5. QED BY <1>2, <1>3, <1>4 DEF Next, Answered, vars

(* However the tasks of compare_get interleave, a pair without any         *)
(* template is never answered with "true".                                 *)
THEOREM Refused == Spec => []NoTemplateRefused
<1>1. Init => Shape /\ HopelessInv /\ NoTemplateRefused
  BY ShapeInit DEF Init, NoAnswer, NoTemplateRefused
<1>2. Shape /\ HopelessInv /\ NoTemplateRefused /\ [Next]_vars
        => (Shape /\ HopelessInv /\ NoTemplateRefused)'
  BY ShapeStep, HopelessStep, RefusedStep
<1>3. QED BY <1>1, <1>2, PTL DEF Spec

-----------------------------------------------------------------------------
(* One thread: what the state is while a task t has its turn, if its turn  *)
(* began with step b, the templates tm and the compare_type ct.            *)

Bit(p) == IF p THEN 1 ELSE 0
Takes(t, b) == b /\ Good(arr[t])
Named(t, ct) == IF ct = NoType THEN arr[t].type ELSE ct

Unheld(t) == t \notin held /\ freed[t] = 0
Extracted(t) == (t \in held <=> arr[t].type # NoType) /\ freed[t] = 0 /\ type[t] = arr[t].type
Settled(t, b) ==
  IF Takes(t, b) THEN t \in held /\ freed[t] = 0 /\ type[t] = arr[t].type
                 ELSE freed[t] = Bit(t \in held)

Turn(t, b, tm, ct) ==
  /\ pc[t] \in {"queued", "step"} => step = b /\ Unheld(t)
  /\ pc[t] \in {"xyt", "tmp"} => b /\ step /\ Unheld(t)
  /\ pc[t] \in {"res", "setStep", "free"} => b /\ Extracted(t)
  /\ pc[t] = "res" => res = arr[t].res
  /\ pc[t] = "setStep" => reg[t] = Bit(Good(arr[t]))
  /\ pc[t] = "free" => step = Good(arr[t])
  /\ pc[t] = "push" => step = Takes(t, b) /\ Settled(t, b)
  /\ pc[t] \in Late => Takes(t, b) /\ Settled(t, b)
  /\ pc[t] \in Early \cup {"free", "push", "size", "store"} => tmps = tm /\ compare_type = ct
  /\ pc[t] = "store" => reg[t] = Len(tm)
  /\ pc[t] \in {"type", "setType", "match", "setMatch"} => tmps = Append(tm, t)
  /\ pc[t] \in {"type", "setType"} => compare_type = ct
  /\ pc[t] = "setType" => ct = NoType
  /\ pc[t] \in {"match", "setMatch"} => compare_type = Named(t, ct)
  /\ pc[t] = "setMatch" => reg[t] = Bit(Named(t, ct) = arr[t].type)
  /\ pc[t] = "end" =>
       /\ Settled(t, b)
       /\ step = (Takes(t, b) /\ Named(t, ct) = arr[t].type)
       /\ tmps = IF Takes(t, b) THEN Append(tm, t) ELSE tm
       /\ compare_type = IF Takes(t, b) THEN Named(t, ct) ELSE ct

(* A task has its turn first, the other one after it.                      *)
Pair == Len(arr) = 2
Other(t) == 3 - t
Second(t) ==
  IF Takes(Other(t), Pair) THEN Turn(t, TRUE, <<Other(t)>>, arr[Other(t)].type)
                           ELSE Turn(t, FALSE, <<>>, NoType)

InOrder(t) ==
  \/ pc[Other(t)] = "queued" /\ Unheld(Other(t)) /\ Turn(t, Pair, <<>>, NoType)
  \/ pc[t] = "end" /\ Settled(t, Pair) /\ Second(Other(t))

SerialInv ==
  threads = 1 =>
    /\ \A t, u \in Running : t = u
    /\ IF answer = NoAnswer THEN \E t \in Tasks : InOrder(t)
                            ELSE \A t \in Tasks : pc[t] = "end"

(* A step of the task whose turn it is.                                    *)
LEMMA TurnStep ==
  ASSUME NEW t \in Tasks, NEW b \in BOOLEAN, NEW tm \in Seq(Tasks), NEW ct,
         Shape, b => Len(arr) = 2, Access(t), Turn(t, b, tm, ct)
  PROVE  Turn(t, b, tm, ct)'
<1> USE DEF Shape, Early, Late
<1>1. arr' = arr /\ (b => arr[t] \in Elements)
  BY ArrayStays DEF Next
<1>2. CASE Start(t)
  BY <1>1, <1>2 DEF Start, Turn, Unheld, shared
<1>3. CASE TestStep(t)
  <2>1. step = b /\ Unheld(t) /\ tmps = tm /\ compare_type = ct
    BY <1>3 DEF TestStep, Turn
  <2>2. Unheld(t)' /\ UNCHANGED <<step, tmps, compare_type>>
    BY <1>3, <2>1 DEF TestStep, Unheld, shared
  <2>3. CASE b
    <3>1. pc'[t] = "xyt"
      BY <1>3, <2>1, <2>3 DEF TestStep
    <3>2. QED BY <2>1, <2>2, <2>3, <3>1 DEF Turn
  <2>4. CASE ~b
    <3>1. pc'[t] = "push"
      BY <1>3, <2>1, <2>4 DEF TestStep
    <3>2. Settled(t, b)' /\ ~Takes(t, b)'
      BY <2>2, <2>4 DEF Settled, Takes, Unheld, Bit
    <3>3. step' = Takes(t, b)'
      BY <2>1, <2>2, <2>4 DEF Takes
    <3>4. QED BY <2>1, <2>2, <3>1, <3>2, <3>3 DEF Turn
  <2>5. QED BY <2>3, <2>4
<1>4. ASSUME Extract(t), b, Unheld(t), tmps = tm, compare_type = ct PROVE Turn(t, b, tm, ct)'
  <2>1. Extracted(t)'
    BY <1>1, <1>4 DEF Extract, Extracted, Unheld
  <2>2. pc'[t] = "res" /\ res' = arr'[t].res /\ tmps' = tm /\ compare_type' = ct
    BY <1>1, <1>4 DEF Extract
  <2>3. QED BY <1>4, <2>1, <2>2 DEF Turn
<1>5. CASE XytFromJson(t)
  <2>1. b /\ step /\ Unheld(t) /\ tmps = tm /\ compare_type = ct
    BY <1>5 DEF XytFromJson, Turn
  <2>2. CASE ~arr[t].xyt
    BY <1>1, <1>5, <2>1, <2>2, <1>4 DEF XytFromJson, Turn, Unheld
  <2>3. QED BY <1>4, <1>5, <2>1, <2>2 DEF XytFromJson
<1>6. CASE TmpFromJson(t)
  BY <1>4, <1>6 DEF TmpFromJson, Turn
<1>7. CASE ReadRes(t)
  <2>1. b /\ Extracted(t) /\ res = arr[t].res /\ tmps = tm /\ compare_type = ct
    BY <1>7 DEF ReadRes, Turn
  <2>2. Extracted(t)' /\ reg'[t] = Bit(Good(arr[t])) /\ pc'[t] = "setStep"
    BY <1>1, <1>7, <2>1 DEF ReadRes, Extracted, Bit, Good, shared
  <2>3. QED BY <1>1, <1>7, <2>1, <2>2 DEF ReadRes, Turn, shared
<1>8. CASE SetStep(t)
  <2>1. b /\ Extracted(t) /\ reg[t] = Bit(Good(arr[t])) /\ tmps = tm /\ compare_type = ct
    BY <1>8 DEF SetStep, Turn
  <2>2. Extracted(t)' /\ pc'[t] = "free"
    BY <1>1, <1>8, <2>1 DEF SetStep, Extracted
  <2>3. step' = Good(arr'[t])
    BY <1>1, <1>8, <2>1 DEF SetStep, Bit, Good
  <2>4. QED BY <1>8, <2>1, <2>2, <2>3 DEF SetStep, Turn
<1>9. CASE FreeIfFailed(t)
  <2>1. b /\ Extracted(t) /\ step = Good(arr[t]) /\ tmps = tm /\ compare_type = ct
    BY <1>9 DEF FreeIfFailed, Turn
  <2>2. Settled(t, b)' /\ pc'[t] = "push"
    <3>1. pc'[t] = "push" /\ UNCHANGED <<type, held>>
      BY <1>9 DEF FreeIfFailed
    <3>2. CASE step
      <4>1. freed'[t] = 0 /\ t \in held
        BY <1>1, <1>9, <2>1, <3>2 DEF FreeIfFailed, Extracted, Good
      <4>2. QED BY <1>1, <2>1, <3>1, <3>2, <4>1 DEF Settled, Takes, Extracted
    <3>3. CASE ~step
      <4>1. freed'[t] = Bit(t \in held)
        BY <1>9, <2>1, <3>3 DEF FreeIfFailed, Extracted, Bit
      <4>2. ~Takes(t, b)'
        BY <1>1, <2>1, <3>3 DEF Takes
      <4>3. QED BY <3>1, <4>1, <4>2 DEF Settled, Bit
    <3>4. QED BY <3>1, <3>2, <3>3
  <2>3. step' = Takes(t, b)'
    BY <1>1, <1>9, <2>1 DEF FreeIfFailed, Takes, shared
  <2>4. QED BY <1>9, <2>1, <2>2, <2>3 DEF FreeIfFailed, Turn, shared
<1>10. CASE TestPush(t)
  <2>1. step = Takes(t, b) /\ Settled(t, b) /\ tmps = tm /\ compare_type = ct
    BY <1>10 DEF TestPush, Turn
  <2>2. Settled(t, b)' /\ Takes(t, b)' = Takes(t, b)
    BY <1>1, <1>10, <2>1 DEF TestPush, Settled, Takes, shared
  <2>3. QED BY <1>1, <1>10, <2>1, <2>2 DEF TestPush, Turn, shared
<1>11. ASSUME pc[t] \in Late, UNCHANGED <<type, held, freed>>
       PROVE  Takes(t, b)' /\ Settled(t, b)'
  BY <1>1, <1>11 DEF Turn, Takes, Settled
<1>12. CASE ReadSize(t)
  BY <1>11, <1>12 DEF ReadSize, Turn, shared
<1>13. CASE StoreTmp(t)
  <2>1. tmps' = Append(tm, t)
    BY <1>13 DEF StoreTmp, Turn
  <2>2. QED BY <1>11, <1>13, <2>1 DEF StoreTmp, Turn
<1>14. CASE TestType(t)
  BY <1>1, <1>11, <1>14 DEF TestType, Turn, Named, shared
<1>15. CASE SetType(t)
  <2>1. compare_type' = Named(t, ct)'
    BY <1>1, <1>15 DEF SetType, Turn, Named, Takes, Settled
  <2>2. QED BY <1>11, <1>15, <2>1 DEF SetType, Turn
<1>16. CASE ReadType(t)
  <2>1. compare_type = Named(t, ct) /\ Named(t, ct)' = Named(t, ct) /\ type[t] = arr[t].type
    BY <1>1, <1>16 DEF ReadType, Turn, Named, Takes, Settled
  <2>2. reg'[t] = Bit(Named(t, ct)' = arr'[t].type)
    BY <1>1, <1>16, <2>1 DEF ReadType, Bit
  <2>3. QED BY <1>11, <1>16, <2>1, <2>2 DEF ReadType, Turn, shared
<1>17. CASE SetMatch(t)
  <2>1. reg[t] = Bit(Named(t, ct) = arr[t].type) /\ Named(t, ct)' = Named(t, ct)
    BY <1>1, <1>17 DEF SetMatch, Turn, Named
  <2>2. Takes(t, b)' /\ Settled(t, b)'
    BY <1>11, <1>17 DEF SetMatch
  <2>3. step' = (Named(t, ct)' = arr'[t].type)
    BY <1>1, <1>17, <2>1 DEF SetMatch, Bit
  <2>4. tmps' = Append(tm, t) /\ compare_type' = Named(t, ct)' /\ pc'[t] = "end"
    BY <1>17, <2>1 DEF SetMatch, Turn
  <2>5. QED BY <2>2, <2>3, <2>4 DEF Turn
<1>18. QED
  BY <1>2, <1>3, <1>5, <1>6, <1>7, <1>8, <1>9, <1>10, <1>12, <1>13, <1>14, <1>15, <1>16, <1>17
     DEF Access

LEMMA Apart ==
  ASSUME NEW t \in Tasks, NEW u \in Tasks, u # t, Shape, Access(t)
  PROVE  /\ pc'[u] = pc[u] /\ freed'[u] = freed[u] /\ type'[u] = type[u]
         /\ u \in held' <=> u \in held
         /\ answer' = answer
<1> USE DEF Shape
<1>1. CASE XytFromJson(t) \/ TmpFromJson(t)
  BY <1>1 DEF XytFromJson, TmpFromJson, Extract
<1>2. CASE ReadRes(t) \/ SetStep(t) \/ FreeIfFailed(t)
  BY <1>2 DEF ReadRes, SetStep, FreeIfFailed, shared
<1>3. CASE Start(t) \/ TestStep(t) \/ TestPush(t) \/ ReadSize(t) \/ StoreTmp(t)
  BY <1>3 DEF Start, TestStep, TestPush, ReadSize, StoreTmp, shared
<1>4. CASE TestType(t) \/ SetType(t) \/ ReadType(t) \/ SetMatch(t)
  BY <1>4 DEF TestType, SetType, ReadType, SetMatch, shared
<1>5. QED BY <1>1, <1>2, <1>3, <1>4 DEF Access

(* A task has a step when it runs, or when there is a thread for it.       *)
LEMMA Enabled ==
  ASSUME NEW t \in Tasks, Access(t)
  PROVE  (pc[t] = "queued" /\ Cardinality(Running) < threads /\ Start(t)) \/ t \in Running
BY DEF Access, Start, TestStep, XytFromJson, TmpFromJson, ReadRes, SetStep, FreeIfFailed,
       TestPush, ReadSize, StoreTmp, TestType, SetType, ReadType, SetMatch, Running

LEMMA NoneRuns == Cardinality(Running) < 1 => Running = {}
<1>1. IsFiniteSet(Tasks) /\ Running \subseteq Tasks
  <2>1. IsFiniteSet(1..2)
    BY FS_Interval, 1 \in Int, 2 \in Int
  <2>2. QED BY <2>1 DEF Running
<1>2. IsFiniteSet(Running) /\ Cardinality(Running) \in Nat
  BY <1>1, FS_Subset, FS_CardinalityType
<1>3. QED BY <1>2, FS_EmptySet

LEMMA NoneYet == <<>> \in Seq(Tasks)
OBVIOUS

(* The turn of the first task has ended: the second one's may begin.       *)
LEMMA Handover ==
  ASSUME NEW f \in Tasks, NEW s \in Tasks, s = Other(f), f = Other(s), pc[f] = "end", InOrder(f)
  PROVE  Settled(f, Pair) /\ Second(s)
<1>1. CASE pc[s] = "queued" /\ Unheld(s) /\ Turn(f, Pair, <<>>, NoType)
  <2>1. Settled(f, Pair) /\ Named(f, NoType) = arr[f].type
    BY <1>1 DEF Turn, Named
  <2>2. step = Takes(f, Pair)
    BY <1>1, <2>1 DEF Turn, Takes, Pair, Good
  <2>3. CASE Takes(f, Pair)
    <3>1. step = TRUE /\ tmps = <<f>> /\ compare_type = arr[f].type
      BY <1>1, <2>1, <2>2, <2>3 DEF Turn
    <3>2. Turn(s, TRUE, <<f>>, arr[f].type)
      BY <1>1, <3>1 DEF Turn, Early, Late
    <3>3. QED BY <2>1, <2>3, <3>2 DEF Second
  <2>4. CASE ~Takes(f, Pair)
    <3>1. step = FALSE /\ tmps = <<>> /\ compare_type = NoType
      BY <1>1, <2>1, <2>2, <2>4 DEF Turn
    <3>2. Turn(s, FALSE, <<>>, NoType)
      BY <1>1, <3>1 DEF Turn, Early, Late
    <3>3. QED BY <2>1, <2>4, <3>2 DEF Second
  <2>5. QED BY <2>3, <2>4
<1>2. CASE Settled(f, Pair) /\ Second(s)
  BY <1>2
<1>3. QED BY <1>1, <1>2 DEF InOrder

(* One thread: a task that runs is the only one.                           *)
LEMMA SerialAccess ==
  ASSUME NEW a \in Tasks, Shape, Access(a), threads = 1, SerialInv
  PROVE  SerialInv'
<1> DEFINE o == Other(a)
<1>0. o \in Tasks /\ o # a /\ Other(o) = a /\ \A t \in Tasks : t = a \/ t = o
  BY DEF Other
<1>1. arr' = arr /\ threads' = 1 /\ answer' = answer
  BY <1>0, ArrayStays, Apart DEF Next
<1>2. pc[o] \in {"queued", "end"}
  BY <1>0, Enabled, NoneRuns DEF SerialInv, Running
<1>3. pc'[o] = pc[o] /\ freed'[o] = freed[o] /\ type'[o] = type[o] /\ (o \in held' <=> o \in held)
  BY <1>0, Apart
<1>4. \A t, u \in Running' : t = u
  BY <1>0, <1>2, <1>3 DEF Running
<1>5. answer = NoAnswer /\ pc[a] # "end"
  BY Enabled DEF SerialInv, Running
<1>6. ASSUME InOrder(a) PROVE InOrder(a)'
  <2>1. PICK b \in BOOLEAN : b = Pair
    BY DEF Pair
  <2>2. pc[o] = "queued" /\ Unheld(o) /\ Turn(a, b, <<>>, NoType)
    BY <1>5, <1>6, <2>1 DEF InOrder
  <2>3. Turn(a, b, <<>>, NoType)'
    <3>1. b => Len(arr) = 2
      BY <2>1 DEF Pair
    <3>2. QED BY <2>2, <3>1, NoneYet, TurnStep
  <2>4. Pair' = b
    BY <1>1, <2>1 DEF Pair
  <2>5. QED BY <1>3, <2>2, <2>3, <2>4 DEF InOrder, Unheld
<1>7. ASSUME InOrder(o), pc[o] = "queued" PROVE InOrder(a)'
  <2>1. PICK b \in BOOLEAN : b = Pair
    BY DEF Pair
  <2>2. pc[a] = "queued" /\ Unheld(a) /\ Turn(o, b, <<>>, NoType)
    BY <1>0, <1>7, <2>1 DEF InOrder
  <2>3. step = b /\ Unheld(o) /\ tmps = <<>> /\ compare_type = NoType
    BY <1>7, <2>2 DEF Turn, Early
  <2>4. Turn(a, b, <<>>, NoType)
    BY <2>2, <2>3 DEF Turn, Early, Late
  <2>5. Turn(a, b, <<>>, NoType)'
    <3>1. b => Len(arr) = 2
      BY <2>1 DEF Pair
    <3>2. QED BY <2>4, <3>1, NoneYet, TurnStep
  <2>6. Pair' = b
    BY <1>1, <2>1 DEF Pair
  <2>7. QED BY <1>3, <1>7, <2>3, <2>5, <2>6 DEF InOrder, Unheld
<1>8. ASSUME InOrder(o), pc[o] = "end" PROVE InOrder(o)'
  <2>1. Settled(o, Pair) /\ Second(a)
    BY <1>0, <1>8, Handover
  <2>2. Takes(o, Pair)' = Takes(o, Pair)
    BY <1>1 DEF Takes, Pair
  <2>3. Settled(o, Pair)'
    BY <1>1, <1>3, <2>1, <2>2 DEF Settled, Bit
  <2>4. Second(a)'
    <3>1. Second(a)
      BY <2>1
    <3>2. Takes(o, Pair)' = Takes(o, Pair)
      BY <2>2
    <3>3. CASE Takes(o, Pair)
      <4>1. PICK b, tm, ct : b \in BOOLEAN /\ b = TRUE /\ tm = <<o>> /\ ct = arr[o].type
        OBVIOUS
      <4>2. Turn(a, b, tm, ct)
        BY <3>1, <3>3, <4>1 DEF Second
      <4>3. tm \in Seq(Tasks) /\ Len(arr) = 2
        BY <1>0, <3>3, <4>1 DEF Takes, Pair
      <4>4. Turn(a, b, tm, ct)'
        BY <4>1, <4>2, <4>3, TurnStep
      <4>5. QED BY <1>1, <3>2, <3>3, <4>1, <4>4 DEF Second
    <3>4. CASE ~Takes(o, Pair)
      <4>1. PICK b, tm : b \in BOOLEAN /\ b = FALSE /\ tm = <<>>
        OBVIOUS
      <4>2. Turn(a, b, tm, NoType)
        BY <3>1, <3>4, <4>1 DEF Second
      <4>3. Turn(a, b, tm, NoType)'
        BY <4>1, <4>2, NoneYet, TurnStep
      <4>4. QED BY <3>2, <3>4, <4>1, <4>3 DEF Second
    <3>5. QED BY <3>3, <3>4
  <2>5. QED BY <1>0, <1>3, <1>8, <2>3, <2>4 DEF InOrder
<1>9. QED BY <1>0, <1>1, <1>2, <1>4, <1>5, <1>6, <1>7, <1>8 DEF SerialInv

(* How often the handler frees a template: once if it was pushed.          *)
LEMMA Counts ==
  ASSUME NEW f \in Tasks, NEW s \in Tasks, f # s,
         NEW seq, seq = <<>> \/ seq = <<f>> \/ seq = <<f, s>>
  PROVE  /\ Cardinality({i \in DOMAIN seq : seq[i] = f}) = (IF seq = <<>> THEN 0 ELSE 1)
         /\ Cardinality({i \in DOMAIN seq : seq[i] = s}) = (IF seq = <<f, s>> THEN 1 ELSE 0)
<1>0. Cardinality({}) = 0 /\ Cardinality({1}) = 1 /\ Cardinality({2}) = 1
  BY FS_EmptySet, FS_Singleton
<1>1. CASE seq = <<>>
  <2>1. {i \in DOMAIN seq : seq[i] = f} = {} /\ {i \in DOMAIN seq : seq[i] = s} = {}
    BY <1>1
  <2>2. seq # <<f, s>>
    BY <1>1
  <2>3. QED BY <1>0, <1>1, <2>1, <2>2
<1>2. CASE seq = <<f>>
  <2>1. {i \in DOMAIN seq : seq[i] = f} = {1} /\ {i \in DOMAIN seq : seq[i] = s} = {}
    BY <1>2
  <2>2. seq # <<>> /\ seq # <<f, s>>
    BY <1>2
  <2>3. QED BY <1>0, <2>1, <2>2
<1>3. CASE seq = <<f, s>>
  <2>1. {i \in DOMAIN seq : seq[i] = f} = {1} /\ {i \in DOMAIN seq : seq[i] = s} = {2}
    BY <1>3
  <2>2. seq # <<>>
    BY <1>3
  <2>3. QED BY <1>0, <1>3, <2>1, <2>2
<1>4. QED BY <1>1, <1>2, <1>3

LEMMA PairAppended == ASSUME NEW x, NEW y PROVE Append(<<x>>, y) = <<x, y>>
<1>1. PICK S : S = {x, y}
  OBVIOUS
<1>2. <<x>> \in Seq(S) /\ y \in S
  BY <1>1
<1>3. Append(<<x>>, y) \in Seq(S) /\ <<x, y>> \in Seq(S)
  BY <1>1, <1>2
<1>4. Len(Append(<<x>>, y)) = 2 /\ Append(<<x>>, y)[1] = x /\ Append(<<x>>, y)[2] = y
  BY <1>2
<1>5. \A i \in 1..2 : Append(<<x>>, y)[i] = <<x, y>>[i]
  BY <1>4
<1>6. QED BY <1>3, <1>4, <1>5, SeqEqual

(* What both tasks have left when one thread ran f, then s.                *)
LEMMA BothEnded ==
  ASSUME NEW f \in Tasks, NEW s \in Tasks, s = Other(f), f = Other(s), Shape,
         pc[f] = "end", pc[s] = "end", InOrder(f)
  PROVE  /\ Settled(f, Pair)
         /\ \/ /\ Takes(f, Pair) /\ Takes(s, Pair) /\ tmps = <<f, s>>
               /\ Settled(s, TRUE) /\ compare_type = arr[f].type
               /\ step = (arr[f].type = arr[s].type)
            \/ /\ Takes(f, Pair) /\ ~Takes(s, Pair) /\ tmps = <<f>>
               /\ freed[s] = Bit(s \in held) /\ step = FALSE
            \/ /\ ~Takes(f, Pair) /\ tmps = <<>>
               /\ freed[s] = Bit(s \in held) /\ step = FALSE
<1>1. Settled(f, Pair) /\ Second(s)
  BY Handover
<1>2. CASE Takes(f, Pair)
  <2>1. Turn(s, TRUE, <<f>>, arr[f].type)
    BY <1>1, <1>2 DEF Second
  <2>2. Pair /\ arr[f] \in Elements /\ arr[f].type # NoType
    BY <1>2 DEF Takes, Good, Shape, Pair
  <2>3. Named(s, arr[f].type) = arr[f].type
    BY <2>2 DEF Named
  <2>4. CASE Good(arr[s])
    <3>1. Takes(s, TRUE) /\ Takes(s, Pair)
      BY <2>2, <2>4 DEF Takes
    <3>2. tmps = <<f, s>> /\ Settled(s, TRUE) /\ compare_type = arr[f].type
      <4>1. tmps = Append(<<f>>, s) /\ Settled(s, TRUE) /\ compare_type = Named(s, arr[f].type)
        BY <2>1, <3>1, Zenon DEF Turn
      <4>2. Append(<<f>>, s) = <<f, s>>
        BY PairAppended
      <4>3. QED BY <2>3, <4>1, <4>2
    <3>3. step = (arr[f].type = arr[s].type)
      BY <2>1, <2>3, <3>1 DEF Turn
    <3>4. QED BY <1>1, <1>2, <3>1, <3>2, <3>3
  <2>5. CASE ~Good(arr[s])
    <3>1. ~Takes(s, TRUE) /\ ~Takes(s, Pair)
      BY <2>5 DEF Takes
    <3>2. tmps = <<f>> /\ freed[s] = Bit(s \in held) /\ step = FALSE
      BY <2>1, <3>1 DEF Turn, Settled, Shape
    <3>3. QED BY <1>1, <1>2, <3>1, <3>2
  <2>6. QED BY <2>4, <2>5
<1>3. CASE ~Takes(f, Pair)
  <2>1. Turn(s, FALSE, <<>>, NoType) /\ ~Takes(s, FALSE)
    BY <1>1, <1>3 DEF Second, Takes
  <2>2. tmps = <<>> /\ freed[s] = Bit(s \in held) /\ step = FALSE
    BY <2>1 DEF Turn, Settled, Shape
  <2>3. QED BY <1>1, <1>3, <2>2
<1>4. QED BY <1>2, <1>3

LEMMA SerialAnswer ==
  ASSUME Shape, threads = 1, SerialInv, Answer
  PROVE  SerialInv' /\ SerialVerdict' /\ FreedOnce'
<1>1. answer' # NoAnswer /\ arr' = arr /\ threads' = 1 /\ pc' = pc /\ held' = held
  BY DEF Answer, NoAnswer, input
<1>2. PICK f \in Tasks : InOrder(f)
  BY DEF SerialInv, Answer
<1>3. PICK s \in Tasks : s = Other(f)
  BY DEF Other
<1>4. f = Other(s) /\ f # s /\ \A t \in Tasks : t = f \/ t = s
  BY <1>3 DEF Other
<1>5. pc[f] = "end" /\ pc[s] = "end"
  BY DEF Answer
<1>6. SerialInv'
  BY <1>1 DEF SerialInv, Answer, Running
<1> DEFINE ok == step /\ Len(tmps) = 2
<1>7. answer' = [result |-> IF ok THEN "true" ELSE "false", type |-> IF ok THEN compare_type ELSE NoType]
  BY DEF Answer
<1>8. /\ freed'[f] = freed[f] + Cardinality({i \in DOMAIN tmps : tmps[i] = f})
      /\ freed'[s] = freed[s] + Cardinality({i \in DOMAIN tmps : tmps[i] = s})
  BY DEF Answer
<1>9. Comparable <=> Takes(f, Pair) /\ Takes(s, Pair) /\ arr[f].type = arr[s].type
  BY <1>4 DEF Comparable, Takes, Pair
<1> HIDE DEF ok
<1>0. Bit(f \in held) \in Nat /\ Bit(s \in held) \in Nat
  BY DEF Bit
<1>10. Settled(f, Pair)
  BY <1>2, <1>3, <1>4, <1>5, BothEnded
<1>11. CASE /\ Takes(f, Pair) /\ Takes(s, Pair) /\ tmps = <<f, s>>
            /\ Settled(s, TRUE) /\ compare_type = arr[f].type
            /\ step = (arr[f].type = arr[s].type)
  <2>1. ok <=> Comparable
    BY <1>9, <1>11 DEF ok
  <2>2. compare_type = arr[f].type /\ (Comparable => arr[1].type = arr[f].type)
    BY <1>4, <1>11 DEF Comparable
  <2>3. SerialVerdict'
    BY <1>1, <1>7, <2>1, <2>2 DEF SerialVerdict, Comparable
  <2>4. freed[f] = 0 /\ f \in held /\ freed[s] = 0 /\ s \in held
    BY <1>10, <1>11 DEF Settled, Takes
  <2>5. tmps # <<>>
    BY <1>11
  <2>6. freed'[f] = 1 /\ freed'[s] = 1
    BY <1>4, <1>8, <1>11, <2>4, <2>5, Counts
  <2>7. FreedOnce'
    BY <1>1, <1>4, <2>4, <2>6 DEF FreedOnce
  <2>8. QED BY <1>6, <2>3, <2>7
<1>12. ASSUME ~Comparable, step = FALSE PROVE SerialVerdict'
  <2>1. ~ok
    BY <1>12 DEF ok
  <2>2. QED BY <1>1, <1>7, <1>12, <2>1 DEF SerialVerdict, Comparable
<1>13. CASE /\ Takes(f, Pair) /\ ~Takes(s, Pair) /\ tmps = <<f>>
            /\ freed[s] = Bit(s \in held) /\ step = FALSE
  <2>1. freed[f] = 0 /\ f \in held
    BY <1>10, <1>13 DEF Settled
  <2>2. tmps # <<>> /\ tmps # <<f, s>>
    BY <1>13
  <2>3. freed'[f] = 1 /\ freed'[s] = Bit(s \in held)
    <3>0. tmps = <<>> \/ tmps = <<f>> \/ tmps = <<f, s>>
      BY <1>13
    <3>1. Cardinality({i \in DOMAIN tmps : tmps[i] = f}) = 1
      <4>1. Cardinality({i \in DOMAIN tmps : tmps[i] = f}) = IF tmps = <<>> THEN 0 ELSE 1
        BY <1>4, <3>0, Counts
      <4>2. QED BY <2>2, <4>1
    <3>2. Cardinality({i \in DOMAIN tmps : tmps[i] = s}) = 0
      BY <1>4, <2>2, <3>0, Counts
    <3>3. QED BY <1>0, <1>8, <1>13, <2>1, <3>1, <3>2
  <2>4. FreedOnce'
    BY <1>1, <1>4, <2>1, <2>3 DEF FreedOnce, Bit
  <2>5. QED BY <1>6, <1>9, <1>12, <1>13, <2>4
<1>14. CASE ~Takes(f, Pair) /\ tmps = <<>> /\ freed[s] = Bit(s \in held) /\ step = FALSE
  <2>1. freed[f] = Bit(f \in held)
    BY <1>10, <1>14 DEF Settled
  <2>2. tmps # <<f, s>>
    BY <1>14
  <2>3. freed'[f] = Bit(f \in held) /\ freed'[s] = Bit(s \in held)
    <3>1. Cardinality({i \in DOMAIN tmps : tmps[i] = f}) = 0
      BY <1>4, <1>14, <2>2, Counts
    <3>2. Cardinality({i \in DOMAIN tmps : tmps[i] = s}) = 0
      BY <1>4, <1>14, <2>2, Counts
    <3>3. QED BY <1>0, <1>8, <1>14, <2>1, <3>1, <3>2
  <2>4. FreedOnce'
    BY <1>1, <1>4, <2>3 DEF FreedOnce, Bit
  <2>5. QED BY <1>6, <1>9, <1>12, <1>14, <2>4
<1>15. QED BY <1>2, <1>3, <1>4, <1>5, <1>11, <1>13, <1>14, BothEnded

LEMMA SerialStep ==
  Shape /\ SerialInv /\ SerialVerdict /\ FreedOnce /\ [Next]_vars
    => SerialInv' /\ SerialVerdict' /\ FreedOnce'
<1> SUFFICES ASSUME Shape, SerialInv, SerialVerdict, FreedOnce, [Next]_vars
             PROVE  SerialInv' /\ SerialVerdict' /\ FreedOnce'
  OBVIOUS
<1>1. CASE threads # 1
  BY <1>1, ArrayStays DEF SerialInv, SerialVerdict, FreedOnce
<1>2. ASSUME threads = 1, NEW t \in Tasks, Access(t)
      PROVE  SerialInv' /\ SerialVerdict' /\ FreedOnce'
  <2>1. answer = NoAnswer
    BY <1>2, Enabled DEF SerialInv, Running
  <2>2. answer' = answer
    BY <1>2, Apart, Other(t) \in Tasks, Other(t) # t DEF Other
  <2>3. QED BY <1>2, <2>1, <2>2, SerialAccess DEF SerialVerdict, FreedOnce
<1>3. CASE threads = 1 /\ Answer
  BY <1>3, SerialAnswer
<1>4. CASE UNCHANGED vars
  <2>1. UNCHANGED <<threads, arr, pc, type, reg, held, freed, step, res, compare_type, tmps, answer>>
    BY <1>4 DEF vars, input, local, shared
  <2>2. SerialVerdict' /\ FreedOnce'
    BY <2>1 DEF SerialVerdict, FreedOnce, Comparable
  <2>3. \A t : InOrder(t) => InOrder(t)'
    BY <2>1 DEF InOrder, Second, Turn, Settled, Unheld, Extracted, Takes, Named, Pair, Bit, Good
  <2>4. SerialInv'
    BY <2>1, <2>3 DEF SerialInv, Running
  <2>5. QED BY <2>2, <2>4
<1>5. QED BY <1>1, <1>2, <1>3, <1>4 DEF Next, Answered

LEMMA SerialInit == Init => Shape /\ SerialInv /\ SerialVerdict /\ FreedOnce
<1> SUFFICES ASSUME Init PROVE Shape /\ SerialInv /\ SerialVerdict /\ FreedOnce
  OBVIOUS
<1>1. InOrder(1)
  BY DEF Init, InOrder, Other, Unheld, Turn, Pair, Late, Early
<1>2. QED BY <1>1, ShapeInit DEF Init, SerialInv, Running, SerialVerdict, FreedOnce

(* One thread, and either order of the tasks: the verdict of compare_get   *)
(* is that both elements are templates of one type, and it names the type. *)
THEOREM Serial == Spec => []SerialVerdict
<1>1. Shape /\ SerialInv /\ SerialVerdict /\ FreedOnce /\ [Next]_vars
        => (Shape /\ SerialInv /\ SerialVerdict /\ FreedOnce)'
  BY ShapeStep, SerialStep
<1>2. QED BY <1>1, SerialInit, PTL DEF Spec

(* One thread: every template that was allocated is freed exactly once, by *)
(* its task or by the handler.                                             *)
THEOREM Freed == Spec => []FreedOnce
<1>1. Shape /\ SerialInv /\ SerialVerdict /\ FreedOnce /\ [Next]_vars
        => (Shape /\ SerialInv /\ SerialVerdict /\ FreedOnce)'
  BY ShapeStep, SerialStep
<1>2. QED BY <1>1, SerialInit, PTL DEF Spec

-----------------------------------------------------------------------------
(* Search (search_get).                                                    *)

HIDE ElementsOK DEF Tasks, At, Goto, Accesses

Point == {"queued", "db_open", "dbs", "push", "json", "search", "ids", "json_out",
          "store", "end", "threw"}
SearchEarly == {"queued", "db_open", "dbs", "push", "json", "search"}

Hits == [result : BOOLEAN, uuid : BOOLEAN, score : BOOLEAN]
Founds == [read : BOOLEAN, owned : BOOLEAN]
Cells == {Nothing} \cup {OwnRow(query[i]) : i \in Places}

SearchShape ==
  /\ query \in Seq(Queries) /\ free \in Nat \ {0}
  /\ at \in [Places -> Point]
  /\ size \in [Places -> Nat]
  /\ good \in [Places -> BOOLEAN]
  /\ found = [i \in Places |-> found[i]]
  /\ rows = [i \in Places |-> rows[i]]
  /\ row = [i \in Places |-> row[i]]
  /\ closed \in [Places -> Int]
  /\ dbs \in Seq(Places)
  /\ json_out \in Seq(Cells) /\ Len(json_out) <= Len(query)
  /\ waited \in -1..Len(query)

(* The ids a task goes through, and what it makes of one of them.          *)
Ids(q) == IF tmp_from_json(q).type \in Indexed THEN q.found ELSE <<>>
Hit(q, r) == Tmp(q, r, q.compare => r.read)

(* In the loop: so many rows are made, so many ids are left.               *)
Looking(q, done, left, matched) ==
  /\ tmp_from_json(q).res # 0
  /\ tmp_from_json(q).type \in Indexed => q.found # <<>>
  /\ ~q.compare => matched
  /\ done \in Seq(Hits) /\ left \in Seq(Founds)
  /\ Len(done) + Len(left) = Len(Ids(q))
  /\ \A j \in 1..Len(done) : done[j] = Hit(q, Ids(q)[j])
  /\ \A j \in 1..Len(left) : left[j] = Ids(q)[Len(done) + j]

(* What a task knows, whatever the others do.                              *)
Local(i) ==
  /\ at[i] \in SearchEarly => row[i] = Nothing /\ rows[i] = <<>>
  /\ at[i] = "search" => good[i] = (tmp_from_json(query[i]).res # 0)
  /\ at[i] = "ids" => Looking(query[i], rows[i], found[i], good[i])
  /\ at[i] \in {"json_out", "store"} => row[i] = OwnRow(query[i])
  /\ at[i] \in {"dbs", "push", "json"} => query[i].throws # "db_open"
  /\ at[i] \in {"search", "ids", "json_out", "store", "end"} => ~Throws(i)
  /\ at[i] = "threw" => Throws(i)

Cellular == \A i \in DOMAIN json_out : json_out[i] \in {Nothing, OwnRow(query[i])}
Ended == \A i \in 1..waited : at[i] = "end"

SearchInv == SearchShape /\ (\A i \in Places : Local(i)) /\ Cellular /\ Ended

USE QueriesOK

-----------------------------------------------------------------------------
LEMMA QueryFacts ==
  ASSUME NEW q \in Queries
  PROVE  /\ q.compare \in BOOLEAN /\ q.throws \in {"never", "db_open", "json"}
         /\ q.found \in Seq(Founds) /\ Ids(q) \in Seq(Founds)
<1>1. q.compare \in BOOLEAN /\ q.throws \in {"never", "db_open", "json"} /\ q.found \in Seq(Founds)
  BY DEF Founds
<1>2. <<>> \in Seq(Founds)
  OBVIOUS
<1>3. QED BY <1>1, <1>2 DEF Ids

LEMMA HitType ==
  ASSUME NEW q \in Queries, NEW r \in Founds, NEW s \in BOOLEAN
  PROVE  Tmp(q, r, s) \in Hits
<1>1. q.compare \in BOOLEAN /\ r.owned \in BOOLEAN
  BY QueryFacts DEF Founds
<1>2. QED BY <1>1 DEF Tmp, Hits

(* One pass of the loop.                                                   *)
LEMMA LookOne ==
  ASSUME NEW q \in Queries, NEW done, NEW left, NEW matched \in BOOLEAN,
         Looking(q, done, left, matched), left # <<>>
  PROVE  LET s == IF q.compare THEN Head(left).read ELSE matched
         IN  s \in BOOLEAN /\ Looking(q, Append(done, Tmp(q, Head(left), s)), Tail(left), s)
<1> DEFINE r == Head(left)
           s == IF q.compare THEN r.read ELSE matched
           n == Len(done)
           done2 == Append(done, Tmp(q, r, s))
           left2 == Tail(left)
<1>1. done \in Seq(Hits) /\ left \in Seq(Founds) /\ n \in Nat /\ Len(left) \in Nat
  BY DEF Looking
<1>2. Len(left) > 0 /\ r \in Founds /\ r = left[1]
  BY <1>1
<1>3. r = Ids(q)[n + 1]
  BY <1>1, <1>2 DEF Looking
<1>4. r.read \in BOOLEAN /\ q.compare \in BOOLEAN
  BY <1>2, QueryFacts DEF Founds
<1>5. s \in BOOLEAN
  BY <1>4
<1>6. s = (q.compare => r.read)
  <2>1. CASE q.compare
    BY <1>4, <2>1
  <2>2. CASE ~q.compare
    BY <2>2 DEF Looking
  <2>3. QED BY <2>1, <2>2
<1>7. Tmp(q, r, s) = Hit(q, Ids(q)[n + 1])
  BY <1>3, <1>6 DEF Hit
<1>8. Tmp(q, r, s) \in Hits
  BY <1>2, <1>5, HitType
<1>9. ~q.compare => s
  BY DEF Looking
<1> HIDE DEF r, s
<1>10. /\ done2 \in Seq(Hits) /\ Len(done2) = n + 1 /\ done2[n + 1] = Tmp(q, r, s)
       /\ \A j \in 1..n : done2[j] = done[j]
  BY <1>1, <1>8
<1>11. /\ left2 \in Seq(Founds) /\ Len(left2) = Len(left) - 1
       /\ \A j \in 1..Len(left2) : left2[j] = left[j + 1]
  BY <1>1, <1>2
<1> HIDE DEF done2, left2
<1>12. Len(done2) + Len(left2) = Len(Ids(q))
  <2>1. Len(done) + Len(left) = Len(Ids(q))
    BY DEF Looking
  <2>2. Len(done2) + Len(left2) = Len(done) + Len(left)
    BY <1>1, <1>10, <1>11
  <2>3. QED BY <2>1, <2>2
<1>13. ASSUME NEW j \in 1..Len(done2) PROVE done2[j] = Hit(q, Ids(q)[j])
  <2>1. CASE j = n + 1
    BY <1>7, <1>10, <2>1
  <2>2. CASE j # n + 1
    <3>1. j \in 1..n
      BY <1>1, <1>10, <2>2
    <3>2. QED BY <1>10, <3>1 DEF Looking
  <2>3. QED BY <2>1, <2>2
<1>14. ASSUME NEW j \in 1..Len(left2) PROVE left2[j] = Ids(q)[Len(done2) + j]
  <2>1. j + 1 \in 1..Len(left)
    BY <1>1, <1>11
  <2>2. left2[j] = Ids(q)[n + (j + 1)]
    BY <1>11, <2>1 DEF Looking
  <2>3. n + (j + 1) = Len(done2) + j
    BY <1>1, <1>10
  <2>4. QED BY <2>2, <2>3
<1>15. Looking(q, done2, left2, s)
  BY <1>9, <1>10, <1>11, <1>12, <1>13, <1>14 DEF Looking
<1>16. QED BY <1>5, <1>15 DEF s, r, done2, left2

(* The end of the loop.                                                    *)
LEMMA LookedAll ==
  ASSUME NEW q \in Queries, NEW done, NEW matched, Looking(q, done, <<>>, matched)
  PROVE  [type |-> tmp_from_json(q).type, value |-> done] = OwnRow(q)
<1> DEFINE own == [j \in DOMAIN q.found |-> Hit(q, q.found[j])]
<1>1. done \in Seq(Hits) /\ Len(done) = Len(Ids(q))
  BY DEF Looking
<1>2. CASE tmp_from_json(q).type \notin Indexed
  <2>1. Ids(q) = <<>> /\ Len(done) = 0
    BY <1>1, <1>2 DEF Ids
  <2>2. done = <<>>
    BY <1>1, <2>1
  <2>3. QED BY <1>2, <2>2 DEF OwnRow, Looking
<1>3. CASE tmp_from_json(q).type \in Indexed
  <2>1. Ids(q) = q.found /\ q.found # <<>> /\ q.found \in Seq(Founds)
    BY <1>3, QueryFacts DEF Ids, Looking
  <2>2. DOMAIN q.found = 1..Len(done) /\ DOMAIN done = 1..Len(done)
    BY <1>1, <2>1
  <2>3. \A j \in 1..Len(done) : done[j] = Hit(q, q.found[j])
    BY <2>1 DEF Looking
  <2>4. done = own
    <3>1. done = [j \in 1..Len(done) |-> done[j]]
      BY <1>1
    <3>2. QED BY <2>2, <2>3, <3>1
  <2>5. OwnRow(q) = [type |-> tmp_from_json(q).type, value |-> own]
    BY <1>3, <2>1 DEF OwnRow, Looking, Hit
  <2>6. QED BY <2>4, <2>5
<1>4. QED BY <1>2, <1>3

-----------------------------------------------------------------------------
LEMMA SearchInit == SInit => SearchInv
<1> SUFFICES ASSUME SInit PROVE SearchInv
  OBVIOUS
<1>1. PICK n \in Sizes : query \in [1..n -> Queries]
  BY DEF SInit
<1>2. n \in Nat /\ query \in Seq(Queries) /\ Len(query) = n /\ Places = 1..n
  BY <1>1 DEF Places
<1>3. json_out = <<>> /\ json_out \in Seq(Cells) /\ Len(json_out) = 0
  BY DEF SInit
<1>4. dbs \in Seq(Places)
  BY DEF SInit
<1>5. free \in Nat \ {0}
  BY DEF SInit
<1>6. SearchShape
  BY <1>2, <1>3, <1>4, <1>5 DEF SInit, SearchShape, Point
<1>7. \A i \in Places : Local(i)
  BY DEF SInit, Local, SearchEarly
<1>8. Cellular
  BY <1>3 DEF Cellular
<1>9. Ended
  BY DEF SInit, Ended
<1>10. QED BY <1>6, <1>7, <1>8, <1>9 DEF SearchInv

(* The request stays; a task touches its own locals only.                  *)
LEMMA Frame ==
  ASSUME SNext
  PROVE  query' = query /\ free' = free /\ Places' = Places
<1>1. query' = query /\ free' = free
  BY DEF SNext, TaskStep, TakeTask, Open, ReadDbs, PushDb, FromJson, Search, Look, Looked,
     ReadOut, StoreRow, TakeJoin, WaitFor, ReplyRows, ReplyException, Reply, Replied, svars, sinput
<1>2. QED BY <1>1 DEF Places

LEMMA SearchApart ==
  ASSUME SearchShape, NEW i \in Places, TaskStep(i), NEW k \in Places, k # i
  PROVE  /\ at'[k] = at[k] /\ size'[k] = size[k] /\ good'[k] = good[k]
         /\ found'[k] = found[k] /\ rows'[k] = rows[k] /\ row'[k] = row[k]
         /\ closed'[k] = closed[k]
BY DEF SearchShape, TaskStep, Then, TakeTask, Open, ReadDbs, PushDb, FromJson, Search, Look, Looked,
   ReadOut, StoreRow, slocal

LEMMA Keeps ==
  ASSUME query' = query, NEW k \in Places,
         at'[k] = at[k], good'[k] = good[k],
         found'[k] = found[k], rows'[k] = rows[k], row'[k] = row[k], Local(k)
  PROVE  Local(k)'
<1>1. query'[k] = query[k] /\ Throws(k)' = Throws(k)
  BY DEF Throws
<1>2. QED BY <1>1 DEF Local

-----------------------------------------------------------------------------
(* The steps of a task.                                                    *)
LEMMA LocalStep ==
  ASSUME SearchShape, NEW i \in Places, TaskStep(i), Local(i)
  PROVE  Local(i)'
<1> DEFINE q == query[i]
<1>1. query' = query /\ q \in Queries
  BY Frame DEF SNext, SearchShape, Places
<1>2. Throws(i)' = Throws(i) /\ (Throws(i) <=> q.throws # "never")
  BY <1>1 DEF Throws
<1>3. /\ q.throws \in {"never", "db_open", "json"} /\ q.compare \in BOOLEAN
      /\ q.found \in Seq(Founds) /\ Ids(q) \in Seq(Founds)
  BY <1>1, QueryFacts
<1> USE DEF Reached, Then
<1>4. CASE TakeTask(i)
  BY <1>1, <1>2, <1>4 DEF TakeTask, slocal, SearchShape, Local, SearchEarly
<1>5. CASE Open(i)
  BY <1>1, <1>2, <1>5 DEF Open, slocal, SearchShape, Local, SearchEarly
<1>6. CASE ReadDbs(i)
  BY <1>1, <1>2, <1>6 DEF ReadDbs, SearchShape, Local, SearchEarly
<1>7. CASE PushDb(i)
  BY <1>1, <1>2, <1>7 DEF PushDb, slocal, SearchShape, Local, SearchEarly
<1>8. CASE FromJson(i)
  <2>1. row' = row /\ rows' = rows /\ found' = found /\ row[i] = Nothing /\ rows[i] = <<>>
    BY <1>8 DEF FromJson, Local, SearchEarly
  <2>2. CASE q.throws = "json"
    BY <1>1, <1>2, <1>8, <2>1, <2>2 DEF FromJson, SearchShape, Local, SearchEarly
  <2>3. CASE q.throws # "json"
    <3>1. ~Throws(i)
      BY <1>2, <1>3, <1>8, <2>3 DEF FromJson, Local
    <3>2. at'[i] = "search" /\ good'[i] = (tmp_from_json(q).res # 0)
      BY <1>8, <2>3 DEF FromJson, SearchShape
    <3>3. QED BY <1>1, <1>2, <2>1, <3>1, <3>2 DEF Local, SearchEarly
  <2>4. QED BY <2>2, <2>3
<1>9. CASE Search(i)
  <2> DEFINE searched == tmp_from_json(q).type \in Indexed
             ids == IF good[i] /\ searched THEN q.found ELSE <<>>
             st == good[i] /\ (searched => ids # <<>>)
  <2>1. /\ found'[i] = ids /\ good'[i] = st
        /\ at'[i] = IF st THEN "ids" ELSE "json_out"
        /\ row' = row /\ rows' = rows /\ at[i] = "search"
    BY <1>9 DEF Search, SearchShape
  <2>2. row[i] = Nothing /\ rows[i] = <<>> /\ ~Throws(i) /\ good[i] = (tmp_from_json(q).res # 0)
    BY <2>1 DEF Local, SearchEarly
  <2>3. CASE st
    <3>1. ids = Ids(q)
      BY <2>3 DEF Ids
    <3>2. Looking(q, <<>>, Ids(q), TRUE)
      <4>1. <<>> \in Seq(Hits) /\ Len(<<>>) = 0 /\ Len(Ids(q)) \in Nat
        BY <1>3
      <4>2. tmp_from_json(q).res # 0 /\ (tmp_from_json(q).type \in Indexed => q.found # <<>>)
        BY <2>2, <2>3
      <4>3. \A j \in 1..Len(Ids(q)) : 0 + j = j
        OBVIOUS
      <4>4. QED BY <1>3, <4>1, <4>2, <4>3 DEF Looking
    <3>3. at'[i] = "ids" /\ good'[i] = TRUE /\ found'[i] = Ids(q) /\ rows'[i] = <<>>
      BY <2>1, <2>2, <2>3, <3>1
    <3>4. QED BY <1>1, <1>2, <2>2, <3>2, <3>3 DEF Local, SearchEarly
  <2>4. CASE ~st
    <3>1. tmp_from_json(q).res = 0 \/ (tmp_from_json(q).type \in Indexed /\ q.found = <<>>)
      BY <2>2, <2>4
    <3>2. OwnRow(q) = Nothing
      BY <3>1 DEF OwnRow
    <3>3. at'[i] = "json_out" /\ row'[i] = OwnRow(q)
      BY <2>1, <2>2, <2>4, <3>2
    <3>4. QED BY <1>1, <1>2, <2>2, <3>3 DEF Local, SearchEarly
  <2>5. QED BY <2>3, <2>4
<1>10. CASE Look(i)
  <2> DEFINE r == Head(found[i])
             s == IF q.compare THEN r.read ELSE good[i]
  <2>1. /\ at[i] = "ids" /\ at' = at /\ row' = row /\ found[i] # <<>>
        /\ rows'[i] = Append(rows[i], Tmp(q, r, s)) /\ good'[i] = s /\ found'[i] = Tail(found[i])
    BY <1>10 DEF Look, SearchShape
  <2>2. good[i] \in BOOLEAN /\ Looking(q, rows[i], found[i], good[i]) /\ ~Throws(i)
    BY <2>1 DEF SearchShape, Local
  <2>3. Looking(q, rows'[i], found'[i], good'[i])
    BY <1>1, <2>1, <2>2, LookOne
  <2>4. QED BY <1>1, <1>2, <2>1, <2>2, <2>3 DEF Local, SearchEarly
<1>11. CASE Looked(i)
  <2>1. /\ at[i] = "ids" /\ at'[i] = "json_out" /\ found[i] = <<>>
        /\ row'[i] = [type |-> tmp_from_json(q).type, value |-> rows[i]]
    BY <1>11 DEF Looked, SearchShape
  <2>2. Looking(q, rows[i], <<>>, good[i]) /\ ~Throws(i)
    BY <2>1 DEF Local
  <2>3. row'[i] = OwnRow(q)
    BY <1>1, <2>1, <2>2, LookedAll
  <2>4. QED BY <1>1, <1>2, <2>1, <2>2, <2>3 DEF Local, SearchEarly
<1>12. CASE ReadOut(i)
  BY <1>1, <1>2, <1>12 DEF ReadOut, SearchShape, Local, SearchEarly
<1>13. CASE StoreRow(i)
  BY <1>1, <1>2, <1>13 DEF StoreRow, slocal, SearchShape, Local, SearchEarly
<1>14. QED BY <1>4, <1>5, <1>6, <1>7, <1>8, <1>9, <1>10, <1>11, <1>12, <1>13 DEF TaskStep

LEMMA UpToType ==
  ASSUME NEW S, NEW s \in Seq(S), NEW n \in Nat
  PROVE  UpTo(s, n) \in Seq(S)
<1> DEFINE m == IF n < Len(s) THEN n ELSE Len(s)
<1>1. m \in 0..Len(s)
  OBVIOUS
<1>2. SubSeq(s, 1, m) \in Seq(S)
  BY <1>1
<1>3. QED BY <1>2 DEF UpTo

(* The vectors and the answer.                                             *)
LEMMA ShapeTask ==
  ASSUME SearchShape, Cellular, NEW i \in Places, TaskStep(i), Local(i)
  PROVE  SearchShape' /\ Cellular'
<1>1. query' = query /\ free' = free /\ Places' = Places /\ Cells' = Cells
  <2>1. query' = query /\ free' = free /\ Places' = Places
    BY Frame DEF SNext
  <2>2. QED BY <2>1 DEF Cells
<1>2. i \in 1..Len(query) /\ Len(query) \in Nat /\ Places = 1..Len(query)
  BY DEF SearchShape, Places
<1>3. waited' = waited
  BY DEF TaskStep, TakeTask, Open, ReadDbs, PushDb, FromJson, Search, Look, Looked, ReadOut,
     StoreRow
<1>4. CASE StoreRow(i)
  <2> DEFINE known == Len(json_out)
             cells == [k \in 1..i |-> IF k <= known THEN json_out[k] ELSE Nothing]
             resized == IF size[i] >= i THEN json_out ELSE cells
  <2>1. /\ at[i] = "store"
        /\ json_out' = IF i \in DOMAIN resized THEN [resized EXCEPT ![i] = row[i]] ELSE resized
    BY <1>4 DEF StoreRow, Reached
  <2>2. row[i] = OwnRow(query[i]) /\ row[i] \in Cells
    BY <2>1 DEF Local, Cells
  <2>3. known \in Nat /\ known <= Len(query) /\ DOMAIN json_out = 1..known
        /\ \A k \in 1..known : json_out[k] \in Cells /\ json_out[k] \in {Nothing, OwnRow(query[k])}
    BY DEF SearchShape, Cellular
  <2>4. Nothing \in Cells
    BY DEF Cells
  <2>5. cells \in Seq(Cells) /\ Len(cells) = i /\ DOMAIN cells = 1..i
        /\ \A k \in 1..i : cells[k] \in {Nothing, OwnRow(query[k])}
    BY <1>2, <2>3, <2>4
  <2>6. resized \in Seq(Cells) /\ Len(resized) <= Len(query)
        /\ \A k \in DOMAIN resized : resized[k] \in {Nothing, OwnRow(query[k])}
    BY <1>2, <2>3, <2>5 DEF SearchShape
  <2> HIDE DEF resized
  <2>7. json_out' \in Seq(Cells) /\ Len(json_out') <= Len(query)
    BY <2>1, <2>2, <2>6
  <2>8. \A k \in DOMAIN json_out' : json_out'[k] \in {Nothing, OwnRow(query[k])}
    BY <2>1, <2>2, <2>6
  <2>9. Cellular'
    BY <1>1, <2>8 DEF Cellular
  <2>10. SearchShape'
    BY <1>1, <1>3, <1>4, <2>7 DEF StoreRow, Then, slocal, SearchShape, Point
  <2>11. QED BY <2>9, <2>10
<1>5. CASE ~StoreRow(i)
  <2>1. json_out' = json_out
    BY <1>5 DEF TaskStep, TakeTask, Open, ReadDbs, PushDb, FromJson, Search, Look, Looked, ReadOut
  <2>2. Cellular'
    BY <1>1, <2>1 DEF Cellular
  <2> USE DEF Then, slocal, SearchShape, Point
  <2>3. ASSUME TakeTask(i) \/ Open(i) PROVE SearchShape'
    BY <1>1, <1>3, <2>1, <2>3 DEF TakeTask, Open
  <2>4. ASSUME ReadDbs(i) PROVE SearchShape'
    <3>1. Len(dbs) \in Nat
      OBVIOUS
    <3>2. QED BY <1>1, <1>3, <2>1, <2>4, <3>1 DEF ReadDbs
  <2>5. ASSUME ReadOut(i) PROVE SearchShape'
    <3>1. Len(json_out) \in Nat
      OBVIOUS
    <3>2. QED BY <1>1, <1>3, <2>1, <2>5, <3>1 DEF ReadOut
  <2>6. ASSUME PushDb(i) PROVE SearchShape'
    <3>1. dbs' \in Seq(Places)
      <4>1. UpTo(dbs, size[i]) \in Seq(Places)
        BY UpToType
      <4>2. QED BY <2>6, <4>1 DEF PushDb
    <3>2. QED BY <1>1, <1>3, <2>1, <2>6, <3>1 DEF PushDb
  <2>7. ASSUME FromJson(i) PROVE SearchShape'
    BY <1>1, <1>3, <2>1, <2>7 DEF FromJson
  <2>8. ASSUME Search(i) PROVE SearchShape'
    BY <1>1, <1>3, <2>1, <2>8 DEF Search
  <2>9. ASSUME Look(i) PROVE SearchShape'
    <3> DEFINE s == IF query[i].compare THEN Head(found[i]).read ELSE good[i]
    <3>1. query[i] \in Queries /\ at[i] = "ids" /\ found[i] # <<>> /\ good[i] \in BOOLEAN
      BY <1>2, <2>9 DEF Look, Reached
    <3>2. s \in BOOLEAN
      BY <3>1, LookOne DEF Local
    <3>3. good' = [good EXCEPT ![i] = s]
      BY <2>9 DEF Look
    <3> HIDE DEF s
    <3>4. good' \in [Places -> BOOLEAN]
      BY <3>2, <3>3
    <3>5. QED BY <1>1, <1>3, <2>1, <2>9, <3>4 DEF Look
  <2>10. ASSUME Looked(i) PROVE SearchShape'
    BY <1>1, <1>3, <2>1, <2>10 DEF Looked
  <2>11. QED BY <1>5, <2>2, <2>3, <2>4, <2>5, <2>6, <2>7, <2>8, <2>9, <2>10 DEF TaskStep
<1>6. QED BY <1>4, <1>5

-----------------------------------------------------------------------------
(* The join and the answer.                                                *)
LEMMA ShapeJoin ==
  ASSUME SearchInv, TakeJoin \/ (\E i \in Places : WaitFor(i)) \/ ReplyRows \/ ReplyException \/ UNCHANGED svars
  PROVE  SearchInv'
<1>1. /\ query' = query /\ free' = free /\ at' = at /\ size' = size /\ good' = good
      /\ found' = found /\ rows' = rows /\ row' = row /\ dbs' = dbs /\ json_out' = json_out
  BY DEF TakeJoin, WaitFor, ReplyRows, ReplyException, Reply, svars, sinput, slocal
<1>2. Places' = Places /\ Cells' = Cells /\ Cellular' /\ \A i \in Places : Local(i)'
  BY <1>1, Keeps DEF Places, Cells, SearchInv, Cellular
<1>3. closed' \in [Places -> Int]
  <2>1. CASE closed' = closed
    BY <2>1 DEF SearchInv, SearchShape
  <2>2. CASE closed' = [i \in Places |-> closed[i] + Cardinality({k \in DOMAIN dbs : dbs[k] = i})]
    <3>1. ASSUME NEW i \in Places
          PROVE  closed[i] + Cardinality({k \in DOMAIN dbs : dbs[k] = i}) \in Int
      <4>1. IsFiniteSet(DOMAIN dbs)
        <5>1. DOMAIN dbs = 1..Len(dbs) /\ Len(dbs) \in Nat
          BY DEF SearchInv, SearchShape
        <5>2. QED BY <5>1, FS_Interval
      <4>2. Cardinality({k \in DOMAIN dbs : dbs[k] = i}) \in Nat
        BY <4>1, FS_Subset, FS_CardinalityType
      <4>3. QED BY <4>2 DEF SearchInv, SearchShape
    <3>2. QED BY <2>2, <3>1
  <2>3. QED BY <2>1, <2>2 DEF TakeJoin, WaitFor, ReplyRows, ReplyException, Reply, svars
<1>4. waited' \in -1..Len(query) /\ Ended'
  <2>1. Places = 1..Len(query) /\ Len(query) \in Nat /\ waited \in -1..Len(query) /\ Ended
    BY DEF SearchInv, SearchShape, Places
  <2>2. CASE waited' = waited
    BY <1>1, <2>1, <2>2 DEF Ended
  <2>3. CASE TakeJoin
    BY <1>1, <2>1, <2>3 DEF TakeJoin, Ended
  <2>4. ASSUME NEW i \in Places, WaitFor(i) PROVE waited' \in -1..Len(query) /\ Ended'
    BY <1>1, <2>1, <2>4 DEF WaitFor, Ended
  <2>5. QED BY <2>2, <2>3, <2>4 DEF ReplyRows, ReplyException, Reply, svars
<1>5. SearchShape'
  BY <1>1, <1>2, <1>3, <1>4 DEF SearchInv, SearchShape
<1>6. QED BY <1>2, <1>4, <1>5 DEF SearchInv

LEMMA Leaves ==
  ASSUME SearchShape, NEW i \in Places, TaskStep(i)
  PROVE  at[i] \notin {"end", "threw"} /\ reply = NoReply /\ reply' = reply /\ waited' = waited
BY DEF TaskStep, TakeTask, Open, ReadDbs, PushDb, FromJson, Search, Look, Looked, ReadOut,
   StoreRow, Reached

LEMMA SearchStep == SearchInv /\ [SNext]_svars => SearchInv'
<1> SUFFICES ASSUME SearchInv, [SNext]_svars PROVE SearchInv'
  OBVIOUS
<1>1. ASSUME NEW i \in Places, TaskStep(i) PROVE SearchInv'
  <2>1. SearchShape' /\ Cellular'
    BY <1>1, ShapeTask DEF SearchInv
  <2>2. query' = query /\ Places' = Places
    BY <1>1, Frame DEF SNext
  <2>3. ASSUME NEW k \in Places PROVE Local(k)'
    <3>1. CASE k = i
      BY <1>1, <3>1, LocalStep DEF SearchInv
    <3>2. CASE k # i
      BY <1>1, <2>2, <3>2, SearchApart, Keeps DEF SearchInv
    <3>3. QED BY <3>1, <3>2
  <2>4. Ended'
    <3>1. waited' = waited /\ at[i] # "end"
      BY <1>1, Leaves DEF SearchInv
    <3>2. ASSUME NEW k \in 1..waited PROVE at'[k] = "end"
      <4>1. k \in Places /\ at[k] = "end"
        BY <3>2 DEF SearchInv, SearchShape, Places, Ended
      <4>2. QED BY <1>1, <3>1, <4>1, SearchApart DEF SearchInv
    <3>3. QED BY <3>1, <3>2 DEF Ended
  <2>5. QED BY <2>1, <2>2, <2>3, <2>4 DEF SearchInv
<1>2. QED BY <1>1, ShapeJoin DEF SNext, Replied

-----------------------------------------------------------------------------
(* One free thread.  Which connections are in the vector, and how often    *)
(* each was closed before the answer; what a task has read is still so.    *)
Pushed(i) ==
  \/ at[i] \in {"json", "search", "ids", "json_out", "store", "end"}
  \/ at[i] = "threw" /\ query[i].throws = "json"

Fresh(i) ==
  /\ at[i] = "push" => size[i] = Len(dbs)
  /\ at[i] = "store" => size[i] = Len(json_out)
  /\ at[i] = "end" => i <= Len(json_out) /\ json_out[i] = OwnRow(query[i])
  /\ Pushed(i) <=> \E k \in DOMAIN dbs : dbs[k] = i

Once == \A k, m \in DOMAIN dbs : dbs[k] = dbs[m] => k = m
Over == {"end", "threw"}
Opened(i) ==
  closed[i] = IF at[i] \in {"queued", "db_open"} \/ query[i].throws = "db_open" THEN -1 ELSE 0

SearchInOrder ==
  /\ \A i, k \in Holding : i = k
  /\ \A i \in Places : Fresh(i)
  /\ Once
  /\ waited >= 0 => \A i \in Places : at[i] \in Over
  /\ reply = NoReply => \A i \in Places : Opened(i)
  /\ reply # NoReply => waited >= 0 /\ InTurn

SearchSerialInv == free = 1 => SearchInOrder

LEMMA NoneHolds == SearchShape /\ free = 1 /\ Cardinality(Holding) < free => Holding = {}
<1> SUFFICES ASSUME SearchShape, Cardinality(Holding) < 1 PROVE Holding = {}
  OBVIOUS
<1>1. Places = 1..Len(query) /\ Len(query) \in Nat
  BY DEF SearchShape, Places
<1>2. IsFiniteSet(Holding)
  <2>1. IsFiniteSet(Places)
    BY <1>1, FS_Interval
  <2>2. Holding \subseteq Places
    BY DEF Holding
  <2>3. QED BY <2>1, <2>2, FS_Subset
<1>3. Cardinality(Holding) = 0
  BY <1>2, FS_CardinalityType
<1>4. QED BY <1>2, <1>3, FS_EmptySet

(* While a task has a thread no other one does anything.                   *)
LEMMA Others ==
  ASSUME SearchShape, free = 1, SearchInOrder, NEW i \in Places, TaskStep(i), NEW k \in Places, k # i
  PROVE  at[k] \in Over \cup {"queued"}
<1>1. CASE at[i] = "queued"
  <2>1. TakeTask(i)
    BY <1>1 DEF TaskStep, Open, ReadDbs, PushDb, FromJson, Search, Look, Looked, ReadOut,
       StoreRow, Reached
  <2>2. Holding = {}
    BY <2>1, NoneHolds DEF TakeTask
  <2>3. QED BY <2>2 DEF Holding, Over
<1>2. CASE at[i] # "queued"
  <2>1. i \in Holding
    BY <1>2, Leaves DEF Holding
  <2>2. k \notin Holding
    BY <2>1 DEF SearchInOrder
  <2>3. QED BY <2>2 DEF Holding, Over
<1>3. QED BY <1>1, <1>2

LEMMA Stored ==
  ASSUME SearchShape, NEW i \in Places, StoreRow(i), size[i] = Len(json_out)
  PROVE  /\ i <= Len(json_out') /\ Len(json_out) <= Len(json_out')
         /\ json_out'[i] = row[i]
         /\ \A k \in 1..Len(json_out) : k # i => json_out'[k] = json_out[k]
<1> DEFINE known == Len(json_out)
           cells == [k \in 1..i |-> IF k <= known THEN json_out[k] ELSE Nothing]
<1>1. known \in Nat /\ i \in Nat /\ i > 0 /\ DOMAIN json_out = 1..known /\ json_out \in Seq(Cells)
  BY DEF SearchShape, Places
<1>2. CASE known >= i
  <2>1. json_out' = [json_out EXCEPT ![i] = row[i]]
    BY <1>1, <1>2 DEF StoreRow
  <2>2. Len(json_out') = known
    BY <1>1, <2>1
  <2>3. QED BY <1>1, <1>2, <2>1, <2>2
<1>3. CASE known < i
  <2>1. json_out' = [cells EXCEPT ![i] = row[i]]
    <3>1. ~(size[i] >= i) /\ i \in 1..i
      BY <1>1, <1>3
    <3>2. DOMAIN cells = 1..i
      OBVIOUS
    <3>3. json_out' = IF i \in DOMAIN cells THEN [cells EXCEPT ![i] = row[i]] ELSE cells
      BY <3>1 DEF StoreRow
    <3>4. QED BY <3>1, <3>2, <3>3
  <2>2. json_out' = [k \in 1..i |-> IF k = i THEN row[i] ELSE cells[k]]
    BY <1>1, <2>1
  <2>3. Len(json_out') = i
    BY <1>1, <2>2
  <2>4. json_out'[i] = row[i]
    BY <1>1, <2>2
  <2>5. ASSUME NEW k \in 1..known, k # i PROVE json_out'[k] = json_out[k]
    <3>1. k \in 1..i /\ k <= known
      BY <1>1, <1>3
    <3>2. QED BY <2>2, <2>5, <3>1
  <2>6. QED BY <1>1, <1>3, <2>3, <2>4, <2>5
<1>4. QED BY <1>1, <1>2, <1>3

LEMMA Pushing ==
  ASSUME SearchShape, NEW i \in Places, PushDb(i), size[i] = Len(dbs)
  PROVE  dbs' = Append(dbs, i)
<1>1. dbs \in Seq(Places) /\ Len(dbs) \in Nat
  BY DEF SearchShape
<1>2. SubSeq(dbs, 1, Len(dbs)) = dbs
  BY <1>1
<1>3. QED BY <1>2 DEF PushDb, UpTo

(* The step of the task whose turn it is.                                  *)
LEMMA FreshStep ==
  ASSUME SearchInv, free = 1, SearchInOrder, NEW i \in Places, TaskStep(i)
  PROVE  (\A k \in Places : Fresh(k)') /\ Once'
<1>1. SearchShape /\ Local(i) /\ Fresh(i) /\ Once /\ query' = query
  BY Frame DEF SearchInv, SearchInOrder, SNext
<1>2. ASSUME NEW k \in Places, k # i
      PROVE  /\ at[k] \in Over \cup {"queued"} /\ at'[k] = at[k] /\ Fresh(k)
             /\ Pushed(k)' = Pushed(k)
  <2>1. at[k] \in Over \cup {"queued"} /\ at'[k] = at[k] /\ Fresh(k)
    BY <1>1, <1>2, Others, SearchApart DEF SearchInOrder
  <2>2. QED BY <1>1, <2>1 DEF Pushed
<1>3. Len(dbs) \in Nat /\ Len(json_out) \in Nat /\ dbs \in Seq(Places) /\ i \in Nat
  BY <1>1 DEF SearchShape, Places
<1>4. CASE PushDb(i)
  <2>1. at[i] = "push" /\ at'[i] = "json" /\ json_out' = json_out /\ size' = size
    BY <1>1, <1>4 DEF PushDb, Reached, Then, SearchShape, slocal
  <2>2. dbs' = Append(dbs, i)
    BY <1>1, <1>4, <2>1, Pushing DEF Fresh
  <2>3. /\ DOMAIN dbs = 1..Len(dbs) /\ DOMAIN dbs' = 1..(Len(dbs) + 1)
        /\ dbs'[Len(dbs) + 1] = i /\ \A m \in 1..Len(dbs) : dbs'[m] = dbs[m]
    BY <1>3, <2>2
  <2>4. ~Pushed(i) /\ \A m \in DOMAIN dbs : dbs[m] # i
    BY <1>1, <2>1 DEF Fresh, Pushed
  <2>5. Once'
    <3>1. ASSUME NEW m \in DOMAIN dbs', NEW n \in DOMAIN dbs', dbs'[m] = dbs'[n] PROVE m = n
      <4>1. m \in 1..Len(dbs) \/ m = Len(dbs) + 1
        BY <1>3, <2>3
      <4>2. n \in 1..Len(dbs) \/ n = Len(dbs) + 1
        BY <1>3, <2>3
      <4>3. QED BY <1>1, <2>3, <2>4, <3>1, <4>1, <4>2 DEF Once
    <3>2. QED BY <3>1 DEF Once
  <2>6. ASSUME NEW k \in Places, k # i PROVE Fresh(k)'
    <3>1. (\E m \in DOMAIN dbs' : dbs'[m] = k) <=> (\E m \in DOMAIN dbs : dbs[m] = k)
      <4>1. ASSUME NEW m \in DOMAIN dbs', dbs'[m] = k PROVE m \in DOMAIN dbs /\ dbs[m] = k
        <5>1. m \in 1..Len(dbs) \/ m = Len(dbs) + 1
          BY <1>3, <2>3
        <5>2. QED BY <2>3, <2>6, <4>1, <5>1
      <4>2. ASSUME NEW m \in DOMAIN dbs, dbs[m] = k PROVE m \in DOMAIN dbs' /\ dbs'[m] = k
        BY <1>3, <2>3, <4>2
      <4>3. QED BY <4>1, <4>2
    <3>2. QED BY <1>1, <1>2, <2>1, <2>6, <3>1 DEF Fresh, Over
  <2>7. Fresh(i)'
    <3>1. Len(dbs) + 1 \in DOMAIN dbs'
      BY <1>3, <2>3
    <3>2. QED BY <2>1, <2>3, <3>1 DEF Fresh, Pushed
  <2>8. QED BY <2>5, <2>6, <2>7
<1>5. CASE StoreRow(i)
  <2>1. at[i] = "store" /\ at'[i] = "end" /\ dbs' = dbs
    BY <1>1, <1>5 DEF StoreRow, Reached, Then, SearchShape
  <2>2. /\ i <= Len(json_out') /\ Len(json_out) <= Len(json_out')
        /\ json_out'[i] = OwnRow(query[i])
        /\ \A k \in 1..Len(json_out) : k # i => json_out'[k] = json_out[k]
    BY <1>1, <1>5, <2>1, Stored DEF Fresh, Local
  <2>3. Len(json_out') \in Nat
    BY <1>5, ShapeTask DEF SearchInv, SearchShape
  <2>4. ASSUME NEW k \in Places, k # i PROVE Fresh(k)'
    <3>1. at'[k] = "end" => k <= Len(json_out') /\ json_out'[k] = OwnRow(query[k])
      <4>1. k \in Nat /\ k > 0
        BY <1>1 DEF SearchShape, Places
      <4>2. at[k] = "end" => k <= Len(json_out) /\ json_out[k] = OwnRow(query[k])
        BY <1>2, <2>4 DEF Fresh
      <4>3. at'[k] = at[k]
        BY <1>2, <2>4
      <4>4. at[k] = "end" => k \in 1..Len(json_out)
        BY <1>3, <4>1, <4>2
      <4>5. QED BY <1>3, <2>2, <2>3, <2>4, <4>1, <4>2, <4>3, <4>4
    <3>2. QED BY <1>1, <1>2, <2>1, <2>4, <3>1 DEF Fresh, Over
  <2>5. Fresh(i)'
    BY <1>1, <2>1, <2>2 DEF Fresh, Pushed
  <2>6. QED BY <1>1, <2>1, <2>4, <2>5 DEF Once
<1>6. CASE ~PushDb(i) /\ ~StoreRow(i)
  <2>1. dbs' = dbs /\ json_out' = json_out
    BY <1>6 DEF TaskStep, TakeTask, Open, ReadDbs, FromJson, Search, Look, Looked, ReadOut
  <2>2. ASSUME NEW k \in Places, k # i PROVE Fresh(k)'
    BY <1>1, <1>2, <2>1, <2>2 DEF Fresh, Over
  <2>3. /\ at'[i] = "push" => size'[i] = Len(dbs)
        /\ at'[i] = "store" => size'[i] = Len(json_out)
        /\ at'[i] # "end" /\ at[i] # "end"
    BY <1>1, <1>3, <1>6 DEF TaskStep, TakeTask, Open, ReadDbs, FromJson, Search, Look, Looked,
       ReadOut, Reached, Then, SearchShape
  <2>4. Pushed(i)' = Pushed(i)
    BY <1>1, <1>6 DEF TaskStep, TakeTask, Open, ReadDbs, FromJson, Search, Look, Looked,
       ReadOut, Reached, Then, SearchShape, Pushed, Local
  <2>5. Fresh(i)'
    BY <1>1, <2>1, <2>3, <2>4 DEF Fresh
  <2>6. QED BY <1>1, <2>1, <2>2, <2>5 DEF Once
<1>7. QED BY <1>4, <1>5, <1>6

LEMMA PushedOpened ==
  ASSUME SearchShape, NEW i \in Places, Local(i), Opened(i), at[i] \in Over
  PROVE  IF Pushed(i) THEN query[i].throws # "db_open" /\ closed[i] = 0
                      ELSE query[i].throws = "db_open" /\ closed[i] = -1
<1>1. query[i].throws \in {"never", "db_open", "json"}
  BY QueryFacts DEF SearchShape, Places
<1>2. CASE at[i] = "end"
  BY <1>1, <1>2 DEF Local, Opened, Pushed, Throws
<1>3. CASE at[i] = "threw"
  BY <1>1, <1>3 DEF Local, Opened, Pushed, Throws
<1>4. QED BY <1>2, <1>3 DEF Over

(* The connections are closed with the answer, each once.                  *)
LEMMA ClosedOnce ==
  ASSUME SearchInv, SearchInOrder, reply = NoReply, waited >= 0, NEW i \in Places
  PROVE  closed[i] + Cardinality({k \in DOMAIN dbs : dbs[k] = i})
           = IF query[i].throws = "db_open" THEN -1 ELSE 1
<1> DEFINE mine == {k \in DOMAIN dbs : dbs[k] = i}
<1>1. at[i] \in Over /\ Opened(i) /\ Fresh(i) /\ Once
  BY DEF SearchInOrder
<1>2. CASE Pushed(i)
  <2>1. PICK k \in DOMAIN dbs : dbs[k] = i
    BY <1>1, <1>2 DEF Fresh
  <2>2. mine = {k}
    BY <1>1, <2>1 DEF Once
  <2>3. Cardinality(mine) = 1
    BY <2>2, FS_Singleton
  <2>4. query[i].throws # "db_open" /\ closed[i] = 0
    BY <1>1, <1>2, PushedOpened DEF SearchInv
  <2>5. QED BY <2>3, <2>4
<1>3. CASE ~Pushed(i)
  <2>1. mine = {}
    BY <1>1, <1>3 DEF Fresh
  <2>2. Cardinality(mine) = 0
    BY <2>1, FS_EmptySet
  <2>3. query[i].throws = "db_open" /\ closed[i] = -1
    BY <1>1, <1>3, PushedOpened DEF SearchInv
  <2>4. QED BY <2>2, <2>3
<1>4. QED BY <1>2, <1>3

LEMMA AnswerStep ==
  ASSUME SearchInv, free = 1, SearchInOrder, reply = NoReply, ReplyRows \/ ReplyException
  PROVE  reply' # NoReply /\ waited >= 0 /\ InTurn'
<1>1. Places = 1..Len(query) /\ Len(query) \in Nat /\ waited \in -1..Len(query)
  BY DEF SearchInv, SearchShape, Places
<1>2. query' = query /\ Places' = Places /\ (\A i : Throws(i)' = Throws(i)) /\ \A i : Failed(i)' = Failed(i)
  BY DEF ReplyRows, ReplyException, Reply, sinput, Places, Throws, Failed
<1>3. waited >= 0
  BY <1>1 DEF ReplyRows, ReplyException
<1>4. \A i \in Places : closed'[i] = IF query[i].throws = "db_open" THEN -1 ELSE 1
  <2>1. closed' = [i \in Places |-> closed[i] + Cardinality({k \in DOMAIN dbs : dbs[k] = i})]
    BY DEF ReplyRows, ReplyException, Reply
  <2>2. QED BY <1>3, <2>1, ClosedOnce
<1>5. CASE ReplyRows
  <2>1. waited = Len(query) /\ reply' = [result |-> "true", value |-> json_out]
    BY <1>5 DEF ReplyRows, Reply
  <2>2. \A i \in Places : at[i] = "end"
    BY <1>1, <2>1 DEF SearchInv, Ended
  <2>3. \A i \in Places : ~Throws(i) /\ i <= Len(json_out) /\ json_out[i] = OwnRow(query[i])
    BY <2>2 DEF SearchInv, Local, SearchInOrder, Fresh
  <2>4. Len(json_out) = Len(query)
    <3>1. Len(json_out) \in Nat /\ Len(json_out) <= Len(query)
      BY DEF SearchInv, SearchShape
    <3>2. CASE Len(query) = 0
      BY <3>1, <3>2
    <3>3. CASE Len(query) > 0
      <4>1. Len(query) \in Places
        BY <1>1, <3>3
      <4>2. QED BY <1>1, <2>3, <3>1, <4>1
    <3>4. QED BY <1>1, <3>2, <3>3
  <2>5. reply'.result = "true" /\ reply'.value = json_out /\ reply' # NoReply
    BY <2>1 DEF NoReply
  <2>6. QED BY <1>2, <1>3, <1>4, <2>3, <2>4, <2>5 DEF InTurn
<1>6. CASE ReplyException
  <2>1. waited + 1 \in Places /\ at[waited + 1] = "threw" /\ reply' = [result |-> "false", value |-> <<>>]
    BY <1>6 DEF ReplyException, Reply
  <2>2. Throws(waited + 1)
    BY <2>1 DEF SearchInv, Local
  <2>3. reply'.result = "false" /\ reply' # NoReply
    BY <2>1 DEF NoReply
  <2>4. QED BY <1>2, <1>3, <1>4, <2>1, <2>2, <2>3 DEF InTurn
<1>7. QED BY <1>5, <1>6

LEMMA OpenedStep ==
  ASSUME SearchInv, NEW i \in Places, TaskStep(i), \A k \in Places : Opened(k)
  PROVE  \A k \in Places : Opened(k)'
<1>1. SearchShape /\ Local(i) /\ query' = query /\ Opened(i)
  BY Frame DEF SearchInv, SNext
<1>2. ASSUME NEW k \in Places, k # i PROVE Opened(k)'
  BY <1>1, <1>2, SearchApart DEF Opened
<1>3. Opened(i)'
  <2> USE DEF Reached, Then, SearchShape, Opened
  <2>1. CASE Open(i)
    <3>1. at[i] = "db_open" /\ closed[i] = -1
      BY <1>1, <2>1 DEF Open
    <3>2. CASE query[i].throws = "db_open"
      BY <1>1, <2>1, <3>1, <3>2 DEF Open
    <3>3. CASE query[i].throws # "db_open"
      BY <1>1, <2>1, <3>1, <3>3 DEF Open
    <3>4. QED BY <3>2, <3>3
  <2>2. CASE TakeTask(i)
    BY <1>1, <2>2 DEF TakeTask
  <2>3. CASE ~Open(i) /\ ~TakeTask(i)
    <3>1. closed' = closed
      BY <2>3 DEF TaskStep, ReadDbs, PushDb, FromJson, Search, Look, Looked, ReadOut, StoreRow
    <3>2. at[i] \notin {"queued", "db_open"} /\ at'[i] \notin {"queued", "db_open"}
      BY <1>1, <2>3 DEF TaskStep, ReadDbs, PushDb, FromJson, Search, Look, Looked, ReadOut, StoreRow
    <3>3. QED BY <1>1, <3>1, <3>2
  <2>4. QED BY <2>1, <2>2, <2>3
<1>4. QED BY <1>2, <1>3

LEMMA SearchSerialStep == SearchInv /\ SearchSerialInv /\ [SNext]_svars => SearchSerialInv'
<1> SUFFICES ASSUME SearchInv, SearchSerialInv, [SNext]_svars, free' = 1 PROVE SearchInOrder'
  BY DEF SearchSerialInv
<1>0. free = 1 /\ SearchInOrder /\ SearchShape /\ query' = query /\ Places' = Places
  <2>1. CASE SNext
    BY <2>1, Frame DEF SearchInv, SearchSerialInv
  <2>2. CASE UNCHANGED svars
    BY <2>2 DEF SearchInv, SearchSerialInv, svars, sinput, Places
  <2>3. QED BY <2>1, <2>2
<1>1. ASSUME NEW i \in Places, TaskStep(i) PROVE SearchInOrder'
  <2>1. at[i] \notin Over /\ reply = NoReply /\ reply' = NoReply /\ waited' = waited
    BY <1>0, <1>1, Leaves DEF Over
  <2>2. ~(waited >= 0)
    BY <1>0, <2>1 DEF SearchInOrder
  <2>3. \A k \in Places : k # i => at'[k] = at[k] /\ at[k] \in Over \cup {"queued"}
    BY <1>0, <1>1, Others, SearchApart
  <2>4. \A k \in Holding' : k = i
    BY <1>0, <2>3 DEF Holding, Over
  <2>5. (\A k \in Places : Fresh(k)') /\ Once'
    BY <1>0, <1>1, FreshStep
  <2>6. \A k \in Places : Opened(k)'
    BY <1>0, <1>1, <2>1, OpenedStep DEF SearchInOrder
  <2>7. QED BY <1>0, <2>1, <2>2, <2>4, <2>5, <2>6 DEF SearchInOrder
<1>2. ASSUME UNCHANGED <<query, at, size, dbs, json_out>>
      PROVE  /\ \A i, k \in Holding' : i = k
             /\ \A i \in Places' : Fresh(i)'
             /\ Once'
  BY <1>0, <1>2 DEF SearchInOrder, Holding, Fresh, Pushed, Once
<1>3. CASE TakeJoin
  <2>1. UNCHANGED <<query, free, at, size, dbs, json_out, closed, reply>> /\ waited = -1 /\ waited' = 0
    BY <1>3 DEF TakeJoin, sinput, slocal
  <2>2. \A i \in Places : at[i] \in Over
    <3>1. Holding = {}
      BY <1>0, <1>3, NoneHolds DEF TakeJoin
    <3>2. QED BY <1>3, <3>1 DEF TakeJoin, AllTaken, Holding, Over
  <2>3. reply = NoReply /\ \A i \in Places : Opened(i)
    BY <1>0, <2>1 DEF SearchInOrder
  <2>4. \A i \in Places : Opened(i)'
    BY <2>1, <2>3 DEF Opened
  <2>5. QED BY <1>0, <1>2, <2>1, <2>2, <2>3, <2>4 DEF SearchInOrder
<1>4. ASSUME NEW i \in Places, WaitFor(i) PROVE SearchInOrder'
  <2>1. UNCHANGED <<query, free, at, size, dbs, json_out, closed, reply>> /\ waited = i - 1 /\ waited' = i
    BY <1>4 DEF WaitFor, sinput, slocal
  <2>2. i \in Nat /\ i > 0
    BY <1>0 DEF SearchShape, Places
  <2>3. waited >= 0 /\ waited' >= 0
    BY <2>1, <2>2
  <2>4. \A k \in Places : Opened(k)' = Opened(k)
    BY <2>1 DEF Opened
  <2>5. InTurn' = InTurn
    BY <1>0, <2>1 DEF InTurn, Throws, Failed
  <2>6. QED BY <1>0, <1>2, <2>1, <2>3, <2>4, <2>5 DEF SearchInOrder
<1>5. CASE ReplyRows \/ ReplyException
  <2>1. UNCHANGED <<query, free, at, size, dbs, json_out, waited>> /\ reply = NoReply
    BY <1>5 DEF ReplyRows, ReplyException, Reply, sinput, slocal
  <2>2. reply' # NoReply /\ waited >= 0 /\ InTurn'
    BY <1>0, <1>5, <2>1, AnswerStep
  <2>3. QED BY <1>0, <1>2, <2>1, <2>2 DEF SearchInOrder
<1>6. CASE UNCHANGED svars
  <2>1. UNCHANGED <<query, free, at, size, dbs, json_out, waited, reply, closed>>
    BY <1>6 DEF svars, sinput, slocal
  <2>2. InTurn' = InTurn /\ \A k \in Places : Opened(k)' = Opened(k)
    BY <1>0, <2>1 DEF InTurn, Throws, Failed, Opened
  <2>3. QED BY <1>0, <1>2, <2>1, <2>2 DEF SearchInOrder
<1>7. QED BY <1>1, <1>3, <1>4, <1>5, <1>6 DEF SNext, Replied

-----------------------------------------------------------------------------
(* The rows of an answer are those of the vector.                          *)
SearchAnswered == reply # NoReply => RowsInPlace

LEMMA AnsweredStep == SearchInv /\ SearchAnswered /\ [SNext]_svars => SearchAnswered'
<1> SUFFICES ASSUME SearchInv, SearchAnswered, [SNext]_svars PROVE SearchAnswered'
  OBVIOUS
<1>1. query' = query
  <2>1. CASE SNext
    BY <2>1, Frame
  <2>2. CASE UNCHANGED svars
    BY <2>2 DEF svars, sinput
  <2>3. QED BY <2>1, <2>2
<1>2. CASE reply' = reply
  BY <1>1, <1>2 DEF SearchAnswered, RowsInPlace, Failed
<1>3. CASE reply' # reply
  <2>1. ReplyRows \/ ReplyException
    BY <1>3, Leaves DEF SNext, SearchInv, TakeJoin, WaitFor, Replied, svars
  <2>2. reply'.value = json_out \/ reply'.value = <<>>
    BY <2>1 DEF ReplyRows, ReplyException, Reply
  <2>3. \A i \in DOMAIN reply'.value : reply'.value[i] \in {Nothing, OwnRow(query[i])}
    BY <2>2 DEF SearchInv, Cellular
  <2>4. QED BY <1>1, <2>3 DEF SearchAnswered, RowsInPlace
<1>4. QED BY <1>2, <1>3

LEMMA SearchSerialInit == SInit => SearchSerialInv /\ SearchAnswered
<1> SUFFICES ASSUME SInit PROVE SearchSerialInv /\ SearchAnswered
  OBVIOUS
<1>1. reply = NoReply /\ waited = -1 /\ dbs = <<>>
  BY DEF SInit
<1>2. \A i \in Places : at[i] = "queued" /\ closed[i] = -1
  BY DEF SInit
<1>3. Holding = {}
  BY <1>2 DEF Holding
<1>4. \A i \in Places : Fresh(i) /\ Opened(i)
  BY <1>1, <1>2 DEF Fresh, Opened, Pushed
<1>5. QED BY <1>1, <1>3, <1>4 DEF SearchSerialInv, SearchInOrder, Once, SearchAnswered

(* A search is answered with what was found for each element, at its       *)
(* place; of tasks that race a row may be missing, but none is another's.  *)
(* When one thread runs the tasks no row is missing, a task that throws    *)
(* makes the answer an exception, and every connection that was opened is  *)
(* closed once (search_get in rest_search.cpp).                            *)
THEOREM Answers == SSpec => []SearchAnswers
<1>1. SInit => SearchInv /\ SearchSerialInv /\ SearchAnswered
  BY SearchInit, SearchSerialInit
<1>2. SearchInv /\ SearchSerialInv /\ SearchAnswered /\ [SNext]_svars
        => (SearchInv /\ SearchSerialInv /\ SearchAnswered)'
  BY SearchStep, SearchSerialStep, AnsweredStep
<1>3. SearchInv /\ SearchSerialInv /\ SearchAnswered => SearchAnswers
  BY DEF SearchSerialInv, SearchInOrder, SearchAnswered, SearchAnswers
<1>4. QED BY <1>1, <1>2, <1>3, PTL DEF SSpec
===============================================================================
