--------------------------- MODULE InductionFacts ---------------------------
(***************************************************************************)
(* Induction over the naturals, stated for sets, and what the induction    *)
(* over a fold needs of the sets it goes through (SequencesExt folds over  *)
(* the domain of a sequence from its greatest place down).                 *)
(***************************************************************************)
EXTENDS Integers, Sequences, FiniteSetsExt, WellFoundedInduction, TLAPS

Less == {p \in Nat \X Nat : p[1] < p[2]}

LEMMA LessWellFounded == IsWellFoundedOn(Less, Nat)
<1>1. IsWellFoundedOn(OpToRel(<, Nat), Nat)
  BY NatLessThanWellFounded, Zenon
<1>2. OpToRel(<, Nat) = Less
  BY DEF OpToRel, Less
<1>3. QED BY <1>1, <1>2, Zenon

LEMMA Least ==
  ASSUME NEW S \in SUBSET Nat, S # {}
  PROVE  \E m \in S : \A k \in S : m <= k
<1>1. PICK m \in S : \A k \in S : ~(<<k, m>> \in Less)
  BY WFMin, LessWellFounded, Zenon
<1>2. ASSUME NEW k \in S PROVE m <= k
  <2>1. <<k, m>> \notin Less /\ k \in Nat /\ m \in Nat
    BY <1>1
  <2>2. QED BY <2>1 DEF Less
<1>3. QED BY <1>2

LEMMA SetInduction ==
  ASSUME NEW S \in SUBSET Nat, 0 \in S, \A n \in S : n + 1 \in S
  PROVE  S = Nat
<1>1. SUFFICES ASSUME Nat \ S # {} PROVE FALSE
  OBVIOUS
<1>2. PICK m \in Nat \ S : \A k \in Nat \ S : m <= k
  BY <1>1, Least
<1>3. m # 0 /\ m - 1 \in Nat
  BY <1>2
<1>4. m - 1 \in S
  BY <1>2, <1>3
<1>5. QED BY <1>2, <1>4

(* A set of integers with a bound has a greatest element, which Max is.    *)
LEMMA Greatest ==
  ASSUME NEW n \in Nat, NEW S \in SUBSET (0..n), S # {}
  PROVE  Max(S) \in S /\ \A k \in S : k <= Max(S)
<1> DEFINE Gaps == {n - k : k \in S}
<1>1. Gaps \in SUBSET Nat /\ Gaps # {}
  <2>1. PICK k \in S : TRUE
    OBVIOUS
  <2>2. n - k \in Gaps
    OBVIOUS
  <2>3. \A j \in S : n - j \in Nat
    OBVIOUS
  <2>4. QED BY <2>2, <2>3
<1>2. PICK g \in Gaps : \A h \in Gaps : g <= h
  BY <1>1, Least
<1>3. PICK m \in S : g = n - m
  BY <1>2
<1>4. \A k \in S : m >= k
  BY <1>2, <1>3
<1>5. Max(S) \in S /\ \A k \in S : Max(S) >= k
  BY <1>4, Zenon DEF Max
<1>6. QED BY <1>5

(* Without its greatest place a set of the first n + 1 is one of the       *)
(* first n.                                                                *)
LEMMA Topless ==
  ASSUME NEW n \in Nat, NEW s \in SUBSET (1..(n + 1)), s # {}
  PROVE  Max(s) \in s /\ Max(s) \in 1..(n + 1) /\ s \ {Max(s)} \in SUBSET (1..n)
<1>1. s \in SUBSET (0..(n + 1)) /\ n + 1 \in Nat
  OBVIOUS
<1>2. Max(s) \in s /\ \A k \in s : k <= Max(s)
  BY <1>1, Greatest
<1> DEFINE m == Max(s)
<1>3. m \in s /\ m \in 1..(n + 1) /\ \A k \in s : k <= m
  BY <1>2
<1> HIDE DEF m
<1>4. \A k \in s \ {m} : k \in 1..n
  BY <1>3
<1>5. QED BY <1>3, <1>4 DEF m

LEMMA Prefix ==
  ASSUME NEW n \in Nat
  PROVE  /\ 1..(n + 1) # {} /\ Max(1..(n + 1)) = n + 1
         /\ (1..(n + 1)) \ {Max(1..(n + 1))} = 1..n
<1> DEFINE s == 1..(n + 1)
           m == Max(s)
<1>1. s \in SUBSET (0..(n + 1)) /\ s # {} /\ n + 1 \in s /\ n + 1 \in Nat
  OBVIOUS
<1>2. m \in s /\ \A k \in s : k <= m
  BY <1>1, Greatest
<1> HIDE DEF m
<1>3. m = n + 1
  BY <1>1, <1>2
<1>4. QED BY <1>3 DEF m

LEMMA Empty ==
  ASSUME NEW S, NEW s \in Seq(S)
  PROVE  (s # <<>>) <=> (DOMAIN s # {})
<1>1. DOMAIN s = 1..Len(s) /\ Len(s) \in Nat
  OBVIOUS
<1>2. ASSUME DOMAIN s = {} PROVE s = <<>>
  <2>1. Len(s) = 0
    BY <1>1, <1>2
  <2>2. QED BY <2>1
<1>3. ASSUME s = <<>> PROVE DOMAIN s = {}
  <2>1. Len(s) = 0
    BY <1>3
  <2>2. QED BY <1>1, <2>1
<1>4. QED BY <1>2, <1>3
=============================================================================
