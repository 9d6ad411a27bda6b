---------------------------- MODULE WsqCodeProofs ----------------------------
(***************************************************************************)
(* Why the encoder never fails for its own sake.  For images of any sides  *)
(* that two shorts hold, the blocks that quantize.cpp cuts add up to what  *)
(* it has quantized; and for blocks of any content the code that           *)
(* jpegl/huff.cpp makes has none of ones only, which the padding of the    *)
(* last byte would spell.  The argument: merging keeps Kraft's sum at one, *)
(* the reserved symbol is always among the longest, shortening codes in    *)
(* pairs keeps the sum, so the reserved code's share of it stays free, and *)
(* codes given out in order never reach it.                                *)
(***************************************************************************)
EXTENDS WsqTreeProofs, FiniteSetTheorems, SequenceTheorems, TLAPS

-----------------------------------------------------------------------------
(* Powers of two and sums over finite sets.                                *)

(* Powers of two, from what the library says of sets of subsets.           *)
LEMMA Powers ==
  /\ 2^0 = 1 /\ 2^1 = 2
  /\ \A n \in Nat : 2^n \in Nat /\ 2^n >= 1 /\ 2^(n + 1) = 2 * 2^n
<1> DEFINE S(n) == 1..n
<1>1. \A n \in Nat : IsFiniteSet(S(n)) /\ Cardinality(S(n)) = n
  BY FS_Interval
<1>2. \A n \in Nat : IsFiniteSet(SUBSET S(n)) /\ Cardinality(SUBSET S(n)) = 2^n
  BY <1>1, FS_SUBSET
<1>3. 2^0 = 1 /\ 2^1 = 2
  OBVIOUS
<1>4. ASSUME NEW n \in Nat
      PROVE  2^n \in Nat /\ 2^n >= 1 /\ 2^(n + 1) = 2 * 2^n
  <2> DEFINE Old == SUBSET S(n)
             New == {T \cup {n + 1} : T \in Old}
  <2>1. IsFiniteSet(Old) /\ Cardinality(Old) = 2^n /\ 2^n \in Nat
    BY <1>2, FS_CardinalityType
  <2>2. n + 1 \in Nat /\ Cardinality(SUBSET S(n + 1)) = 2^(n + 1)
    BY <1>2
  <2>3. SUBSET S(n + 1) = Old \cup New
    <3>1. \A x \in 1..(n + 1) : x \in 1..n \/ x = n + 1
      OBVIOUS
    <3>2. ASSUME NEW T \in SUBSET S(n + 1) PROVE T \in Old \cup New
      <4>1. CASE n + 1 \in T
        <5>1. T \ {n + 1} \in Old /\ T = (T \ {n + 1}) \cup {n + 1}
          BY <3>1, <4>1
        <5>2. QED BY <5>1
      <4>2. CASE n + 1 \notin T
        BY <3>1, <4>2
      <4>3. QED BY <4>1, <4>2
    <3>3. ASSUME NEW T \in Old \cup New PROVE T \in SUBSET S(n + 1)
      OBVIOUS
    <3>4. QED BY <3>2, <3>3
  <2>4. Old \cap New = {}
    <3>1. n + 1 \notin S(n)
      OBVIOUS
    <3>2. QED BY <3>1
  <2>5. IsFiniteSet(New) /\ Cardinality(New) = Cardinality(Old)
    <3> DEFINE f == [T \in Old |-> T \cup {n + 1}]
    <3>1. f \in Bijection(Old, New)
      <4>1. f \in [Old -> New]
        OBVIOUS
      <4>2. \A T, U \in Old : f[T] = f[U] => T = U
        <5>1. n + 1 \notin S(n)
          OBVIOUS
        <5>2. \A T, U \in Old : T \cup {n + 1} = U \cup {n + 1} => T = U
          BY <5>1
        <5>3. QED BY <5>2
      <4>3. \A U \in New : \E T \in Old : f[T] = U
        OBVIOUS
      <4>4. QED BY <4>1, <4>2, <4>3 DEF Bijection, Injection, Surjection, IsInjective
    <3>2. ExistsBijection(Old, New)
      BY <3>1 DEF ExistsBijection
    <3>3. QED BY <2>1, <3>2, FS_Bijection
  <2>6. Cardinality(Old \cup New) = Cardinality(Old) + Cardinality(New) - Cardinality(Old \cap New)
    BY <2>1, <2>5, FS_Union
  <2>7. Cardinality(Old \cap New) = 0
    BY <2>4, FS_EmptySet
  <2>8. 2^(n + 1) = 2 * 2^n
    <3>1. Cardinality(Old \cup New) = 2^(n + 1)
      BY <2>2, <2>3, Zenon
    <3> HIDE DEF Old, New
    <3>2. QED BY <2>1, <2>5, <2>6, <2>7, <3>1
  <2>9. 2^n # 0
    <3>1. {} \in Old
      OBVIOUS
    <3>2. QED BY <2>1, <3>1, FS_EmptySet
  <2>10. QED BY <2>1, <2>8, <2>9
<1>5. QED BY <1>3, <1>4

(* What holds of the empty set, and of a set with one more element when it *)
(* holds of the set, holds of every part of a finite set.                  *)
LEMMA SubsetInduction ==
  ASSUME NEW D, IsFiniteSet(D), NEW C \in SUBSET (SUBSET D), {} \in C,
         \A s \in C : \A x \in D \ s : s \cup {x} \in C
  PROVE  \A s \in SUBSET D : s \in C
<1> DEFINE S == {n \in Nat : \A s \in SUBSET D : Cardinality(s) = n => s \in C}
<1>1. \A s \in SUBSET D : IsFiniteSet(s) /\ Cardinality(s) \in Nat
  BY FS_Subset, FS_CardinalityType
<1>2. 0 \in S
  <2>1. ASSUME NEW s \in SUBSET D, Cardinality(s) = 0 PROVE s = {}
    BY <1>1, <2>1, FS_EmptySet
  <2>2. QED BY <2>1
<1>3. ASSUME NEW n \in S PROVE n + 1 \in S
  <2>1. n \in Nat
    OBVIOUS
  <2>2. ASSUME NEW s \in SUBSET D, Cardinality(s) = n + 1 PROVE s \in C
    <3>1. s # {}
      <4>1. s = {} => Cardinality(s) = 0
        BY FS_EmptySet
      <4>2. QED BY <2>1, <2>2, <4>1
    <3>2. PICK x \in s : TRUE
      BY <3>1
    <3>3. IsFiniteSet(s)
      BY <1>1
    <3>4. Cardinality(s \ {x}) = Cardinality(s) - 1
      BY <3>2, <3>3, FS_RemoveElement
    <3>5. s \ {x} \in SUBSET D /\ Cardinality(s \ {x}) = n
      BY <2>1, <2>2, <3>4
    <3>6. s \ {x} \in C
      BY <3>5
    <3>7. (s \ {x}) \cup {x} \in C
      BY <3>2, <3>6
    <3>8. (s \ {x}) \cup {x} = s
      BY <3>2
    <3>9. QED BY <3>7, <3>8
  <2>3. n + 1 \in Nat
    BY <2>1
  <2>4. QED BY <2>2, <2>3
<1>4. S \in SUBSET Nat
  OBVIOUS
<1> HIDE DEF S
<1>5. S = Nat
  BY <1>2, <1>3, <1>4, SetInduction
<1>6. QED BY <1>1, <1>5 DEF S

-----------------------------------------------------------------------------
(* The sum of the naturals f[x] over a finite set, as the number of pairs  *)
(* of an x and one of its f[x] units.                                      *)
Units(f, s) == {p \in s \X Nat : 1 <= p[2] /\ p[2] <= f[p[1]]}
Mass(f, s) == Cardinality(Units(f, s))
Weighed(f, s) == IsFiniteSet(s) /\ \A x \in s : f[x] \in Nat

LEMMA MassEmpty == \A f : Units(f, {}) = {} /\ Mass(f, {}) = 0
<1>1. \A f : Units(f, {}) = {}
  BY DEF Units
<1>2. QED BY <1>1, FS_EmptySet DEF Mass

LEMMA MassSame ==
  ASSUME NEW f, NEW g, NEW s, \A x \in s : f[x] = g[x]
  PROVE  Mass(f, s) = Mass(g, s)
<1>1. Units(f, s) = Units(g, s)
  BY DEF Units
<1>2. QED BY <1>1 DEF Mass

(* One element more, first for pairs, then for weights.                    *)
LEMMA MassAdd ==
  ASSUME NEW f, NEW s, IsFiniteSet(Units(f, s)), NEW x, x \notin s, f[x] \in Nat
  PROVE  /\ IsFiniteSet(Units(f, s \cup {x}))
         /\ Mass(f, s \cup {x}) = Mass(f, s) + f[x]
<1> DEFINE New == {x} \X (1..f[x])
<1>1. Units(f, s \cup {x}) = Units(f, s) \cup New
  BY DEF Units
<1>2. Units(f, s) \cap New = {}
  BY DEF Units
<1>3. IsFiniteSet(New) /\ Cardinality(New) = f[x]
  <2>1. IsFiniteSet({x}) /\ Cardinality({x}) = 1
    BY FS_Singleton
  <2>2. IsFiniteSet(1..f[x]) /\ Cardinality(1..f[x]) = f[x]
    BY FS_Interval
  <2>3. IsFiniteSet(New) /\ Cardinality(New) = Cardinality({x}) * Cardinality(1..f[x])
    BY <2>1, <2>2, FS_Product
  <2>4. QED BY <2>1, <2>2, <2>3
<1> HIDE DEF New
<1>4. /\ IsFiniteSet(Units(f, s) \cup New)
      /\ Cardinality(Units(f, s) \cup New) = Cardinality(Units(f, s)) + Cardinality(New) - Cardinality(Units(f, s) \cap New)
  BY <1>3, FS_Union
<1>5. Cardinality(Units(f, s) \cap New) = 0
  BY <1>2, FS_EmptySet
<1>6. Cardinality(Units(f, s)) \in Nat
  BY FS_CardinalityType
<1>7. IsFiniteSet(Units(f, s \cup {x}))
  BY <1>1, <1>4
<1>8. Mass(f, s \cup {x}) = Cardinality(Units(f, s) \cup New)
  BY <1>1, Zenon DEF Mass
<1>9. QED BY <1>3, <1>4, <1>5, <1>6, <1>7, <1>8 DEF Mass

LEMMA MassFinite ==
  ASSUME NEW f, NEW s, Weighed(f, s)
  PROVE  IsFiniteSet(Units(f, s)) /\ Mass(f, s) \in Nat
<1> DEFINE C == {u \in SUBSET s : IsFiniteSet(Units(f, u))}
<1>1. {} \in C
  BY MassEmpty, FS_EmptySet
<1>2. ASSUME NEW u \in C, NEW x \in s \ u PROVE u \cup {x} \in C
  <2>1. f[x] \in Nat /\ IsFiniteSet(Units(f, u))
    BY DEF Weighed
  <2>2. QED BY <2>1, MassAdd
<1>3. IsFiniteSet(s) /\ C \in SUBSET (SUBSET s)
  BY DEF Weighed
<1> HIDE DEF C
<1>4. s \in C
  BY <1>1, <1>2, <1>3, SubsetInduction
<1>5. IsFiniteSet(Units(f, s))
  BY <1>4 DEF C
<1>6. QED BY <1>5, FS_CardinalityType DEF Mass

LEMMA MassGrows ==
  ASSUME NEW f, NEW s, Weighed(f, s), NEW x, x \notin s, f[x] \in Nat
  PROVE  Weighed(f, s \cup {x}) /\ Mass(f, s \cup {x}) = Mass(f, s) + f[x]
<1>1. Mass(f, s \cup {x}) = Mass(f, s) + f[x]
  BY MassFinite, MassAdd
<1>2. IsFiniteSet(s \cup {x})
  BY FS_AddElement DEF Weighed
<1>3. QED BY <1>1, <1>2 DEF Weighed

(* Two sets that are apart, a part of a set, a multiple, weights of one.   *)
LEMMA MassUnion ==
  ASSUME NEW f, NEW s, NEW t, Weighed(f, s), Weighed(f, t), s \cap t = {}
  PROVE  Weighed(f, s \cup t) /\ Mass(f, s \cup t) = Mass(f, s) + Mass(f, t)
<1>1. Units(f, s \cup t) = Units(f, s) \cup Units(f, t)
  BY DEF Units
<1>2. Units(f, s) \cap Units(f, t) = {}
  BY DEF Units
<1>3. IsFiniteSet(Units(f, s)) /\ IsFiniteSet(Units(f, t))
  BY MassFinite
<1>4. Cardinality(Units(f, s)) \in Nat /\ Cardinality(Units(f, t)) \in Nat
  BY <1>3, FS_CardinalityType
<1>5. Cardinality(Units(f, s) \cap Units(f, t)) = 0
  BY <1>2, FS_EmptySet
<1>6. Cardinality(Units(f, s) \cup Units(f, t)) = Cardinality(Units(f, s)) + Cardinality(Units(f, t)) - Cardinality(Units(f, s) \cap Units(f, t))
  BY <1>3, FS_Union
<1>7. Weighed(f, s \cup t)
  BY FS_Union DEF Weighed
<1>8. QED BY <1>1, <1>4, <1>5, <1>6, <1>7 DEF Mass

LEMMA MassPart ==
  ASSUME NEW f, NEW s, NEW t \in SUBSET s, Weighed(f, s)
  PROVE  Weighed(f, t) /\ Weighed(f, s \ t) /\ Mass(f, s) = Mass(f, t) + Mass(f, s \ t)
<1>1. Weighed(f, t) /\ Weighed(f, s \ t)
  BY FS_Subset DEF Weighed
<1>2. t \cap (s \ t) = {} /\ t \cup (s \ t) = s
  OBVIOUS
<1>3. QED BY <1>1, <1>2, MassUnion

LEMMA MassScale ==
  ASSUME NEW f, NEW g, NEW s, NEW c \in Nat, Weighed(g, s), \A x \in s : f[x] = c * g[x]
  PROVE  Weighed(f, s) /\ Mass(f, s) = c * Mass(g, s)
<1> DEFINE C == {u \in SUBSET s : Weighed(f, u) /\ Weighed(g, u) /\ Mass(f, u) = c * Mass(g, u)}
<1>1. {} \in C
  BY MassEmpty, FS_EmptySet DEF Weighed
<1>2. ASSUME NEW u \in C, NEW x \in s \ u PROVE u \cup {x} \in C
  <2>1. g[x] \in Nat /\ f[x] = c * g[x] /\ f[x] \in Nat
    BY DEF Weighed
  <2>2. Weighed(f, u \cup {x}) /\ Mass(f, u \cup {x}) = Mass(f, u) + f[x]
    BY <2>1, MassGrows
  <2>3. Weighed(g, u \cup {x}) /\ Mass(g, u \cup {x}) = Mass(g, u) + g[x]
    BY <2>1, MassGrows
  <2>4. Mass(g, u) \in Nat /\ Mass(f, u) = c * Mass(g, u)
    BY MassFinite
  <2>5. c * Mass(g, u) + c * g[x] = c * (Mass(g, u) + g[x])
    BY <2>1, <2>4
  <2>6. QED BY <2>1, <2>2, <2>3, <2>4, <2>5
<1>3. IsFiniteSet(s) /\ C \in SUBSET (SUBSET s)
  BY DEF Weighed
<1> HIDE DEF C
<1>4. s \in C
  BY <1>1, <1>2, <1>3, SubsetInduction
<1>5. QED BY <1>4 DEF C

LEMMA MassOnes ==
  ASSUME NEW f, NEW s, IsFiniteSet(s), \A x \in s : f[x] = 1
  PROVE  Weighed(f, s) /\ Mass(f, s) = Cardinality(s)
<1> DEFINE C == {u \in SUBSET s : Weighed(f, u) /\ Mass(f, u) = Cardinality(u)}
<1>1. {} \in C
  BY MassEmpty, FS_EmptySet DEF Weighed
<1>2. ASSUME NEW u \in C, NEW x \in s \ u PROVE u \cup {x} \in C
  <2>1. f[x] \in Nat /\ f[x] = 1
    OBVIOUS
  <2>2. Weighed(f, u \cup {x}) /\ Mass(f, u \cup {x}) = Mass(f, u) + 1
    BY <2>1, MassGrows
  <2>3. IsFiniteSet(u)
    BY DEF Weighed
  <2>4. Cardinality(u \cup {x}) = Cardinality(u) + 1
    BY <2>3, FS_AddElement
  <2>5. QED BY <2>2, <2>4
<1>3. C \in SUBSET (SUBSET s)
  OBVIOUS
<1> HIDE DEF C
<1>4. s \in C
  BY <1>1, <1>2, <1>3, SubsetInduction
<1>5. QED BY <1>4 DEF C

(* What the folds of the model add up is this sum.                         *)
LEMMA Folded ==
  ASSUME NEW f, Weighed(f, DOMAIN f)
  PROVE  FoldFunction(+, 0, f) = Mass(f, DOMAIN f)
<1> DEFINE D == DOMAIN f
           First1(t) == CHOOSE x \in t : TRUE
           More(g, t) == IF t = {} THEN 0 ELSE f[First1(t)] + g[t \ {First1(t)}]
           Sums(g) == g = [t \in SUBSET D |-> More(g, t)]
<1>1. FoldFunction(+, 0, f) = (CHOOSE g : Sums(g))[D]
  BY DEF FoldFunction, FoldFunctionOnSet, MapThenFoldSet
<1> DEFINE h == [t \in SUBSET D |-> Mass(f, t)]
<1>2. \A t \in SUBSET D : Weighed(f, t)
  BY MassPart
<1>3. ASSUME NEW t \in SUBSET D, t # {}
      PROVE  /\ First1(t) \in t /\ t \ {First1(t)} \in SUBSET D
             /\ Mass(f, t) = f[First1(t)] + Mass(f, t \ {First1(t)})
  <2>1. First1(t) \in t
    BY <1>3
  <2> DEFINE x == First1(t)
  <2> HIDE DEF First1
  <2>2. x \in D /\ f[x] \in Nat /\ Weighed(f, t \ {x}) /\ x \notin t \ {x} /\ (t \ {x}) \cup {x} = t
    BY <1>2, <2>1 DEF Weighed
  <2>3. Mass(f, t) = Mass(f, t \ {x}) + f[x] /\ Mass(f, t \ {x}) \in Nat
    <3> HIDE DEF x
    <3>1. QED BY <2>2, MassGrows, MassFinite
  <2>4. QED BY <2>1, <2>2, <2>3
<1> HIDE DEF First1
<1>4. Sums(h)
  <2>1. ASSUME NEW t \in SUBSET D PROVE Mass(f, t) = More(h, t)
    <3>1. CASE t = {}
      BY <3>1, MassEmpty
    <3>2. CASE t # {}
      BY <1>3, <3>2
    <3>3. QED BY <3>1, <3>2
  <2> HIDE DEF More
  <2>2. QED BY <2>1
<1> DEFINE g == CHOOSE g : Sums(g)
<1>5. Sums(g)
  <2> HIDE DEF Sums, h
  <2>1. QED BY <1>4, Zenon
<1> HIDE DEF g, h
<1>6. \A t \in SUBSET D : g[t] = More(g, t)
  BY <1>5
<1> DEFINE S == {n \in Nat : \A t \in SUBSET D : Cardinality(t) = n => g[t] = Mass(f, t)}
<1>7. \A t \in SUBSET D : IsFiniteSet(t) /\ Cardinality(t) \in Nat
  BY <1>2, FS_CardinalityType DEF Weighed
<1>8. 0 \in S
  <2>1. g[{}] = Mass(f, {})
    BY <1>6, MassEmpty
  <2>2. ASSUME NEW t \in SUBSET D, Cardinality(t) = 0 PROVE t = {}
    BY <1>7, <2>2, FS_EmptySet
  <2>3. QED BY <2>1, <2>2
<1>9. ASSUME NEW n \in S PROVE n + 1 \in S
  <2>1. n \in Nat
    OBVIOUS
  <2>2. ASSUME NEW t \in SUBSET D, Cardinality(t) = n + 1 PROVE g[t] = Mass(f, t)
    <3>1. t # {}
      <4>1. t = {} => Cardinality(t) = 0
        BY FS_EmptySet
      <4>2. QED BY <2>1, <2>2, <4>1
    <3> DEFINE x == First1(t)
               u == t \ {x}
    <3>2. x \in t /\ u \in SUBSET D /\ Mass(f, t) = f[x] + Mass(f, u)
      BY <1>3, <3>1
    <3>3. g[t] = f[x] + g[u]
      BY <1>6, <3>1
    <3>4. Cardinality(u) = n
      <4>1. Cardinality(u) = Cardinality(t) - 1
        BY <1>7, <3>2, FS_RemoveElement
      <4>2. QED BY <2>1, <2>2, <4>1
    <3>5. g[u] = Mass(f, u)
      BY <3>2, <3>4
    <3>6. QED BY <3>2, <3>3, <3>5
  <2>3. n + 1 \in Nat
    BY <2>1
  <2>4. QED BY <2>2, <2>3
<1>10. S \in SUBSET Nat
  OBVIOUS
<1> HIDE DEF S
<1>11. S = Nat
  BY <1>8, <1>9, <1>10, SetInduction
<1>12. D \in SUBSET D /\ Cardinality(D) \in Nat
  BY <1>7
<1>13. g[D] = Mass(f, D)
  BY <1>11, <1>12 DEF S
<1>14. QED BY <1>1, <1>13 DEF g

-----------------------------------------------------------------------------
(* The steps that are folded over a sequence: of decode_data, one bit more *)
(* of a code that is not found yet.                                        *)
FoundCode(table, s) == s.size > 0 /\ s.r.out <= table.maxcode[s.size]
LongerCode(data, kind, table, s) ==
  IF s.r.fault # "none" \/ FoundCode(table, s) THEN s
  ELSE [r |-> NextBit(data, kind, s.r, 1, 1), size |-> s.size + 1]

Apply(op, x, y) ==
  CASE op.name = "merge"   -> Merge(x, y)
    [] op.name = "pair"    -> ShortenPair(x, y)
    [] op.name = "shorten" -> Shorten(x, y)
    [] op.name = "add"     -> x + y
    [] op.name = "bit"     -> NextBit(op.data, op.kind, x, op.n + 1 - y, op.n)
    [] op.name = "longer"  -> LongerCode(op.data, op.kind, op.table, x)

IsFold(h, op, base, s, n) ==
  h = [t \in SUBSET (1..n) |-> IF t = {} THEN base ELSE Apply(op, h[t \ {Max(t)}], s[Max(t)])]

(* A fold over a sequence is the last of the states that its steps lead    *)
(* through: for any such operation, then for those of the model.        *)
LEMMA FoldExists ==
  ASSUME NEW op, NEW base, NEW s, NEW len \in Nat
  PROVE  \E h : IsFold(h, op, base, s, len)
<1> DEFINE OnceMore(g, t) == IF t = {} THEN base ELSE Apply(op, g[t \ {Max(t)}], s[Max(t)])
           S == {n \in Nat : \E g : IsFold(g, op, base, s, n)}
<1>1. 0 \in S
  <2> DEFINE g == [t \in SUBSET (1..0) |-> base]
  <2>1. \A t \in SUBSET (1..0) : t = {}
    OBVIOUS
  <2>2. IsFold(g, op, base, s, 0)
    BY <2>1 DEF IsFold
  <2>3. QED BY <2>2
<1>2. ASSUME NEW n \in S PROVE n + 1 \in S
  <2>1. PICK g : IsFold(g, op, base, s, n)
    BY <1>2
  <2> DEFINE h == [t \in SUBSET (1..(n + 1)) |-> OnceMore(g, t)]
  <2>2. n \in Nat
    BY <1>2
  <2>3. ASSUME NEW t \in SUBSET (1..n) PROVE h[t] = g[t]
    <3>1. t \in SUBSET (1..(n + 1))
      BY <2>2
    <3>2. g[t] = OnceMore(g, t)
      BY <2>1 DEF IsFold
    <3>3. QED BY <3>1, <3>2
  <2>4. ASSUME NEW t \in SUBSET (1..(n + 1)) PROVE OnceMore(h, t) = OnceMore(g, t)
    <3>1. CASE t = {}
      BY <3>1
    <3>2. CASE t # {}
      <4>1. h[t \ {Max(t)}] = g[t \ {Max(t)}]
        BY <2>2, <2>3, <3>2, Topless
      <4>2. QED BY <3>2, <4>1
    <3>3. QED BY <3>1, <3>2
  <2>5. h = [t \in SUBSET (1..(n + 1)) |-> OnceMore(h, t)]
    <3> HIDE DEF OnceMore
    <3>1. QED BY <2>4
  <2> HIDE DEF h
  <2>6. IsFold(h, op, base, s, n + 1)
    BY <2>5 DEF IsFold
  <2>7. QED BY <2>2, <2>6
<1>3. S \in SUBSET Nat
  OBVIOUS
<1> HIDE DEF S
<1>4. S = Nat
  BY <1>1, <1>2, <1>3, SetInduction
<1>5. QED BY <1>4 DEF S

(* The values a fold goes through.                                         *)
StepByStep(at, op, base, s, len, last) ==
  /\ at[0] = base
  /\ \A n \in 0..(len - 1) : at[n + 1] = Apply(op, at[n], s[n + 1])
  /\ at[len] = last

LEMMA FoldSteps ==
  ASSUME NEW op, NEW base, NEW s, NEW len \in Nat, NEW h, IsFold(h, op, base, s, len)
  PROVE  \E at : StepByStep(at, op, base, s, len, h[1..len])
<1> DEFINE OnceMore(g, t) == IF t = {} THEN base ELSE Apply(op, g[t \ {Max(t)}], s[Max(t)])
           at == [n \in 0..len |-> h[1..n]]
<1>1. ASSUME NEW t \in SUBSET (1..len) PROVE h[t] = OnceMore(h, t)
  BY DEF IsFold
<1>2. at[0] = base
  <2>1. 0 \in 0..len /\ 1..0 = {} /\ {} \in SUBSET (1..len)
    OBVIOUS
  <2>2. h[{}] = base
    BY <1>1, <2>1
  <2>3. QED BY <2>1, <2>2
<1>3. ASSUME NEW n \in 0..(len - 1)
      PROVE  at[n + 1] = Apply(op, at[n], s[n + 1])
  <2>1. n \in Nat /\ n \in 0..len /\ n + 1 \in 0..len /\ 1..(n + 1) \in SUBSET (1..len)
    OBVIOUS
  <2>2. h[1..(n + 1)] = OnceMore(h, 1..(n + 1))
    BY <1>1, <2>1
  <2>3. 1..(n + 1) # {} /\ Max(1..(n + 1)) = n + 1 /\ (1..(n + 1)) \ {Max(1..(n + 1))} = 1..n
    BY <2>1, Prefix
  <2>4. OnceMore(h, 1..(n + 1)) = Apply(op, h[1..n], s[n + 1])
    BY <2>3
  <2>5. QED BY <2>1, <2>2, <2>4
<1>4. at[len] = h[1..len]
  OBVIOUS
<1> HIDE DEF at
<1>5. StepByStep(at, op, base, s, len, h[1..len])
  BY <1>2, <1>3, <1>4 DEF StepByStep
<1>6. QED BY <1>5

LEMMA MergeSteps ==
  ASSUME NEW base, NEW s, NEW len \in Nat, DOMAIN s = 1..len
  PROVE  \E at : /\ at[0] = base
                 /\ \A n \in 0..(len - 1) : at[n + 1] = Merge(at[n], s[n + 1])
                 /\ at[len] = FoldLeft(Merge, base, s)
<1> DEFINE op == [name |-> "merge"]
           IsMerge(h) == h = [t \in SUBSET (1..len) |-> IF t = {} THEN base ELSE Merge(h[t \ {Max(t)}], s[Max(t)])]
<1>1. \A x, y : Apply(op, x, y) = Merge(x, y)
  BY DEF Apply
<1> HIDE DEF op
<1>2. \A h : IsMerge(h) <=> IsFold(h, op, base, s, len)
  BY <1>1 DEF IsFold
<1>3. FoldLeft(Merge, base, s) = (CHOOSE h : IsMerge(h))[1..len]
  BY DEF FoldLeft, MapThenFoldSet
<1> DEFINE g == CHOOSE h : IsMerge(h)
<1> HIDE DEF IsMerge
<1>4. IsMerge(g)
  BY <1>2, FoldExists, Zenon
<1> HIDE DEF g
<1>5. IsFold(g, op, base, s, len)
  BY <1>2, <1>4
<1>6. PICK at : StepByStep(at, op, base, s, len, g[1..len])
  BY <1>5, FoldSteps, Zenon
<1>7. QED BY <1>1, <1>3, <1>6 DEF g, StepByStep

LEMMA PairSteps ==
  ASSUME NEW base, NEW s, NEW len \in Nat, DOMAIN s = 1..len
  PROVE  \E at : /\ at[0] = base
                 /\ \A n \in 0..(len - 1) : at[n + 1] = ShortenPair(at[n], s[n + 1])
                 /\ at[len] = FoldLeft(ShortenPair, base, s)
<1> DEFINE op == [name |-> "pair"]
           IsPair(h) == h = [t \in SUBSET (1..len) |-> IF t = {} THEN base ELSE ShortenPair(h[t \ {Max(t)}], s[Max(t)])]
<1>1. \A x, y : Apply(op, x, y) = ShortenPair(x, y)
  BY DEF Apply
<1> HIDE DEF op
<1>2. \A h : IsPair(h) <=> IsFold(h, op, base, s, len)
  BY <1>1 DEF IsFold
<1>3. FoldLeft(ShortenPair, base, s) = (CHOOSE h : IsPair(h))[1..len]
  BY DEF FoldLeft, MapThenFoldSet
<1> DEFINE g == CHOOSE h : IsPair(h)
<1> HIDE DEF IsPair
<1>4. IsPair(g)
  BY <1>2, FoldExists, Zenon
<1> HIDE DEF g
<1>5. IsFold(g, op, base, s, len)
  BY <1>2, <1>4
<1>6. PICK at : StepByStep(at, op, base, s, len, g[1..len])
  BY <1>5, FoldSteps, Zenon
<1>7. QED BY <1>1, <1>3, <1>6 DEF g, StepByStep

LEMMA ShortenSteps ==
  ASSUME NEW base, NEW s, NEW len \in Nat, DOMAIN s = 1..len
  PROVE  \E at : /\ at[0] = base
                 /\ \A n \in 0..(len - 1) : at[n + 1] = Shorten(at[n], s[n + 1])
                 /\ at[len] = FoldLeft(Shorten, base, s)
<1> DEFINE op == [name |-> "shorten"]
           IsShorten(h) == h = [t \in SUBSET (1..len) |-> IF t = {} THEN base ELSE Shorten(h[t \ {Max(t)}], s[Max(t)])]
<1>1. \A x, y : Apply(op, x, y) = Shorten(x, y)
  BY DEF Apply
<1> HIDE DEF op
<1>2. \A h : IsShorten(h) <=> IsFold(h, op, base, s, len)
  BY <1>1 DEF IsFold
<1>3. FoldLeft(Shorten, base, s) = (CHOOSE h : IsShorten(h))[1..len]
  BY DEF FoldLeft, MapThenFoldSet
<1> DEFINE g == CHOOSE h : IsShorten(h)
<1> HIDE DEF IsShorten
<1>4. IsShorten(g)
  BY <1>2, FoldExists, Zenon
<1> HIDE DEF g
<1>5. IsFold(g, op, base, s, len)
  BY <1>2, <1>4
<1>6. PICK at : StepByStep(at, op, base, s, len, g[1..len])
  BY <1>5, FoldSteps, Zenon
<1>7. QED BY <1>1, <1>3, <1>6 DEF g, StepByStep

-----------------------------------------------------------------------------
(* The merges of find_huff_sizes.                                          *)

(* The two groups of least count.                                          *)
LEMMA LeastFreq ==
  ASSUME NEW freq, NEW n \in Nat, NEW S \in SUBSET (0..n), S # {}, \A v \in S : freq[v] \in Nat
  PROVE  LET v == find_least_freq(freq, S)
         IN  v \in S /\ \A o \in S : freq[v] < freq[o] \/ (freq[v] = freq[o] /\ v >= o)
<1> DEFINE F == {freq[v] : v \in S}
<1>1. F \in SUBSET Nat /\ F # {}
  OBVIOUS
<1>2. PICK m \in F : \A k \in F : m <= k
  BY <1>1, Least
<1> DEFINE T == {v \in S : freq[v] = m}
<1>3. T \in SUBSET (0..n) /\ T # {}
  BY <1>2
<1> HIDE DEF T
<1>4. Max(T) \in T /\ \A k \in T : k <= Max(T)
  BY <1>3, Greatest
<1> DEFINE w == Max(T)
<1>5. w \in T /\ \A k \in T : k <= w
  BY <1>4
<1> HIDE DEF w
<1>6. w \in S /\ \A o \in S : freq[w] < freq[o] \/ (freq[w] = freq[o] /\ w >= o)
  <2>1. w \in S /\ freq[w] = m /\ m \in Nat
    BY <1>1, <1>2, <1>5 DEF T
  <2>2. ASSUME NEW o \in S PROVE m < freq[o] \/ (m = freq[o] /\ w >= o)
    <3>1. m <= freq[o] /\ freq[o] \in Nat
      BY <1>2
    <3>2. CASE freq[o] = m
      <4>1. o \in T
        BY <3>2 DEF T
      <4>2. o <= w /\ o \in Int /\ w \in Int
        BY <1>3, <1>5, <4>1
      <4>3. QED BY <3>2, <4>2
    <3>3. CASE freq[o] # m
      BY <2>1, <3>1, <3>3
    <3>4. QED BY <3>2, <3>3
  <2>3. QED BY <2>1, <2>2
<1>7. QED BY <1>6, Zenon DEF find_least_freq

(* While groups are merged: the symbols of a group, with the sizes they    *)
(* have so far, would make a full code (Kraft's sum is 1).                 *)
Weights(n, size) == [x \in DOMAIN size |-> 2^(n - size[x])]

Merging(s, D, n, i) ==
  /\ DOMAIN s.freq \in SUBSET D /\ Cardinality(DOMAIN s.freq) = Cardinality(D) - i
  /\ \A v \in DOMAIN s.freq : s.freq[v] \in Nat
  /\ \A v \in DOMAIN s.freq : s.group[v] \in SUBSET D
  /\ \A v \in DOMAIN s.freq : Mass(Weights(n, s.size), s.group[v]) = 2^n
  /\ \A v, w \in DOMAIN s.freq : v # w => s.group[v] \cap s.group[w] = {}
  /\ \A x \in D : \E v \in DOMAIN s.freq : x \in s.group[v]
  /\ s.size \in [D -> Nat] /\ \A x \in D : s.size[x] <= i

(* The weights are naturals; a merge makes each symbol of the two groups   *)
(* one bit longer and leaves a full code.                                  *)
LEMMA WeightsWeigh ==
  ASSUME NEW D, IsFiniteSet(D), NEW size \in [D -> Nat], NEW n \in Nat, \A x \in D : size[x] <= n,
         NEW S \in SUBSET D
  PROVE  Weighed(Weights(n, size), S)
<1>1. \A x \in S : n - size[x] \in Nat
  OBVIOUS
<1>2. \A x \in S : 2^(n - size[x]) \in Nat
  BY <1>1, Powers
<1>3. IsFiniteSet(S)
  BY FS_Subset
<1>4. QED BY <1>2, <1>3 DEF Weighed, Weights

LEMMA MergeStep ==
  ASSUME NEW m \in Nat, NEW D \in SUBSET (0..m), NEW n \in Nat, Cardinality(D) <= n,
         NEW i \in Nat, i + 1 < Cardinality(D), NEW s, Merging(s, D, n, i), NEW x
  PROVE  Merging(Merge(s, x), D, n, i + 1)
<1> DEFINE L == DOMAIN s.freq
           v1 == find_least_freq(s.freq, L)
           v2 == find_least_freq(s.freq, L \ {v1})
           both == s.group[v1] \cup s.group[v2]
           rest == L \ {v2}
           r == Merge(s, x)
           W == Weights(n, s.size)
<1>1. IsFiniteSet(D) /\ Cardinality(D) \in Nat
  <2>1. IsFiniteSet(0..m)
    BY FS_Interval
  <2>2. QED BY <2>1, FS_Subset, FS_CardinalityType
<1>2. IsFiniteSet(L) /\ Cardinality(L) = Cardinality(D) - i /\ L \in SUBSET D
  BY <1>1, FS_Subset DEF Merging
<1>3. v1 \in L
  <2>1. L # {}
    <3>1. L = {} => Cardinality(L) = 0
      BY FS_EmptySet
    <3>2. QED BY <1>1, <1>2, <3>1
  <2>2. L \in SUBSET (0..m)
    BY <1>2
  <2>3. \A v \in L : s.freq[v] \in Nat
    BY DEF Merging
  <2> HIDE DEF L
  <2>4. find_least_freq(s.freq, L) \in L
    BY <2>1, <2>2, <2>3, LeastFreq
  <2>5. QED BY <2>4
<1>4. v2 \in L /\ v2 # v1
  <2> DEFINE R == L \ {v1}
  <2> HIDE DEF L, v1
  <2>1. IsFiniteSet(R) /\ Cardinality(R) = Cardinality(L) - 1
    BY <1>2, <1>3, FS_RemoveElement
  <2>2. R # {}
    <3>1. R = {} => Cardinality(R) = 0
      BY FS_EmptySet
    <3>2. QED BY <1>1, <1>2, <2>1, <3>1
  <2>3. R \in SUBSET (0..m)
    BY <1>2
  <2>4. \A v \in R : s.freq[v] \in Nat
    BY DEF Merging, L
  <2>5. find_least_freq(s.freq, R) \in R
    BY <2>2, <2>3, <2>4, LeastFreq
  <2>6. v2 \in R
    BY <2>5
  <2>7. QED BY <2>6
<1>5. r = [freq |-> [v \in rest |-> IF v = v1 THEN s.freq[v1] + s.freq[v2] ELSE s.freq[v]],
           group |-> [v \in rest |-> IF v = v1 THEN both ELSE s.group[v]],
           size |-> [v \in DOMAIN s.size |-> IF v \in both THEN s.size[v] + 1 ELSE s.size[v]]]
  BY DEF Merge
<1>6. /\ DOMAIN r.freq = rest
      /\ \A v \in rest : r.freq[v] = IF v = v1 THEN s.freq[v1] + s.freq[v2] ELSE s.freq[v]
      /\ \A v \in rest : r.group[v] = IF v = v1 THEN both ELSE s.group[v]
      /\ r.size = [v \in D |-> IF v \in both THEN s.size[v] + 1 ELSE s.size[v]]
  <2>1. DOMAIN s.size = D
    BY DEF Merging
  <2> HIDE DEF r, v1, v2, both, rest, L
  <2>2. QED BY <1>5, <2>1
<1> HIDE DEF r, v1, v2
<1>7. rest \in SUBSET D /\ Cardinality(rest) = Cardinality(D) - (i + 1)
  <2>1. Cardinality(L \ {v2}) = Cardinality(L) - 1
    BY <1>2, <1>4, FS_RemoveElement
  <2>2. QED BY <1>1, <1>2, <2>1
<1>8. \A v \in rest : r.freq[v] \in Nat
  BY <1>3, <1>4, <1>6 DEF Merging
<1>9. \A v \in rest : r.group[v] \in SUBSET D
  BY <1>3, <1>4, <1>6 DEF Merging
<1>10. \A v, w \in rest : v # w => r.group[v] \cap r.group[w] = {}
  BY <1>3, <1>4, <1>6 DEF Merging
<1>11. \A y \in D : \E v \in rest : y \in r.group[v]
  <2>1. ASSUME NEW y \in D PROVE \E v \in rest : y \in r.group[v]
    <3>1. PICK v \in L : y \in s.group[v]
      BY DEF Merging
    <3>2. CASE v = v1 \/ v = v2
      <4>1. v1 \in rest /\ r.group[v1] = both
        BY <1>3, <1>4, <1>6
      <4>2. y \in both
        BY <3>1, <3>2
      <4>3. QED BY <4>1, <4>2
    <3>3. CASE v # v1 /\ v # v2
      BY <1>6, <3>1, <3>3
    <3>4. QED BY <3>2, <3>3
  <2>2. QED BY <2>1
<1>12. r.size \in [D -> Nat] /\ \A y \in D : r.size[y] <= i + 1
  BY <1>6 DEF Merging
<1> DEFINE V == Weights(n, r.size)
<1>13. /\ \A y \in D : V[y] = 2^(n - r.size[y])
       /\ \A y \in D : W[y] = 2^(n - s.size[y])
  BY <1>12 DEF Weights, Merging
<1>14. ASSUME NEW v \in rest PROVE Mass(V, r.group[v]) = 2^n
  <2>1. CASE v # v1
    <3>1. v \in L /\ r.group[v] = s.group[v] /\ s.group[v] \in SUBSET D /\ Mass(W, s.group[v]) = 2^n
      BY <1>6, <2>1 DEF Merging
    <3>2. s.group[v] \cap both = {}
      BY <1>3, <1>4, <2>1 DEF Merging
    <3>3. \A y \in s.group[v] : r.size[y] = s.size[y]
      BY <1>6, <3>1, <3>2
    <3>4. \A y \in s.group[v] : V[y] = W[y]
      BY <1>13, <3>1, <3>3
    <3> HIDE DEF V, W
    <3>5. QED BY <3>1, <3>4, MassSame
  <2>2. CASE v = v1
    <3>1. r.group[v] = both
      BY <1>6, <2>2
    <3>2. /\ s.group[v1] \in SUBSET D /\ Mass(W, s.group[v1]) = 2^n
          /\ s.group[v2] \in SUBSET D /\ Mass(W, s.group[v2]) = 2^n
          /\ s.group[v1] \cap s.group[v2] = {}
      BY <1>3, <1>4 DEF Merging
    <3>3. \A y \in both : W[y] = 2 * V[y]
      <4>1. ASSUME NEW y \in both PROVE W[y] = 2 * V[y]
        <5>1. y \in D /\ r.size[y] = s.size[y] + 1 /\ s.size[y] \in Nat /\ s.size[y] <= i
          BY <1>6, <3>2 DEF Merging
        <5>2. n - r.size[y] \in Nat /\ n - s.size[y] = (n - r.size[y]) + 1
          BY <1>1, <5>1
        <5>3. 2^(n - s.size[y]) = 2 * 2^(n - r.size[y])
          BY <5>2, Powers
        <5>4. QED BY <1>13, <5>1, <5>3
      <4>2. QED BY <4>1
    <3>4. Weighed(V, both)
      <4>1. \A y \in D : r.size[y] <= n
        BY <1>1, <1>12
      <4>2. both \in SUBSET D
        BY <3>2
      <4> HIDE DEF both
      <4>3. QED BY <1>1, <1>12, <4>1, <4>2, WeightsWeigh
    <3>5. Weighed(W, s.group[v1]) /\ Weighed(W, s.group[v2])
      <4>1. s.size \in [D -> Nat] /\ \A y \in D : s.size[y] <= n
        BY <1>1 DEF Merging
      <4>2. QED BY <1>1, <3>2, <4>1, WeightsWeigh
    <3> HIDE DEF V, W
    <3>6. Mass(W, both) = Mass(W, s.group[v1]) + Mass(W, s.group[v2])
      BY <3>2, <3>5, MassUnion
    <3>7. Mass(W, both) = 2 * Mass(V, both)
      <4> HIDE DEF both
      <4>1. QED BY <3>3, <3>4, MassScale
    <3>8. Mass(V, both) \in Nat /\ 2^n \in Nat
      <4> HIDE DEF both
      <4>1. QED BY <3>4, MassFinite, Powers
    <3>9. QED BY <3>1, <3>2, <3>6, <3>7, <3>8
  <2>3. QED BY <2>1, <2>2
<1>15. DOMAIN r.freq = rest
  BY <1>6
<1> HIDE DEF rest
<1>16. DOMAIN r.freq \in SUBSET D /\ Cardinality(DOMAIN r.freq) = Cardinality(D) - (i + 1)
  BY <1>7, <1>15
<1>17. \A v \in DOMAIN r.freq : r.freq[v] \in Nat
  BY <1>8, <1>15
<1>18. \A v \in DOMAIN r.freq : r.group[v] \in SUBSET D
  BY <1>9, <1>15
<1>19. \A v \in DOMAIN r.freq : Mass(Weights(n, r.size), r.group[v]) = 2^n
  BY <1>14, <1>15
<1>20. \A v, w \in DOMAIN r.freq : v # w => r.group[v] \cap r.group[w] = {}
  BY <1>10, <1>15
<1>21. \A y \in D : \E v \in DOMAIN r.freq : y \in r.group[v]
  BY <1>11, <1>15
<1>22. Merging(r, D, n, i + 1)
  BY <1>12, <1>16, <1>17, <1>18, <1>19, <1>20, <1>21, Zenon DEF Merging
<1>23. QED BY <1>22 DEF r

(* How the groups go from one symbol each to one of all.                   *)
MergeRun(at, counts, n) ==
  LET D == DOMAIN counts
      len == Cardinality(D) - 1
  IN  /\ at[0] = Unmerged(counts)
      /\ \A k \in 0..(len - 1) : at[k + 1] = Merge(at[k], k + 1)
      /\ \A k \in 0..len : Merging(at[k], D, n, k)
      /\ at[len].size = find_huff_sizes(counts)

Countable(counts, m) ==
  /\ m \in Nat /\ DOMAIN counts \in SUBSET (0..m) /\ DOMAIN counts # {}
  /\ \A v \in DOMAIN counts : counts[v] \in Nat

(* By induction on the merges, down to a single group of all symbols.      *)
LEMMA CountableFinite ==
  ASSUME NEW m, NEW counts, Countable(counts, m)
  PROVE  /\ IsFiniteSet(DOMAIN counts) /\ Cardinality(DOMAIN counts) \in Nat
         /\ Cardinality(DOMAIN counts) # 0
<1>1. IsFiniteSet(0..m)
  BY FS_Interval DEF Countable
<1>2. IsFiniteSet(DOMAIN counts)
  BY <1>1, FS_Subset DEF Countable
<1>3. QED BY <1>2, FS_CardinalityType, FS_EmptySet DEF Countable

LEMMA MergeRuns ==
  ASSUME NEW m, NEW counts, Countable(counts, m),
         NEW n \in Nat, Cardinality(DOMAIN counts) <= n
  PROVE  \E at : MergeRun(at, counts, n)
<1> DEFINE D == DOMAIN counts
           len == Cardinality(D) - 1
           s == [i \in 1..len |-> i]
           b == Unmerged(counts)
<1>1. IsFiniteSet(D) /\ Cardinality(D) \in Nat /\ Cardinality(D) # 0
  BY CountableFinite
<1>2. len \in Nat /\ DOMAIN s = 1..len
  BY <1>1
<1>3. find_huff_sizes(counts) = FoldLeft(Merge, b, s).size
  BY DEF find_huff_sizes
<1>4. PICK at : /\ at[0] = b
                /\ \A k \in 0..(len - 1) : at[k + 1] = Merge(at[k], s[k + 1])
                /\ at[len] = FoldLeft(Merge, b, s)
  <2> HIDE DEF len, s, b
  <2>1. QED BY <1>2, MergeSteps
<1>5. \A k \in 0..(len - 1) : at[k + 1] = Merge(at[k], k + 1)
  <2>1. \A k \in 0..(len - 1) : s[k + 1] = k + 1
    BY <1>2
  <2>2. QED BY <1>4, <2>1
<1> HIDE DEF s
<1>6. Merging(b, D, n, 0)
  <2>1. b = [freq |-> counts, group |-> [v \in D |-> {v}], size |-> [v \in D |-> 0]]
    BY DEF Unmerged
  <2>2. /\ DOMAIN b.freq = D /\ \A v \in D : b.freq[v] \in Nat
        /\ \A v \in D : b.group[v] = {v}
        /\ b.size \in [D -> Nat] /\ \A v \in D : b.size[v] = 0
    BY <2>1 DEF Countable
  <2> HIDE DEF b
  <2> DEFINE W == Weights(n, b.size)
  <2>3. ASSUME NEW v \in D PROVE Mass(W, {v}) = 2^n
    <3>1. W[v] = 2^n /\ W[v] \in Nat
      <4>1. W[v] = 2^(n - b.size[v]) /\ n - b.size[v] = n
        BY <2>2 DEF Weights
      <4>2. 2^n \in Nat
        BY Powers
      <4>3. QED BY <4>1, <4>2
    <3> HIDE DEF W
    <3>2. Weighed(W, {}) /\ Mass(W, {}) = 0
      BY MassEmpty, FS_EmptySet DEF Weighed
    <3>3. Mass(W, {} \cup {v}) = Mass(W, {}) + W[v]
      BY <3>1, <3>2, MassGrows
    <3>4. {} \cup {v} = {v}
      OBVIOUS
    <3>5. 2^n \in Nat
      BY Powers
    <3>6. QED BY <3>1, <3>2, <3>3, <3>4, <3>5
  <2>4. \A v \in D : Mass(Weights(n, b.size), b.group[v]) = 2^n
    <3> HIDE DEF D
    <3>1. QED BY <2>2, <2>3
  <2>5. DOMAIN b.freq \in SUBSET D /\ Cardinality(DOMAIN b.freq) = Cardinality(D) - 0
    BY <1>1, <2>2
  <2>6. \A x \in D : b.size[x] <= 0
    BY <2>2
  <2>7. \A v, w \in D : v # w => b.group[v] \cap b.group[w] = {}
    BY <2>2
  <2>8. \A x \in D : \E v \in D : x \in b.group[v]
    BY <2>2
  <2>9. \A v \in D : b.group[v] \in SUBSET D
    BY <2>2
  <2> HIDE DEF D, W
  <2>10. QED BY <2>2, <2>4, <2>5, <2>6, <2>7, <2>8, <2>9 DEF Merging
<1> HIDE DEF b
<1> DEFINE S == {i \in Nat : i <= len => Merging(at[i], D, n, i)}
<1>7. 0 \in S
  BY <1>4, <1>6
<1>8. ASSUME NEW i \in S PROVE i + 1 \in S
  <2>1. SUFFICES ASSUME i + 1 <= len PROVE Merging(at[i + 1], D, n, i + 1)
    OBVIOUS
  <2>2. i \in Nat /\ i \in 0..(len - 1) /\ Merging(at[i], D, n, i) /\ i + 1 < Cardinality(D)
    BY <1>1, <2>1
  <2>3. at[i + 1] = Merge(at[i], i + 1)
    BY <1>5, <2>2
  <2>4. Merging(Merge(at[i], i + 1), D, n, i + 1)
    <3> HIDE DEF len, D
    <3>0. D \in SUBSET (0..m) /\ Cardinality(D) <= n /\ m \in Nat
      BY DEF D, Countable
    <3>1. QED BY <2>2, <3>0, MergeStep
  <2>5. QED BY <2>3, <2>4
<1>9. S \in SUBSET Nat
  OBVIOUS
<1> HIDE DEF S
<1>10. S = Nat
  BY <1>7, <1>8, <1>9, SetInduction
<1>11. \A k \in 0..len : Merging(at[k], D, n, k)
  BY <1>2, <1>10 DEF S
<1>12. at[len].size = find_huff_sizes(counts)
  BY <1>3, <1>4
<1>13. MergeRun(at, counts, n)
  <2>1. at[0] = Unmerged(counts)
    BY <1>4 DEF b
  <2>2. QED BY <1>5, <1>11, <1>12, <2>1 DEF MergeRun
<1>14. QED BY <1>13

LEMMA OneGroup ==
  ASSUME NEW m, NEW counts, Countable(counts, m),
         NEW n \in Nat, Cardinality(DOMAIN counts) <= n, NEW at, MergeRun(at, counts, n)
  PROVE  LET r == at[Cardinality(DOMAIN counts) - 1]
         IN  \E v : DOMAIN r.freq = {v} /\ r.group[v] = DOMAIN counts
<1> DEFINE D == DOMAIN counts
           len == Cardinality(D) - 1
           r == at[len]
<1>1. IsFiniteSet(D) /\ Cardinality(D) \in Nat /\ Cardinality(D) # 0
  BY CountableFinite
<1>2. Merging(r, D, n, len)
  BY <1>1 DEF MergeRun
<1> HIDE DEF r
<1>3. PICK v : DOMAIN r.freq = {v}
  <2> DEFINE L == DOMAIN r.freq
  <2>1. L \in SUBSET D /\ Cardinality(L) = 1
    BY <1>1, <1>2 DEF Merging
  <2>2. IsFiniteSet(L)
    BY <1>1, <2>1, FS_Subset
  <2> HIDE DEF L
  <2>3. QED BY <2>1, <2>2, FS_Singleton DEF L
<1>4. r.group[v] = D
  BY <1>2, <1>3 DEF Merging
<1>5. QED BY <1>3, <1>4 DEF r

(* The sizes that find_huff_sizes gives make a full code (Kraft's sum is   *)
(* 1), for any counts: no bit sequence is left without a meaning.          *)
THEOREM FullCode ==
  ASSUME NEW m, NEW counts, Countable(counts, m),
         NEW n \in Nat, Cardinality(DOMAIN counts) <= n
  PROVE  /\ find_huff_sizes(counts) \in [DOMAIN counts -> Nat]
         /\ \A v \in DOMAIN counts : find_huff_sizes(counts)[v] <= n
         /\ Mass(Weights(n, find_huff_sizes(counts)), DOMAIN counts) = 2^n
<1> DEFINE D == DOMAIN counts
           len == Cardinality(D) - 1
<1>1. IsFiniteSet(D) /\ Cardinality(D) \in Nat /\ Cardinality(D) # 0
  BY CountableFinite
<1>2. PICK at : MergeRun(at, counts, n)
  BY MergeRuns, Zenon
<1> DEFINE r == at[len]
<1>3. Merging(r, D, n, len) /\ find_huff_sizes(counts) = r.size
  BY <1>1, <1>2 DEF MergeRun
<1>4. PICK v : DOMAIN r.freq = {v} /\ r.group[v] = D
  BY <1>2, OneGroup
<1> HIDE DEF r
<1>5. r.group[v] = D /\ Mass(Weights(n, r.size), r.group[v]) = 2^n
  BY <1>3, <1>4 DEF Merging
<1>6. r.size \in [D -> Nat] /\ \A x \in D : r.size[x] <= n
  <2>1. r.size \in [D -> Nat] /\ \A x \in D : r.size[x] <= len
    BY <1>3 DEF Merging
  <2>2. len <= n /\ len \in Nat
    BY <1>1
  <2> HIDE DEF len, D
  <2>3. QED BY <2>1, <2>2
<1>7. QED BY <1>3, <1>5, <1>6

(* The reserved symbol is counted once and is the last one: it has none of *)
(* the shorter codes.  While groups are merged, the group r that holds it  *)
(* is the deepest, and a group that may be merged before it is less deep.  *)
Deep(s, v, k) == \A y \in s.group[v] : s.size[y] <= k

(* As long as the group goes by the name of the reserved symbol, it comes  *)
(* first among groups of its count.                                        *)
Named(s, r, d) ==
  /\ r = Reserved
  /\ \A v \in DOMAIN s.freq \ {r} : s.freq[v] < s.freq[r] => Deep(s, v, d - 1)
  /\ \A v, w \in DOMAIN s.freq \ {r} : v # w => s.freq[v] + s.freq[w] >= s.freq[r]

Unnamed(s, r, d) ==
  /\ Reserved \notin DOMAIN s.freq
  /\ \A v \in DOMAIN s.freq \ {r} : s.freq[v] <= s.freq[r] => Deep(s, v, d - 1)
  /\ \A v, w \in DOMAIN s.freq \ {r} : v # w =>
       \/ s.freq[v] + s.freq[w] > s.freq[r]
       \/ s.freq[v] + s.freq[w] = s.freq[r] /\ Deep(s, v, d - 2) /\ Deep(s, w, d - 2)

Behind(s, r, d) ==
  /\ r \in DOMAIN s.freq /\ Reserved \in s.group[r] /\ s.size[Reserved] = d
  /\ \A v \in DOMAIN s.freq : s.freq[v] >= 1 /\ Deep(s, v, d)
  /\ Named(s, r, d) \/ Unnamed(s, r, d)

(* What a step does, in terms of the two groups.                           *)
IsMerge(s, t, a, b) ==
  /\ a \in DOMAIN s.freq /\ b \in DOMAIN s.freq /\ a # b
  /\ DOMAIN t.freq = DOMAIN s.freq \ {b}
  /\ t.freq[a] = s.freq[a] + s.freq[b] /\ t.group[a] = s.group[a] \cup s.group[b]
  /\ \A v \in DOMAIN s.freq \ {a, b} : t.freq[v] = s.freq[v] /\ t.group[v] = s.group[v]
  /\ \A v \in DOMAIN s.freq \ {a, b} : \A y \in s.group[v] : t.size[y] = s.size[y]
  /\ \A y \in s.group[a] \cup s.group[b] : t.size[y] = s.size[y] + 1
  /\ \A v \in DOMAIN s.freq \ {a} : s.freq[a] < s.freq[v] \/ (s.freq[a] = s.freq[v] /\ a >= v)
  /\ \A v \in DOMAIN s.freq \ {a, b} : s.freq[b] < s.freq[v] \/ (s.freq[b] = s.freq[v] /\ b >= v)

(* A merge keeps the group of the reserved symbol behind the others,       *)
(* whether it takes part in the merge or not.                              *)
LEMMA BehindStep ==
  ASSUME NEW s, NEW t, NEW a, NEW b, IsMerge(s, t, a, b),
         DOMAIN s.freq \in SUBSET (0..Reserved),
         \A v \in DOMAIN s.freq : s.freq[v] \in Nat,
         \A v \in DOMAIN s.freq : \A y \in s.group[v] : s.size[y] \in Nat,
         \A v, w \in DOMAIN s.freq : v # w => s.group[v] \cap s.group[w] = {},
         NEW r, NEW d, Behind(s, r, d)
  PROVE  \E q, e : Behind(t, q, e)
<1> DEFINE L == DOMAIN s.freq
<1>1. r \in L /\ Reserved \in s.group[r] /\ s.size[Reserved] = d /\ d \in Nat
  BY DEF Behind
<1>2. a \in L /\ b \in L /\ a # b /\ DOMAIN t.freq = L \ {b}
  BY DEF IsMerge
<1>3. \A v \in L \ {a, b} : \A k \in Int : Deep(t, v, k) <=> Deep(s, v, k)
  BY DEF IsMerge, Deep
<1>4. ASSUME NEW k \in Int, Deep(s, a, k), Deep(s, b, k) PROVE Deep(t, a, k + 1)
  <2>1. \A y \in s.group[a] \cup s.group[b] : s.size[y] \in Nat /\ s.size[y] <= k /\ t.size[y] = s.size[y] + 1
    BY <1>2, <1>4 DEF Deep, IsMerge
  <2>2. t.group[a] = s.group[a] \cup s.group[b]
    BY DEF IsMerge
  <2>3. QED BY <2>1, <2>2 DEF Deep
<1>5. \A v \in L : s.freq[v] \in Nat /\ s.freq[v] >= 1 /\ Deep(s, v, d)
  BY DEF Behind
<1>6. \A v \in L \ {a, b} : t.freq[v] = s.freq[v]
  BY DEF IsMerge
<1>7. t.freq[a] = s.freq[a] + s.freq[b]
  BY DEF IsMerge
<1>8. \A v \in L \ {a, b} : s.freq[b] <= s.freq[v] /\ s.freq[a] <= s.freq[v]
  BY <1>2, <1>5 DEF IsMerge
<1>9. s.freq[a] <= s.freq[b]
  BY <1>2, <1>5 DEF IsMerge
<1>10. \A v \in L \ {b} : t.freq[v] \in Nat /\ t.freq[v] >= 1
  BY <1>2, <1>5, <1>6, <1>7
<1>11. \A v, k1, k2 : k1 \in Int /\ k2 \in Int /\ k1 <= k2 /\ v \in L /\ Deep(s, v, k1) => Deep(s, v, k2)
  BY DEF Deep
<1>12. CASE r = a \/ r = b
  <2>1. Reserved \in t.group[a] /\ t.size[Reserved] = d + 1
    BY <1>1, <1>12 DEF IsMerge
  <2>2. \A v \in L \ {b} : Deep(t, v, d + 1)
    <3>1. Deep(t, a, d + 1)
      BY <1>1, <1>2, <1>4, <1>5
    <3>2. ASSUME NEW v \in L \ {a, b} PROVE Deep(t, v, d + 1)
      <4>1. Deep(s, v, d) /\ d <= d + 1 /\ d + 1 \in Int /\ d \in Int
        BY <1>1, <1>5
      <4>2. Deep(s, v, d + 1)
        BY <1>11, <4>1
      <4>3. QED BY <1>3, <4>1, <4>2
    <3>3. QED BY <3>1, <3>2
  <2>3. \A v \in L \ {a, b} : Deep(t, v, (d + 1) - 1)
    BY <1>1, <1>3, <1>5
  <2>4. CASE r = Reserved /\ r = a
    <3>1. \A v, w \in L \ {a, b} : s.freq[v] + s.freq[w] >= s.freq[a] + s.freq[b]
      BY <1>2, <1>5, <1>8, <1>9
    <3>2. Named(t, a, d + 1)
      BY <1>2, <1>6, <1>7, <2>3, <2>4, <3>1 DEF Named
    <3>3. Behind(t, a, d + 1)
      BY <1>2, <1>10, <2>1, <2>2, <3>2 DEF Behind
    <3>4. QED BY <3>3
  <2>5. CASE ~(r = Reserved /\ r = a)
    <3>1. Reserved \notin L \ {b}
      <4>1. CASE Unnamed(s, r, d)
        BY <4>1 DEF Unnamed
      <4>2. CASE Named(s, r, d)
        BY <1>12, <2>5, <4>2 DEF Named
      <4>3. QED BY <4>1, <4>2 DEF Behind
    <3>2. ASSUME NEW v \in L \ {a, b}, NEW w \in L \ {a, b}, v # w
          PROVE  \/ t.freq[v] + t.freq[w] > t.freq[a]
                 \/ t.freq[v] + t.freq[w] = t.freq[a] /\ Deep(t, v, (d + 1) - 2) /\ Deep(t, w, (d + 1) - 2)
      <4>1. /\ t.freq[v] = s.freq[v] /\ t.freq[w] = s.freq[w] /\ t.freq[a] = s.freq[a] + s.freq[b]
            /\ s.freq[v] \in Nat /\ s.freq[w] \in Nat /\ s.freq[a] \in Nat /\ s.freq[b] \in Nat
            /\ s.freq[v] >= s.freq[b] /\ s.freq[w] >= s.freq[b] /\ s.freq[b] >= s.freq[a]
        BY <1>2, <1>5, <1>6, <1>7, <1>8, <1>9
      <4>2. CASE s.freq[v] + s.freq[w] > s.freq[a] + s.freq[b]
        BY <4>1, <4>2
      <4>3. CASE ~(s.freq[v] + s.freq[w] > s.freq[a] + s.freq[b])
        <5>1. s.freq[v] = s.freq[b] /\ s.freq[w] = s.freq[b] /\ s.freq[a] = s.freq[b]
          BY <4>1, <4>3
        <5>2. s.freq[v] = s.freq[r] /\ s.freq[w] = s.freq[r]
          BY <1>12, <5>1
        <5>3. Unnamed(s, r, d)
          <6>1. CASE Named(s, r, d)
            <7>1. r = Reserved /\ r = b
              BY <1>12, <2>5, <6>1 DEF Named
            <7>2. s.freq[a] < s.freq[b] \/ a >= b
              BY <1>2 DEF IsMerge
            <7>3. a < b
              <8>1. a \in 0..Reserved /\ b = Reserved
                BY <1>2, <7>1
              <8>2. QED BY <1>2, <8>1 DEF Reserved
            <7>4. a \in Int /\ b \in Int
              BY <1>2
            <7>5. QED BY <4>1, <5>1, <7>2, <7>3, <7>4
          <6>2. QED BY <6>1 DEF Behind
        <5>4. Deep(s, v, d - 1) /\ Deep(s, w, d - 1)
          <6>1. v \in L \ {r} /\ w \in L \ {r}
            BY <1>12
          <6>2. s.freq[v] <= s.freq[r] /\ s.freq[w] <= s.freq[r]
            BY <4>1, <5>2
          <6>3. QED BY <5>3, <6>1, <6>2 DEF Unnamed
        <5>5. (d + 1) - 2 = d - 1 /\ d - 1 \in Int
          BY <1>1
        <5>6. Deep(t, v, d - 1) /\ Deep(t, w, d - 1)
          BY <1>3, <5>4, <5>5
        <5>7. QED BY <4>1, <5>1, <5>5, <5>6
      <4>4. QED BY <4>2, <4>3
    <3>3. Unnamed(t, a, d + 1)
      BY <1>2, <2>3, <3>1, <3>2 DEF Unnamed
    <3>4. Behind(t, a, d + 1)
      BY <1>2, <1>10, <2>1, <2>2, <3>3 DEF Behind
    <3>5. QED BY <3>4
  <2>6. QED BY <2>4, <2>5
<1>13. CASE r # a /\ r # b
  <2>1. r \in L \ {a, b} /\ Reserved \in t.group[r] /\ t.size[Reserved] = d
    BY <1>1, <1>13 DEF IsMerge
  <2>2. s.freq[a] <= s.freq[r] /\ s.freq[b] <= s.freq[r] /\ t.freq[r] = s.freq[r] /\ s.freq[r] \in Nat
    BY <1>5, <1>6, <1>8, <2>1
  <2>3. d - 1 \in Int /\ d - 2 \in Int /\ (d - 1) + 1 = d /\ (d - 2) + 1 = d - 1 /\ d \in Int
    BY <1>1
  <2>4. CASE Named(s, r, d)
    <3>1. s.freq[b] < s.freq[r]
      <4>1. b < r
        <5>1. b \in 0..Reserved /\ r = Reserved
          BY <1>2, <2>4 DEF Named
        <5>2. QED BY <1>13, <5>1 DEF Reserved
      <4>2. b \in Int /\ r \in Int
        BY <1>1, <1>2
      <4>3. s.freq[b] < s.freq[r] \/ b >= r
        BY <2>1 DEF IsMerge
      <4>4. QED BY <4>1, <4>2, <4>3
    <3>2. Deep(s, a, d - 1) /\ Deep(s, b, d - 1)
      BY <1>2, <1>5, <1>9, <1>13, <2>2, <2>4, <3>1 DEF Named
    <3>3. Deep(t, a, d)
      BY <1>4, <2>3, <3>2
    <3>4. s.freq[a] + s.freq[b] >= s.freq[r]
      BY <1>2, <1>13, <2>4 DEF Named
    <3>5. \A v \in L \ {b} : Deep(t, v, d)
      BY <1>3, <1>5, <2>3, <3>3
    <3>6. ASSUME NEW v \in (L \ {b}) \ {r}, t.freq[v] < t.freq[r] PROVE Deep(t, v, d - 1)
      <4>1. v # a
        BY <1>2, <1>5, <1>7, <2>2, <3>4, <3>6
      <4>2. s.freq[v] < s.freq[r] /\ v \in L \ {r}
        BY <1>6, <2>2, <3>6, <4>1
      <4>3. Deep(s, v, d - 1)
        BY <2>4, <4>2 DEF Named
      <4>4. QED BY <1>3, <2>3, <4>1, <4>3
    <3>7. ASSUME NEW v \in (L \ {b}) \ {r}, NEW w \in (L \ {b}) \ {r}, v # w
          PROVE  t.freq[v] + t.freq[w] >= t.freq[r]
      <4>1. CASE v = a \/ w = a
        BY <1>2, <1>5, <1>7, <1>10, <2>2, <3>4, <4>1
      <4>2. CASE v # a /\ w # a
        <5>1. s.freq[v] + s.freq[w] >= s.freq[r]
          BY <2>4, <3>7, <4>2 DEF Named
        <5>2. QED BY <1>6, <2>2, <4>2, <5>1
      <4>3. QED BY <4>1, <4>2
    <3>8. Named(t, r, d)
      BY <1>2, <2>4, <3>6, <3>7 DEF Named
    <3>9. Behind(t, r, d)
      BY <1>2, <1>10, <2>1, <3>5, <3>8 DEF Behind
    <3>10. QED BY <3>9
  <2>5. CASE Unnamed(s, r, d)
    <3>1. Deep(s, a, d - 1) /\ Deep(s, b, d - 1)
      BY <1>2, <1>13, <2>2, <2>5 DEF Unnamed
    <3>2. Deep(t, a, d)
      BY <1>4, <2>3, <3>1
    <3>3. \/ s.freq[a] + s.freq[b] > s.freq[r]
          \/ s.freq[a] + s.freq[b] = s.freq[r] /\ Deep(s, a, d - 2) /\ Deep(s, b, d - 2)
      BY <1>2, <1>13, <2>5 DEF Unnamed
    <3>4. \A v \in L \ {b} : Deep(t, v, d)
      BY <1>3, <1>5, <2>3, <3>2
    <3>5. ASSUME NEW v \in (L \ {b}) \ {r}, t.freq[v] <= t.freq[r] PROVE Deep(t, v, d - 1)
      <4>1. CASE v = a
        <5>1. s.freq[a] + s.freq[b] <= s.freq[r] /\ s.freq[a] + s.freq[b] \in Nat
          BY <1>2, <1>5, <1>7, <2>2, <3>5, <4>1
        <5>2. Deep(s, a, d - 2) /\ Deep(s, b, d - 2)
          BY <2>2, <3>3, <5>1
        <5>3. Deep(t, a, (d - 2) + 1)
          BY <1>4, <2>3, <5>2
        <5>4. QED BY <2>3, <4>1, <5>3
      <4>2. CASE v # a
        <5>1. s.freq[v] <= s.freq[r] /\ v \in L \ {r}
          BY <1>6, <2>2, <3>5, <4>2
        <5>2. Deep(s, v, d - 1)
          BY <2>5, <5>1 DEF Unnamed
        <5>3. QED BY <1>3, <2>3, <4>2, <5>2
      <4>3. QED BY <4>1, <4>2
    <3>6. ASSUME NEW v \in (L \ {b}) \ {r}, NEW w \in (L \ {b}) \ {r}, v # w
          PROVE  \/ t.freq[v] + t.freq[w] > t.freq[r]
                 \/ t.freq[v] + t.freq[w] = t.freq[r] /\ Deep(t, v, d - 2) /\ Deep(t, w, d - 2)
      <4>1. CASE v = a \/ w = a
        <5>1. s.freq[a] + s.freq[b] >= s.freq[r]
          BY <1>2, <1>5, <2>2, <3>3
        <5>2. QED BY <1>2, <1>5, <1>7, <1>10, <2>2, <3>6, <4>1, <5>1
      <4>2. CASE v # a /\ w # a
        <5>1. \/ s.freq[v] + s.freq[w] > s.freq[r]
              \/ s.freq[v] + s.freq[w] = s.freq[r] /\ Deep(s, v, d - 2) /\ Deep(s, w, d - 2)
          BY <2>5, <3>6, <4>2 DEF Unnamed
        <5>2. QED BY <1>3, <1>6, <2>2, <2>3, <4>2, <5>1
      <4>3. QED BY <4>1, <4>2
    <3>7. Unnamed(t, r, d)
      BY <1>2, <2>5, <3>5, <3>6 DEF Unnamed
    <3>8. Behind(t, r, d)
      BY <1>2, <1>10, <2>1, <3>4, <3>7 DEF Behind
    <3>9. QED BY <3>8
  <2>6. QED BY <2>4, <2>5 DEF Behind
<1>14. QED BY <1>12, <1>13

(* Merge of the model is such a step, of the two groups of least count.    *)
LEMMA MergeIs ==
  ASSUME NEW m \in Nat, NEW D \in SUBSET (0..m), NEW n \in Nat,
         NEW i \in Nat, i + 1 < Cardinality(D), NEW s, Merging(s, D, n, i), NEW x
  PROVE  \E a, b : IsMerge(s, Merge(s, x), a, b)
<1> DEFINE L == DOMAIN s.freq
           v1 == find_least_freq(s.freq, L)
           v2 == find_least_freq(s.freq, L \ {v1})
           both == s.group[v1] \cup s.group[v2]
           rest == L \ {v2}
           r == Merge(s, x)
<1>1. IsFiniteSet(D) /\ Cardinality(D) \in Nat
  <2>1. IsFiniteSet(0..m)
    BY FS_Interval
  <2>2. QED BY <2>1, FS_Subset, FS_CardinalityType
<1>2. IsFiniteSet(L) /\ Cardinality(L) = Cardinality(D) - i /\ L \in SUBSET D
  BY <1>1, FS_Subset DEF Merging
<1>3. \A v \in L : s.freq[v] \in Nat
  BY DEF Merging
<1>4. v1 \in L /\ \A v \in L : s.freq[v1] < s.freq[v] \/ (s.freq[v1] = s.freq[v] /\ v1 >= v)
  <2>1. L # {}
    <3>1. L = {} => Cardinality(L) = 0
      BY FS_EmptySet
    <3>2. QED BY <1>1, <1>2, <3>1
  <2>2. L \in SUBSET (0..m)
    BY <1>2
  <2> HIDE DEF L
  <2>3. QED BY <1>3, <2>1, <2>2, LeastFreq
<1>5. /\ v2 \in L \ {v1}
      /\ \A v \in L \ {v1} : s.freq[v2] < s.freq[v] \/ (s.freq[v2] = s.freq[v] /\ v2 >= v)
  <2> DEFINE R == L \ {v1}
  <2> HIDE DEF L, v1
  <2>1. IsFiniteSet(R) /\ Cardinality(R) = Cardinality(L) - 1
    BY <1>2, <1>4, FS_RemoveElement
  <2>2. R # {}
    <3>1. R = {} => Cardinality(R) = 0
      BY FS_EmptySet
    <3>2. QED BY <1>1, <1>2, <2>1, <3>1
  <2>3. R \in SUBSET (0..m)
    BY <1>2
  <2>4. \A v \in R : s.freq[v] \in Nat
    BY <1>3
  <2> HIDE DEF R
  <2>5. /\ find_least_freq(s.freq, R) \in R
        /\ \A v \in R : s.freq[find_least_freq(s.freq, R)] < s.freq[v]
             \/ (s.freq[find_least_freq(s.freq, R)] = s.freq[v] /\ find_least_freq(s.freq, R) >= v)
    BY <2>2, <2>3, <2>4, LeastFreq
  <2>6. QED BY <2>5 DEF R
<1>6. r = [freq |-> [v \in rest |-> IF v = v1 THEN s.freq[v1] + s.freq[v2] ELSE s.freq[v]],
           group |-> [v \in rest |-> IF v = v1 THEN both ELSE s.group[v]],
           size |-> [v \in DOMAIN s.size |-> IF v \in both THEN s.size[v] + 1 ELSE s.size[v]]]
  BY DEF Merge
<1>7. /\ DOMAIN r.freq = rest
      /\ \A v \in rest : r.freq[v] = IF v = v1 THEN s.freq[v1] + s.freq[v2] ELSE s.freq[v]
      /\ \A v \in rest : r.group[v] = IF v = v1 THEN both ELSE s.group[v]
      /\ r.size = [v \in D |-> IF v \in both THEN s.size[v] + 1 ELSE s.size[v]]
  <2>1. DOMAIN s.size = D
    BY DEF Merging
  <2> HIDE DEF r, v1, v2, both, rest, L
  <2>2. QED BY <1>6, <2>1
<1> HIDE DEF r, v1, v2
<1>8. both \in SUBSET D
  BY <1>4, <1>5 DEF Merging
<1>9. \A v \in L \ {v1, v2} : s.group[v] \in SUBSET D /\ s.group[v] \cap both = {}
  BY <1>4, <1>5 DEF Merging
<1>10. \A v \in L \ {v1, v2} : \A y \in s.group[v] : r.size[y] = s.size[y]
  BY <1>7, <1>9
<1>11. \A y \in both : r.size[y] = s.size[y] + 1
  BY <1>7, <1>8
<1>12. v1 \in rest /\ \A v \in L \ {v1, v2} : v \in rest
  BY <1>4, <1>5
<1>13. IsMerge(s, r, v1, v2)
  <2>1. v1 \in L /\ v2 \in L /\ v1 # v2 /\ DOMAIN r.freq = L \ {v2}
    BY <1>4, <1>5, <1>7
  <2>2. r.freq[v1] = s.freq[v1] + s.freq[v2] /\ r.group[v1] = both
    BY <1>7, <1>12
  <2>3. \A v \in L \ {v1, v2} : r.freq[v] = s.freq[v] /\ r.group[v] = s.group[v]
    BY <1>7, <1>12
  <2>4. \A v \in L \ {v1} : s.freq[v1] < s.freq[v] \/ (s.freq[v1] = s.freq[v] /\ v1 >= v)
    BY <1>4
  <2>5. \A v \in L \ {v1, v2} : s.freq[v2] < s.freq[v] \/ (s.freq[v2] = s.freq[v] /\ v2 >= v)
    BY <1>5
  <2>6. QED BY <1>10, <1>11, <2>1, <2>2, <2>3, <2>4, <2>5, Zenon DEF IsMerge
<1>14. QED BY <1>13 DEF r

(* The reserved symbol has none of the shorter codes.                      *)
LEMMA ReservedLongest ==
  ASSUME NEW counts, Countable(counts, Reserved), Reserved \in DOMAIN counts, counts[Reserved] = 1,
         \A v \in DOMAIN counts : counts[v] >= 1
  PROVE  \A x \in DOMAIN counts :
           find_huff_sizes(counts)[x] <= find_huff_sizes(counts)[Reserved]
<1> DEFINE D == DOMAIN counts
           n == Cardinality(D)
           len == n - 1
           b == Unmerged(counts)
           Is(i, at) == \E r, d : Behind(at[i], r, d)
<1>1. IsFiniteSet(D) /\ n \in Nat /\ n # 0
  BY CountableFinite
<1>2. n <= n /\ len \in Nat
  BY <1>1
<1>3. PICK at : MergeRun(at, counts, n)
  <2> HIDE DEF len
  <2>1. QED BY <1>1, <1>2, MergeRuns, Zenon
<1> HIDE DEF n
<1>4. Behind(b, Reserved, 0)
  <2>1. b = [freq |-> counts, group |-> [v \in D |-> {v}], size |-> [v \in D |-> 0]]
    BY DEF Unmerged
  <2>2. /\ DOMAIN b.freq = D /\ b.freq = counts
        /\ \A v \in D : b.group[v] = {v} /\ b.size[v] = 0
    BY <2>1
  <2> HIDE DEF b
  <2>3. \A v \in D : counts[v] \in Nat /\ counts[v] >= 1
    BY DEF Countable
  <2>4. \A v \in D : Deep(b, v, 0)
    BY <2>2 DEF Deep
  <2>5. Named(b, Reserved, 0)
    BY <2>2, <2>3 DEF Named
  <2>6. QED BY <2>2, <2>3, <2>4, <2>5 DEF Behind
<1> DEFINE S == {i \in Nat : i <= len => Is(i, at)}
<1>5. 0 \in S
  <2>1. at[0] = b
    BY <1>3 DEF MergeRun
  <2>2. QED BY <1>4, <2>1
<1>6. ASSUME NEW i \in S PROVE i + 1 \in S
  <2>1. SUFFICES ASSUME i + 1 <= len PROVE Is(i + 1, at)
    OBVIOUS
  <2>2. i \in Nat /\ i \in 0..(len - 1) /\ i \in 0..len /\ i + 1 < n /\ i <= len
    BY <1>1, <2>1
  <2>3. at[i + 1] = Merge(at[i], i + 1) /\ Merging(at[i], D, n, i)
    BY <1>3, <2>2 DEF MergeRun, n
  <2> DEFINE s == at[i]
             t == Merge(s, i + 1)
  <2>4. Merging(s, D, n, i) /\ t = at[i + 1]
    BY <2>3
  <2>5. D \in SUBSET (0..Reserved) /\ Reserved \in Nat
    BY DEF Countable
  <2>6. \E p, q : IsMerge(s, t, p, q)
    <3> HIDE DEF s, D, len
    <3>1. i + 1 < Cardinality(D)
      BY <2>2 DEF n
    <3>2. QED BY <1>1, <2>2, <2>4, <2>5, <3>1, MergeIs
  <2>7. PICK p, q : IsMerge(s, t, p, q)
    <3> HIDE DEF s, t
    <3>1. QED BY <2>6
  <2>8. \E r, d : Behind(s, r, d)
    BY <2>2
  <2> HIDE DEF s, t
  <2>9. PICK r, d : Behind(s, r, d)
    BY <2>8
  <2>10. /\ DOMAIN s.freq \in SUBSET (0..Reserved)
         /\ \A v \in DOMAIN s.freq : s.freq[v] \in Nat
         /\ \A v \in DOMAIN s.freq : \A y \in s.group[v] : s.size[y] \in Nat
         /\ \A v, w \in DOMAIN s.freq : v # w => s.group[v] \cap s.group[w] = {}
    BY <2>4, <2>5 DEF Merging
  <2>11. \E u, e : Behind(t, u, e)
    BY <2>7, <2>9, <2>10, BehindStep
  <2>12. QED BY <2>4, <2>11
<1>7. S \in SUBSET Nat
  OBVIOUS
<1> HIDE DEF S
<1>8. S = Nat
  BY <1>5, <1>6, <1>7, SetInduction
<1> DEFINE z == at[len]
<1>9. Is(len, at)
  BY <1>2, <1>8 DEF S
<1>10. PICK r, d : Behind(z, r, d)
  BY <1>9
<1>11. PICK v : DOMAIN z.freq = {v} /\ z.group[v] = D
  <2>1. Countable(counts, Reserved) /\ n \in Nat /\ Cardinality(D) <= n
    BY <1>1 DEF n
  <2>2. QED BY <1>3, <2>1, OneGroup DEF n
<1>12. z.size = find_huff_sizes(counts)
  BY <1>1, <1>3 DEF MergeRun, n
<1> HIDE DEF z
<1>13. \A x \in D : z.size[x] <= d /\ d = z.size[Reserved]
  BY <1>10, <1>11 DEF Behind, Deep
<1>14. QED BY <1>12, <1>13

(* More of the powers of two.                                              *)
LEMMA PowerSum == \A a, b \in Nat : 2^(a + b) = 2^a * 2^b
<1> SUFFICES ASSUME NEW a \in Nat PROVE \A b \in Nat : 2^(a + b) = 2^a * 2^b
  OBVIOUS
<1> DEFINE S == {b \in Nat : 2^(a + b) = 2^a * 2^b}
<1>1. 0 \in S
  <2>1. 2^0 = 1 /\ 2^a \in Nat /\ a + 0 = a
    BY Powers
  <2>2. QED BY <2>1
<1>2. ASSUME NEW b \in S PROVE b + 1 \in S
  <2>1. b \in Nat /\ 2^(a + b) = 2^a * 2^b
    OBVIOUS
  <2>2. a + b \in Nat /\ a + (b + 1) = (a + b) + 1 /\ b + 1 \in Nat
    BY <2>1
  <2>3. 2^((a + b) + 1) = 2 * 2^(a + b) /\ 2^(b + 1) = 2 * 2^b /\ 2^a \in Nat /\ 2^b \in Nat
    BY <2>1, <2>2, Powers
  <2>4. \A x, y \in Nat : 2 * (x * y) = x * (2 * y)
    OBVIOUS
  <2>5. 2^(a + (b + 1)) = 2^a * 2^(b + 1)
    BY <2>1, <2>2, <2>3, <2>4
  <2>6. QED BY <2>2, <2>5
<1>3. S \in SUBSET Nat
  OBVIOUS
<1> HIDE DEF S
<1>4. S = Nat
  BY <1>1, <1>2, <1>3, SetInduction
<1>5. QED BY <1>4 DEF S

LEMMA PowerGrows == \A a, b \in Nat : a <= b => 2^a <= 2^b
<1> SUFFICES ASSUME NEW a \in Nat, NEW b \in Nat, a <= b PROVE 2^a <= 2^b
  OBVIOUS
<1>1. b - a \in Nat /\ a + (b - a) = b
  OBVIOUS
<1>2. 2^b = 2^a * 2^(b - a) /\ 2^a \in Nat /\ 2^(b - a) \in Nat /\ 2^(b - a) >= 1
  BY <1>1, PowerSum, Powers
<1>3. \A x, y \in Nat : y >= 1 => x <= x * y
  OBVIOUS
<1>4. QED BY <1>2, <1>3

LEMMA SmallPowers == 2^9 = 512 /\ 2^16 = 65536
<1>1. 2^0 = 1 /\ \A n \in Nat : 2^(n + 1) = 2 * 2^n
  BY Powers
<1>2. 2^1 = 2 /\ 2^2 = 4 /\ 2^3 = 8 /\ 2^4 = 16
  BY <1>1
<1>3. 2^5 = 32 /\ 2^6 = 64 /\ 2^7 = 128 /\ 2^8 = 256
  BY <1>1, <1>2
<1>4. 2^9 = 512 /\ 2^10 = 1024 /\ 2^11 = 2048 /\ 2^12 = 4096
  BY <1>1, <1>3
<1>5. 2^13 = 8192 /\ 2^14 = 16384 /\ 2^15 = 32768 /\ 2^16 = 65536
  BY <1>1, <1>4
<1>6. QED BY <1>4, <1>5

(* Strict only fixes the order in which TLC evaluates.                     *)
LEMMA Stricted == \A f : Strict(f) = f
BY DEF Strict

-----------------------------------------------------------------------------
(* How many codes of each size there are, bits[1..n], added up: c[l] are   *)
(* of size l or less, and with their followers they take up q[l] of the    *)
(* 2^l numbers of l bits.                                                  *)
Tally(q, c, bits, n) ==
  /\ \A l \in 0..n : q[l] \in Int /\ c[l] \in Int
  /\ q[0] = 0 /\ c[0] = 0
  /\ \A l \in 1..n : q[l] = 2 * q[l - 1] + bits[l]
  /\ \A l \in 1..n : c[l] = c[l - 1] + bits[l]

Longer == 2 * MaxHuffBits

(* The sizes of a code, the reserved one apart.                            *)
Sizes(size) == DOMAIN size \ {Reserved}
Upto(size, l) == {x \in Sizes(size) : size[x] <= l}
CodesOf(size, n) == [l \in 0..n |-> Mass(Weights(l, size), Upto(size, l))]
CountOf(size, n) == [l \in 0..n |-> Cardinality(Upto(size, l))]

(* What find_num_huff_sizes counts is such a tally of the sizes.           *)
LEMMA TallyOf ==
  ASSUME NEW size, NEW D, IsFiniteSet(D), size \in [D -> Nat],
         \A x \in D \ {Reserved} : size[x] >= 1
  PROVE  Tally(CodesOf(size, Longer), CountOf(size, Longer), find_num_huff_sizes(size), Longer)
<1> DEFINE E == D \ {Reserved}
           U(l) == {x \in E : size[x] <= l}
           V(l) == {x \in E : size[x] = l}
           W(l) == Weights(l, size)
           q == CodesOf(size, Longer)
           c == CountOf(size, Longer)
           num == find_num_huff_sizes(size)
<1>1. Longer \in Nat
  BY MaxHuffBitsOK DEF Longer
<1>2. \A l \in 0..Longer : q[l] = Mass(W(l), U(l)) /\ c[l] = Cardinality(U(l))
  BY DEF CodesOf, CountOf, Upto, Sizes
<1>3. \A l \in 1..Longer : num[l] = Cardinality(V(l))
  <2>1. num = [l \in 1..Longer |-> Cardinality(V(l))]
    BY Stricted DEF find_num_huff_sizes, Longer
  <2>2. QED BY <2>1
<1>4. \A l \in Nat : IsFiniteSet(U(l)) /\ IsFiniteSet(V(l))
  <2>1. \A l \in Nat : U(l) \in SUBSET D /\ V(l) \in SUBSET D
    OBVIOUS
  <2> HIDE DEF U, V
  <2>2. QED BY <2>1, FS_Subset
<1>5. \A l \in Nat : Cardinality(U(l)) \in Nat /\ Cardinality(V(l)) \in Nat
  BY <1>4, FS_CardinalityType
<1>6. ASSUME NEW l \in Nat PROVE Weighed(W(l), U(l)) /\ Mass(W(l), U(l)) \in Nat
  <2>1. \A x \in U(l) : W(l)[x] = 2^(l - size[x]) /\ l - size[x] \in Nat
    BY DEF Weights
  <2>2. \A x \in U(l) : W(l)[x] \in Nat
    BY <2>1, Powers
  <2>3. Weighed(W(l), U(l))
    BY <1>4, <2>2 DEF Weighed
  <2>4. QED BY <2>3, MassFinite
<1>7. q[0] = 0 /\ c[0] = 0
  <2>1. U(0) = {}
    OBVIOUS
  <2>2. Mass(W(0), {}) = 0 /\ Cardinality({}) = 0
    BY MassEmpty, FS_EmptySet
  <2>3. 0 \in 0..Longer
    BY <1>1
  <2>4. q[0] = Mass(W(0), U(0)) /\ c[0] = Cardinality(U(0))
    BY <1>2, <2>3
  <2>5. QED BY <2>1, <2>2, <2>4
<1>8. ASSUME NEW l \in 1..Longer
      PROVE  /\ U(l) = U(l - 1) \cup V(l) /\ U(l - 1) \cap V(l) = {}
             /\ Mass(W(l), U(l)) = 2 * Mass(W(l - 1), U(l - 1)) + Cardinality(V(l))
             /\ Cardinality(U(l)) = Cardinality(U(l - 1)) + Cardinality(V(l))
  <2>1. l \in Nat /\ l - 1 \in Nat
    BY <1>1
  <2>2. U(l) = U(l - 1) \cup V(l) /\ U(l - 1) \cap V(l) = {}
    BY <2>1
  <2>3. \A x \in V(l) : W(l)[x] = 1
    <3>1. \A x \in V(l) : W(l)[x] = 2^(l - size[x]) /\ l - size[x] = 0
      BY <2>1 DEF Weights
    <3>2. 2^0 = 1
      BY Powers
    <3>3. QED BY <3>1, <3>2
  <2>4. \A x \in U(l - 1) : W(l)[x] = 2 * W(l - 1)[x]
    <3>1. ASSUME NEW x \in U(l - 1) PROVE W(l)[x] = 2 * W(l - 1)[x]
      <4>1. W(l)[x] = 2^(l - size[x]) /\ W(l - 1)[x] = 2^(l - 1 - size[x])
        BY DEF Weights
      <4>2. l - 1 - size[x] \in Nat /\ l - size[x] = (l - 1 - size[x]) + 1
        BY <2>1
      <4>3. 2^((l - 1 - size[x]) + 1) = 2 * 2^(l - 1 - size[x])
        BY <4>2, Powers
      <4>4. QED BY <4>1, <4>2, <4>3
    <3>2. QED BY <3>1
  <2>5. Weighed(W(l - 1), U(l - 1)) /\ Mass(W(l - 1), U(l - 1)) \in Nat
    BY <1>6, <2>1
  <2>6. IsFiniteSet(U(l - 1)) /\ IsFiniteSet(V(l))
    BY <1>4, <2>1
  <2> HIDE DEF U, V, W
  <2>7. Weighed(W(l), U(l - 1)) /\ Mass(W(l), U(l - 1)) = 2 * Mass(W(l - 1), U(l - 1))
    BY <2>4, <2>5, MassScale
  <2>8. Weighed(W(l), V(l)) /\ Mass(W(l), V(l)) = Cardinality(V(l))
    BY <2>3, <2>6, MassOnes
  <2>9. Mass(W(l), U(l)) = Mass(W(l), U(l - 1)) + Mass(W(l), V(l))
    BY <2>2, <2>7, <2>8, MassUnion
  <2>10. Cardinality(U(l)) = Cardinality(U(l - 1)) + Cardinality(V(l))
    <3>1. Cardinality(U(l - 1) \cup V(l)) = Cardinality(U(l - 1)) + Cardinality(V(l)) - Cardinality(U(l - 1) \cap V(l))
      BY <2>6, FS_Union
    <3>2. Cardinality(U(l - 1) \cap V(l)) = 0
      BY <2>2, FS_EmptySet
    <3>3. Cardinality(U(l - 1)) \in Nat /\ Cardinality(V(l)) \in Nat
      BY <1>5, <2>1
    <3>4. QED BY <2>2, <3>1, <3>2, <3>3
  <2>11. QED BY <2>2, <2>7, <2>8, <2>9, <2>10
<1>9. \A l \in 0..Longer : q[l] \in Int /\ c[l] \in Int
  <2>1. \A l \in 0..Longer : l \in Nat
    BY <1>1
  <2> HIDE DEF q, c, U, W
  <2>2. ASSUME NEW l \in Nat PROVE Mass(W(l), U(l)) \in Int /\ Cardinality(U(l)) \in Int
    <3>1. Mass(W(l), U(l)) \in Nat
      BY <1>6
    <3>2. Cardinality(U(l)) \in Nat
      BY <1>5
    <3>3. QED BY <3>1, <3>2
  <2>3. QED BY <1>2, <2>1, <2>2
<1>10. \A l \in 1..Longer : q[l] = 2 * q[l - 1] + num[l] /\ c[l] = c[l - 1] + num[l]
  <2>1. \A l \in 1..Longer : l \in 0..Longer /\ l - 1 \in 0..Longer
    BY <1>1
  <2> HIDE DEF q, c, num, U, V, W
  <2>2. QED BY <1>2, <1>3, <1>8, <2>1
<1> HIDE DEF q, c, num
<1>11. Tally(q, c, num, Longer)
  BY <1>7, <1>9, <1>10 DEF Tally
<1>12. QED BY <1>11 DEF q, c, num

(* A set of one; a factor that cancels.                                    *)
LEMMA MassOne ==
  ASSUME NEW f, NEW x, f[x] \in Nat
  PROVE  Weighed(f, {x}) /\ Mass(f, {x}) = f[x]
<1>1. Weighed(f, {}) /\ Mass(f, {}) = 0
  BY MassEmpty, FS_EmptySet DEF Weighed
<1>2. Weighed(f, {} \cup {x}) /\ Mass(f, {} \cup {x}) = Mass(f, {}) + f[x]
  BY <1>1, MassGrows
<1>3. {} \cup {x} = {x}
  OBVIOUS
<1>4. QED BY <1>1, <1>2, <1>3

LEMMA Cancel ==
  ASSUME NEW a \in Nat, NEW b \in Nat, NEW k \in Nat, k >= 1, k * a = k * b
  PROVE  a = b
<1>1. CASE a < b
  <2>1. b = a + (b - a) /\ b - a \in Nat /\ b - a >= 1
    BY <1>1
  <2>2. k * b = k * a + k * (b - a)
    BY <2>1
  <2>3. \A x, y \in Nat : x >= 1 /\ y >= 1 => x * y >= 1
    OBVIOUS
  <2>4. k * (b - a) >= 1 /\ k * a \in Nat
    BY <2>1, <2>3
  <2>5. QED BY <2>2, <2>4
<1>2. CASE b < a
  <2>1. a = b + (a - b) /\ a - b \in Nat /\ a - b >= 1
    BY <1>2
  <2>2. k * a = k * b + k * (a - b)
    BY <2>1
  <2>3. \A x, y \in Nat : x >= 1 /\ y >= 1 => x * y >= 1
    OBVIOUS
  <2>4. k * (a - b) >= 1 /\ k * b \in Nat
    BY <2>1, <2>3
  <2>5. QED BY <2>2, <2>4
<1>3. QED BY <1>1, <1>2

(* Sizes as find_huff_sizes gives them, d the one of the reserved symbol.  *)
Complete(size, D, d) ==
  /\ IsFiniteSet(D) /\ Reserved \in D /\ size \in [D -> Nat]
  /\ d = size[Reserved] /\ d <= Longer /\ \A x \in D : size[x] <= d
  /\ \A x \in D \ {Reserved} : size[x] >= 1
  /\ Mass(Weights(Longer, size), D \ {Reserved}) = 2^Longer - 2^(Longer - d)

(* The sizes of find_huff_sizes are such: the reserved symbol, of the      *)
(* longest, is what the others lack to a full code.                        *)
LEMMA SizesComplete ==
  ASSUME NEW counts, Countable(counts, Reserved), Reserved \in DOMAIN counts, counts[Reserved] = 1,
         \A v \in DOMAIN counts : counts[v] >= 1,
         find_huff_sizes(counts)[Reserved] <= Longer
  PROVE  Complete(find_huff_sizes(counts), DOMAIN counts, find_huff_sizes(counts)[Reserved])
<1> DEFINE D == DOMAIN counts
           E == D \ {Reserved}
           size == find_huff_sizes(counts)
           d == size[Reserved]
           k == Cardinality(D)
           n == k + Longer
           W == Weights(Longer, size)
           V == Weights(n, size)
<1>1. IsFiniteSet(D) /\ k \in Nat /\ Longer \in Nat /\ n \in Nat /\ k <= n
  BY CountableFinite, MaxHuffBitsOK DEF Longer
<1>2. size \in [D -> Nat] /\ Mass(V, D) = 2^n
  <2> HIDE DEF size
  <2>1. Cardinality(D) <= n
    BY <1>1
  <2> HIDE DEF n
  <2>2. QED BY <1>1, <2>1, FullCode DEF size
<1>3. \A x \in D : size[x] <= d
  BY ReservedLongest
<1>4. Reserved \in D /\ d \in Nat /\ d <= Longer
  BY <1>2
<1> HIDE DEF size
<1>5. \A x \in D : size[x] \in Nat /\ size[x] <= Longer
  BY <1>1, <1>2, <1>3, <1>4
<1>6. \A x \in D : W[x] = 2^(Longer - size[x]) /\ V[x] = 2^(n - size[x])
  BY <1>2 DEF Weights
<1>7. \A x \in D : W[x] \in Nat /\ W[x] >= 1
  <2>1. \A x \in D : Longer - size[x] \in Nat
    BY <1>1, <1>5
  <2> HIDE DEF W
  <2>2. QED BY <1>6, <2>1, Powers
<1>8. \A x \in D : V[x] = 2^k * W[x]
  <2>1. \A x \in D : Longer - size[x] \in Nat /\ n - size[x] = k + (Longer - size[x])
    BY <1>1, <1>5
  <2> HIDE DEF W, V, k, n
  <2>2. QED BY <1>1, <1>6, <2>1, PowerSum
<1>9. Weighed(W, D)
  BY <1>1, <1>7 DEF Weighed
<1>10. 2^k \in Nat /\ 2^k >= 1 /\ 2^Longer \in Nat /\ 2^n = 2^k * 2^Longer
  BY <1>1, Powers, PowerSum
<1> HIDE DEF W, V, k, n, E, d
<1>11. Mass(V, D) = 2^k * Mass(W, D) /\ Mass(W, D) \in Nat
  BY <1>8, <1>9, <1>10, MassScale, MassFinite
<1>12. Mass(W, D) = 2^Longer
  BY <1>2, <1>10, <1>11, Cancel
<1>13. \A S \in SUBSET D : Weighed(W, S) /\ Mass(W, S) \in Nat
  BY <1>9, MassPart, MassFinite
<1>14. \A x \in D : Mass(W, {x}) = W[x]
  BY <1>7, MassOne
<1>15. ASSUME NEW x \in D, NEW S \in SUBSET D, x \in S
       PROVE  Mass(W, S) = W[x] + Mass(W, S \ {x}) /\ Mass(W, S \ {x}) \in Nat
  <2>1. {x} \in SUBSET S /\ S \ {x} \in SUBSET D
    BY <1>15
  <2>2. Mass(W, S) = Mass(W, {x}) + Mass(W, S \ {x})
    BY <1>13, <2>1, MassPart
  <2>3. QED BY <1>13, <1>14, <2>1, <2>2
<1>16. Mass(W, E) = 2^Longer - 2^(Longer - d)
  <2>1. Mass(W, D) = W[Reserved] + Mass(W, E) /\ Mass(W, E) \in Nat
    BY <1>4, <1>15 DEF E
  <2>2. W[Reserved] = 2^(Longer - d) /\ W[Reserved] \in Nat
    BY <1>4, <1>6, <1>7 DEF d
  <2>3. QED BY <1>10, <1>12, <2>1, <2>2
<1>17. ASSUME NEW x \in E PROVE size[x] >= 1
  <2>1. SUFFICES ASSUME size[x] = 0 PROVE FALSE
    BY <1>5 DEF E
  <2>2. x \in D /\ Reserved \in D \ {x} /\ D \ {x} \in SUBSET D
    BY <1>4 DEF E
  <2>3. W[x] = 2^Longer
    BY <1>1, <1>6, <2>1, <2>2
  <2>4. Mass(W, D) = W[x] + Mass(W, D \ {x}) /\ Mass(W, D \ {x}) \in Nat
    BY <1>15, <2>2
  <2>5. Mass(W, D \ {x}) = W[Reserved] + Mass(W, (D \ {x}) \ {Reserved}) /\ Mass(W, (D \ {x}) \ {Reserved}) \in Nat
    BY <1>4, <1>15, <2>2
  <2>6. W[Reserved] >= 1 /\ W[Reserved] \in Nat
    BY <1>4, <1>7
  <2>7. QED BY <1>10, <1>12, <2>3, <2>4, <2>5, <2>6
<1>18. Complete(size, D, d)
  BY <1>1, <1>2, <1>3, <1>4, <1>16, <1>17 DEF Complete, W, E, d
<1>19. QED BY <1>18 DEF size, d

(* Where the numbers of codes can be shortened from: up to size l the code *)
(* is full, or lacks the reserved code; of other codes there are K.        *)
Room(bits, d, l, q, c, K) ==
  /\ Tally(q, c, bits, l)
  /\ \/ l < d /\ q[l] = 2^l /\ c[l] = K + 1
     \/ l >= d /\ q[l] = 2^l - 2^(l - d) /\ c[l] = K /\ \A i \in (d + 1)..l : bits[i] = 0

Ready(bits, d, l, K) ==
  /\ K \in 0..255
  /\ bits \in [1..Longer -> Int] /\ \A i \in 1..l : bits[i] >= 0
  /\ \E q, c : Room(bits, d, l, q, c, K)

(* What find_num_huff_sizes counts is ready for sort_huffbits.             *)
LEMMA FirstReady ==
  ASSUME NEW size, NEW D, NEW d, Complete(size, D, d),
         NEW K, K = Cardinality(D \ {Reserved}), K <= 255
  PROVE  /\ Ready(find_num_huff_sizes(size), d, Longer, K)
         /\ Room(find_num_huff_sizes(size), d, Longer, CodesOf(size, Longer), CountOf(size, Longer), K)
<1> DEFINE E == D \ {Reserved}
           q == CodesOf(size, Longer)
           c == CountOf(size, Longer)
           num == find_num_huff_sizes(size)
<1>1. Longer \in Nat /\ d \in Nat /\ d <= Longer /\ IsFiniteSet(D) /\ size \in [D -> Nat]
  BY MaxHuffBitsOK DEF Longer, Complete
<1>2. Tally(q, c, num, Longer)
  BY <1>1, TallyOf DEF Complete
<1>3. q[Longer] = 2^Longer - 2^(Longer - d) /\ c[Longer] = K
  <2>1. Upto(size, Longer) = E
    BY <1>1 DEF Upto, Sizes, Complete
  <2>2. q[Longer] = Mass(Weights(Longer, size), E) /\ c[Longer] = Cardinality(E)
    BY <1>1, <2>1 DEF CodesOf, CountOf
  <2>3. QED BY <2>2 DEF Complete
<1>4. num = [l \in 1..Longer |-> Cardinality({x \in E : size[x] = l})]
  BY <1>1, Stricted DEF find_num_huff_sizes, Longer
<1>5. \A l \in 1..Longer : num[l] \in Nat
  <2>1. \A l \in 1..Longer : num[l] = Cardinality({x \in E : size[x] = l})
    BY <1>4
  <2>2. \A l \in 1..Longer : {x \in E : size[x] = l} \in SUBSET D
    OBVIOUS
  <2> HIDE DEF num, E
  <2>3. ASSUME NEW l \in 1..Longer PROVE num[l] \in Nat
    <3>1. IsFiniteSet({x \in E : size[x] = l})
      BY <1>1, <2>2, FS_Subset
    <3>2. QED BY <2>1, <3>1, FS_CardinalityType
  <2>4. QED BY <2>3
<1>6. \A i \in (d + 1)..Longer : num[i] = 0
  <2>1. ASSUME NEW i \in (d + 1)..Longer PROVE num[i] = 0
    <3>1. i \in 1..Longer
      BY <1>1
    <3>2. {x \in E : size[x] = i} = {}
      BY <1>1 DEF Complete
    <3>3. num[i] = Cardinality({x \in E : size[x] = i})
      BY <1>4, <3>1
    <3> HIDE DEF num, E
    <3>4. QED BY <3>2, <3>3, FS_EmptySet
  <2>2. QED BY <2>1
<1>7. num \in [1..Longer -> Int]
  BY <1>4, <1>5
<1> HIDE DEF num, q, c
<1>8. Room(num, d, Longer, q, c, K)
  BY <1>1, <1>2, <1>3, <1>6 DEF Room
<1>9. K \in 0..255
  <2>1. IsFiniteSet(E)
    BY <1>1, FS_Subset
  <2>2. Cardinality(E) \in Nat
    BY <2>1, FS_CardinalityType
  <2>3. QED BY <2>2
<1>10. Ready(num, d, Longer, K)
  <2>1. \A i \in 1..Longer : num[i] >= 0
    BY <1>5
  <2>2. QED BY <1>7, <1>8, <1>9, <2>1, Zenon DEF Ready
<1>11. QED BY <1>8, <1>10 DEF num, q, c

(* Longest finds a size that has codes; a tally of no codes is zero.       *)
LEMMA LongestIs ==
  ASSUME NEW bits, NEW n \in Nat, NEW i \in 1..n, bits[i] # 0
  PROVE  Longest(bits, n) \in 1..n /\ bits[Longest(bits, n)] # 0
<1> DEFINE S == {j \in 1..n : bits[j] # 0}
           m == Max(S)
<1>1. S \in SUBSET (0..n) /\ S # {}
  OBVIOUS
<1> HIDE DEF S
<1>2. m \in S /\ \A j \in S : j <= m
  BY <1>1, Greatest
<1> HIDE DEF m
<1>3. m \in 1..n /\ bits[m] # 0
  BY <1>2 DEF S
<1>4. \A k \in (m + 1)..n : bits[k] = 0
  <2>1. ASSUME NEW k \in (m + 1)..n, bits[k] # 0 PROVE FALSE
    <3>1. k \in S
      BY <1>3, <2>1 DEF S
    <3>2. k <= m
      BY <1>2, <3>1
    <3>3. QED BY <1>3, <3>2
  <2>2. QED BY <2>1
<1>5. \E j \in 1..n : bits[j] # 0 /\ \A k \in (j + 1)..n : bits[k] = 0
  BY <1>3, <1>4
<1>6. QED BY <1>5 DEF Longest

LEMMA Zeros ==
  ASSUME NEW n \in Nat, NEW q, NEW c, NEW bits, Tally(q, c, bits, n), NEW k \in 0..n,
         \A i \in 1..k : bits[i] = 0
  PROVE  q[k] = 0 /\ c[k] = 0
<1> DEFINE S == {i \in Nat : i <= k => q[i] = 0 /\ c[i] = 0}
<1>1. 0 \in S
  BY DEF Tally
<1>2. ASSUME NEW i \in S PROVE i + 1 \in S
  <2>1. SUFFICES ASSUME i + 1 <= k PROVE q[i + 1] = 0 /\ c[i + 1] = 0
    OBVIOUS
  <2>2. i \in Nat /\ q[i] = 0 /\ c[i] = 0 /\ i + 1 \in 1..k /\ i + 1 \in 1..n /\ (i + 1) - 1 = i
    BY <2>1
  <2>3. q[i + 1] = 2 * q[i] + bits[i + 1] /\ c[i + 1] = c[i] + bits[i + 1]
    BY <2>2 DEF Tally
  <2>4. QED BY <2>2, <2>3
<1>3. S \in SUBSET Nat
  OBVIOUS
<1> HIDE DEF S
<1>4. S = Nat
  BY <1>1, <1>2, <1>3, SetInduction
<1>5. QED BY <1>4 DEF S

(* What has to hold while pairs of codes of size l are shortened.          *)
Pairing(bits, l, total, sum) ==
  /\ bits \in [1..Longer -> Int] /\ \A i \in 1..(l - 1) : bits[i] >= 0
  /\ \E q, c : Tally(q, c, bits, l) /\ q[l] = total /\ c[l] = sum

(* A pair of codes of size l becomes one of size l - 1 and two of a size   *)
(* between: the codes take up as many numbers as before.                   *)
LEMMA PairStep ==
  ASSUME NEW l \in (MaxHuffBits + 1)..Longer, NEW total \in Int, NEW sum \in Int,
         total >= 511, 2 * sum <= total,
         NEW bits, Pairing(bits, l, total, sum), bits[l] >= 1
  PROVE  Pairing(ShortenPair(bits, l), l, total, sum) /\ ShortenPair(bits, l)[l] = bits[l] - 2
<1> DEFINE j == Longest(bits, l - 2)
           t == ShortenPair(bits, l)
<1>1. l \in Nat /\ l >= 9 /\ l - 2 \in Nat /\ l - 1 \in Nat /\ l \in 1..Longer /\ l - 1 \in 1..Longer
      /\ Longer \in Nat
  BY MaxHuffBitsOK DEF Longer
<1>2. PICK q, c : Tally(q, c, bits, l) /\ q[l] = total /\ c[l] = sum
  BY DEF Pairing
<1>3. bits \in [1..Longer -> Int] /\ \A i \in 1..(l - 1) : bits[i] >= 0
  BY DEF Pairing
<1>4. j \in 1..(l - 2) /\ bits[j] # 0
  <2>1. \E i \in 1..(l - 2) : bits[i] # 0
    <3>1. SUFFICES ASSUME \A i \in 1..(l - 2) : bits[i] = 0 PROVE FALSE
      OBVIOUS
    <3>2. l - 2 \in 0..l
      BY <1>1
    <3>3. q[l - 2] = 0 /\ c[l - 2] = 0
      BY <1>1, <1>2, <3>1, <3>2, Zeros
    <3>4. l - 1 \in 1..l /\ l \in 1..l /\ (l - 1) - 1 = l - 2
      BY <1>1
    <3>5. /\ q[l - 1] = 2 * q[l - 2] + bits[l - 1] /\ c[l - 1] = c[l - 2] + bits[l - 1]
          /\ q[l] = 2 * q[l - 1] + bits[l] /\ c[l] = c[l - 1] + bits[l]
      BY <1>2, <3>4 DEF Tally
    <3>6. bits[l] \in Int /\ bits[l - 1] \in Int
      BY <1>1, <1>3
    <3>7. QED BY <1>2, <3>3, <3>5, <3>6
  <2>2. PICK i \in 1..(l - 2) : bits[i] # 0
    BY <2>1
  <2>3. QED BY <1>1, <2>2, LongestIs
<1> HIDE DEF j
<1>5. j \in Nat /\ j >= 1 /\ j <= l - 2 /\ j \in 1..Longer /\ j + 1 \in 1..Longer /\ bits[j] >= 1
  BY <1>1, <1>3, <1>4
<1>6. /\ t \in [1..Longer -> Int]
      /\ \A i \in 1..Longer : t[i] = bits[i] - (IF i = l THEN 2 ELSE 0) + (IF i = l - 1 THEN 1 ELSE 0)
           + (IF i = j + 1 THEN 2 ELSE 0) - (IF i = j THEN 1 ELSE 0)
  <2> DEFINE up == [bits EXCEPT ![l] = @ - 2, ![l - 1] = @ + 1]
             up2 == [up EXCEPT ![j + 1] = @ + 2]
  <2>1. t = [up2 EXCEPT ![j] = @ - 1]
    BY DEF ShortenPair, j
  <2>2. /\ up \in [1..Longer -> Int]
        /\ \A i \in 1..Longer : up[i] = bits[i] - (IF i = l THEN 2 ELSE 0) + (IF i = l - 1 THEN 1 ELSE 0)
    BY <1>1, <1>3
  <2> HIDE DEF up
  <2>3. up2 \in [1..Longer -> Int] /\ \A i \in 1..Longer : up2[i] = up[i] + (IF i = j + 1 THEN 2 ELSE 0)
    BY <1>5, <2>2
  <2> HIDE DEF up2
  <2>4. t \in [1..Longer -> Int] /\ \A i \in 1..Longer : t[i] = up2[i] - (IF i = j THEN 1 ELSE 0)
    BY <1>5, <2>1, <2>3
  <2> HIDE DEF t
  <2>5. QED BY <1>3, <2>2, <2>3, <2>4
<1> HIDE DEF t
<1>7. \A i \in 1..(l - 1) : t[i] >= 0
  <2>1. ASSUME NEW i \in 1..(l - 1) PROVE t[i] >= 0
    <3>1. i \in 1..Longer /\ bits[i] \in Int /\ bits[i] >= 0 /\ i # l
      BY <1>1, <1>3
    <3>2. QED BY <1>5, <1>6, <3>1
  <2>2. QED BY <2>1
<1>8. t[l] = bits[l] - 2
  BY <1>1, <1>3, <1>5, <1>6
<1> DEFINE p == [i \in 0..l |-> IF i = j THEN q[i] - 1 ELSE IF i = l - 1 THEN q[i] + 1 ELSE q[i]]
           e == [i \in 0..l |-> IF i < j \/ i = l THEN c[i] ELSE IF i = j THEN c[i] - 1
                                ELSE IF i = l - 1 THEN c[i] + 2 ELSE c[i] + 1]
<1>9. \A i \in 0..l : q[i] \in Int /\ c[i] \in Int
  BY <1>2 DEF Tally
<1>10. \A i \in 0..l : p[i] \in Int /\ e[i] \in Int
  BY <1>9
<1>11. p[0] = 0 /\ e[0] = 0 /\ p[l] = total /\ e[l] = sum
  <2>1. q[0] = 0 /\ c[0] = 0
    BY <1>2 DEF Tally
  <2>2. 0 \in 0..l /\ l \in 0..l /\ j # l /\ j # 0 /\ 0 # l - 1 /\ l # l - 1 /\ 0 < j
    BY <1>1, <1>5
  <2>3. QED BY <1>2, <2>1, <2>2
<1>12. ASSUME NEW i \in 1..l PROVE p[i] = 2 * p[i - 1] + t[i] /\ e[i] = e[i - 1] + t[i]
  <2>1. i \in 0..l /\ i - 1 \in 0..l /\ i \in 1..Longer /\ i \in Nat
    BY <1>1
  <2>2. q[i] = 2 * q[i - 1] + bits[i] /\ c[i] = c[i - 1] + bits[i]
    BY <1>2 DEF Tally
  <2>3. q[i] \in Int /\ c[i] \in Int /\ q[i - 1] \in Int /\ c[i - 1] \in Int /\ bits[i] \in Int
    BY <1>3, <1>9, <2>1
  <2>4. t[i] = bits[i] - (IF i = l THEN 2 ELSE 0) + (IF i = l - 1 THEN 1 ELSE 0)
           + (IF i = j + 1 THEN 2 ELSE 0) - (IF i = j THEN 1 ELSE 0)
    BY <1>6, <2>1
  <2>5. /\ p[i] = IF i = j THEN q[i] - 1 ELSE IF i = l - 1 THEN q[i] + 1 ELSE q[i]
        /\ p[i - 1] = IF i - 1 = j THEN q[i - 1] - 1 ELSE IF i - 1 = l - 1 THEN q[i - 1] + 1 ELSE q[i - 1]
    BY <2>1
  <2>6. /\ e[i] = IF i < j \/ i = l THEN c[i] ELSE IF i = j THEN c[i] - 1
                                ELSE IF i = l - 1 THEN c[i] + 2 ELSE c[i] + 1
        /\ e[i - 1] = IF i - 1 < j \/ i - 1 = l THEN c[i - 1] ELSE IF i - 1 = j THEN c[i - 1] - 1
                                ELSE IF i - 1 = l - 1 THEN c[i - 1] + 2 ELSE c[i - 1] + 1
    BY <2>1
  <2> HIDE DEF p, e
  <2>7. p[i] = 2 * p[i - 1] + t[i]
    BY <1>1, <1>5, <2>1, <2>2, <2>3, <2>4, <2>5
  <2>8. e[i] = e[i - 1] + t[i]
    BY <1>1, <1>5, <2>1, <2>2, <2>3, <2>4, <2>6
  <2>9. QED BY <2>7, <2>8
<1> HIDE DEF p, e
<1>13. Tally(p, e, t, l)
  BY <1>10, <1>11, <1>12 DEF Tally
<1>14. Pairing(t, l, total, sum)
  BY <1>6, <1>7, <1>11, <1>13 DEF Pairing
<1>15. QED BY <1>8, <1>14 DEF t

Paired(bits, l, n) == FoldLeft(ShortenPair, bits, [i \in 1..n |-> l])

(* So it is for all the pairs of that size.                                *)
LEMMA Pairs ==
  ASSUME NEW l \in (MaxHuffBits + 1)..Longer, NEW total \in Int, NEW sum \in Int,
         total >= 511, 2 * sum <= total,
         NEW bits, Pairing(bits, l, total, sum), bits[l] \in Nat,
         NEW n \in Nat, n = (bits[l] + 1) \div 2
  PROVE  Pairing(Paired(bits, l, n), l, total, sum) /\ Paired(bits, l, n)[l] = bits[l] - 2 * n
<1> DEFINE s == [i \in 1..n |-> l]
           b == bits[l]
<1>1. 2 * n <= b + 1
  OBVIOUS
<1>2. PICK at : /\ at[0] = bits
                /\ \A k \in 0..(n - 1) : at[k + 1] = ShortenPair(at[k], s[k + 1])
                /\ at[n] = FoldLeft(ShortenPair, bits, s)
  <2>1. DOMAIN s = 1..n
    OBVIOUS
  <2> HIDE DEF s
  <2>2. QED BY <2>1, PairSteps
<1>3. \A k \in 0..(n - 1) : s[k + 1] = l
  OBVIOUS
<1> HIDE DEF s, b
<1> DEFINE S == {k \in Nat : k <= n => Pairing(at[k], l, total, sum) /\ at[k][l] = b - 2 * k}
<1>4. b \in Nat
  BY DEF b
<1>5. 0 \in S
  BY <1>2, <1>4 DEF b
<1>6. ASSUME NEW k \in S PROVE k + 1 \in S
  <2>1. SUFFICES ASSUME k + 1 <= n
                 PROVE Pairing(at[k + 1], l, total, sum) /\ at[k + 1][l] = b - 2 * (k + 1)
    OBVIOUS
  <2>2. k \in Nat /\ k \in 0..(n - 1) /\ Pairing(at[k], l, total, sum) /\ at[k][l] = b - 2 * k
    BY <2>1
  <2>3. at[k][l] >= 1
    BY <1>1, <1>4, <2>1, <2>2
  <2>4. at[k + 1] = ShortenPair(at[k], l)
    BY <1>2, <1>3, <2>2
  <2>5. Pairing(ShortenPair(at[k], l), l, total, sum) /\ ShortenPair(at[k], l)[l] = at[k][l] - 2
    BY <2>2, <2>3, PairStep
  <2>6. (b - 2 * k) - 2 = b - 2 * (k + 1)
    BY <1>4, <2>2
  <2>7. QED BY <2>2, <2>4, <2>5, <2>6
<1>7. S \in SUBSET Nat
  OBVIOUS
<1> HIDE DEF S
<1>8. S = Nat
  BY <1>5, <1>6, <1>7, SetInduction
<1>9. Pairing(at[n], l, total, sum) /\ at[n][l] = b - 2 * n
  BY <1>8 DEF S
<1>10. at[n] = Paired(bits, l, n)
  BY <1>2 DEF s, Paired
<1>11. QED BY <1>9, <1>10 DEF b

(* Without codes of size l, what is left is ready at size l - 1: an odd    *)
(* code out is the reserved one.                                           *)
LEMMA ShortenStep ==
  ASSUME NEW l \in (MaxHuffBits + 1)..Longer, NEW d \in Nat, NEW bits, NEW K, Ready(bits, d, l, K)
  PROVE  Ready(Shorten(bits, l), d, l - 1, K)
<1> DEFINE n == (bits[l] + 1) \div 2
           t == Paired(bits, l, n)
           r == [t EXCEPT ![l] = 0]
<1>1. l \in Nat /\ l >= 9 /\ l - 1 \in Nat /\ l \in 1..Longer /\ l \in 1..l /\ l \in 0..l
      /\ l - 1 \in 0..l /\ Longer \in Nat
  BY MaxHuffBitsOK DEF Longer
<1>2. PICK q, c : Room(bits, d, l, q, c, K)
  BY DEF Ready
<1>3. bits \in [1..Longer -> Int] /\ (\A i \in 1..l : bits[i] >= 0) /\ K \in 0..255
  BY DEF Ready
<1>4. bits[l] \in Nat /\ n \in Nat
  BY <1>1, <1>3
<1>5. Shorten(bits, l) = r
  BY DEF Shorten, Paired
<1>6. 2^l = 2 * 2^(l - 1) /\ 2^(l - 1) \in Nat /\ 2^l >= 512
  <2>1. l = (l - 1) + 1
    BY <1>1
  <2>2. 2^9 <= 2^l
    BY <1>1, PowerGrows
  <2>3. QED BY <1>1, <2>1, <2>2, Powers, SmallPowers
<1>7. /\ q[l] = 2 * q[l - 1] + bits[l] /\ c[l] = c[l - 1] + bits[l]
      /\ q[l] \in Int /\ c[l] \in Int /\ q[l - 1] \in Int /\ c[l - 1] \in Int
  BY <1>1, <1>2 DEF Room, Tally
<1> HIDE DEF n
<1>8. ASSUME NEW u, NEW p, NEW e, u \in [1..Longer -> Int], \A i \in 1..(l - 1) : u[i] >= 0,
             Tally(p, e, u, l),
             \/ l - 1 < d /\ p[l - 1] = 2^(l - 1) /\ e[l - 1] = K + 1
             \/ /\ l - 1 >= d /\ p[l - 1] = 2^(l - 1) - 2^(l - 1 - d) /\ e[l - 1] = K
                /\ \A i \in (d + 1)..(l - 1) : u[i] = 0
      PROVE  Ready([u EXCEPT ![l] = 0], d, l - 1, K)
  <2> DEFINE v == [u EXCEPT ![l] = 0]
  <2>1. v \in [1..Longer -> Int] /\ \A i \in 1..(l - 1) : v[i] = u[i]
    BY <1>1, <1>8
  <2> HIDE DEF v
  <2>2. Tally(p, e, v, l - 1)
    <3>1. \A i \in 0..(l - 1) : i \in 0..l
      BY <1>1
    <3>2. \A i \in 1..(l - 1) : i \in 1..l
      BY <1>1
    <3>3. QED BY <1>8, <2>1, <3>1, <3>2 DEF Tally
  <2>3. \A i \in (d + 1)..(l - 1) : i \in 1..(l - 1)
    BY <1>1
  <2>4. Room(v, d, l - 1, p, e, K)
    BY <1>8, <2>1, <2>2, <2>3 DEF Room
  <2>5. \A i \in 1..(l - 1) : v[i] >= 0
    BY <1>8, <2>1
  <2>6. Ready(v, d, l - 1, K)
    BY <1>3, <2>1, <2>4, <2>5 DEF Ready
  <2>7. QED BY <2>6 DEF v
<1>9. CASE l > d
  <2>1. bits[l] = 0 /\ q[l] = 2^l - 2^(l - d) /\ c[l] = K /\ \A i \in (d + 1)..l : bits[i] = 0
    BY <1>1, <1>2, <1>9 DEF Room
  <2>2. n = 0
    BY <2>1 DEF n
  <2>3. t = bits
    <3> DEFINE s == [i \in 1..n |-> l]
    <3>1. DOMAIN s = 1..n
      OBVIOUS
    <3> HIDE DEF s
    <3>2. PICK at : /\ at[0] = bits
                    /\ \A k \in 0..(n - 1) : at[k + 1] = ShortenPair(at[k], s[k + 1])
                    /\ at[n] = FoldLeft(ShortenPair, bits, s)
      BY <1>4, <3>1, PairSteps
    <3>3. QED BY <2>2, <3>2 DEF s, Paired
  <2>4. 2^(l - d) = 2 * 2^(l - 1 - d) /\ 2^(l - 1 - d) \in Nat
    <3>1. l - 1 - d \in Nat /\ l - d = (l - 1 - d) + 1
      BY <1>1, <1>9
    <3>2. QED BY <3>1, Powers
  <2>5. l - 1 >= d /\ q[l - 1] = 2^(l - 1) - 2^(l - 1 - d) /\ c[l - 1] = K
    BY <1>1, <1>6, <1>7, <1>9, <2>1, <2>4
  <2>6. Tally(q, c, bits, l)
    BY <1>2 DEF Room
  <2>7. \A i \in 1..(l - 1) : bits[i] >= 0
    BY <1>1, <1>3
  <2>8. \A i \in (d + 1)..(l - 1) : bits[i] = 0
    BY <1>1, <2>1
  <2>9. Ready([bits EXCEPT ![l] = 0], d, l - 1, K)
    BY <1>3, <1>8, <2>5, <2>6, <2>7, <2>8
  <2>10. QED BY <1>5, <2>3, <2>9
<1>10. CASE l <= d
  <2>1. \/ q[l] = 2^l /\ c[l] = K + 1
        \/ l = d /\ q[l] = 2^l - 1 /\ c[l] = K
    <3>1. l = d => 2^(l - d) = 1
      <4>1. l = d => l - d = 0
        BY <1>1
      <4>2. QED BY <4>1, Powers
    <3>2. QED BY <1>1, <1>2, <1>10, <3>1 DEF Room
  <2>2. q[l] >= 511 /\ 2 * c[l] <= q[l]
    <3>1. K \in Int /\ K <= 255
      BY <1>3
    <3>2. c[l] <= 256 /\ (c[l] = 256 => q[l] = 2^l) /\ q[l] >= 2^l - 1
      BY <1>6, <2>1, <3>1
    <3>3. q[l] >= 511 /\ (c[l] = 256 => q[l] >= 512)
      BY <1>6, <1>7, <3>2
    <3>4. QED BY <1>7, <3>2, <3>3
  <2>3. Pairing(bits, l, q[l], c[l])
    <3>1. Tally(q, c, bits, l)
      BY <1>2 DEF Room
    <3>2. \A i \in 1..(l - 1) : bits[i] >= 0
      BY <1>1, <1>3
    <3>3. QED BY <1>3, <3>1, <3>2 DEF Pairing
  <2>4. Pairing(t, l, q[l], c[l]) /\ t[l] = bits[l] - 2 * n
    <3>1. n = (bits[l] + 1) \div 2
      BY DEF n
    <3>2. /\ bits[l] \in Nat /\ n \in Nat /\ q[l] \in Int /\ c[l] \in Int
          /\ q[l] >= 511 /\ 2 * c[l] <= q[l]
      BY <1>4, <1>7, <2>2
    <3> HIDE DEF n
    <3>3. QED BY <2>3, <3>1, <3>2, Pairs
  <2> HIDE DEF t
  <2>5. PICK p, e : Tally(p, e, t, l) /\ p[l] = q[l] /\ e[l] = c[l]
    BY <2>4 DEF Pairing
  <2>6. /\ p[l] = 2 * p[l - 1] + t[l] /\ e[l] = e[l - 1] + t[l]
        /\ p[l - 1] \in Int /\ e[l - 1] \in Int
    BY <1>1, <2>5 DEF Tally
  <2>7. p[l - 1] = 2^(l - 1) /\ e[l - 1] = K + 1
    <3>1. \/ t[l] = 0 /\ bits[l] = 2 * n
          \/ t[l] = -1 /\ bits[l] = 2 * n - 1
      BY <1>4, <2>4 DEF n
    <3> HIDE DEF n
    <3>2. t[l] \in Int /\ bits[l] \in Int
      BY <1>4, <3>1
    <3>3. (q[l] = 2 * 2^(l - 1) /\ c[l] = K + 1) \/ (q[l] = 2 * 2^(l - 1) - 1 /\ c[l] = K)
      BY <1>6, <2>1
    <3>4. q[l] = 2 * q[l - 1] + bits[l] /\ q[l] = 2 * p[l - 1] + t[l] /\ 2^(l - 1) \in Nat
      BY <1>6, <1>7, <2>5, <2>6
    <3>5. p[l - 1] = 2^(l - 1) /\ c[l] - t[l] = K + 1
      <4>1. p[l - 1] \in Int /\ q[l - 1] \in Int /\ c[l] \in Int /\ n \in Int
        BY <1>4, <1>7, <2>6
      <4>2. CASE t[l] = 0 /\ bits[l] = 2 * n
        <5>1. q[l] = 2 * 2^(l - 1) /\ c[l] = K + 1
          BY <3>3, <3>4, <4>1, <4>2
        <5>2. 2 * p[l - 1] = 2 * 2^(l - 1) /\ 2^(l - 1) \in Nat
          BY <3>4, <4>1, <4>2, <5>1
        <5>3. p[l - 1] = 2^(l - 1)
          BY <4>1, <5>2
        <5>4. c[l] - t[l] = K + 1
          BY <4>1, <4>2, <5>1
        <5>5. QED BY <5>3, <5>4
      <4>3. CASE t[l] = -1 /\ bits[l] = 2 * n - 1
        <5>1. q[l] = 2 * 2^(l - 1) - 1 /\ c[l] = K
          BY <3>3, <3>4, <4>1, <4>3
        <5>2. QED BY <3>4, <4>1, <4>3, <5>1
      <4>4. QED BY <3>1, <4>2, <4>3
    <3>6. e[l - 1] = c[l] - t[l]
      BY <1>7, <2>5, <2>6, <3>2
    <3>7. QED BY <3>5, <3>6
  <2>8. l - 1 < d
    BY <1>1, <1>10
  <2>9. t \in [1..Longer -> Int] /\ \A i \in 1..(l - 1) : t[i] >= 0
    BY <2>4 DEF Pairing
  <2>10. Ready([t EXCEPT ![l] = 0], d, l - 1, K)
    BY <1>8, <2>5, <2>7, <2>8, <2>9
  <2>11. QED BY <1>5, <2>10
<1>11. QED BY <1>1, <1>9, <1>10

(* A code in which room is left has room left at every size.               *)
LEMMA BelowAll ==
  ASSUME NEW n \in Nat, NEW q, NEW c, NEW bits, Tally(q, c, bits, n),
         \A i \in 1..n : bits[i] \in Int /\ bits[i] >= 0, q[n] < 2^n
  PROVE  \A l \in 0..n : q[l] < 2^l
<1> DEFINE S == {i \in Nat : i <= n => q[n - i] < 2^(n - i)}
<1>1. 0 \in S
  OBVIOUS
<1>2. ASSUME NEW i \in S PROVE i + 1 \in S
  <2>1. SUFFICES ASSUME i + 1 <= n PROVE q[n - (i + 1)] < 2^(n - (i + 1))
    OBVIOUS
  <2> DEFINE l == n - i
  <2>2. i \in Nat /\ l \in 1..n /\ l - 1 \in Nat /\ l = (l - 1) + 1 /\ n - (i + 1) = l - 1
        /\ l \in 0..n /\ l - 1 \in 0..n /\ q[l] < 2^l
    BY <2>1
  <2> HIDE DEF l
  <2>3. q[l] = 2 * q[l - 1] + bits[l] /\ q[l] \in Int /\ q[l - 1] \in Int
    BY <2>2 DEF Tally
  <2>4. bits[l] \in Int /\ bits[l] >= 0
    BY <2>2
  <2>5. 2^l = 2 * 2^(l - 1) /\ 2^(l - 1) \in Nat
    BY <2>2, Powers
  <2>6. q[l - 1] < 2^(l - 1)
    BY <2>2, <2>3, <2>4, <2>5
  <2>7. QED BY <2>2, <2>6
<1>3. S \in SUBSET Nat
  OBVIOUS
<1> HIDE DEF S
<1>4. S = Nat
  BY <1>1, <1>2, <1>3, SetInduction
<1>5. ASSUME NEW l \in 0..n PROVE q[l] < 2^l
  <2>1. n - l \in Nat /\ n - l <= n /\ n - (n - l) = l
    OBVIOUS
  <2>2. QED BY <1>4, <2>1 DEF S
<1>6. QED BY <1>5

(* A code of at most MaxHuffBits bits in which there is room at each size; *)
(* one of K such codes.                                                    *)
Roomy(bits, q, c) ==
  /\ Tally(q, c, bits, MaxHuffBits)
  /\ \A l \in 0..MaxHuffBits : q[l] < 2^l
Prefixed(bits, K) ==
  /\ bits \in [1..Longer -> Int] /\ \A i \in 1..MaxHuffBits : bits[i] >= 0
  /\ \E q, c : Roomy(bits, q, c) /\ c[MaxHuffBits] = K

(* All sizes above MaxHuffBits in turn; then the reserved code goes, which *)
(* leaves room at every size, and so it does when nothing is too long.     *)
LEMMA AllShortened ==
  ASSUME NEW d \in Nat, NEW bits, NEW K, Ready(bits, d, Longer, K)
  PROVE  Ready(FoldLeft(Shorten, bits, [i \in 1..MaxHuffBits |-> Longer + 1 - i]), d, MaxHuffBits, K)
<1> DEFINE s == [i \in 1..MaxHuffBits |-> Longer + 1 - i]
<1>1. MaxHuffBits \in Nat /\ Longer = 2 * MaxHuffBits
  BY MaxHuffBitsOK DEF Longer
<1>2. PICK at : /\ at[0] = bits
                /\ \A k \in 0..(MaxHuffBits - 1) : at[k + 1] = Shorten(at[k], s[k + 1])
                /\ at[MaxHuffBits] = FoldLeft(Shorten, bits, s)
  <2>1. DOMAIN s = 1..MaxHuffBits
    OBVIOUS
  <2> HIDE DEF s
  <2>2. QED BY <1>1, <2>1, ShortenSteps
<1>3. \A k \in 0..(MaxHuffBits - 1) : s[k + 1] = Longer - k
  BY <1>1
<1> DEFINE S == {k \in Nat : k <= MaxHuffBits => Ready(at[k], d, Longer - k, K)}
<1>4. 0 \in S
  BY <1>1, <1>2
<1>5. ASSUME NEW k \in S PROVE k + 1 \in S
  <2>1. SUFFICES ASSUME k + 1 <= MaxHuffBits PROVE Ready(at[k + 1], d, Longer - (k + 1), K)
    OBVIOUS
  <2>2. /\ k \in Nat /\ k \in 0..(MaxHuffBits - 1) /\ Ready(at[k], d, Longer - k, K)
        /\ Longer - k \in (MaxHuffBits + 1)..Longer /\ Longer - (k + 1) = (Longer - k) - 1
    BY <1>1, <2>1
  <2>3. at[k + 1] = Shorten(at[k], Longer - k)
    BY <1>2, <1>3, <2>2
  <2>4. Ready(Shorten(at[k], Longer - k), d, (Longer - k) - 1, K)
    BY <2>2, ShortenStep
  <2>5. QED BY <2>2, <2>3, <2>4
<1>6. S \in SUBSET Nat
  OBVIOUS
<1> HIDE DEF S
<1>7. S = Nat
  BY <1>4, <1>5, <1>6, SetInduction
<1>8. Ready(at[MaxHuffBits], d, Longer - MaxHuffBits, K) /\ Longer - MaxHuffBits = MaxHuffBits
  BY <1>1, <1>7 DEF S
<1>9. QED BY <1>2, <1>8

(* What sort_huffbits takes off the end is the reserved code.              *)
LEMMA ReservedOff ==
  ASSUME NEW d \in Nat, d > MaxHuffBits, NEW bits, NEW K, Ready(bits, d, MaxHuffBits, K)
  PROVE  Prefixed([bits EXCEPT ![Longest(bits, MaxHuffBits)] = @ - 1], K)
<1> DEFINE n == MaxHuffBits
           j == Longest(bits, n)
           t == [bits EXCEPT ![j] = @ - 1]
<1>1. n \in Nat /\ n >= 8 /\ Longer = 2 * n
  BY MaxHuffBitsOK DEF Longer
<1>2. PICK q, c : Room(bits, d, n, q, c, K)
  BY DEF Ready
<1>3. Tally(q, c, bits, n) /\ q[n] = 2^n /\ c[n] = K + 1
  BY <1>1, <1>2 DEF Room
<1>4. bits \in [1..Longer -> Int] /\ (\A i \in 1..n : bits[i] >= 0) /\ K \in 0..255
  BY DEF Ready
<1>5. \A i \in Nat : 2^i \in Nat /\ 2^i >= 1 /\ 2^(i + 1) = 2 * 2^i
  BY Powers
<1>6. j \in 1..n /\ bits[j] # 0
  <2>1. \E i \in 1..n : bits[i] # 0
    <3>1. SUFFICES ASSUME \A i \in 1..n : bits[i] = 0 PROVE FALSE
      OBVIOUS
    <3>2. n \in 0..n
      BY <1>1
    <3>3. q[n] = 0
      <4> HIDE DEF n
      <4>1. QED BY <1>1, <1>3, <3>1, <3>2, Zeros
    <3>4. QED BY <1>1, <1>3, <1>5, <3>3
  <2>2. PICK i \in 1..n : bits[i] # 0
    BY <2>1
  <2> HIDE DEF n
  <2>3. QED BY <1>1, <2>2, LongestIs
<1> HIDE DEF j
<1>7. j \in Nat /\ j >= 1 /\ j <= n /\ j \in 1..Longer /\ bits[j] \in Int /\ bits[j] >= 1
  BY <1>1, <1>4, <1>6
<1>8. \A i \in 1..n : t[i] = (IF i = j THEN bits[i] - 1 ELSE bits[i]) /\ bits[i] \in Int
  BY <1>1, <1>4, <1>7
<1> DEFINE keeps == t \in [1..Longer -> Int]
<1>9. keeps
  BY <1>4, <1>7
<1> HIDE DEF t
<1> DEFINE p == [i \in 0..n |-> IF i < j THEN q[i] ELSE q[i] - 2^(i - j)]
           e == [i \in 0..n |-> IF i < j THEN c[i] ELSE c[i] - 1]
<1>10. \A i \in 0..n : q[i] \in Int /\ c[i] \in Int
  BY <1>3 DEF Tally
<1>11. \A i \in 0..n : p[i] \in Int /\ e[i] \in Int
  <2>1. \A i \in 0..n : ~(i < j) => i - j \in Nat
    BY <1>1, <1>7
  <2>2. \A i \in 0..n : ~(i < j) => 2^(i - j) \in Int
    BY <1>5, <2>1
  <2>3. QED BY <1>10, <2>2
<1>12. p[0] = 0 /\ e[0] = 0
  <2>1. 0 \in 0..n /\ 0 < j
    BY <1>1, <1>7
  <2>2. QED BY <1>3, <2>1 DEF Tally
<1>13. ASSUME NEW i \in 1..n PROVE p[i] = 2 * p[i - 1] + t[i] /\ e[i] = e[i - 1] + t[i]
  <2>1. i \in 0..n /\ i - 1 \in 0..n /\ i \in Nat
    BY <1>1
  <2>2. q[i] = 2 * q[i - 1] + bits[i] /\ c[i] = c[i - 1] + bits[i]
    BY <1>3 DEF Tally
  <2>3. q[i] \in Int /\ c[i] \in Int /\ q[i - 1] \in Int /\ c[i - 1] \in Int /\ bits[i] \in Int
    BY <1>8, <1>10, <2>1
  <2>4. /\ p[i] = IF i < j THEN q[i] ELSE q[i] - 2^(i - j)
        /\ p[i - 1] = IF i - 1 < j THEN q[i - 1] ELSE q[i - 1] - 2^(i - 1 - j)
        /\ e[i] = IF i < j THEN c[i] ELSE c[i] - 1
        /\ e[i - 1] = IF i - 1 < j THEN c[i - 1] ELSE c[i - 1] - 1
    BY <2>1
  <2>5. t[i] = IF i = j THEN bits[i] - 1 ELSE bits[i]
    BY <1>8
  <2> HIDE DEF p, e
  <2>6. CASE i < j
    BY <1>7, <2>1, <2>2, <2>3, <2>4, <2>5, <2>6
  <2>7. CASE i = j
    <3>1. 2^(i - j) = 1
      <4>1. i - j = 0
        BY <1>7, <2>7
      <4>2. QED BY <4>1, Powers
    <3>2. i - 1 < j
      BY <1>7, <2>7
    <3>3. QED BY <1>7, <2>1, <2>2, <2>3, <2>4, <2>5, <2>7, <3>1, <3>2
  <2>8. CASE i > j
    <3>1. i - 1 - j \in Nat /\ i - j = (i - 1 - j) + 1 /\ ~(i < j) /\ ~(i - 1 < j) /\ i # j
      BY <1>7, <2>1, <2>8
    <3>2. 2^(i - j) = 2 * 2^(i - 1 - j) /\ 2^(i - 1 - j) \in Nat
      BY <1>5, <3>1
    <3>3. QED BY <2>2, <2>3, <2>4, <2>5, <3>1, <3>2
  <2>9. QED BY <1>7, <2>1, <2>6, <2>7, <2>8
<1>14. p[n] < 2^n
  <2>1. n \in 0..n /\ ~(n < j) /\ n - j \in Nat
    BY <1>1, <1>7
  <2>2. p[n] = q[n] - 2^(n - j) /\ 2^(n - j) >= 1 /\ 2^(n - j) \in Nat /\ 2^n \in Nat
    BY <1>1, <1>5, <2>1
  <2>3. QED BY <1>3, <2>2
<1>15. e[n] = K
  <2>1. n \in 0..n /\ ~(n < j)
    BY <1>1, <1>7
  <2>2. QED BY <1>3, <1>4, <2>1
<1> HIDE DEF p, e
<1>16. Tally(p, e, t, n)
  BY <1>11, <1>12, <1>13 DEF Tally
<1>17. \A i \in 1..n : t[i] \in Int /\ t[i] >= 0
  BY <1>4, <1>7, <1>8
<1>18. \A l \in 0..n : p[l] < 2^l
  <2> HIDE DEF n
  <2>1. QED BY <1>1, <1>14, <1>16, <1>17, BelowAll
<1>19. Prefixed(t, K)
  BY <1>16, <1>17, <1>18, <1>9, <1>15 DEF Prefixed, Roomy
<1>20. QED BY <1>19 DEF t, j

LEMMA LimitedPrefixed ==
  ASSUME NEW size, NEW D, NEW d, Complete(size, D, d),
         NEW K, K = Cardinality(D \ {Reserved}), K <= 255
  PROVE  Prefixed(Limited(size), K)
<1> DEFINE num == find_num_huff_sizes(size)
           n == MaxHuffBits
<1>1. n \in Nat /\ Longer = 2 * n /\ n >= 8 /\ d \in Nat /\ size \in [D -> Nat] /\ d <= Longer
  BY MaxHuffBitsOK DEF Longer, Complete
<1>2. Ready(num, d, Longer, K)
  BY FirstReady
<1> HIDE DEF num
<1>3. CASE adjust(size)
  <2>1. d > n
    BY <1>1, <1>3 DEF adjust, Complete
  <2> DEFINE short == FoldLeft(Shorten, num, [i \in 1..n |-> Longer + 1 - i])
  <2>2. Ready(short, d, n, K)
    BY <1>1, <1>2, AllShortened
  <2>3. Limited(size) = [short EXCEPT ![Longest(short, n)] = @ - 1]
    BY <1>3 DEF Limited, sort_huffbits, num, Longer
  <2> HIDE DEF short
  <2>4. QED BY <1>1, <2>1, <2>2, <2>3, ReservedOff
<1>4. CASE ~adjust(size)
  <2>1. Limited(size) = num
    BY <1>4 DEF Limited, num
  <2> DEFINE q == CodesOf(size, Longer)
             c == CountOf(size, Longer)
  <2>2. Room(num, d, Longer, q, c, K)
    BY FirstReady DEF num
  <2>3. c[n] = K
    <3>1. Upto(size, n) = D \ {Reserved}
      BY <1>1, <1>4 DEF Upto, Sizes, adjust
    <3>2. n \in 0..Longer
      BY <1>1
    <3>3. QED BY <3>1, <3>2 DEF CountOf
  <2> HIDE DEF q, c
  <2>4. Tally(q, c, num, Longer) /\ q[Longer] = 2^Longer - 2^(Longer - d)
    BY <1>1, <2>2 DEF Room
  <2>5. q[Longer] < 2^Longer
    <3>1. Longer - d \in Nat /\ Longer \in Nat
      BY <1>1
    <3>2. 2^(Longer - d) \in Nat /\ 2^(Longer - d) >= 1 /\ 2^Longer \in Nat
      BY <3>1, Powers
    <3>3. QED BY <2>4, <3>2
  <2>6. \A i \in 1..Longer : num[i] \in Int /\ num[i] >= 0
    BY <1>2 DEF Ready
  <2>7. \A l \in 0..Longer : q[l] < 2^l
    <3>1. Longer \in Nat
      BY <1>1
    <3>2. QED BY <2>4, <2>5, <2>6, <3>1, BelowAll
  <2>8. (\A l \in 0..n : l \in 0..Longer) /\ \A l \in 1..n : l \in 1..Longer
    BY <1>1
  <2>9. Roomy(num, q, c)
    BY <2>4, <2>7, <2>8 DEF Roomy, Tally
  <2>10. Prefixed(num, K)
    <3>1. num \in [1..Longer -> Int]
      BY <1>2 DEF Ready
    <3>2. QED BY <2>6, <2>8, <2>9, <2>3, <3>1 DEF Prefixed
  <2>11. QED BY <2>1, <2>10
<1>5. QED BY <1>3, <1>4

-----------------------------------------------------------------------------
(* Joined, and what build_huffsizes makes of it.                           *)

(* The sequences of a sequence, joined: c[i] elements are in the first i.  *)
Offsets(c, seqs, n) ==
  /\ c[0] = 0 /\ \A i \in 0..n : c[i] \in Nat
  /\ \A i \in 1..n : c[i] = c[i - 1] + Len(seqs[i])
Piece(c, n, k) == CHOOSE l \in 1..n : c[l - 1] < k /\ k <= c[l]
Nth(c, seqs, n, k) == seqs[Piece(c, n, k)][k - c[Piece(c, n, k) - 1]]
Glued(c, seqs, n, i, j) == [k \in 1..(c[j] - c[i - 1]) |-> Nth(c, seqs, n, k + c[i - 1])]

Sequenced(seqs, n, S) ==
  n \in Nat /\ Len(seqs) = n /\ DOMAIN seqs = 1..n /\ \A i \in 1..n : seqs[i] \in Seq(S)

(* There are such offsets; they rise, and so a place is in one piece only. *)
LEMMA OffsetsExist ==
  ASSUME NEW S, NEW n, NEW seqs, Sequenced(seqs, n, S)
  PROVE  \E c : Offsets(c, seqs, n)
<1> DEFINE Is(m, c) == /\ c[0] = 0 /\ \A i \in 0..m : c[i] \in Nat
                       /\ \A i \in 1..m : c[i] = c[i - 1] + Len(seqs[i])
           T == {m \in Nat : m <= n => \E c : Is(m, c)}
<1>1. 0 \in T
  <2>1. Is(0, [i \in {0} |-> 0])
    OBVIOUS
  <2> HIDE DEF Is
  <2>2. QED BY <2>1
<1>2. ASSUME NEW m \in T PROVE m + 1 \in T
  <2>1. SUFFICES ASSUME m + 1 <= n PROVE \E c : Is(m + 1, c)
    OBVIOUS
  <2>2. m \in Nat /\ m + 1 \in 1..n /\ m <= n
    BY <2>1 DEF Sequenced
  <2>3. PICK c : Is(m, c)
    BY <2>2
  <2> DEFINE e == [i \in 0..(m + 1) |-> IF i <= m THEN c[i] ELSE c[m] + Len(seqs[m + 1])]
  <2>4. Len(seqs[m + 1]) \in Nat
    BY <2>2 DEF Sequenced
  <2>5. c[m] \in Nat
    BY <2>2, <2>3
  <2>6. Is(m + 1, e)
    <3>1. e[0] = 0
      BY <2>2, <2>3
    <3>2. \A i \in 0..(m + 1) : e[i] \in Nat
      BY <2>2, <2>3, <2>4, <2>5
    <3>3. ASSUME NEW i \in 1..(m + 1) PROVE e[i] = e[i - 1] + Len(seqs[i])
      <4>1. CASE i <= m
        <5>1. i \in 1..m /\ e[i] = c[i] /\ e[i - 1] = c[i - 1]
          BY <2>2, <4>1
        <5>2. QED BY <2>3, <5>1
      <4>2. CASE i = m + 1
        <5>1. e[i] = c[m] + Len(seqs[m + 1]) /\ e[i - 1] = c[m]
          BY <2>2, <4>2
        <5>2. QED BY <4>2, <5>1
      <4>3. QED BY <2>2, <4>1, <4>2
    <3> HIDE DEF e
    <3>4. QED BY <3>1, <3>2, <3>3
  <2> HIDE DEF Is, e
  <2>7. QED BY <2>6
<1>3. T \in SUBSET Nat
  OBVIOUS
<1> HIDE DEF T, Is
<1>4. T = Nat
  BY <1>1, <1>2, <1>3, SetInduction
<1>5. n \in Nat
  BY DEF Sequenced
<1>6. PICK c : Is(n, c)
  BY <1>4, <1>5 DEF T
<1>7. Offsets(c, seqs, n)
  BY <1>6 DEF Offsets, Is
<1>8. QED BY <1>7

LEMMA Rising ==
  ASSUME NEW n \in Nat, NEW c, NEW seqs, NEW S, Sequenced(seqs, n, S), Offsets(c, seqs, n),
         NEW i \in 0..n, NEW j \in 0..n, i <= j
  PROVE  c[i] <= c[j]
<1> DEFINE T == {k \in Nat : i + k <= n => c[i] <= c[i + k]}
<1>1. 0 \in T
  BY DEF Offsets
<1>2. ASSUME NEW k \in T PROVE k + 1 \in T
  <2>1. SUFFICES ASSUME i + (k + 1) <= n PROVE c[i] <= c[i + (k + 1)]
    OBVIOUS
  <2>2. /\ k \in Nat /\ i + (k + 1) \in 1..n /\ (i + (k + 1)) - 1 = i + k /\ i + k \in 0..n
        /\ c[i] <= c[i + k]
    BY <2>1
  <2>3. c[i + (k + 1)] = c[i + k] + Len(seqs[i + (k + 1)])
    BY <2>2 DEF Offsets
  <2>4. Len(seqs[i + (k + 1)]) \in Nat
    BY <2>2 DEF Sequenced
  <2>5. c[i] \in Nat /\ c[i + k] \in Nat
    BY <2>2 DEF Offsets
  <2>6. QED BY <2>2, <2>3, <2>4, <2>5
<1>3. T \in SUBSET Nat
  OBVIOUS
<1> HIDE DEF T
<1>4. T = Nat
  BY <1>1, <1>2, <1>3, SetInduction
<1>5. j - i \in Nat /\ i + (j - i) = j
  OBVIOUS
<1>6. i + (j - i) <= n => c[i] <= c[i + (j - i)]
  BY <1>4, <1>5 DEF T
<1>7. QED BY <1>5, <1>6

LEMMA PieceIs ==
  ASSUME NEW n \in Nat, NEW c, NEW seqs, NEW S, Sequenced(seqs, n, S), Offsets(c, seqs, n),
         NEW l \in 1..n, NEW k \in Int, c[l - 1] < k, k <= c[l]
  PROVE  Piece(c, n, k) = l
<1>1. ASSUME NEW m \in 1..n, c[m - 1] < k, k <= c[m] PROVE m = l
  <2>1. /\ m \in 0..n /\ l \in 0..n /\ m - 1 \in 0..n /\ l - 1 \in 0..n
    OBVIOUS
  <2>2. c[m] \in Nat /\ c[l] \in Nat /\ c[m - 1] \in Nat /\ c[l - 1] \in Nat
    BY <2>1 DEF Offsets
  <2>3. CASE m < l
    <3>1. m <= l - 1
      BY <2>3
    <3>2. c[m] <= c[l - 1]
      BY <2>1, <3>1, Rising
    <3>3. QED BY <1>1, <2>2, <3>2
  <2>4. CASE l < m
    <3>1. l <= m - 1
      BY <2>4
    <3>2. c[l] <= c[m - 1]
      BY <2>1, <3>1, Rising
    <3>3. QED BY <1>1, <2>2, <3>2
  <2>5. QED BY <2>3, <2>4
<1>2. QED BY <1>1 DEF Piece

HalvesGlue(c, seqs, n, i, j) ==
  LET half == (i + j) \div 2
  IN  Glued(c, seqs, n, i, j) = Glued(c, seqs, n, i, half) \o Glued(c, seqs, n, half + 1, j)

(* What is glued splits in halves the way Joined goes about it.            *)
LEMMA GluedSplit ==
  ASSUME NEW n \in Nat, NEW c, NEW seqs, NEW S, Sequenced(seqs, n, S), Offsets(c, seqs, n),
         NEW i \in 1..n, NEW j \in 0..n
  PROVE  /\ i > j => Glued(c, seqs, n, i, j) = <<>>
         /\ i = j => Glued(c, seqs, n, i, j) = seqs[i]
         /\ i < j => HalvesGlue(c, seqs, n, i, j)
<1>1. i \in 0..n /\ i - 1 \in 0..n
  OBVIOUS
<1>2. c[i] \in Nat /\ c[i - 1] \in Nat /\ c[j] \in Nat
  BY <1>1 DEF Offsets
<1>3. ASSUME i > j PROVE Glued(c, seqs, n, i, j) = <<>>
  <2>1. c[j] <= c[i - 1]
    BY <1>1, <1>3, Rising
  <2>2. 1..(c[j] - c[i - 1]) = {}
    BY <1>2, <2>1
  <2>3. QED BY <2>2 DEF Glued
<1>4. ASSUME i = j PROVE Glued(c, seqs, n, i, j) = seqs[i]
  <2>1. seqs[i] \in Seq(S)
    BY DEF Sequenced
  <2>2. c[i] - c[i - 1] = Len(seqs[i]) /\ Len(seqs[i]) \in Nat
    BY <1>2, <2>1 DEF Offsets
  <2>3. ASSUME NEW k \in 1..Len(seqs[i]) PROVE Nth(c, seqs, n, k + c[i - 1]) = seqs[i][k]
    <3>1. k + c[i - 1] \in Int /\ c[i - 1] < k + c[i - 1] /\ k + c[i - 1] <= c[i]
          /\ (k + c[i - 1]) - c[i - 1] = k
      BY <1>2, <2>2
    <3>2. Piece(c, n, k + c[i - 1]) = i
      BY <3>1, PieceIs
    <3>3. QED BY <3>1, <3>2 DEF Nth
  <2>4. seqs[i] = [k \in 1..Len(seqs[i]) |-> seqs[i][k]]
    BY <2>1
  <2>5. Glued(c, seqs, n, i, j) = [k \in 1..Len(seqs[i]) |-> Nth(c, seqs, n, k + c[i - 1])]
    BY <1>4, <2>2 DEF Glued
  <2>6. QED BY <2>3, <2>4, <2>5
<1>5. ASSUME i < j
      PROVE HalvesGlue(c, seqs, n, i, j)
  <2> DEFINE h == (i + j) \div 2
             x == c[i - 1]
             a == c[h] - x
             b == c[j] - c[h]
             G(k) == Nth(c, seqs, n, k + x)
  <2>1. h \in 0..n /\ i <= h /\ h < j /\ (h + 1) - 1 = h
    BY <1>5
  <2> HIDE DEF h
  <2>2. c[i - 1] <= c[h] /\ c[h] <= c[j] /\ c[h] \in Nat
    <3>1. c[h] \in Nat
      BY <2>1 DEF Offsets
    <3>2. c[i - 1] <= c[h]
      BY <1>1, <2>1, Rising
    <3>3. c[h] <= c[j]
      BY <1>1, <2>1, Rising
    <3>4. QED BY <3>1, <3>2, <3>3
  <2>3. a \in Nat /\ b \in Nat /\ a + b = c[j] - x /\ x \in Nat
    BY <1>2, <2>2
  <2>4. Glued(c, seqs, n, i, h) = [k \in 1..a |-> G(k)]
    BY DEF Glued
  <2>5. Glued(c, seqs, n, h + 1, j) = [k \in 1..b |-> G(k + a)]
    <3>1. \A k \in 1..b : k + c[h] = (k + a) + x
      BY <1>2, <2>2
    <3>2. Glued(c, seqs, n, h + 1, j) = [k \in 1..b |-> Nth(c, seqs, n, k + c[h])]
      BY <2>1 DEF Glued
    <3> HIDE DEF a, b, x
    <3>3. QED BY <3>1, <3>2
  <2>6. Glued(c, seqs, n, i, j) = [k \in 1..(a + b) |-> G(k)]
    BY <2>3 DEF Glued
  <2> HIDE DEF a, b, x, G
  <2>7. [k \in 1..a |-> G(k)] \o [k \in 1..b |-> G(k + a)] = [k \in 1..(a + b) |-> G(k)]
    BY <2>3
  <2>8. QED BY <2>4, <2>5, <2>6, <2>7 DEF h, HalvesGlue
<1>6. QED BY <1>3, <1>4, <1>5

Halved(h, seqs, p) ==
  LET half == (p[1] + p[2]) \div 2
  IN  IF p[1] > p[2] THEN <<>>
      ELSE IF p[1] = p[2] THEN seqs[p[1]]
      ELSE h[<<p[1], half>>] \o h[<<half + 1, p[2]>>]
IsJoin(h, seqs, n) == h = [p \in (1..n) \X (0..n) |-> Halved(h, seqs, p)]

(* Joined is all the sequences one after the other.                        *)
LEMMA JoinedIs ==
  ASSUME NEW n, NEW c, NEW seqs, NEW S, Sequenced(seqs, n, S), Offsets(c, seqs, n), n >= 1
  PROVE  Joined(seqs) = Glued(c, seqs, n, 1, n)
<1> DEFINE Spans == (1..n) \X (0..n)
           g == [p \in Spans |-> Glued(c, seqs, n, p[1], p[2])]
           f == CHOOSE h : IsJoin(h, seqs, n)
<1>1. n \in Nat /\ Len(seqs) = n
  BY DEF Sequenced
<1>2. ASSUME NEW i \in 1..n, NEW j \in 0..n, i < j
      PROVE  (i + j) \div 2 \in i..(j - 1)
  BY <1>1, <1>2
<1>3. IsJoin(g, seqs, n)
  <2>1. ASSUME NEW p \in Spans PROVE Glued(c, seqs, n, p[1], p[2]) = Halved(g, seqs, p)
    <3>1. PICK i \in 1..n, j \in 0..n : p = <<i, j>> /\ p[1] = i /\ p[2] = j
      OBVIOUS
    <3> DEFINE h == (i + j) \div 2
    <3>2. CASE i < j
      <4>1. h \in 0..n /\ h + 1 \in 1..n /\ ~(i > j) /\ i # j
        BY <1>1, <1>2, <3>2
      <4> HIDE DEF h
      <4>2. g[<<i, h>>] = Glued(c, seqs, n, i, h) /\ g[<<h + 1, j>>] = Glued(c, seqs, n, h + 1, j)
        BY <4>1
      <4> HIDE DEF g
      <4>3. Halved(g, seqs, p) = g[<<i, h>>] \o g[<<h + 1, j>>]
        BY <3>1, <4>1 DEF Halved, h
      <4>4. Glued(c, seqs, n, i, j) = Glued(c, seqs, n, i, h) \o Glued(c, seqs, n, h + 1, j)
        <5>1. n \in Nat /\ i \in 1..n /\ j \in 0..n
          BY <1>1
        <5>2. HalvesGlue(c, seqs, n, i, j)
          BY <3>2, <5>1, GluedSplit
        <5>3. QED BY <5>2 DEF h, HalvesGlue
      <4>5. QED BY <3>1, <4>2, <4>3, <4>4
    <3>3. CASE i >= j
      <4>1. Halved(g, seqs, p) = IF i > j THEN <<>> ELSE seqs[i]
        BY <3>1, <3>3 DEF Halved
      <4>2. Glued(c, seqs, n, i, j) = IF i > j THEN <<>> ELSE seqs[i]
        BY <1>1, <3>3, GluedSplit
      <4>3. QED BY <3>1, <4>1, <4>2
    <3>4. QED BY <3>2, <3>3
  <2>2. g = [p \in Spans |-> Halved(g, seqs, p)]
    BY <2>1
  <2> HIDE DEF g
  <2>3. QED BY <2>2 DEF IsJoin
<1> HIDE DEF g
<1>4. IsJoin(f, seqs, n)
  BY <1>3
<1> HIDE DEF f
<1>5. ASSUME NEW i \in 1..n, NEW j \in 0..n PROVE f[<<i, j>>] = Halved(f, seqs, <<i, j>>)
  BY <1>4 DEF IsJoin
<1> DEFINE T == {m \in Nat : \A i \in 1..n : \A j \in 0..n :
                   j - i < m => f[<<i, j>>] = Glued(c, seqs, n, i, j)}
<1>6. 0 \in T
  <2>1. ASSUME NEW i \in 1..n, NEW j \in 0..n, j - i < 0
        PROVE  f[<<i, j>>] = Glued(c, seqs, n, i, j)
    <3>1. i > j
      BY <1>1, <2>1
    <3>2. Halved(f, seqs, <<i, j>>) = <<>>
      BY <3>1 DEF Halved
    <3>3. QED BY <1>1, <1>5, <3>1, <3>2, GluedSplit
  <2>2. QED BY <2>1
<1>7. ASSUME NEW m \in T PROVE m + 1 \in T
  <2>1. m \in Nat
    OBVIOUS
  <2>2. ASSUME NEW i \in 1..n, NEW j \in 0..n, j - i < m + 1
        PROVE  f[<<i, j>>] = Glued(c, seqs, n, i, j)
    <3> DEFINE h == (i + j) \div 2
    <3>1. CASE i < j
      <4>1. h \in 1..n /\ h \in 0..n /\ h + 1 \in 1..n /\ ~(i > j) /\ i # j /\ h - i < m /\ j - (h + 1) < m
        BY <1>1, <1>2, <2>1, <2>2, <3>1
      <4> HIDE DEF h
      <4>2. f[<<i, h>>] = Glued(c, seqs, n, i, h) /\ f[<<h + 1, j>>] = Glued(c, seqs, n, h + 1, j)
        BY <4>1
      <4>3. Halved(f, seqs, <<i, j>>) = f[<<i, h>>] \o f[<<h + 1, j>>]
        BY <4>1 DEF Halved, h
      <4>4. Glued(c, seqs, n, i, j) = Glued(c, seqs, n, i, h) \o Glued(c, seqs, n, h + 1, j)
        <5>1. n \in Nat /\ i \in 1..n /\ j \in 0..n
          BY <1>1
        <5>2. HalvesGlue(c, seqs, n, i, j)
          BY <3>1, <5>1, GluedSplit
        <5>3. QED BY <5>2 DEF h, HalvesGlue
      <4>5. QED BY <1>5, <4>2, <4>3, <4>4
    <3>2. CASE i >= j
      <4>1. Halved(f, seqs, <<i, j>>) = IF i > j THEN <<>> ELSE seqs[i]
        BY <3>2 DEF Halved
      <4>2. Glued(c, seqs, n, i, j) = IF i > j THEN <<>> ELSE seqs[i]
        BY <1>1, <3>2, GluedSplit
      <4>3. QED BY <1>5, <4>1, <4>2
    <3>3. QED BY <3>1, <3>2
  <2>3. m + 1 \in Nat
    BY <2>1
  <2> HIDE DEF Halved, Glued
  <2>4. QED BY <2>2, <2>3
<1>8. T \in SUBSET Nat
  OBVIOUS
<1> HIDE DEF T
<1>9. T = Nat
  BY <1>6, <1>7, <1>8, SetInduction
<1>10. f[<<1, n>>] = Glued(c, seqs, n, 1, n)
  <2>1. n \in Nat /\ 1 \in 1..n /\ n \in 0..n /\ n - 1 < n
    BY <1>1
  <2>2. QED BY <1>9, <2>1 DEF T
<1>11. Joined(seqs) = f[<<1, n>>]
  <2>1. Joined(seqs) = IF seqs = <<>> THEN <<>> ELSE (CHOOSE h : IsJoin(h, seqs, n))[<<1, n>>]
    BY <1>1 DEF Joined, IsJoin, Halved
  <2>2. seqs # <<>>
    <3>1. Len(<<>>) = 0
      OBVIOUS
    <3>2. QED BY <1>1, <3>1
  <2>3. QED BY <2>1, <2>2 DEF f
<1>12. QED BY <1>10, <1>11

(* Each place is in some piece.                                            *)
LEMMA PieceExists ==
  ASSUME NEW n, NEW c, NEW seqs, NEW S, Sequenced(seqs, n, S), Offsets(c, seqs, n),
         NEW k \in 1..c[n]
  PROVE  /\ Piece(c, n, k) \in 1..n
         /\ c[Piece(c, n, k) - 1] < k /\ k <= c[Piece(c, n, k)]
<1> DEFINE T == {l \in Nat : l <= n /\ k <= c[l]}
<1>1. n \in Nat /\ c[0] = 0 /\ \A i \in 0..n : c[i] \in Nat
  BY DEF Sequenced, Offsets
<1>2. n \in 0..n /\ c[n] \in Nat
  BY <1>1
<1>3. T \in SUBSET Nat /\ n \in T
  BY <1>1, <1>2
<1>4. PICK l \in T : \A m \in T : l <= m
  <2> HIDE DEF T
  <2>1. T # {}
    BY <1>3
  <2>2. QED BY <1>3, <2>1, Least
<1>5. l \in 1..n
  <2>1. l # 0
    BY <1>1, <1>2, <1>4
  <2>2. QED BY <1>1, <1>4, <2>1
<1>6. c[l - 1] < k
  <2>1. l - 1 \notin T /\ l - 1 \in Nat /\ l - 1 <= n
    BY <1>1, <1>4, <1>5
  <2>2. c[l - 1] \in Nat
    BY <1>1, <2>1
  <2>3. QED BY <1>2, <2>1, <2>2
<1>7. k <= c[l]
  BY <1>4
<1>8. \E m \in 1..n : c[m - 1] < k /\ k <= c[m]
  BY <1>5, <1>6, <1>7
<1>9. QED BY <1>8 DEF Piece

-----------------------------------------------------------------------------
(* The codes, from how many there are of each size.                        *)
SizeRuns(bits) == [l \in 1..MaxHuffBits |-> [i \in 1..bits[l] |-> l]]

(* build_huffsizes puts the sizes in order: the codes of size l come after *)
(* the c[l - 1] shorter ones.                                              *)
LEMMA TallyOffsets ==
  ASSUME NEW bits, NEW q, NEW c, Tally(q, c, bits, MaxHuffBits),
         \A i \in 1..MaxHuffBits : bits[i] \in Int /\ bits[i] >= 0
  PROVE  Sequenced(SizeRuns(bits), MaxHuffBits, Nat) /\ Offsets(c, SizeRuns(bits), MaxHuffBits)
<1> DEFINE n == MaxHuffBits
           seqs == SizeRuns(bits)
<1>1. n \in Nat
  BY MaxHuffBitsOK
<1>2. \A i \in 1..n : seqs[i] = [k \in 1..bits[i] |-> i] /\ bits[i] \in Nat /\ i \in Nat
  BY DEF SizeRuns
<1>3. ASSUME NEW i \in 1..n PROVE seqs[i] \in Seq(Nat) /\ Len(seqs[i]) = bits[i]
  <2>1. seqs[i] = [k \in 1..bits[i] |-> i] /\ bits[i] \in Nat /\ i \in Nat
    BY <1>2
  <2> HIDE DEF seqs, n
  <2>2. QED BY <2>1
<1>4. Len(seqs) = n /\ DOMAIN seqs = 1..n
  BY <1>1 DEF SizeRuns
<1>5. Sequenced(seqs, n, Nat)
  BY <1>1, <1>3, <1>4 DEF Sequenced
<1> DEFINE T == {i \in Nat : i <= n => c[i] \in Nat}
<1>6. 0 \in T
  BY DEF Tally
<1>7. ASSUME NEW i \in T PROVE i + 1 \in T
  <2>1. SUFFICES ASSUME i + 1 <= n PROVE c[i + 1] \in Nat
    OBVIOUS
  <2>2. i \in Nat /\ i + 1 \in 1..n /\ c[i] \in Nat /\ (i + 1) - 1 = i
    BY <1>1, <2>1
  <2>3. c[i + 1] = c[i] + bits[i + 1]
    BY <2>2 DEF Tally
  <2>4. QED BY <1>2, <2>2, <2>3
<1>8. T \in SUBSET Nat
  OBVIOUS
<1> HIDE DEF T
<1>9. T = Nat
  BY <1>6, <1>7, <1>8, SetInduction
<1>10. \A i \in 0..n : c[i] \in Nat
  BY <1>1, <1>9 DEF T
<1>11. c[0] = 0 /\ \A i \in 1..n : c[i] = c[i - 1] + bits[i]
  BY DEF Tally
<1>12. Offsets(c, seqs, n)
  <2> HIDE DEF seqs, n
  <2>1. QED BY <1>3, <1>10, <1>11 DEF Offsets
<1>13. QED BY <1>5, <1>12

(* Code i has the size of which there are codes up to c[size], i with them. *)
Placed(sizes, c) ==
  /\ DOMAIN sizes = 1..c[MaxHuffBits] /\ c[MaxHuffBits] \in Nat
  /\ \A i \in DOMAIN sizes : sizes[i] \in 1..MaxHuffBits /\ c[sizes[i] - 1] < i /\ i <= c[sizes[i]]

LEMMA SizesPlaced ==
  ASSUME NEW bits, NEW q, NEW c, Tally(q, c, bits, MaxHuffBits),
         \A i \in 1..MaxHuffBits : bits[i] \in Int /\ bits[i] >= 0
  PROVE  Placed(build_huffsizes(bits), c)
<1> DEFINE n == MaxHuffBits
           seqs == SizeRuns(bits)
           sizes == build_huffsizes(bits)
<1>1. n \in Nat /\ n >= 1 /\ n \in 0..n /\ 1 - 1 = 0
  BY MaxHuffBitsOK
<1>2. Sequenced(seqs, n, Nat) /\ Offsets(c, seqs, n)
  BY TallyOffsets
<1>3. sizes = Joined(seqs)
  BY DEF build_huffsizes, SizeRuns
<1>4. Joined(seqs) = Glued(c, seqs, n, 1, n)
  <2> HIDE DEF n, seqs
  <2>1. QED BY <1>1, <1>2, JoinedIs
<1>5. c[0] = 0 /\ \A i \in 0..n : c[i] \in Nat
  BY <1>2 DEF Offsets
<1>6. c[n] \in Nat
  BY <1>1, <1>5
<1> HIDE DEF seqs, sizes, n
<1>7. sizes = [k \in 1..c[n] |-> Nth(c, seqs, n, k)]
  <2>1. sizes = [k \in 1..(c[n] - 0) |-> Nth(c, seqs, n, k + 0)]
    BY <1>1, <1>3, <1>4, <1>5 DEF Glued
  <2>2. QED BY <1>6, <2>1
<1>8. ASSUME NEW i \in 1..c[n] PROVE sizes[i] \in 1..n /\ c[sizes[i] - 1] < i /\ i <= c[sizes[i]]
  <2> DEFINE l == Piece(c, n, i)
  <2>1. l \in 1..n /\ c[l - 1] < i /\ i <= c[l]
    BY <1>2, PieceExists
  <2> HIDE DEF l
  <2>2. l - 1 \in 0..n /\ l \in 0..n
    BY <1>1, <2>1
  <2>3. c[l] = c[l - 1] + bits[l] /\ bits[l] \in Int
    BY <2>1 DEF Tally, n
  <2>4. i - c[l - 1] \in 1..bits[l]
    BY <1>5, <2>1, <2>2, <2>3
  <2>5. seqs[l] = [k \in 1..bits[l] |-> l]
    BY <2>1 DEF seqs, SizeRuns, n
  <2>6. seqs[l][i - c[l - 1]] = l
    BY <2>4, <2>5
  <2>7. sizes[i] = l
    BY <1>7, <2>6 DEF Nth, l
  <2>8. QED BY <2>1, <2>7
<1>9. DOMAIN sizes = 1..c[n]
  BY <1>7
<1>10. Placed(sizes, c)
  BY <1>6, <1>8, <1>9 DEF Placed, n
<1>11. QED BY <1>10 DEF sizes

(* Over sizes without a code the numbers only double.                      *)
LEMMA Doubled ==
  ASSUME NEW bits, NEW q, NEW c, Tally(q, c, bits, MaxHuffBits),
         \A i \in 1..MaxHuffBits : bits[i] \in Int /\ bits[i] >= 0,
         NEW k \in 0..MaxHuffBits, NEW j \in 0..MaxHuffBits, k <= j, c[j] = c[k]
  PROVE  q[j] = q[k] * 2^(j - k)
<1> DEFINE n == MaxHuffBits
           seqs == SizeRuns(bits)
<1>1. n \in Nat /\ Sequenced(seqs, n, Nat) /\ Offsets(c, seqs, n)
  BY MaxHuffBitsOK, TallyOffsets
<1>2. \A i \in 0..n : c[i] \in Nat /\ q[i] \in Int
  BY <1>1 DEF Offsets, Tally
<1>3. ASSUME NEW i \in k..j PROVE c[i] = c[k]
  <2>1. i \in 0..n /\ k <= i /\ i <= j
    BY <1>1
  <2> HIDE DEF n, seqs
  <2>2. k \in 0..n /\ j \in 0..n
    BY DEF n
  <2>3. c[k] <= c[i] /\ c[i] <= c[j]
    BY <1>1, <2>1, <2>2, Rising
  <2>4. QED BY <1>2, <2>1, <2>2, <2>3
<1> DEFINE T == {m \in Nat : k + m <= j => q[k + m] = q[k] * 2^m}
<1>4. 0 \in T
  <2>1. 2^0 = 1 /\ q[k] \in Int /\ k + 0 = k
    BY <1>2, Powers
  <2>2. q[k + 0] = q[k] * 2^0
    BY <2>1
  <2>3. QED BY <2>2
<1>5. ASSUME NEW m \in T PROVE m + 1 \in T
  <2>1. SUFFICES ASSUME k + (m + 1) <= j PROVE q[k + (m + 1)] = q[k] * 2^(m + 1)
    OBVIOUS
  <2>2. /\ m \in Nat /\ k + (m + 1) \in 1..n /\ (k + (m + 1)) - 1 = k + m
        /\ k + m \in k..j /\ k + (m + 1) \in k..j /\ q[k + m] = q[k] * 2^m /\ k \in 0..n /\ k + m \in 0..n
    BY <1>1, <2>1
  <2>3. /\ q[k + (m + 1)] = 2 * q[k + m] + bits[k + (m + 1)]
        /\ c[k + (m + 1)] = c[k + m] + bits[k + (m + 1)]
    BY <2>2 DEF Tally
  <2>4. c[k + (m + 1)] = c[k] /\ c[k + m] = c[k] /\ c[k] \in Nat /\ bits[k + (m + 1)] \in Int
    BY <1>2, <1>3, <2>2
  <2>5. bits[k + (m + 1)] = 0
    BY <2>3, <2>4
  <2>6. 2^(m + 1) = 2 * 2^m /\ 2^m \in Nat /\ q[k] \in Int /\ q[k + m] \in Int
    BY <1>2, <2>2, Powers
  <2>7. \A x \in Int, y \in Nat : 2 * (x * y) = x * (2 * y)
    OBVIOUS
  <2>8. q[k + (m + 1)] = 2 * q[k + m]
    BY <2>3, <2>5, <2>6
  <2>9. QED BY <2>2, <2>6, <2>7, <2>8
<1>6. T \in SUBSET Nat
  OBVIOUS
<1> HIDE DEF T
<1>7. T = Nat
  BY <1>4, <1>5, <1>6, SetInduction
<1>8. j - k \in Nat /\ k + (j - k) = j
  BY <1>1
<1>9. QED BY <1>7, <1>8 DEF T

CodeOf(sizes, q, c, i) == 2 * q[sizes[i] - 1] + (i - c[sizes[i] - 1]) - 1
NextCode(h, sizes, i) ==
  IF i = 1 THEN 0 ELSE ((h[i - 1] + 1) * 2^(sizes[i] - sizes[i - 1])) % 65536
AreCodes(h, sizes) == h = [i \in DOMAIN sizes |-> NextCode(h, sizes, i)]

(* The i-th code fits its size, and 16 bits, and is not of ones only.      *)
LEMMA CodesFit ==
  ASSUME NEW bits, NEW q, NEW c, Roomy(bits, q, c),
         \A i \in 1..MaxHuffBits : bits[i] \in Int /\ bits[i] >= 0,
         NEW sizes, Placed(sizes, c), NEW i \in DOMAIN sizes
  PROVE  /\ CodeOf(sizes, q, c, i) \in Nat /\ CodeOf(sizes, q, c, i) < 65536
         /\ CodeOf(sizes, q, c, i) + 1 < 2^sizes[i]
<1> DEFINE n == MaxHuffBits
           l == sizes[i]
           T == {m \in Nat : m <= n => q[m] >= 0}
<1>1. n \in Nat /\ n <= 16
  BY MaxHuffBitsOK
<1>2. Tally(q, c, bits, n)
  BY DEF Roomy
<1>3. l \in 1..n /\ c[l - 1] < i /\ i <= c[l] /\ i \in Nat
  BY DEF Placed
<1> HIDE DEF n, l
<1>4. 0 \in T
  BY <1>2 DEF Tally
<1>5. ASSUME NEW m \in T PROVE m + 1 \in T
  <2>1. SUFFICES ASSUME m + 1 <= n PROVE q[m + 1] >= 0
    OBVIOUS
  <2>2. m \in Nat /\ m + 1 \in 1..n /\ m \in 0..n /\ q[m] >= 0 /\ (m + 1) - 1 = m
    BY <1>1, <2>1
  <2>3. q[m + 1] = 2 * q[m] + bits[m + 1] /\ q[m] \in Int
    BY <1>2, <2>2 DEF Tally
  <2>4. bits[m + 1] \in Int /\ bits[m + 1] >= 0
    BY <2>2 DEF n
  <2>5. QED BY <2>2, <2>3, <2>4
<1>6. T \in SUBSET Nat
  OBVIOUS
<1> HIDE DEF T
<1>7. T = Nat
  BY <1>4, <1>5, <1>6, SetInduction
<1>8. l - 1 \in 0..n /\ l - 1 \in Nat /\ l \in 0..n /\ l \in Nat /\ l <= 16 /\ l - 1 <= n
  BY <1>1, <1>3
<1>9. q[l - 1] >= 0 /\ q[l - 1] \in Int /\ q[l] \in Int /\ c[l - 1] \in Int /\ c[l] \in Int
  BY <1>2, <1>7, <1>8 DEF T, Tally
<1>10. q[l] = 2 * q[l - 1] + bits[l] /\ c[l] = c[l - 1] + bits[l]
  BY <1>2, <1>3 DEF Tally
<1>11. q[l] < 2^l
  BY <1>8 DEF Roomy, n
<1>12. 2^l <= 65536 /\ 2^l \in Nat
  <2>1. 16 \in Nat /\ 2^l \in Nat
    BY <1>8, Powers
  <2>2. 2^l <= 2^16
    BY <1>8, <2>1, PowerGrows
  <2>3. QED BY <2>1, <2>2, SmallPowers
<1>13. CodeOf(sizes, q, c, i) = 2 * q[l - 1] + (i - c[l - 1]) - 1
  BY DEF CodeOf, l
<1>14. bits[l] \in Int
  BY <1>3 DEF n
<1>15. CodeOf(sizes, q, c, i) + 1 <= q[l] /\ CodeOf(sizes, q, c, i) \in Nat
  BY <1>3, <1>9, <1>10, <1>13, <1>14
<1>16. QED BY <1>9, <1>11, <1>12, <1>15 DEF l

(* It is what build_huffcodes makes of the one before it.                  *)
LEMMA CodeStep ==
  ASSUME NEW bits, NEW q, NEW c, Roomy(bits, q, c),
         \A i \in 1..MaxHuffBits : bits[i] \in Int /\ bits[i] >= 0,
         NEW sizes, Placed(sizes, c), NEW i \in DOMAIN sizes, NEW h,
         i > 1 => h[i - 1] = CodeOf(sizes, q, c, i - 1)
  PROVE  NextCode(h, sizes, i) = CodeOf(sizes, q, c, i)
<1> DEFINE n == MaxHuffBits
           l == sizes[i]
           W(k) == CodeOf(sizes, q, c, k)
<1>1. n \in Nat /\ Tally(q, c, bits, n)
  BY MaxHuffBitsOK DEF Roomy
<1>2. /\ DOMAIN sizes = 1..c[n] /\ c[n] \in Nat
      /\ l \in 1..n /\ c[l - 1] < i /\ i <= c[l] /\ i \in Nat /\ i >= 1
  BY DEF Placed
<1>3. Sequenced(SizeRuns(bits), n, Nat) /\ Offsets(c, SizeRuns(bits), n)
  BY <1>1, TallyOffsets
<1>4. (\A m \in 0..n : c[m] \in Nat /\ q[m] \in Int) /\ c[0] = 0 /\ q[0] = 0
  BY <1>1, <1>3 DEF Offsets, Tally
<1>5. W(i) = 2 * q[l - 1] + (i - c[l - 1]) - 1
  BY DEF CodeOf
<1> HIDE DEF l
<1>6. l - 1 \in 0..n /\ l \in 0..n /\ 0 \in 0..n /\ l \in Nat /\ l - 1 \in Nat
  BY <1>1, <1>2
<1>7. \A j, k \in 0..n : k <= j /\ c[j] = c[k] => q[j] = q[k] * 2^(j - k)
  BY <1>1, Doubled
<1>8. CASE i = 1
  <2>1. c[l - 1] = 0
    BY <1>2, <1>4, <1>6, <1>8
  <2>2. q[l - 1] = q[0] * 2^((l - 1) - 0)
    <3> HIDE DEF n
    <3>1. 0 <= l - 1
      BY <1>6
    <3>2. QED BY <1>4, <1>6, <1>7, <2>1, <3>1
  <2>3. q[l - 1] = 0
    <3>1. (l - 1) - 0 \in Nat
      BY <1>6
    <3>2. 2^((l - 1) - 0) \in Nat
      BY <3>1, Powers
    <3>3. QED BY <1>4, <2>2, <3>2
  <2>4. W(i) = 0
    BY <1>5, <1>8, <2>1, <2>3
  <2>5. QED BY <1>8, <2>4 DEF NextCode
<1>9. CASE i > 1
  <2> DEFINE k == sizes[i - 1]
  <2>1. i - 1 \in DOMAIN sizes /\ i - 1 \in Nat
    BY <1>2, <1>9
  <2>2. k \in 1..n /\ c[k - 1] < i - 1 /\ i - 1 <= c[k]
    BY <2>1 DEF Placed
  <2>3. W(i - 1) = 2 * q[k - 1] + ((i - 1) - c[k - 1]) - 1
    BY DEF CodeOf
  <2>4. NextCode(h, sizes, i) = ((W(i - 1) + 1) * 2^(l - k)) % 65536
    BY <1>9 DEF NextCode, l
  <2> HIDE DEF k
  <2>5. k - 1 \in 0..n /\ k \in 0..n /\ k \in Nat
    BY <1>1, <2>2
  <2>6. k <= l
    <3>1. SUFFICES ASSUME l < k PROVE FALSE
      BY <1>6, <2>5
    <3>2. l <= k - 1
      BY <1>6, <2>5, <3>1
    <3>3. c[l] <= c[k - 1]
      <4> HIDE DEF n
      <4>1. QED BY <1>1, <1>3, <1>6, <2>5, <3>2, Rising
    <3>4. QED BY <1>2, <1>4, <1>6, <2>2, <2>5, <3>3
  <2>7. W(i) \in Nat /\ W(i) < 65536
    BY CodesFit
  <2>8. (W(i - 1) + 1) * 2^(l - k) = W(i)
    <3>1. CASE k = l
      <4>1. l - k = 0
        BY <1>6, <3>1
      <4>2. 2^(l - k) = 1
        BY <4>1, Powers
      <4>3. W(i - 1) + 1 = W(i) /\ W(i) \in Int
        <5> HIDE DEF W
        <5>1. QED BY <1>2, <1>4, <1>5, <1>6, <2>3, <2>7, <3>1
      <4> HIDE DEF W
      <4>4. QED BY <4>2, <4>3
    <3>2. CASE k < l
      <4>1. k <= l - 1 /\ l - 1 - k \in Nat /\ l - k = (l - 1 - k) + 1
        BY <1>6, <2>5, <3>2
      <4>2. c[k] <= c[l - 1]
        <5> HIDE DEF n
        <5>1. QED BY <1>1, <1>3, <1>6, <2>5, <4>1, Rising
      <4>3. c[k] = i - 1 /\ c[l - 1] = i - 1
        <5>1. c[k] \in Nat /\ c[l - 1] \in Nat
          BY <1>4, <1>6, <2>5
        <5>2. c[l - 1] < i /\ i - 1 <= c[k] /\ i \in Nat
          BY <1>2, <2>2
        <5>3. QED BY <4>2, <5>1, <5>2
      <4>4. q[l - 1] = q[k] * 2^((l - 1) - k)
        <5> HIDE DEF n
        <5>1. QED BY <1>6, <1>7, <2>5, <4>1, <4>3
      <4>5. q[k] = 2 * q[k - 1] + bits[k] /\ c[k] = c[k - 1] + bits[k] /\ bits[k] \in Int
        BY <1>1, <2>2 DEF Tally
      <4>6. /\ q[k] \in Int /\ q[k - 1] \in Int /\ c[k - 1] \in Int /\ c[k] \in Int /\ q[l - 1] \in Int
            /\ c[l - 1] \in Int
        BY <1>4, <1>6, <2>5
      <4>7. W(i - 1) + 1 = q[k]
        <5> HIDE DEF W
        <5>1. QED BY <2>1, <2>3, <4>3, <4>5, <4>6
      <4>8. W(i) = 2 * q[l - 1]
        <5> HIDE DEF W
        <5>1. QED BY <1>2, <1>5, <4>3, <4>6
      <4>9. 2^(l - k) = 2 * 2^((l - 1) - k) /\ 2^((l - 1) - k) \in Nat
        BY <4>1, Powers
      <4>10. \A x \in Int, y \in Nat : x * (2 * y) = 2 * (x * y)
        OBVIOUS
      <4> HIDE DEF W
      <4>11. QED BY <4>4, <4>6, <4>7, <4>8, <4>9, <4>10
    <3>3. QED BY <1>6, <2>5, <2>6, <3>1, <3>2
  <2> HIDE DEF W
  <2>9. W(i) % 65536 = W(i)
    BY <2>7
  <2>10. NextCode(h, sizes, i) = W(i)
    BY <2>4, <2>8, <2>9
  <2>11. QED BY <2>10 DEF W
<1>10. QED BY <1>2, <1>8, <1>9

(* These are the codes that build_huffcodes gives.                         *)
LEMMA CodesAre ==
  ASSUME NEW bits, NEW q, NEW c, Roomy(bits, q, c),
         \A i \in 1..MaxHuffBits : bits[i] \in Int /\ bits[i] >= 0,
         NEW sizes, sizes = build_huffsizes(bits)
  PROVE  /\ Placed(sizes, c)
         /\ DOMAIN build_huffcodes(sizes) = DOMAIN sizes
         /\ \A i \in DOMAIN sizes : build_huffcodes(sizes)[i] = CodeOf(sizes, q, c, i)
<1>1. Roomy(bits, q, c)
  OBVIOUS
<1>2. \A i \in 1..MaxHuffBits : bits[i] \in Int /\ bits[i] >= 0
  OBVIOUS
<1>3. Placed(sizes, c)
  BY <1>1, <1>2, SizesPlaced DEF Roomy
<1> DEFINE n == c[MaxHuffBits]
           W == [i \in 1..n |-> CodeOf(sizes, q, c, i)]
           f == CHOOSE h : AreCodes(h, sizes)
<1>4. DOMAIN sizes = 1..n /\ n \in Nat
  BY <1>3 DEF Placed
<1>5. ASSUME NEW i \in 1..n, NEW h, i > 1 => h[i - 1] = CodeOf(sizes, q, c, i - 1)
      PROVE  NextCode(h, sizes, i) = CodeOf(sizes, q, c, i)
  <2>1. i \in DOMAIN sizes
    BY <1>4
  <2>2. QED BY <1>1, <1>2, <1>3, <1>5, <2>1, CodeStep
<1> HIDE DEF n
<1>6. AreCodes(W, sizes)
  <2>1. ASSUME NEW i \in 1..n PROVE CodeOf(sizes, q, c, i) = NextCode(W, sizes, i)
    <3>1. i > 1 => i - 1 \in 1..n
      BY <1>4
    <3>2. i > 1 => W[i - 1] = CodeOf(sizes, q, c, i - 1)
      BY <3>1
    <3> HIDE DEF W
    <3>3. QED BY <1>5, <3>2
  <2>2. W = [i \in 1..n |-> NextCode(W, sizes, i)]
    BY <2>1
  <2> HIDE DEF W
  <2>3. QED BY <1>4, <2>2 DEF AreCodes
<1> HIDE DEF W
<1>7. AreCodes(f, sizes)
  BY <1>6
<1>8. build_huffcodes(sizes) = f
  BY Stricted DEF build_huffcodes, AreCodes, NextCode
<1> HIDE DEF f
<1>9. \A i \in 1..n : f[i] = NextCode(f, sizes, i)
  BY <1>4, <1>7 DEF AreCodes
<1> DEFINE T == {m \in Nat : m + 1 <= n => f[m + 1] = CodeOf(sizes, q, c, m + 1)}
<1>10. 0 \in T
  <2>1. SUFFICES ASSUME 1 <= n PROVE f[0 + 1] = CodeOf(sizes, q, c, 0 + 1)
    OBVIOUS
  <2>2. 1 \in 1..n /\ 0 + 1 = 1 /\ ~(1 > 1)
    BY <1>4, <2>1
  <2>3. f[1] = CodeOf(sizes, q, c, 1)
    BY <1>5, <1>9, <2>2
  <2>4. QED BY <2>2, <2>3
<1>11. ASSUME NEW m \in T PROVE m + 1 \in T
  <2>1. SUFFICES ASSUME (m + 1) + 1 <= n PROVE f[(m + 1) + 1] = CodeOf(sizes, q, c, (m + 1) + 1)
    OBVIOUS
  <2>2. m \in Nat /\ (m + 1) + 1 \in 1..n /\ ((m + 1) + 1) - 1 = m + 1 /\ m + 1 <= n
    BY <1>4, <2>1
  <2>3. f[((m + 1) + 1) - 1] = CodeOf(sizes, q, c, ((m + 1) + 1) - 1)
    BY <2>2
  <2>4. QED BY <1>5, <1>9, <2>2, <2>3
<1>12. T \in SUBSET Nat
  OBVIOUS
<1> HIDE DEF T
<1>13. T = Nat
  BY <1>10, <1>11, <1>12, SetInduction
<1>14. ASSUME NEW i \in 1..n PROVE f[i] = CodeOf(sizes, q, c, i)
  <2>1. i - 1 \in Nat /\ (i - 1) + 1 = i /\ (i - 1) + 1 <= n
    BY <1>4
  <2>2. QED BY <1>13, <2>1 DEF T
<1>15. DOMAIN f = DOMAIN sizes
  BY <1>7 DEF AreCodes
<1>16. QED BY <1>3, <1>4, <1>8, <1>14, <1>15

(* A code with room at each size has no code of ones only.                 *)
LEMMA NoneOfOnes ==
  ASSUME NEW bits, NEW K, Prefixed(bits, K)
  PROVE  check_huffcodes_wsq(build_huffsizes(bits))
<1> DEFINE sizes == build_huffsizes(bits)
<1>1. PICK q, c : Roomy(bits, q, c)
  BY DEF Prefixed
<1>2. \A i \in 1..MaxHuffBits : bits[i] \in Int /\ bits[i] >= 0
  BY MaxHuffBitsOK DEF Prefixed, Longer
<1>3. /\ Placed(sizes, c)
      /\ \A i \in DOMAIN sizes : build_huffcodes(sizes)[i] = CodeOf(sizes, q, c, i)
  BY <1>1, <1>2, CodesAre
<1> HIDE DEF sizes
<1>4. ASSUME NEW i \in DOMAIN sizes PROVE build_huffcodes(sizes)[i] # 2^sizes[i] - 1
  <2>1. build_huffcodes(sizes)[i] = CodeOf(sizes, q, c, i)
    BY <1>3
  <2>2. CodeOf(sizes, q, c, i) + 1 < 2^sizes[i] /\ CodeOf(sizes, q, c, i) \in Nat
    BY <1>1, <1>2, <1>3, CodesFit
  <2>3. sizes[i] \in Nat
    BY <1>3, MaxHuffBitsOK DEF Placed
  <2>4. 2^sizes[i] \in Nat
    BY <2>3, Powers
  <2>5. QED BY <2>1, <2>2, <2>4
<1>5. check_huffcodes_wsq(sizes)
  BY <1>4 DEF check_huffcodes_wsq, AllOnes
<1>6. QED BY <1>5 DEF sizes

-----------------------------------------------------------------------------
(* Tokens, and their counts.                                               *)

(* Tokens have a symbol of one byte, and neither 0 nor 255.                *)
TokenSet == [sym : 1..254, bits : Int, size : Int]

LEMMA CoefTokens == \A v \in Int : CoefToken(v) \in TokenSet
<1> SUFFICES ASSUME NEW v \in Int PROVE CoefToken(v) \in TokenSet
  OBVIOUS
<1> DEFINE a == v > 255
           b == v \in (MaxHuffCoeff + 1)..255
           c == v < -255
           d == v \in (-255)..(-MaxHuffCoeff)
<1>1. CoefToken(v) = CASE a -> Token(103, v, 16) [] b -> Token(101, v, 8)
                       [] c -> Token(104, -v, 16) [] d -> Token(102, -v, 8)
                       [] OTHER -> Token(v + 180, 0, 0)
  BY Zenon DEF CoefToken
<1>2. Token(103, v, 16) \in TokenSet /\ Token(101, v, 8) \in TokenSet
      /\ Token(104, -v, 16) \in TokenSet /\ Token(102, -v, 8) \in TokenSet
  BY DEF Token, TokenSet
<1>3. ~a /\ ~b /\ ~c /\ ~d => Token(v + 180, 0, 0) \in TokenSet
  BY DEF Token, TokenSet, MaxHuffCoeff
<1> HIDE DEF a, b, c, d
<1>4. CASE a \/ b \/ c \/ d
  <2> DEFINE r == CoefToken(v)
  <2>1. \/ r = Token(103, v, 16) \/ r = Token(101, v, 8)
        \/ r = Token(104, -v, 16) \/ r = Token(102, -v, 8)
    BY <1>1, <1>4
  <2>2. QED BY <1>2, <2>1
<1>5. CASE ~a /\ ~b /\ ~c /\ ~d
  BY <1>1, <1>3, <1>5
<1>6. QED BY <1>4, <1>5

LEMMA RunTokens ==
  ASSUME NEW n \in Int, n >= 1
  PROVE  RunToken(n) \in TokenSet
<1>1. CASE n <= 100
  <2>1. RunToken(n) = Token(n, 0, 0)
    BY <1>1 DEF RunToken, MaxHuffZRun
  <2>2. n \in 1..254
    BY <1>1
  <2>3. QED BY <2>1, <2>2 DEF Token, TokenSet
<1>2. CASE ~(n <= 100)
  <2>1. RunToken(n) = Token(105, n, 8) \/ RunToken(n) = Token(106, n, 16)
    BY <1>2 DEF RunToken, MaxHuffZRun
  <2>2. Token(105, n, 8) \in TokenSet /\ Token(106, n, 16) \in TokenSet
    BY DEF Token, TokenSet
  <2>3. QED BY <2>1, <2>2
<1>3. QED BY <1>1, <1>2

LEMMA Divided ==
  ASSUME NEW n \in Int, NEW m \in Int, m >= 1
  PROVE  n \div m \in Int /\ n % m \in Int /\ n % m >= 0 /\ n % m < m
OBVIOUS

(* The tokens of any length of a run.                                      *)
RunTokensIn(S) == \A r \in 1..MaxRun : RunToken(r) \in S

LEMMA Runs2 ==
  ASSUME NEW S, RunTokensIn(S), NEW n \in Int
  PROVE  Run(n) \in Seq(S)
<1> DEFINE k == n \div MaxRun
           r == n % MaxRun
           long == [i \in 1..k |-> RunToken(MaxRun)]
           short == IF r = 0 THEN <<>> ELSE <<RunToken(r)>>
<1>1. MaxRun \in Int /\ MaxRun >= 1 /\ MaxRun \in 1..MaxRun
  BY DEF MaxRun
<1>2. k \in Int /\ r \in Int /\ r >= 0 /\ r < MaxRun
  BY <1>1, Divided
<1>3. long \in Seq(S)
  <2>1. RunToken(MaxRun) \in S
    BY <1>1 DEF RunTokensIn
  <2> HIDE DEF k
  <2>2. CASE k >= 0
    BY <1>2, <2>1, <2>2
  <2>3. CASE k < 0
    <3>1. 1..k = 1..0
      BY <1>2, <2>3
    <3>2. long = [i \in 1..0 |-> RunToken(MaxRun)]
      BY <3>1
    <3>3. [i \in 1..0 |-> RunToken(MaxRun)] \in Seq(S)
      BY <2>1
    <3>4. QED BY <3>2, <3>3
  <2>4. QED BY <1>2, <2>2, <2>3
<1>4. short \in Seq(S)
  <2>1. CASE r = 0
    <3>1. short = <<>>
      BY <2>1
    <3>2. QED BY <3>1
  <2>2. CASE r # 0
    <3>1. r \in 1..MaxRun
      BY <1>1, <1>2, <2>2
    <3>2. RunToken(r) \in S
      BY <3>1 DEF RunTokensIn
    <3>3. short = <<RunToken(r)>>
      BY <2>2
    <3> HIDE DEF short, r
    <3>4. QED BY <3>2, <3>3
  <2>3. QED BY <2>1, <2>2
<1>5. Run(n) = long \o short
  BY DEF Run
<1> HIDE DEF long, short
<1>6. QED BY <1>3, <1>4, <1>5

(* The operators of sequences keep what the elements are.                  *)
LEMMA JoinedSeq ==
  ASSUME NEW S, NEW n, NEW seqs, Sequenced(seqs, n, S), n >= 1
  PROVE  Joined(seqs) \in Seq(S)
<1>1. PICK c : Offsets(c, seqs, n)
  BY OffsetsExist
<1>2. Joined(seqs) = Glued(c, seqs, n, 1, n)
  BY <1>1, JoinedIs
<1>3. n \in Nat /\ c[0] = 0 /\ \A i \in 0..n : c[i] \in Nat
  BY <1>1 DEF Sequenced, Offsets
<1>4. c[n] \in Nat
  BY <1>3
<1>5. Joined(seqs) = [k \in 1..c[n] |-> Nth(c, seqs, n, k)]
  <2>1. 1 - 1 = 0 /\ c[n] - 0 = c[n] /\ \A k \in Int : k + 0 = k
    BY <1>4
  <2>2. QED BY <1>2, <1>3, <2>1 DEF Glued
<1>6. ASSUME NEW k \in 1..c[n] PROVE Nth(c, seqs, n, k) \in S
  <2> DEFINE l == Piece(c, n, k)
  <2>1. l \in 1..n /\ c[l - 1] < k /\ k <= c[l]
    BY <1>1, PieceExists
  <2> HIDE DEF l
  <2>2. seqs[l] \in Seq(S) /\ c[l] = c[l - 1] + Len(seqs[l])
    BY <1>1, <2>1 DEF Sequenced, Offsets
  <2>3. l - 1 \in 0..n /\ l \in 0..n
    BY <1>3, <2>1
  <2>4. k - c[l - 1] \in 1..Len(seqs[l])
    BY <1>3, <2>1, <2>2, <2>3
  <2>5. seqs[l][k - c[l - 1]] \in S
    BY <2>2, <2>4
  <2>6. QED BY <2>5 DEF Nth, l
<1>7. QED BY <1>4, <1>5, <1>6

LEMMA ChosenIn ==
  ASSUME NEW S, NEW s \in Seq(S), NEW T
  PROVE  Chosen(s, T) \in Seq(T \cap S)
<1> DEFINE n == Len(s)
           IfIn(i) == IF s[i] \in T THEN <<s[i]>> ELSE <<>>
           seqs == [i \in DOMAIN s |-> IfIn(i)]
<1>1. DOMAIN s = 1..n /\ n \in Nat /\ \A i \in 1..n : s[i] \in S
  OBVIOUS
<1>2. ASSUME NEW i \in 1..n PROVE IfIn(i) \in Seq(T \cap S)
  <2>1. s[i] \in T => s[i] \in T \cap S
    BY <1>1
  <2>2. \A U : <<>> \in Seq(U) /\ \A x \in U : <<x>> \in Seq(U)
    OBVIOUS
  <2>3. <<>> \in Seq(T \cap S) /\ \A x \in T \cap S : <<x>> \in Seq(T \cap S)
    BY <2>2
  <2>4. CASE s[i] \in T
    BY <2>1, <2>3, <2>4
  <2>5. CASE s[i] \notin T
    BY <2>3, <2>5
  <2>6. QED BY <2>4, <2>5
<1> HIDE DEF IfIn
<1>3. seqs = [i \in 1..n |-> IfIn(i)] /\ Len(seqs) = n /\ DOMAIN seqs = 1..n
  BY <1>1
<1>4. Sequenced(seqs, n, T \cap S)
  BY <1>1, <1>2, <1>3 DEF Sequenced
<1>5. Chosen(s, T) = Joined(seqs)
  BY DEF Chosen, IfIn
<1>6. CASE n = 0
  <2>1. seqs = <<>>
    BY <1>3, <1>6
  <2>2. Joined(seqs) = <<>>
    BY <2>1 DEF Joined
  <2>3. QED BY <1>5, <2>2
<1>7. CASE n >= 1
  BY <1>4, <1>5, <1>7, JoinedSeq
<1>8. QED BY <1>1, <1>6, <1>7

(* Quantized data, and a block of them.                                    *)
Quantums == [at : Int, v : Int]
Data(d) == d.len \in Int /\ d.coefs \in Seq(Quantums)

(* A block of quantized data is tokens of its runs and its coefficients.   *)
CoefTokensIn(coefs, S) == \A i \in DOMAIN coefs : CoefToken(coefs[i].v) \in S

LEMMA TokensAreOf ==
  ASSUME NEW block, Data(block), NEW S, RunTokensIn(S), CoefTokensIn(block.coefs, S)
  PROVE  Tokens(block) \in Seq(S)
<1> DEFINE n == Len(block.coefs)
           Here(i) == IF i > n THEN block.len ELSE block.coefs[i].at
           Gap(i) == IF i = 1 THEN Here(i) ELSE Here(i) - block.coefs[i - 1].at - 1
           seqs == [i \in 1..(n + 1) |-> Run(Gap(i)) \o (IF i > n THEN <<>> ELSE <<CoefToken(block.coefs[i].v)>>)]
<1>0. block.coefs \in Seq(Quantums)
  BY DEF Data
<1>1. n \in Nat /\ DOMAIN block.coefs = 1..n
  BY <1>0
<1>2. \A i \in 1..n : block.coefs[i].at \in Int /\ block.coefs[i].v \in Int
  <2> SUFFICES ASSUME NEW i \in 1..n PROVE block.coefs[i].at \in Int /\ block.coefs[i].v \in Int
    OBVIOUS
  <2>1. block.coefs[i] \in Quantums
    BY <1>0
  <2>2. QED BY <2>1 DEF Quantums
<1>3. block.len \in Int
  BY DEF Data
<1>4. Tokens(block) = Joined(seqs)
  BY DEF Tokens
<1> HIDE DEF n
<1>5. ASSUME NEW i \in 1..(n + 1) PROVE seqs[i] \in Seq(S)
  <2> DEFINE g == Gap(i)
             last == IF i > n THEN <<>> ELSE <<CoefToken(block.coefs[i].v)>>
  <2>1. g \in Int
    <3>1. Here(i) \in Int
      BY <1>1, <1>2, <1>3
    <3>2. i # 1 => i - 1 \in 1..n
      BY <1>1
    <3>3. i # 1 => block.coefs[i - 1].at \in Int
      BY <1>2, <3>2
    <3> HIDE DEF Here
    <3>4. QED BY <3>1, <3>3
  <2>2. last \in Seq(S)
    <3>1. CASE i > n
      <4>1. last = <<>>
        BY <3>1
      <4>2. QED BY <4>1
    <3>2. CASE ~(i > n)
      <4>1. i \in 1..n
        BY <1>1, <3>2
      <4>2. CoefToken(block.coefs[i].v) \in S
        BY <1>1, <4>1 DEF CoefTokensIn
      <4>3. last = <<CoefToken(block.coefs[i].v)>>
        BY <3>2
      <4> HIDE DEF last
      <4>4. QED BY <4>2, <4>3
    <3>3. QED BY <3>1, <3>2
  <2>3. seqs[i] = Run(g) \o last
    OBVIOUS
  <2> HIDE DEF g, last, seqs
  <2>4. Run(g) \in Seq(S)
    BY <2>1, Runs2
  <2>5. QED BY <2>2, <2>3, <2>4
<1>6. Len(seqs) = n + 1 /\ DOMAIN seqs = 1..(n + 1) /\ n + 1 \in Nat /\ n + 1 >= 1
  BY <1>1
<1> HIDE DEF seqs
<1>7. Sequenced(seqs, n + 1, S)
  BY <1>5, <1>6 DEF Sequenced
<1>8. QED BY <1>4, <1>6, <1>7, JoinedSeq

LEMMA TokensIn ==
  ASSUME NEW block, Data(block)
  PROVE  Tokens(block) \in Seq(TokenSet)
<1>1. RunTokensIn(TokenSet)
  <2> SUFFICES ASSUME NEW r \in 1..MaxRun PROVE RunToken(r) \in TokenSet
    BY Zenon DEF RunTokensIn
  <2>1. r \in Int /\ r >= 1
    OBVIOUS
  <2>2. QED BY <2>1, RunTokens
<1>2. CoefTokensIn(block.coefs, TokenSet)
  <2> SUFFICES ASSUME NEW i \in DOMAIN block.coefs PROVE CoefToken(block.coefs[i].v) \in TokenSet
    BY DEF CoefTokensIn
  <2>1. block.coefs[i] \in Quantums
    BY DEF Data
  <2>2. block.coefs[i].v \in Int
    BY <2>1 DEF Quantums
  <2>3. QED BY <2>2, CoefTokens
<1>3. QED BY <1>1, <1>2, TokensAreOf

LEMMA BlockData ==
  ASSUME NEW sip, Data(sip), NEW from \in Int, NEW len \in Int
  PROVE  Data(Block(sip, from, len))
<1> DEFINE T == {c \in ToSet(sip.coefs) : from <= c.at /\ c.at < from + len}
           coefs == Chosen(sip.coefs, T)
           b == Block(sip, from, len)
<1>1. sip.coefs \in Seq(Quantums)
  BY DEF Data
<1> HIDE DEF T
<1>2. coefs \in Seq(T \cap Quantums)
  BY <1>1, ChosenIn
<1>3. b = [len |-> len, coefs |-> [i \in DOMAIN coefs |-> [coefs[i] EXCEPT !.at = @ - from]]]
  BY DEF Block, T
<1> HIDE DEF b, coefs
<1>4. b.len = len /\ b.coefs = [i \in DOMAIN coefs |-> [coefs[i] EXCEPT !.at = @ - from]]
  BY <1>3
<1>5. DOMAIN coefs = 1..Len(coefs) /\ Len(coefs) \in Nat
  BY <1>2
<1>6. ASSUME NEW i \in 1..Len(coefs) PROVE [coefs[i] EXCEPT !.at = @ - from] \in Quantums
  <2>1. coefs[i] \in Quantums
    BY <1>2, <1>5
  <2>2. QED BY <2>1 DEF Quantums
<1>7. b.coefs \in Seq(Quantums)
  BY <1>4, <1>5, <1>6
<1>8. QED BY <1>4, <1>7 DEF b, Data

(* The symbols of a sequence of tokens are counted, the reserved one once. *)
Tallied(counts) ==
  /\ Countable(counts, Reserved) /\ Reserved \in DOMAIN counts /\ counts[Reserved] = 1
  /\ DOMAIN counts \ {Reserved} \in SUBSET (1..254)
  /\ \A s \in DOMAIN counts : counts[s] >= 1

(* count_block makes such counts.                                          *)
LEMMA CountsOk ==
  ASSUME NEW tokens \in Seq(TokenSet)
  PROVE  Tallied(count_block(tokens))
<1> DEFINE used == {tokens[i].sym : i \in DOMAIN tokens}
           Spots(s) == {i \in DOMAIN tokens : tokens[i].sym = s}
           counts == [s \in used \cup {Reserved} |-> IF s = Reserved THEN 1 ELSE Cardinality(Spots(s))]
<1>1. count_block(tokens) = counts
  BY Stricted DEF count_block
<1>2. DOMAIN tokens = 1..Len(tokens) /\ Len(tokens) \in Nat
  OBVIOUS
<1>3. used \in SUBSET (1..254)
  <2> SUFFICES ASSUME NEW i \in DOMAIN tokens PROVE tokens[i].sym \in 1..254
    OBVIOUS
  <2>1. tokens[i] \in TokenSet
    OBVIOUS
  <2>2. QED BY <2>1 DEF TokenSet
<1>4. Reserved \in Nat /\ Reserved = 256
  BY DEF Reserved
<1>5. DOMAIN counts = used \cup {Reserved} /\ Reserved \notin used
  <2>1. DOMAIN counts = used \cup {Reserved}
    OBVIOUS
  <2> HIDE DEF used
  <2>2. QED BY <1>3, <1>4, <2>1
<1>6. ASSUME NEW s \in used PROVE Cardinality(Spots(s)) \in Nat /\ Cardinality(Spots(s)) >= 1
  <2>1. Spots(s) \in SUBSET (1..Len(tokens))
    BY <1>2
  <2>2. Spots(s) # {}
    OBVIOUS
  <2>3. IsFiniteSet(1..Len(tokens))
    BY <1>2, FS_Interval
  <2> HIDE DEF Spots
  <2>4. IsFiniteSet(Spots(s))
    BY <2>1, <2>3, FS_Subset
  <2>5. Cardinality(Spots(s)) \in Nat /\ Cardinality(Spots(s)) # 0
    BY <2>2, <2>4, FS_CardinalityType, FS_EmptySet
  <2>6. QED BY <2>5
<1>7. \A s \in used : counts[s] = Cardinality(Spots(s))
  BY <1>5
<1>8. counts[Reserved] = 1
  OBVIOUS
<1> HIDE DEF counts, Spots, used
<1>9. \A s \in DOMAIN counts : counts[s] \in Nat /\ counts[s] >= 1
  BY <1>5, <1>6, <1>7, <1>8
<1>10. DOMAIN counts \in SUBSET (0..Reserved) /\ DOMAIN counts # {}
  BY <1>3, <1>4, <1>5
<1>11. Countable(counts, Reserved)
  BY <1>4, <1>9, <1>10 DEF Countable
<1>12. DOMAIN counts \ {Reserved} \in SUBSET (1..254)
  BY <1>3, <1>5
<1>13. Reserved \in DOMAIN counts
  BY <1>5
<1>14. Tallied(counts)
  BY <1>8, <1>9, <1>11, <1>12, <1>13, Zenon DEF Tallied
<1>15. QED BY <1>1, <1>14

(* What the table that is made from tokens is made of.                     *)
LEMMA TableCode ==
  ASSUME NEW tokens \in Seq(TokenSet), NEW counts, counts = count_block(tokens),
         NEW size, size = find_huff_sizes(counts), size[Reserved] <= Longer
  PROVE  /\ Complete(size, DOMAIN counts, size[Reserved])
         /\ Prefixed(Limited(size), Cardinality(DOMAIN counts \ {Reserved}))
         /\ gen_hufftable_wsq(tokens) = HuffTable(Limited(size), sort_code_sizes(size))
<1> DEFINE D == DOMAIN counts
<1>1. Tallied(counts)
  BY CountsOk
<1>2. Complete(size, D, size[Reserved])
  BY <1>1, SizesComplete DEF Tallied
<1>3. Cardinality(D \ {Reserved}) <= 255
  <2>1. IsFiniteSet(1..254) /\ Cardinality(1..254) = 254
    <3>1. 1 \in Int /\ 254 \in Int
      OBVIOUS
    <3>2. IsFiniteSet(1..254) /\ Cardinality(1..254) = IF 1 > 254 THEN 0 ELSE 254 - 1 + 1
      BY <3>1, FS_Interval
    <3>3. QED BY <3>2
  <2>2. D \ {Reserved} \in SUBSET (1..254)
    BY <1>1 DEF Tallied
  <2>3. Cardinality(D \ {Reserved}) <= Cardinality(1..254) /\ IsFiniteSet(D \ {Reserved})
    BY <2>1, <2>2, FS_Subset
  <2>4. Cardinality(D \ {Reserved}) \in Nat
    BY <2>3, FS_CardinalityType
  <2>5. QED BY <2>1, <2>3, <2>4
<1>4. gen_hufftable_wsq(tokens) = HuffTable(Limited(size), sort_code_sizes(size))
  BY Zenon DEF gen_hufftable_wsq, Sized
<1> HIDE DEF D
<1>5. Prefixed(Limited(size), Cardinality(D \ {Reserved}))
  BY <1>2, <1>3, LimitedPrefixed
<1>6. QED BY <1>2, <1>4, <1>5 DEF D

(* A table made from tokens has no code of ones only.                      *)
LEMMA TableSound ==
  ASSUME NEW tokens \in Seq(TokenSet),
         find_huff_sizes(count_block(tokens))[Reserved] <= Longer
  PROVE  gen_hufftable_wsq(tokens).ok = TRUE
<1> DEFINE counts == count_block(tokens)
           size == find_huff_sizes(counts)
           bits == Limited(size)
           values == sort_code_sizes(size)
<1>1. \E K : Prefixed(bits, K)
  BY TableCode
<1>2. gen_hufftable_wsq(tokens) = HuffTable(bits, values)
  BY TableCode
<1> HIDE DEF bits, values
<1>3. check_huffcodes_wsq(build_huffsizes(bits))
  BY <1>1, NoneOfOnes
<1>4. HuffTable(bits, values).ok = check_huffcodes_wsq(build_huffsizes(bits))
  BY DEF HuffTable
<1>5. check_huffcodes_wsq(build_huffsizes(bits)) \in BOOLEAN
  BY Zenon DEF check_huffcodes_wsq
<1>6. QED BY <1>2, <1>3, <1>4, <1>5

-----------------------------------------------------------------------------
(* The three blocks and the bands.                                         *)

(* Every region is a box.                                                  *)
LEMMA RegionBoxes ==
  ASSUME NEW w \in Nat \ {0}, NEW h \in Nat \ {0}, NEW k \in 0..80
  PROVE  Region(w, h, k) \in Boxes
<1> DEFINE S == {i \in Nat : i <= 20 => Tiled(w, h, i)}
<1>1. 0 \in S
  BY TiledFirst
<1>2. ASSUME NEW i \in S PROVE i + 1 \in S
  <2>1. SUFFICES ASSUME i + 1 <= 20 PROVE Tiled(w, h, i + 1)
    OBVIOUS
  <2>2. i \in 0..19 /\ Tiled(w, h, i)
    BY <2>1
  <2>3. QED BY <2>2, TiledNext
<1>3. S \in SUBSET Nat
  OBVIOUS
<1> HIDE DEF S
<1>4. S = Nat
  BY <1>1, <1>2, <1>3, SetInduction
<1>5. Born(k) \in 0..20 /\ (k \in 1..19 => Born(k) <= k) /\ (k = 0 => Born(k) = 0)
  <2>1. k = 0 => Born(k) = 0
    BY DEF Born
  <2>2. Born(k) \in 0..20 /\ (k \in 1..19 => Born(k) <= k)
    BY BornBetween
  <2>3. QED BY <2>1, <2>2
<1>6. k \in Pieces(Born(k))
  BY <1>5 DEF Pieces
<1>7. Tiled(w, h, Born(k))
  BY <1>4, <1>5 DEF S
<1>8. QED BY <1>6, <1>7 DEF Tiled

(* The pixels of a region: those of what it is split into.                 *)
Pixels(w, h, k) == Area(Region(w, h, k))
QuarterPixels(w, h, i) ==
  Pixels(w, h, i) = Pixels(w, h, Children[i + 1][1]) + Pixels(w, h, Children[i + 1][2])
                  + Pixels(w, h, Children[i + 1][3]) + Pixels(w, h, Children[i + 1][4])

LEMMA PixelsNat ==
  ASSUME NEW w \in Nat \ {0}, NEW h \in Nat \ {0}, NEW k \in 0..80
  PROVE  Pixels(w, h, k) \in Nat
<1>1. Region(w, h, k).lenx \in Nat /\ Region(w, h, k).leny \in Nat
  BY RegionBoxes DEF Boxes
<1>2. \A m, n \in Nat : m * n \in Nat
  OBVIOUS
<1>3. QED BY <1>1, <1>2 DEF Pixels, Area

LEMMA PixelsSplit ==
  ASSUME NEW w \in Nat \ {0}, NEW h \in Nat \ {0}, NEW i \in 0..19
  PROVE  QuarterPixels(w, h, i)
<1> DEFINE b == Region(w, h, i)
           fx == First(b.lenx, i \in InvertedRows)
           fy == First(b.leny, i \in InvertedCols)
           part(k) == Quarters(b, fx, fy)[k]
<1>1. b.lenx \in Nat /\ b.leny \in Nat
  <2>1. i \in 0..80
    OBVIOUS
  <2>2. Region(w, h, i) \in Boxes
    BY <2>1, RegionBoxes
  <2>3. QED BY <2>2 DEF Boxes
<1>2. \A k \in 1..4 : Region(w, h, Children[i + 1][k]) = part(k)
  BY ChildrenAreQuarters DEF SplitOf
<1> HIDE DEF b
<1>3. fx \in Int /\ fy \in Int
  BY <1>1 DEF First, Lo, Hi
<1> HIDE DEF fx, fy
<1>4. \A k \in 1..4 : QuarterIs(part(k), k, b, fx, fy)
  BY Quarter
<1> HIDE DEF part
<1>5. /\ Area(part(1)) = fx * fy /\ Area(part(2)) = (b.lenx - fx) * fy
      /\ Area(part(3)) = fx * (b.leny - fy) /\ Area(part(4)) = (b.lenx - fx) * (b.leny - fy)
  BY <1>4 DEF QuarterIs, Area
<1>6. \A p, q, x, y \in Int : p * q = x * y + (p - x) * y + x * (q - y) + (p - x) * (q - y)
  OBVIOUS
<1>7. Area(b) = Area(part(1)) + Area(part(2)) + Area(part(3)) + Area(part(4))
  BY <1>1, <1>3, <1>5, <1>6 DEF Area
<1>8. QED BY <1>2, <1>7 DEF QuarterPixels, Pixels, b

(* The pixels of the bands, those of the first n of them in a row.         *)
BandPixels(w, h) == [n \in 0..59 |-> Pixels(w, h, n + 20)]
Upon(f, n) == Mass(f, 0..(n - 1))

(* They are naturals, and add up four by four, as a region is split.       *)
LEMMA BandsNat ==
  ASSUME NEW w \in Nat \ {0}, NEW h \in Nat \ {0}
  PROVE  \A m \in 0..59 : /\ BandPixels(w, h)[m] = Pixels(w, h, m + 20)
                         /\ BandPixels(w, h)[m] \in Nat
<1> SUFFICES ASSUME NEW m \in 0..59
             PROVE  /\ BandPixels(w, h)[m] = Pixels(w, h, m + 20)
                    /\ BandPixels(w, h)[m] \in Nat
  OBVIOUS
<1>1. m + 20 \in 0..80
  OBVIOUS
<1>2. Pixels(w, h, m + 20) \in Nat
  BY <1>1, PixelsNat
<1>3. QED BY <1>2 DEF BandPixels

LEMMA UponNext ==
  ASSUME NEW f, \A n \in 0..59 : f[n] \in Nat, NEW n \in 0..59
  PROVE  Upon(f, n) \in Nat /\ Upon(f, n + 1) = Upon(f, n) + f[n]
<1>1. IsFiniteSet(0..(n - 1))
  BY FS_Interval
<1>2. Weighed(f, 0..(n - 1))
  <2>1. \A m \in 0..(n - 1) : m \in 0..59
    OBVIOUS
  <2>2. QED BY <1>1, <2>1 DEF Weighed
<1>3. 0..((n + 1) - 1) = (0..(n - 1)) \cup {n} /\ n \notin 0..(n - 1)
  OBVIOUS
<1>4. Mass(f, 0..(n - 1)) \in Nat
  BY <1>2, MassFinite
<1>5. f[n] \in Nat
  OBVIOUS
<1>6. Mass(f, (0..(n - 1)) \cup {n}) = Mass(f, 0..(n - 1)) + f[n]
  BY <1>2, <1>3, <1>5, MassGrows
<1>7. QED BY <1>3, <1>4, <1>6 DEF Upon

FourMore(f, n) == Upon(f, n + 4) = Upon(f, n) + f[n] + f[n + 1] + f[n + 2] + f[n + 3]

LEMMA UponFour ==
  ASSUME NEW f, \A n \in 0..59 : f[n] \in Nat, NEW n \in 0..56
  PROVE  FourMore(f, n)
<1>1. n \in 0..59 /\ n + 1 \in 0..59 /\ n + 2 \in 0..59 /\ n + 3 \in 0..59
  OBVIOUS
<1>2. f[n] \in Nat /\ f[n + 1] \in Nat /\ f[n + 2] \in Nat /\ f[n + 3] \in Nat
  BY <1>1
<1>3. Upon(f, n) \in Nat /\ Upon(f, n + 1) = Upon(f, n) + f[n]
  BY <1>1, UponNext
<1>4. Upon(f, (n + 1) + 1) = Upon(f, n + 1) + f[n + 1]
  BY <1>1, UponNext
<1>5. Upon(f, (n + 2) + 1) = Upon(f, n + 2) + f[n + 2]
  BY <1>1, UponNext
<1>6. Upon(f, (n + 3) + 1) = Upon(f, n + 3) + f[n + 3]
  BY <1>1, UponNext
<1>7. (n + 1) + 1 = n + 2 /\ (n + 2) + 1 = n + 3 /\ (n + 3) + 1 = n + 4
  OBVIOUS
<1>8. QED BY <1>2, <1>3, <1>4, <1>5, <1>6, <1>7 DEF FourMore

(* A node split into four bands in a row.                                  *)
Row4(w, h, i, n) == Upon(BandPixels(w, h), n + 4) = Upon(BandPixels(w, h), n) + Pixels(w, h, i)

LEMMA RowIs ==
  ASSUME NEW w \in Nat \ {0}, NEW h \in Nat \ {0}, NEW i \in 0..19, NEW n \in 0..56,
         \A k \in 1..4 : Children[i + 1][k] = n + 19 + k
  PROVE  Row4(w, h, i, n)
<1> DEFINE f == BandPixels(w, h)
<1>1. \A m \in 0..59 : f[m] \in Nat /\ f[m] = Pixels(w, h, m + 20)
  BY BandsNat
<1> HIDE DEF f
<1>2. FourMore(f, n)
  BY <1>1, UponFour
<1>3. n \in 0..59 /\ n + 1 \in 0..59 /\ n + 2 \in 0..59 /\ n + 3 \in 0..59
  OBVIOUS
<1>4. /\ f[n] = Pixels(w, h, n + 20) /\ f[n + 1] = Pixels(w, h, (n + 1) + 20)
      /\ f[n + 2] = Pixels(w, h, (n + 2) + 20) /\ f[n + 3] = Pixels(w, h, (n + 3) + 20)
  BY <1>1, <1>3
<1>5. /\ Children[i + 1][1] = n + 20 /\ Children[i + 1][2] = (n + 1) + 20
      /\ Children[i + 1][3] = (n + 2) + 20 /\ Children[i + 1][4] = (n + 3) + 20
  OBVIOUS
<1>6. QuarterPixels(w, h, i)
  BY PixelsSplit
<1>7. Pixels(w, h, i) = f[n] + f[n + 1] + f[n + 2] + f[n + 3]
  BY <1>4, <1>5, <1>6 DEF QuarterPixels
<1>8. f[n] \in Nat /\ f[n + 1] \in Nat /\ f[n + 2] \in Nat /\ f[n + 3] \in Nat /\ Upon(f, n) \in Nat
  BY <1>1, <1>3, UponNext
<1>9. QED BY <1>2, <1>7, <1>8 DEF Row4, FourMore, f

(* The first block has the bands 0..18, the second 19..51, the third 52..59. *)
Blocks3(w, h) ==
  /\ Upon(BandPixels(w, h), 19) = Pixels(w, h, 14)
  /\ Upon(BandPixels(w, h), 52) - Upon(BandPixels(w, h), 19)
       = Pixels(w, h, 4) + Pixels(w, h, 5) + Pixels(w, h, 71)
  /\ Upon(BandPixels(w, h), 60) - Upon(BandPixels(w, h), 52) = Pixels(w, h, 2) + Pixels(w, h, 3)

(* The three blocks of quant_block_sizes are the bands 0..18, 19..51 and   *)
(* 52..59.                                                                 *)
LEMMA BlocksOfBands ==
  ASSUME NEW w \in Nat \ {0}, NEW h \in Nat \ {0}
  PROVE  Blocks3(w, h)
<1> DEFINE f == BandPixels(w, h)
           A(n) == Upon(f, n)
           P(k) == Pixels(w, h, k)
<1>1. \A m \in 0..59 : f[m] \in Nat /\ f[m] = P(m + 20)
  BY BandsNat
<1>2. \A k \in 0..80 : P(k) \in Nat
  BY PixelsNat
<1>3. /\ Row4(w, h, 19, 0) /\ Row4(w, h, 16, 7) /\ Row4(w, h, 17, 11) /\ Row4(w, h, 18, 15)
      /\ Row4(w, h, 6, 19) /\ Row4(w, h, 7, 23) /\ Row4(w, h, 8, 27) /\ Row4(w, h, 9, 31)
      /\ Row4(w, h, 10, 35) /\ Row4(w, h, 11, 39) /\ Row4(w, h, 12, 43) /\ Row4(w, h, 13, 47)
      /\ Row4(w, h, 2, 52) /\ Row4(w, h, 3, 56)
  <2>1. \A k \in 1..4 : /\ Children[20][k] = 0 + 19 + k /\ Children[17][k] = 7 + 19 + k
                        /\ Children[18][k] = 11 + 19 + k /\ Children[19][k] = 15 + 19 + k
                        /\ Children[7][k] = 19 + 19 + k /\ Children[8][k] = 23 + 19 + k
                        /\ Children[9][k] = 27 + 19 + k /\ Children[10][k] = 31 + 19 + k
                        /\ Children[11][k] = 35 + 19 + k /\ Children[12][k] = 39 + 19 + k
                        /\ Children[13][k] = 43 + 19 + k /\ Children[14][k] = 47 + 19 + k
                        /\ Children[3][k] = 52 + 19 + k /\ Children[4][k] = 56 + 19 + k
    BY DEF Children
  <2>2. ASSUME NEW i \in 0..19, NEW n \in 0..56, \A k \in 1..4 : Children[i + 1][k] = n + 19 + k
        PROVE  Row4(w, h, i, n)
    BY <2>2, RowIs
  <2> DEFINE Fits(i, n) == \A k \in 1..4 : Children[i + 1][k] = n + 19 + k
  <2>3. /\ Fits(19, 0) /\ Fits(16, 7) /\ Fits(17, 11) /\ Fits(18, 15) /\ Fits(6, 19) /\ Fits(7, 23)
        /\ Fits(8, 27) /\ Fits(9, 31) /\ Fits(10, 35) /\ Fits(11, 39) /\ Fits(12, 43) /\ Fits(13, 47)
        /\ Fits(2, 52) /\ Fits(3, 56)
    BY <2>1
  <2>4. \A i \in 0..19, n \in 0..56 : Fits(i, n) => Row4(w, h, i, n)
    BY <2>2
  <2> HIDE DEF Fits
  <2>5. QED BY <2>3, <2>4
<1>4. /\ A(4) = A(0) + P(19) /\ A(11) = A(7) + P(16) /\ A(15) = A(11) + P(17) /\ A(19) = A(15) + P(18)
      /\ A(23) = A(19) + P(6) /\ A(27) = A(23) + P(7) /\ A(31) = A(27) + P(8) /\ A(35) = A(31) + P(9)
      /\ A(39) = A(35) + P(10) /\ A(43) = A(39) + P(11) /\ A(47) = A(43) + P(12)
      /\ A(51) = A(47) + P(13) /\ A(56) = A(52) + P(2) /\ A(60) = A(56) + P(3)
  BY <1>3 DEF Row4
<1>5. A(5) = A(4) + P(24) /\ A(6) = A(5) + P(25) /\ A(7) = A(6) + P(26) /\ A(52) = A(51) + P(71)
  <2>1. ASSUME NEW n \in 0..59 PROVE A(n + 1) = A(n) + P(n + 20)
    <3>1. f[n] = P(n + 20) /\ \A m \in 0..59 : f[m] \in Nat
      BY <1>1
    <3> HIDE DEF f, P
    <3>2. QED BY <3>1, UponNext
  <2> HIDE DEF A, P
  <2>2. A(4 + 1) = A(4) + P(4 + 20) /\ A(5 + 1) = A(5) + P(5 + 20) /\ A(6 + 1) = A(6) + P(6 + 20)
        /\ A(51 + 1) = A(51) + P(51 + 20)
    BY <2>1
  <2>3. QED BY <2>2
<1>6. \A n \in 0..59 : A(n) \in Nat
  <2> HIDE DEF f
  <2>1. QED BY <1>1, UponNext
<1>7. A(0) = 0
  <2>1. 0..(0 - 1) = {}
    OBVIOUS
  <2>2. QED BY <2>1, MassEmpty DEF Upon
<1>8. /\ P(15) = P(19) + P(24) + P(25) + P(26) /\ P(14) = P(15) + P(16) + P(17) + P(18)
      /\ P(4) = P(6) + P(7) + P(8) + P(9) /\ P(5) = P(10) + P(11) + P(12) + P(13)
  <2>1. QuarterPixels(w, h, 15) /\ QuarterPixels(w, h, 14) /\ QuarterPixels(w, h, 4) /\ QuarterPixels(w, h, 5)
    BY PixelsSplit
  <2>2. /\ Children[16] = <<19, 24, 25, 26>> /\ Children[15] = <<15, 16, 17, 18>>
        /\ Children[5] = <<6, 7, 8, 9>> /\ Children[6] = <<10, 11, 12, 13>>
    BY DEF Children
  <2>3. QED BY <2>1, <2>2 DEF QuarterPixels
<1>9. /\ P(2) \in Nat /\ P(3) \in Nat /\ P(4) \in Nat /\ P(5) \in Nat /\ P(6) \in Nat /\ P(7) \in Nat
      /\ P(8) \in Nat /\ P(9) \in Nat /\ P(10) \in Nat /\ P(11) \in Nat /\ P(12) \in Nat /\ P(13) \in Nat
      /\ P(14) \in Nat /\ P(15) \in Nat /\ P(16) \in Nat /\ P(17) \in Nat /\ P(18) \in Nat /\ P(19) \in Nat
      /\ P(24) \in Nat /\ P(25) \in Nat /\ P(26) \in Nat /\ P(71) \in Nat
  BY <1>2
<1> HIDE DEF A, P
<1>10. A(19) = P(14)
  BY <1>4, <1>5, <1>7, <1>8, <1>9
<1>11. A(19) \in Nat /\ A(52) \in Nat
  BY <1>6
<1>12. A(52) - A(19) = P(4) + P(5) + P(71)
  BY <1>4, <1>5, <1>8, <1>9, <1>11
<1>13. A(60) - A(52) = P(2) + P(3)
  BY <1>4, <1>9, <1>11
<1>14. QED BY <1>10, <1>12, <1>13 DEF Blocks3, A, P, f

(* q has the areas f, where S is.                                          *)
AreasOn(q, f, S) == \A n \in S : Area(q[n]) = f[n] /\ f[n] \in Nat

(* Sums over such areas are sums of the pixels: those of the bands that    *)
(* are kept before a band, and in a row of bands.                          *)
LEMMA TotalIs ==
  ASSUME NEW q, NEW f, NEW S \in SUBSET (0..59), AreasOn(q, f, S)
  PROVE  /\ FoldFunction(+, 0, [n \in S |-> Area(q[n])]) = Mass(f, S)
         /\ Weighed(f, S)
<1> DEFINE g == [n \in S |-> Area(q[n])]
<1>1. IsFiniteSet(S)
  <2>1. IsFiniteSet(0..59)
    <3>1. 0 \in Int /\ 59 \in Int
      OBVIOUS
    <3>2. QED BY <3>1, FS_Interval
  <2>2. QED BY <2>1, FS_Subset
<1>2. DOMAIN g = S /\ \A n \in S : g[n] = f[n] /\ g[n] \in Nat
  BY DEF AreasOn
<1> HIDE DEF g
<1>3. Weighed(g, DOMAIN g) /\ Weighed(f, S)
  BY <1>1, <1>2 DEF Weighed
<1>4. FoldFunction(+, 0, g) = Mass(g, DOMAIN g)
  BY <1>3, Folded
<1>5. Mass(g, S) = Mass(f, S)
  BY <1>2, MassSame
<1>6. FoldFunction(+, 0, g) = Mass(f, S)
  BY <1>2, <1>4, <1>5
<1>7. QED BY <1>3, <1>6 DEF g

LEMMA StartIs ==
  ASSUME NEW q, NEW f, NEW kept, DOMAIN kept \in SUBSET (0..59), AreasOn(q, f, 0..59), NEW band \in Int
  PROVE  /\ Start(kept, q, band) = Mass(f, {n \in DOMAIN kept : n < band})
         /\ Start(kept, q, band) \in Nat
<1> DEFINE S == {n \in DOMAIN kept : n < band}
<1>1. S \in SUBSET (0..59)
  OBVIOUS
<1>2. Start(kept, q, band) = FoldFunction(+, 0, [n \in S |-> Area(q[n])])
  BY DEF Start, Total
<1> HIDE DEF S
<1>3. AreasOn(q, f, S)
  BY <1>1 DEF AreasOn
<1>4. Start(kept, q, band) = Mass(f, S) /\ Weighed(f, S)
  BY <1>1, <1>2, <1>3, TotalIs
<1>5. Mass(f, S) \in Nat
  BY <1>4, MassFinite
<1>6. QED BY <1>4, <1>5 DEF S

(* What is kept and what is lost of a part of the bands.                   *)
KeptAndLost(q, f, kept, first, next) ==
  LET S == first..(next - 1)
  IN  /\ FoldFunction(+, 0, [n \in S \ DOMAIN kept |-> Area(q[n])]) \in Nat
      /\ Upon(f, next) - Upon(f, first)
           = Mass(f, S \cap DOMAIN kept) + FoldFunction(+, 0, [n \in S \ DOMAIN kept |-> Area(q[n])])
      /\ Mass(f, S \cap DOMAIN kept) \in Nat /\ Weighed(f, S \cap DOMAIN kept)
      /\ Upon(f, next) \in Nat /\ Upon(f, first) \in Nat

LEMMA PartsOf ==
  ASSUME NEW q, NEW f, NEW kept, DOMAIN kept \in SUBSET (0..59), AreasOn(q, f, 0..59),
         NEW first \in Nat, NEW next \in Nat, first <= next, next <= 60
  PROVE  KeptAndLost(q, f, kept, first, next)
<1> DEFINE S == first..(next - 1)
           K == S \cap DOMAIN kept
           L == S \ DOMAIN kept
           lost == FoldFunction(+, 0, [n \in L |-> Area(q[n])])
<1>1. S \in SUBSET (0..59) /\ 0..(first - 1) \in SUBSET (0..59) /\ 0..(next - 1) \in SUBSET (0..59)
  OBVIOUS
<1>2. 0..(next - 1) = (0..(first - 1)) \cup S /\ (0..(first - 1)) \cap S = {}
  OBVIOUS
<1> HIDE DEF S
<1>3. K \in SUBSET S /\ S \ K = L /\ L \in SUBSET (0..59)
  BY <1>1
<1>4. ASSUME NEW T \in SUBSET (0..59) PROVE Weighed(f, T) /\ Mass(f, T) \in Nat
  <2>1. AreasOn(q, f, T)
    BY DEF AreasOn
  <2>2. Weighed(f, T)
    BY <2>1, TotalIs
  <2>3. QED BY <2>2, MassFinite
<1> HIDE DEF K, L
<1>5. lost = Mass(f, L)
  <2>1. AreasOn(q, f, L)
    BY <1>3 DEF AreasOn
  <2>2. QED BY <1>3, <2>1, TotalIs
<1> HIDE DEF lost
<1>6. Mass(f, S) = Mass(f, K) + Mass(f, L)
  <2>1. Weighed(f, S)
    BY <1>1, <1>4
  <2>2. Mass(f, S) = Mass(f, K) + Mass(f, S \ K)
    BY <1>3, <2>1, MassPart
  <2>3. QED BY <1>3, <2>2
<1>7. Upon(f, next) = Upon(f, first) + Mass(f, S)
  <2>1. Weighed(f, 0..(first - 1)) /\ Weighed(f, S)
    BY <1>1, <1>4
  <2> DEFINE R == 0..(first - 1)
  <2>2. R \cap S = {} /\ 0..(next - 1) = R \cup S /\ Weighed(f, R)
    BY <1>2, <2>1
  <2>3. Upon(f, next) = Mass(f, R \cup S) /\ Upon(f, first) = Mass(f, R)
    BY <2>2 DEF Upon
  <2> HIDE DEF R
  <2>4. Mass(f, R \cup S) = Mass(f, R) + Mass(f, S)
    BY <2>1, <2>2, MassUnion
  <2>5. QED BY <2>3, <2>4
<1>8. Upon(f, next) \in Nat /\ Upon(f, first) \in Nat /\ Mass(f, S) \in Nat
  BY <1>1, <1>4 DEF Upon
<1>9. K \in SUBSET (0..59)
  BY <1>1, <1>3
<1>10. Mass(f, K) \in Nat /\ Weighed(f, K) /\ Mass(f, L) \in Nat
  BY <1>3, <1>4, <1>9
<1>11. Upon(f, next) - Upon(f, first) = Mass(f, K) + lost
  BY <1>5, <1>6, <1>7, <1>8, <1>10
<1>12. lost \in Nat
  BY <1>5, <1>10
<1>13. QED BY <1>8, <1>10, <1>11, <1>12, Zenon DEF KeptAndLost, K, L, S, lost

-----------------------------------------------------------------------------
(* The trees as they are stored have these areas when no side overflows a  *)
(* short.                                                                  *)
LEMMA StoredAreas ==
  ASSUME NEW w \in Nat \ {0}, NEW h \in Nat \ {0}, Short16(w, h)
  PROVE  AreasOn(build_wsq_trees(w, h).q_tree, BandPixels(w, h), 0..59)
<1> DEFINE q == build_wsq_trees(w, h).q_tree
           f == BandPixels(w, h)
<1>1. ASSUME NEW n \in 0..59 PROVE Area(q[n]) = f[n] /\ f[n] \in Nat
  <2>1. q[n] = Region(w, h, n + 20)
    BY StoredBands
  <2>2. f[n] = Pixels(w, h, n + 20) /\ f[n] \in Nat
    BY BandsNat
  <2> HIDE DEF q, f
  <2>3. QED BY <2>1, <2>2 DEF Pixels
<1> HIDE DEF q, f
<1>2. QED BY <1>1 DEF AreasOn, q, f

(* The nodes of the blocks, by their areas.                                *)
NodeAreas(t, w, h) ==
  /\ Area(t[14]) = Pixels(w, h, 14) /\ Area(t[4]) = Pixels(w, h, 4)
  /\ Area(t[2]) = Pixels(w, h, 2) /\ Area(t[3]) = Pixels(w, h, 3)
  /\ t[5].leny * t[1].lenx = Pixels(w, h, 5) + Pixels(w, h, 71)

LEMMA NodeAreasAre ==
  ASSUME NEW w \in Nat \ {0}, NEW h \in Nat \ {0}
  PROVE  NodeAreas(build_w_tree(w, h), w, h)
<1> DEFINE t == build_w_tree(w, h)
           a == Lo(w)
           b == Lo(h)
<1>1. \A k \in 0..19 : Pixels(w, h, k) = Area(t[k])
  BY DEF Pixels, Region
<1>2. /\ t[1] = Box(0, 0, a, b)
      /\ t[5] = Box(0, Lo(b), Lo(a), Hi(b))
  BY NodesOf
<1>3. a \in Nat /\ b \in Nat /\ Lo(a) \in Int /\ Lo(b) \in Int /\ Hi(b) \in Int /\ b - Lo(b) = Hi(b)
  BY DEF Lo, Hi
<1> HIDE DEF t, a, b
<1>4. Region(w, h, 71) = SplitOf(1, t[1])[4]
  <2>1. Region(w, h, Children[1 + 1][4]) = SplitOf(1, Region(w, h, 1))[4]
    <3>1. w \in Nat /\ h \in Nat /\ 1 \in 0..19 /\ 4 \in 1..4
      OBVIOUS
    <3>2. QED BY <3>1, ChildrenAreQuarters
  <2>2. Children[1 + 1][4] = 71
    BY DEF Children
  <2>3. Region(w, h, 1) = t[1]
    BY DEF Region, t
  <2>4. QED BY <2>1, <2>2, <2>3
<1>5. SplitOf(1, t[1]) = Quarters(t[1], Lo(a), Lo(b))
  <2>1. 1 \notin InvertedRows /\ 1 \notin InvertedCols
    BY DEF InvertedRows, InvertedCols
  <2>2. t[1].lenx = a /\ t[1].leny = b
    BY <1>2 DEF Box
  <2>3. QED BY <2>1, <2>2 DEF SplitOf, First
<1>6. Region(w, h, 71).lenx = a - Lo(a) /\ Region(w, h, 71).leny = b - Lo(b)
  BY <1>2, <1>4, <1>5 DEF Quarters, Box
<1>7. Pixels(w, h, 71) = (a - Lo(a)) * Hi(b)
  BY <1>3, <1>6 DEF Pixels, Area
<1>8. Pixels(w, h, 5) = Lo(a) * Hi(b) /\ t[5].leny * t[1].lenx = Hi(b) * a
  BY <1>1, <1>2 DEF Area, Box
<1>9. \A x, y, z \in Int : z * x = y * z + (x - y) * z
  OBVIOUS
<1>10. t[5].leny * t[1].lenx = Pixels(w, h, 5) + Pixels(w, h, 71)
  BY <1>3, <1>7, <1>8, <1>9
<1>11. QED BY <1>1, <1>10 DEF NodeAreas, t

(* The three blocks have room for what is quantized, and no more.          *)
BlocksAddUp(kept, t, q) ==
  LET sizes == quant_block_sizes(kept, t, q)
  IN  /\ Start(kept, q, 64) = sizes[1] + sizes[2] + sizes[3]
      /\ sizes[1] \in Int /\ sizes[2] \in Int /\ sizes[3] \in Int

LEMMA BlocksAre ==
  ASSUME NEW w \in Nat \ {0}, NEW h \in Nat \ {0}, NEW kept, DOMAIN kept \in SUBSET (0..59),
         NEW t, NEW q, AreasOn(q, BandPixels(w, h), 0..59), NodeAreas(t, w, h)
  PROVE  BlocksAddUp(kept, t, q)
<1> DEFINE f == BandPixels(w, h)
           D == DOMAIN kept
           A(n) == Upon(f, n)
           K(first, next) == (first..(next - 1)) \cap D
           lost(first, next) == FoldFunction(+, 0, [n \in (first..(next - 1)) \ D |-> Area(q[n])])
           m(first, next) == Mass(f, K(first, next))
           sizes == quant_block_sizes(kept, t, q)
<1>1. /\ sizes[1] = Area(t[14]) - lost(0, 19)
      /\ sizes[2] = t[5].leny * t[1].lenx + Area(t[4]) - lost(19, 52)
      /\ sizes[3] = Area(t[2]) + Area(t[3]) - lost(52, 60)
  BY DEF quant_block_sizes, Total
<1>2. KeptAndLost(q, f, kept, 0, 19) /\ KeptAndLost(q, f, kept, 19, 52) /\ KeptAndLost(q, f, kept, 52, 60)
  <2>1. ASSUME NEW first \in Nat, NEW next \in Nat, first <= next, next <= 60
        PROVE  KeptAndLost(q, f, kept, first, next)
    <3> HIDE DEF f
    <3>1. QED BY <2>1, PartsOf DEF f
  <2> HIDE DEF f
  <2>2. QED BY <2>1
<1>3. /\ A(19) - A(0) = m(0, 19) + lost(0, 19) /\ A(52) - A(19) = m(19, 52) + lost(19, 52)
      /\ A(60) - A(52) = m(52, 60) + lost(52, 60)
      /\ lost(0, 19) \in Nat /\ lost(19, 52) \in Nat /\ lost(52, 60) \in Nat
      /\ m(0, 19) \in Nat /\ m(19, 52) \in Nat /\ m(52, 60) \in Nat
      /\ A(0) \in Nat /\ A(19) \in Nat /\ A(52) \in Nat /\ A(60) \in Nat
  BY <1>2, Zenon DEF KeptAndLost
<1>4. /\ Weighed(f, K(0, 19)) /\ Weighed(f, K(19, 52)) /\ Weighed(f, K(52, 60))
  BY <1>2, Zenon DEF KeptAndLost
<1>5. Blocks3(w, h) /\ A(0) = 0
  <2>1. 0..(0 - 1) = {}
    OBVIOUS
  <2>2. QED BY <2>1, BlocksOfBands, MassEmpty DEF Upon
<1>6. Start(kept, q, 64) = Mass(f, D)
  <2>1. Start(kept, q, 64) = Mass(f, {n \in D : n < 64})
    <3>1. 64 \in Int
      OBVIOUS
    <3>2. QED BY <3>1, StartIs
  <2>2. {n \in D : n < 64} = D
    OBVIOUS
  <2>3. QED BY <2>1, <2>2
<1>7. Mass(f, D) = m(0, 19) + m(19, 52) + m(52, 60)
  <2> DEFINE a == K(0, 19)
             b == K(19, 52)
             c == K(52, 60)
  <2>1. D = (a \cup b) \cup c /\ a \cap b = {} /\ (a \cup b) \cap c = {}
    OBVIOUS
  <2>2. Weighed(f, a) /\ Weighed(f, b) /\ Weighed(f, c)
    BY <1>4
  <2> HIDE DEF a, b, c, f, D
  <2>3. Mass(f, a \cup b) = Mass(f, a) + Mass(f, b) /\ Weighed(f, a \cup b)
    BY <2>1, <2>2, MassUnion
  <2>4. Mass(f, (a \cup b) \cup c) = Mass(f, a \cup b) + Mass(f, c)
    BY <2>1, <2>2, <2>3, MassUnion
  <2>5. QED BY <2>1, <2>3, <2>4 DEF a, b, c
<1>8. /\ Area(t[14]) = A(19) /\ t[5].leny * t[1].lenx + Area(t[4]) = A(52) - A(19)
      /\ Area(t[2]) + Area(t[3]) = A(60) - A(52)
  <2>1. /\ Pixels(w, h, 4) \in Nat /\ Pixels(w, h, 5) \in Nat /\ Pixels(w, h, 71) \in Nat
    BY PixelsNat
  <2>2. QED BY <1>5, <2>1 DEF Blocks3, NodeAreas
<1> HIDE DEF A, K, lost, m, sizes, f, D
<1>9. sizes[1] = m(0, 19) /\ sizes[2] = m(19, 52) /\ sizes[3] = m(52, 60)
  <2>1. sizes[1] = A(19) - lost(0, 19)
    BY <1>1, <1>8, Zenon
  <2> DEFINE u == t[5].leny * t[1].lenx
  <2>2. sizes[2] = u + (Area(t[4]) - lost(19, 52)) /\ u + Area(t[4]) = A(52) - A(19)
    BY <1>1, <1>8, Zenon
  <2>3. sizes[3] = Area(t[2]) + (Area(t[3]) - lost(52, 60))
    BY <1>1, Zenon
  <2>4. Area(t[4]) \in Int /\ Area(t[2]) \in Int /\ Area(t[3]) \in Int /\ u \in Int
    <3>1. /\ Pixels(w, h, 4) \in Int /\ Pixels(w, h, 5) \in Int /\ Pixels(w, h, 71) \in Int
          /\ Pixels(w, h, 2) \in Int /\ Pixels(w, h, 3) \in Int
      BY PixelsNat
    <3>2. QED BY <3>1 DEF NodeAreas
  <2> HIDE DEF u
  <2>5. sizes[2] = (A(52) - A(19)) - lost(19, 52)
    BY <1>3, <2>2, <2>4
  <2>6. sizes[3] = (A(60) - A(52)) - lost(52, 60)
    BY <1>3, <1>8, <2>3, <2>4
  <2>7. QED BY <1>3, <1>5, <2>1, <2>5, <2>6
<1>10. Start(kept, q, 64) = sizes[1] + sizes[2] + sizes[3]
  BY <1>6, <1>7, <1>9 DEF f, D
<1>11. QED BY <1>3, <1>9, <1>10 DEF BlocksAddUp, sizes

(* quant_block_sizes agrees with quantize: whatever the image and          *)
(* whichever of its bands are kept, what is quantized is as long as the    *)
(* three blocks it is cut into, so the encoder never finds that the sum of *)
(* the blocks is wrong.                                                    *)
THEOREM SizesAgree ==
  ASSUME NEW img, img.w \in Nat \ {0}, img.h \in Nat \ {0}, Short16(img.w, img.h)
  PROVE  /\ Quantized(img).sip.len = Quantized(img).qsize[1] + Quantized(img).qsize[2] + Quantized(img).qsize[3]
         /\ \A b \in 1..3 : Quantized(img).qsize[b] \in Int
<1> DEFINE t == build_wsq_trees(img.w, img.h)
           kept == Kept(img, t.q_tree)
           r == Quantized(img)
<1>1. r = [kept |-> kept, sip |-> quantize(img.coefs, kept, t.q_tree),
           qsize |-> quant_block_sizes(kept, t.w_tree, t.q_tree)]
  BY Zenon DEF Quantized, QuantizedIn, QuantizedBy
<1>2. DOMAIN kept \in SUBSET (0..59)
  BY DEF Kept, variance
<1>3. AreasOn(t.q_tree, BandPixels(img.w, img.h), 0..59)
  BY StoredAreas
<1>4. NodeAreas(t.w_tree, img.w, img.h)
  <2>1. t.w_tree = build_w_tree(img.w, img.h)
    BY DEF build_wsq_trees, Trees
  <2>2. QED BY <2>1, NodeAreasAre
<1> HIDE DEF t, kept, r
<1>5. BlocksAddUp(kept, t.w_tree, t.q_tree)
  BY <1>2, <1>3, <1>4, BlocksAre
<1>6. quantize(img.coefs, kept, t.q_tree).len = Start(kept, t.q_tree, 64)
  BY DEF quantize
<1>7. r.sip.len = Start(kept, t.q_tree, 64) /\ r.qsize = quant_block_sizes(kept, t.w_tree, t.q_tree)
  BY <1>1, <1>6
<1>8. QED BY <1>5, <1>7 DEF BlocksAddUp, r

-----------------------------------------------------------------------------
(* How long a code can get.                                                *)

(* A code of size d needs as many symbols as the Fibonacci number d + 2:   *)
(* while groups are merged, the count of a group is at least that for the  *)
(* size of each symbol in it, and those of the others are not far behind.  *)
Fibonacci ==
   << 1, 1, 2, 3, 5, 8, 13, 21, 34, 55, 89, 144, 233,
      377, 610, 987, 1597, 2584, 4181, 6765, 10946, 17711,
      28657, 46368, 75025, 121393, 196418, 317811, 514229,
      832040, 1346269, 2178309, 3524578, 5702887, 9227465 >>

LEMMA FibonacciSums ==
  ASSUME NEW n \in 1..33
  PROVE  Fibonacci[n + 2] = Fibonacci[n + 1] + Fibonacci[n]
<1>1. CASE n \in 1..11
  BY <1>1 DEF Fibonacci
<1>2. CASE n \in 12..22
  BY <1>2 DEF Fibonacci
<1>3. CASE n \in 23..33
  BY <1>3 DEF Fibonacci
<1>4. QED BY <1>1, <1>2, <1>3

LEMMA FibonacciNat ==
  /\ Fibonacci[1] = 1 /\ Fibonacci[2] = 1
  /\ \A n \in 1..35 : Fibonacci[n] \in Nat
<1>1. Fibonacci[1] = 1 /\ Fibonacci[2] = 1
  BY DEF Fibonacci
<1>2. Fibonacci \in Seq(Nat) /\ Len(Fibonacci) = 35
  BY DEF Fibonacci
<1>3. ASSUME NEW n \in 1..35 PROVE Fibonacci[n] \in Nat
  <2>1. \A s \in Seq(Nat) : \A k \in 1..Len(s) : s[k] \in Nat
    OBVIOUS
  <2>2. n \in 1..Len(Fibonacci)
    BY <1>2
  <2>3. QED BY <1>2, <2>1, <2>2
<1>4. QED BY <1>1, <1>3

Enough(s, v) ==
  \A y \in s.group[v] :
    /\ s.size[y] \in 0..Longer
    /\ s.freq[v] >= Fibonacci[s.size[y] + 2]
    /\ \A u \in DOMAIN s.freq \ {v} : s.freq[u] >= Fibonacci[s.size[y] + 1]

Heavy(s, total) ==
  /\ \A v \in DOMAIN s.freq : s.freq[v] \in Nat
  /\ Weighed(s.freq, DOMAIN s.freq) /\ Mass(s.freq, DOMAIN s.freq) = total
  /\ \A v \in DOMAIN s.freq : Enough(s, v)

(* A merge keeps this as long as there are fewer than Fibonacci[Longer +   *)
(* 3] symbols in all.                                                      *)
LEMMA HeavyStep ==
  ASSUME NEW s, NEW t, NEW a, NEW b, IsMerge(s, t, a, b), NEW total \in Nat, Heavy(s, total),
         total < Fibonacci[Longer + 3]
  PROVE  Heavy(t, total)
<1> DEFINE L == DOMAIN s.freq
           R == L \ {a, b}
<1>1. a \in L /\ b \in L /\ a # b /\ DOMAIN t.freq = R \cup {a} /\ L = (R \cup {a}) \cup {b}
      /\ a \notin R /\ b \notin R \cup {a}
  BY DEF IsMerge
<1>2. /\ \A v \in R : t.freq[v] = s.freq[v] /\ t.group[v] = s.group[v]
      /\ t.freq[a] = s.freq[a] + s.freq[b] /\ t.group[a] = s.group[a] \cup s.group[b]
  BY DEF IsMerge
<1>3. /\ \A v \in R : \A y \in s.group[v] : t.size[y] = s.size[y]
      /\ \A y \in s.group[a] \cup s.group[b] : t.size[y] = s.size[y] + 1
  BY DEF IsMerge
<1>4. \A v \in L : s.freq[v] \in Nat
  BY DEF Heavy
<1>5. \A v \in R : s.freq[v] >= s.freq[a] /\ s.freq[v] >= s.freq[b]
  <2> SUFFICES ASSUME NEW v \in R PROVE s.freq[v] >= s.freq[a] /\ s.freq[v] >= s.freq[b]
    OBVIOUS
  <2>1. /\ s.freq[a] < s.freq[v] \/ s.freq[a] = s.freq[v]
        /\ s.freq[b] < s.freq[v] \/ s.freq[b] = s.freq[v]
    BY DEF IsMerge
  <2>2. s.freq[v] \in Nat /\ s.freq[a] \in Nat /\ s.freq[b] \in Nat
    BY <1>1, <1>4
  <2>3. QED BY <2>1, <2>2
<1>6. Weighed(s.freq, L) /\ Mass(s.freq, L) = total
  BY DEF Heavy
<1>7. \A v \in L : Enough(s, v)
  BY DEF Heavy
<1> HIDE DEF L, R
<1>8. s.freq[a] \in Nat /\ s.freq[b] \in Nat /\ t.freq[a] \in Nat
  BY <1>1, <1>2, <1>4
<1>9. R \in SUBSET L
  BY DEF R
<1>10. Weighed(t.freq, R \cup {a}) /\ Mass(t.freq, R \cup {a}) = total /\ t.freq[a] <= total
  <2>1. Weighed(s.freq, R)
    BY <1>6, <1>9, MassPart
  <2>2. Weighed(s.freq, R \cup {a}) /\ Mass(s.freq, R \cup {a}) = Mass(s.freq, R) + s.freq[a]
    BY <1>1, <1>8, <2>1, MassGrows
  <2>3. Mass(s.freq, (R \cup {a}) \cup {b}) = Mass(s.freq, R \cup {a}) + s.freq[b]
    BY <1>1, <1>8, <2>2, MassGrows
  <2>4. Weighed(t.freq, R)
    BY <1>2, <2>1 DEF Weighed
  <2>5. Mass(t.freq, R) = Mass(s.freq, R)
    BY <1>2, MassSame
  <2>6. Weighed(t.freq, R \cup {a}) /\ Mass(t.freq, R \cup {a}) = Mass(t.freq, R) + t.freq[a]
    BY <1>1, <1>8, <2>4, MassGrows
  <2>7. Mass(s.freq, R) \in Nat
    BY <2>1, MassFinite
  <2>8. Mass(s.freq, (R \cup {a}) \cup {b}) = total
    BY <1>1, <1>6
  <2>9. QED BY <1>2, <1>8, <2>2, <2>3, <2>5, <2>6, <2>7, <2>8
<1>11. Longer \in Nat /\ Longer + 3 \in 1..35
  BY MaxHuffBitsOK DEF Longer
<1>12. \A d \in 0..Longer : /\ Fibonacci[d + 1] \in Nat /\ Fibonacci[d + 2] \in Nat
                            /\ Fibonacci[(d + 1) + 2] = Fibonacci[d + 2] + Fibonacci[d + 1]
  <2> SUFFICES ASSUME NEW d \in 0..Longer
               PROVE  /\ Fibonacci[d + 1] \in Nat /\ Fibonacci[d + 2] \in Nat
                      /\ Fibonacci[(d + 1) + 2] = Fibonacci[d + 2] + Fibonacci[d + 1]
    OBVIOUS
  <2>1. d + 1 \in 1..33 /\ d + 1 \in 1..35 /\ d + 2 \in 1..35 /\ (d + 1) + 1 = d + 2
    BY <1>11
  <2>2. Fibonacci[(d + 1) + 2] = Fibonacci[(d + 1) + 1] + Fibonacci[d + 1]
    BY <2>1, FibonacciSums
  <2>3. QED BY <2>1, <2>2, FibonacciNat
<1>13. ASSUME NEW y \in s.group[a] \cup s.group[b]
       PROVE  /\ t.size[y] \in 0..Longer
              /\ t.freq[a] >= Fibonacci[t.size[y] + 2]
              /\ \A u \in R : t.freq[u] >= Fibonacci[t.size[y] + 1]
  <2> DEFINE d == s.size[y]
  <2>1. /\ d \in 0..Longer /\ t.size[y] = d + 1
        /\ \/ s.freq[a] >= Fibonacci[d + 2] /\ s.freq[b] >= Fibonacci[d + 1]
           \/ s.freq[b] >= Fibonacci[d + 2] /\ s.freq[a] >= Fibonacci[d + 1]
    <3>1. CASE y \in s.group[a]
      BY <1>1, <1>3, <1>7, <3>1 DEF Enough, L
    <3>2. CASE y \in s.group[b]
      BY <1>1, <1>3, <1>7, <3>2 DEF Enough, L
    <3>3. QED BY <3>1, <3>2
  <2> HIDE DEF d
  <2>2. /\ Fibonacci[d + 1] \in Nat /\ Fibonacci[d + 2] \in Nat
        /\ Fibonacci[(d + 1) + 2] = Fibonacci[d + 2] + Fibonacci[d + 1]
    BY <1>12, <2>1
  <2>3. t.freq[a] >= Fibonacci[(d + 1) + 2]
    BY <1>2, <1>8, <2>1, <2>2
  <2>4. Fibonacci[(d + 1) + 2] <= total
    BY <1>8, <1>10, <2>2, <2>3
  <2>5. d # Longer
    <3>1. (Longer + 1) + 2 = Longer + 3
      BY <1>11
    <3>2. SUFFICES ASSUME d = Longer PROVE FALSE
      OBVIOUS
    <3>3. Fibonacci[(d + 1) + 2] = Fibonacci[Longer + 3]
      BY <3>1, <3>2
    <3>4. Fibonacci[Longer + 3] \in Nat
      BY <1>11, FibonacciNat
    <3>5. QED BY <2>4, <3>3, <3>4
  <2>6. d + 1 \in 0..Longer
    BY <1>11, <2>1, <2>5
  <2>7. ASSUME NEW u \in R PROVE t.freq[u] >= Fibonacci[d + 2]
    <3>1. t.freq[u] = s.freq[u] /\ s.freq[u] >= s.freq[a] /\ s.freq[u] >= s.freq[b] /\ s.freq[u] \in Nat
      BY <1>2, <1>4, <1>5, <1>9
    <3>2. QED BY <1>8, <2>1, <2>2, <3>1
  <2>8. (d + 1) + 1 = d + 2
    BY <2>1
  <2>9. QED BY <2>1, <2>3, <2>6, <2>7, <2>8
<1>14. Enough(t, a)
  <2>1. DOMAIN t.freq \ {a} = R
    BY <1>1
  <2>2. QED BY <1>2, <1>13, <2>1 DEF Enough
<1>15. ASSUME NEW v \in R PROVE Enough(t, v)
  <2>1. v \in L /\ t.group[v] = s.group[v] /\ t.freq[v] = s.freq[v] /\ v # a /\ v # b
    BY <1>1, <1>2, <1>9
  <2>2. Enough(s, v)
    BY <1>7, <2>1
  <2>3. ASSUME NEW y \in s.group[v], NEW u \in (R \cup {a}) \ {v}
        PROVE  t.freq[u] >= Fibonacci[s.size[y] + 1]
    <3>1. s.size[y] \in 0..Longer
      BY <2>2 DEF Enough
    <3>2. Fibonacci[s.size[y] + 1] \in Nat
      BY <1>12, <3>1
    <3>3. u \in L \ {v}
      BY <1>1, <1>9, <2>3
    <3>4. s.freq[u] >= Fibonacci[s.size[y] + 1] /\ s.freq[u] \in Nat
      BY <1>4, <2>2, <3>3 DEF Enough, L
    <3>5. CASE u = a
      BY <1>2, <1>8, <3>2, <3>4, <3>5
    <3>6. CASE u \in R
      BY <1>2, <3>4, <3>6
    <3>7. QED BY <2>3, <3>5, <3>6
  <2>4. QED BY <1>1, <1>3, <2>1, <2>2, <2>3 DEF Enough
<1>16. \A v \in R \cup {a} : t.freq[v] \in Nat
  BY <1>2, <1>4, <1>8, <1>9
<1>17. QED BY <1>1, <1>10, <1>14, <1>15, <1>16 DEF Heavy

(* find_huff_sizes stays inside the array that counts codes by size        *)
(* (find_num_huff_sizes writes at the size of each code, of MAX_HUFFBITS * *)
(* 2 places): a longer code takes as many symbols as a Fibonacci number.   *)
THEOREM ShortCodes ==
  ASSUME NEW counts, Countable(counts, Reserved), \A v \in DOMAIN counts : counts[v] >= 1,
         Mass(counts, DOMAIN counts) < Fibonacci[Longer + 3]
  PROVE  \A x \in DOMAIN counts : find_huff_sizes(counts)[x] <= Longer
<1> DEFINE D == DOMAIN counts
           n == Cardinality(D)
           len == n - 1
           b == Unmerged(counts)
           total == Mass(counts, D)
<1>1. IsFiniteSet(D) /\ n \in Nat /\ n # 0
  BY CountableFinite
<1>2. n <= n /\ len \in Nat
  BY <1>1
<1>3. PICK at : MergeRun(at, counts, n)
  <2> HIDE DEF len
  <2>1. QED BY <1>1, <1>2, MergeRuns, Zenon
<1> HIDE DEF n
<1>4. Weighed(counts, D) /\ total \in Nat
  <2>1. Weighed(counts, D)
    BY <1>1 DEF Weighed, Countable
  <2>2. QED BY <2>1, MassFinite
<1>5. total < Fibonacci[Longer + 3]
  OBVIOUS
<1>6. Heavy(b, total)
  <2>1. b = [freq |-> counts, group |-> [v \in D |-> {v}], size |-> [v \in D |-> 0]]
    BY DEF Unmerged
  <2>2. /\ DOMAIN b.freq = D /\ b.freq = counts
        /\ \A v \in D : b.group[v] = {v} /\ b.size[v] = 0
    BY <2>1
  <2> HIDE DEF b
  <2>3. \A v \in D : counts[v] \in Nat /\ counts[v] >= 1
    BY DEF Countable
  <2>4. 0 \in 0..Longer /\ Fibonacci[0 + 2] = 1 /\ Fibonacci[0 + 1] = 1
    BY FibonacciNat, MaxHuffBitsOK DEF Longer
  <2> HIDE DEF D
  <2>5. \A v \in D : Enough(b, v)
    BY <2>2, <2>3, <2>4 DEF Enough
  <2>6. QED BY <1>4, <2>2, <2>3, <2>5 DEF Heavy, total
<1> HIDE DEF total
<1> DEFINE S == {i \in Nat : i <= len => Heavy(at[i], total)}
<1>7. 0 \in S
  <2>1. at[0] = b
    BY <1>3 DEF MergeRun
  <2>2. QED BY <1>6, <2>1
<1>8. ASSUME NEW i \in S PROVE i + 1 \in S
  <2>1. SUFFICES ASSUME i + 1 <= len PROVE Heavy(at[i + 1], total)
    OBVIOUS
  <2>2. i \in Nat /\ i \in 0..(len - 1) /\ i \in 0..len /\ i + 1 < n /\ i <= len
    BY <1>1, <2>1
  <2>3. at[i + 1] = Merge(at[i], i + 1) /\ Merging(at[i], D, n, i)
    BY <1>3, <2>2 DEF MergeRun, n
  <2> DEFINE s == at[i]
             t == Merge(s, i + 1)
  <2>4. Merging(s, D, n, i) /\ t = at[i + 1] /\ Heavy(s, total)
    BY <2>2, <2>3
  <2>5. D \in SUBSET (0..Reserved) /\ Reserved \in Nat
    BY DEF Countable
  <2>6. \E p, q : IsMerge(s, t, p, q)
    <3> HIDE DEF s, D, len
    <3>1. i + 1 < Cardinality(D)
      BY <2>2 DEF n
    <3>2. QED BY <1>1, <2>2, <2>4, <2>5, <3>1, MergeIs
  <2>7. PICK p, q : IsMerge(s, t, p, q)
    <3> HIDE DEF s, t
    <3>1. QED BY <2>6
  <2> HIDE DEF s, t
  <2>8. Heavy(t, total)
    BY <1>4, <1>5, <2>4, <2>7, HeavyStep
  <2>9. QED BY <2>4, <2>8
<1>9. S \in SUBSET Nat
  OBVIOUS
<1> HIDE DEF S
<1>10. S = Nat
  BY <1>7, <1>8, <1>9, SetInduction
<1> DEFINE z == at[len]
<1>11. Heavy(z, total)
  BY <1>2, <1>10 DEF S
<1>12. PICK v : DOMAIN z.freq = {v} /\ z.group[v] = D
  <2>1. Countable(counts, Reserved) /\ n \in Nat /\ Cardinality(D) <= n
    BY <1>1 DEF n
  <2>2. QED BY <1>3, <2>1, OneGroup DEF n
<1>13. z.size = find_huff_sizes(counts)
  BY <1>1, <1>3 DEF MergeRun, n
<1> HIDE DEF z
<1>14. \A x \in D : z.size[x] \in 0..Longer
  BY <1>11, <1>12 DEF Heavy, Enough
<1>15. Longer \in Nat
  BY MaxHuffBitsOK DEF Longer
<1>16. QED BY <1>13, <1>14, <1>15

(* The counts are those of the tokens, and of the reserved symbol.         *)
LEMMA CountsSum ==
  ASSUME NEW tokens \in Seq(TokenSet)
  PROVE  Mass(count_block(tokens), DOMAIN count_block(tokens)) = Len(tokens) + 1
<1> DEFINE used == {tokens[i].sym : i \in DOMAIN tokens}
           Spots(s) == {i \in DOMAIN tokens : tokens[i].sym = s}
           Of(u) == {i \in DOMAIN tokens : tokens[i].sym \in u}
           counts == [s \in used \cup {Reserved} |-> IF s = Reserved THEN 1 ELSE Cardinality(Spots(s))]
<1>1. count_block(tokens) = counts
  BY Stricted DEF count_block
<1>2. Tallied(counts)
  BY <1>1, CountsOk
<1>3. Reserved \notin used /\ DOMAIN counts = used \cup {Reserved}
  <2>1. DOMAIN counts = used \cup {Reserved}
    OBVIOUS
  <2>2. ASSUME NEW i \in DOMAIN tokens PROVE tokens[i].sym # Reserved
    <3>1. tokens[i] \in TokenSet
      OBVIOUS
    <3>2. tokens[i].sym \in 1..254
      BY <3>1 DEF TokenSet
    <3>3. Reserved \notin 1..254
      BY DEF Reserved
    <3>4. QED BY <3>2, <3>3
  <2> HIDE DEF counts
  <2>3. QED BY <2>1, <2>2
<1>4. \A s \in used : counts[s] = Cardinality(Spots(s))
  BY <1>3
<1>5. counts[Reserved] = 1
  BY <1>3
<1>6. DOMAIN tokens = 1..Len(tokens) /\ Len(tokens) \in Nat
  OBVIOUS
<1>7. IsFiniteSet(DOMAIN tokens) /\ Cardinality(DOMAIN tokens) = Len(tokens)
  <2>1. IsFiniteSet(1..Len(tokens)) /\ Cardinality(1..Len(tokens)) = Len(tokens)
    BY <1>6, FS_Interval
  <2>2. QED BY <1>6, <2>1
<1> HIDE DEF counts
<1>8. Weighed(counts, used)
  <2>1. IsFiniteSet(DOMAIN counts)
    BY <1>2, CountableFinite DEF Tallied
  <2>2. IsFiniteSet(used)
    BY <1>3, <2>1, FS_Subset
  <2>3. \A s \in used : counts[s] \in Nat
    BY <1>2, <1>3 DEF Tallied, Countable
  <2>4. QED BY <2>2, <2>3 DEF Weighed
<1> DEFINE C == {u \in SUBSET used : Weighed(counts, u) /\ Mass(counts, u) = Cardinality(Of(u))}
<1>9. {} \in C
  <2>1. Of({}) = {}
    OBVIOUS
  <2>2. Weighed(counts, {}) /\ Mass(counts, {}) = 0
    BY MassEmpty, FS_EmptySet DEF Weighed
  <2>3. QED BY <2>1, <2>2, FS_EmptySet
<1>10. ASSUME NEW u \in C, NEW x \in used \ u PROVE u \cup {x} \in C
  <2>1. Weighed(counts, u) /\ Mass(counts, u) = Cardinality(Of(u)) /\ u \in SUBSET used /\ x \notin u /\ x \in used
    OBVIOUS
  <2>2. counts[x] \in Nat /\ counts[x] = Cardinality(Spots(x))
    BY <1>4, <1>8 DEF Weighed
  <2>3. Weighed(counts, u \cup {x}) /\ Mass(counts, u \cup {x}) = Mass(counts, u) + counts[x]
    <3> HIDE DEF C
    <3>1. QED BY <2>1, <2>2, MassGrows
  <2>4. Of(u \cup {x}) = Of(u) \cup Spots(x) /\ Of(u) \cap Spots(x) = {}
    BY <2>1
  <2>5. Of(u) \in SUBSET DOMAIN tokens /\ Spots(x) \in SUBSET DOMAIN tokens
    OBVIOUS
  <2> HIDE DEF Of, Spots, C
  <2>6. IsFiniteSet(Of(u)) /\ IsFiniteSet(Spots(x))
    BY <1>7, <2>5, FS_Subset
  <2>7. Cardinality(Of(u) \cup Spots(x)) = Cardinality(Of(u)) + Cardinality(Spots(x))
    <3>1. Cardinality(Of(u) \cup Spots(x)) = Cardinality(Of(u)) + Cardinality(Spots(x)) - Cardinality(Of(u) \cap Spots(x))
      BY <2>6, FS_Union
    <3>2. Cardinality(Of(u) \cap Spots(x)) = 0
      BY <2>4, FS_EmptySet
    <3>3. Cardinality(Of(u)) \in Nat /\ Cardinality(Spots(x)) \in Nat
      BY <2>6, FS_CardinalityType
    <3>4. QED BY <3>1, <3>2, <3>3
  <2>8. Mass(counts, u \cup {x}) = Cardinality(Of(u \cup {x}))
    BY <2>1, <2>2, <2>3, <2>4, <2>7
  <2>9. QED BY <2>1, <2>3, <2>8 DEF C
<1>11. IsFiniteSet(used)
  BY <1>8 DEF Weighed
<1>12. C \in SUBSET (SUBSET used)
  OBVIOUS
<1> HIDE DEF C, used
<1>13. \A u \in SUBSET used : u \in C
  BY <1>9, <1>10, <1>11, <1>12, SubsetInduction
<1>14. Mass(counts, used) = Cardinality(Of(used))
  <2>1. used \in C
    BY <1>13
  <2>2. QED BY <2>1 DEF C
<1>15. Of(used) = DOMAIN tokens
  BY DEF used
<1>16. 1 \in Nat /\ Mass(counts, used \cup {Reserved}) = Mass(counts, used) + counts[Reserved]
  BY <1>3, <1>5, <1>8, MassGrows
<1>17. QED BY <1>1, <1>3, <1>5, <1>7, <1>14, <1>15, <1>16

LEMMA FewSymbols ==
  ASSUME NEW tokens \in Seq(TokenSet), Len(tokens) + 1 < Fibonacci[Longer + 3]
  PROVE  find_huff_sizes(count_block(tokens))[Reserved] <= Longer
<1> DEFINE counts == count_block(tokens)
<1>1. Tallied(counts) /\ Mass(counts, DOMAIN counts) = Len(tokens) + 1
  BY CountsOk, CountsSum
<1> HIDE DEF counts
<1>2. \A x \in DOMAIN counts : find_huff_sizes(counts)[x] <= Longer
  BY <1>1, ShortCodes DEF Tallied
<1>3. QED BY <1>1, <1>2 DEF Tallied, counts

(* The Huffman code that gen_hufftable_wsq makes for a block passes the     *)
(* encoder's own test, check_huffcodes_wsq: no code is of ones only,       *)
(* whatever the tokens of the block and however often each occurs.         *)
THEOREM CodesNeverOnes ==
  ASSUME NEW tokens \in Seq(TokenSet), Len(tokens) + 1 < Fibonacci[Longer + 3]
  PROVE  gen_hufftable_wsq(tokens).ok = TRUE
BY FewSymbols, TableSound

-----------------------------------------------------------------------------
(* The encoder.                                                            *)

LEMMA QuantumInt ==
  ASSUME NEW f \in Int, NEW q \in Nat \ {0}
  PROVE  Quantum(f, q) \in Int
<1> DEFINE zbin == ZeroBin(q) \div 2
<1>1. zbin \in Int
  BY DEF ZeroBin
<1> HIDE DEF zbin
<1>2. ASSUME NEW n \in Int PROVE n \div q \in Int
  OBVIOUS
<1>3. (f - zbin) \div q \in Int /\ (-f - zbin) \div q \in Int
  BY <1>1, <1>2
<1>4. QED BY <1>3 DEF Quantum, zbin

(* The coefficients of an image.                                           *)
Coefficients == [band : Int, at : Int, f : Int]

(* What quantize gives is quantized data.                                  *)
LEMMA QuantData ==
  ASSUME NEW q, NEW f, NEW kept, DOMAIN kept \in SUBSET (0..59), AreasOn(q, f, 0..59),
         \A n \in DOMAIN kept : kept[n] \in Nat \ {0},
         NEW coefs \in Seq(Coefficients)
  PROVE  Data(quantize(coefs, kept, q))
<1> DEFINE T == {c \in ToSet(coefs) : c.band \in DOMAIN kept /\ Quantum(c.f, kept[c.band]) # 0}
           stays == Chosen(coefs, T)
           Put1(c) == [at |-> Start(kept, q, c.band) + c.at, v |-> Quantum(c.f, kept[c.band])]
           r == quantize(coefs, kept, q)
<1>1. r = [len |-> Start(kept, q, 64), coefs |-> [i \in DOMAIN stays |-> Put1(stays[i])]]
  BY DEF quantize
<1>2. \A c \in T : c.band \in DOMAIN kept
  OBVIOUS
<1> HIDE DEF T, r
<1>3. stays \in Seq(T \cap Coefficients)
  BY ChosenIn
<1> HIDE DEF stays
<1>4. ASSUME NEW c \in T \cap Coefficients PROVE Put1(c) \in Quantums
  <2>1. c.band \in DOMAIN kept /\ c.band \in Int /\ c.at \in Int /\ c.f \in Int
    BY <1>2 DEF Coefficients
  <2>2. Start(kept, q, c.band) \in Nat
    BY <2>1, StartIs
  <2>3. kept[c.band] \in Nat \ {0}
    BY <2>1
  <2>4. Quantum(c.f, kept[c.band]) \in Int
    BY <2>1, <2>3, QuantumInt
  <2>5. QED BY <2>1, <2>2, <2>4 DEF Quantums
<1> HIDE DEF Put1
<1>5. DOMAIN stays = 1..Len(stays) /\ Len(stays) \in Nat /\ \A i \in 1..Len(stays) : stays[i] \in T \cap Coefficients
  BY <1>3
<1>6. [i \in DOMAIN stays |-> Put1(stays[i])] \in Seq(Quantums)
  <2>1. \A i \in 1..Len(stays) : Put1(stays[i]) \in Quantums
    BY <1>4, <1>5
  <2>2. QED BY <1>5, <2>1
<1>7. Start(kept, q, 64) \in Nat
  <2>1. 64 \in Int
    OBVIOUS
  <2>2. QED BY <2>1, StartIs
<1>8. QED BY <1>1, <1>6, <1>7 DEF Data, r

-----------------------------------------------------------------------------
(* The images that can be encoded: sides that two shorts hold, widths of   *)
(* bins that are not 0; and for either table fewer symbols than would give *)
(* a code longer than the array that counts the codes by size              *)
(* (Fibonacci[35] is 9227465, for codes of 16 bits).                       *)
ImageFits(img) ==
  /\ img.w \in Nat \ {0} /\ img.h \in Nat \ {0} /\ Short16(img.w, img.h)
  /\ img.coefs \in Seq(Coefficients)
  /\ \A n \in DOMAIN img.bins : img.bins[n] \in Nat \ {0}
PartsOfImage(img) == Parts(Quantized(img).sip, Quantized(img).qsize)
TablesFit(img) ==
  \A tokens \in {PartsOfImage(img)[1], PartsOfImage(img)[2] \o PartsOfImage(img)[3]} :
    Len(tokens) + 1 < Fibonacci[Longer + 3]

(* Each part of an image is tokens.                                        *)
LEMMA PartsAreTokens ==
  ASSUME NEW img, ImageFits(img)
  PROVE  /\ PartsOfImage(img)[1] \in Seq(TokenSet)
         /\ PartsOfImage(img)[2] \o PartsOfImage(img)[3] \in Seq(TokenSet)
<1> DEFINE t == build_wsq_trees(img.w, img.h)
           kept == Kept(img, t.q_tree)
           sip == Quantized(img).sip
           sizes == Quantized(img).qsize
           part == PartsOfImage(img)
<1>1. sip = quantize(img.coefs, kept, t.q_tree)
  BY DEF Quantized, QuantizedIn, QuantizedBy
<1>2. DOMAIN kept \in SUBSET (0..59) /\ \A n \in DOMAIN kept : kept[n] \in Nat \ {0}
  BY DEF Kept, variance, ImageFits
<1>3. AreasOn(t.q_tree, BandPixels(img.w, img.h), 0..59) /\ img.coefs \in Seq(Coefficients)
  BY StoredAreas DEF ImageFits
<1>4. \A b \in 1..3 : sizes[b] \in Int
  BY SizesAgree DEF ImageFits
<1>5. part = << Tokens(Block(sip, 0, sizes[1])), Tokens(Block(sip, sizes[1], sizes[2])),
                Tokens(Block(sip, sizes[1] + sizes[2], sizes[3])) >>
  BY DEF Parts, PartsOfImage
<1> HIDE DEF t, kept, sip, sizes, part
<1>6. Data(sip)
  BY <1>1, <1>2, <1>3, QuantData
<1>7. ASSUME NEW from \in Int, NEW len \in Int PROVE Tokens(Block(sip, from, len)) \in Seq(TokenSet)
  <2>1. Data(Block(sip, from, len))
    BY <1>6, BlockData
  <2>2. QED BY <2>1, TokensIn
<1>8. sizes[1] \in Int /\ sizes[2] \in Int /\ sizes[3] \in Int /\ sizes[1] + sizes[2] \in Int /\ 0 \in Int
  BY <1>4
<1>9. part[1] \in Seq(TokenSet) /\ part[2] \in Seq(TokenSet) /\ part[3] \in Seq(TokenSet)
  BY <1>5, <1>7, <1>8
<1>10. part[2] \o part[3] \in Seq(TokenSet)
  BY <1>9
<1>11. QED BY <1>9, <1>10 DEF part

(* Why an image is refused.                                                *)
Reasons == {"", "bin too wide", "buffer full"}

(* An image that fits is refused for one of these reasons, or not at all.  *)
LEMMA EncodedSound ==
  ASSUME NEW img, ImageFits(img), TablesFit(img), NEW comment
  PROVE  Encoded(img, comment).why \in Reasons
<1> DEFINE q == Quantized(img)
           part == PartsOfImage(img)
           blocks == Blocks(part)
           data == Headers(img, comment, q.kept) \o blocks.data \o Marker(EOI)
<1>1. Encoded(img, comment) = Assembled(img, q, blocks, data)
  BY Zenon DEF Encoded, EncodedAs, WithHeaders, PartsOfImage
<1>2. q.sip.len = q.qsize[1] + q.qsize[2] + q.qsize[3]
  BY SizesAgree DEF ImageFits
<1>3. gen_hufftable_wsq(part[1]).ok = TRUE /\ gen_hufftable_wsq(part[2] \o part[3]).ok = TRUE
  <2>1. part[1] \in Seq(TokenSet) /\ part[2] \o part[3] \in Seq(TokenSet)
    BY PartsAreTokens
  <2>2. \A tokens \in {part[1], part[2] \o part[3]} : Len(tokens) + 1 < Fibonacci[Longer + 3]
    BY DEF TablesFit
  <2> HIDE DEF part
  <2>3. QED BY <2>1, <2>2, CodesNeverOnes
<1>4. blocks.ok = TRUE
  <2> HIDE DEF part
  <2>1. blocks = Coded(part, gen_hufftable_wsq(part[1]), gen_hufftable_wsq(part[2] \o part[3]))
    BY Zenon DEF Blocks
  <2> HIDE DEF blocks
  <2>2. blocks.ok = (gen_hufftable_wsq(part[1]).ok /\ gen_hufftable_wsq(part[2] \o part[3]).ok)
    BY <2>1 DEF Coded
  <2>3. QED BY <1>3, <2>2
<1> HIDE DEF q, blocks, data
<1> DEFINE Refused(why) == [why |-> why, data |-> <<>>]
           c2 == ~Writable(q.kept)
           c4 == Len(data) > img.w * img.h
<1>5. Assembled(img, q, blocks, data)
        = CASE q.sip.len # q.qsize[1] + q.qsize[2] + q.qsize[3] -> Refused("block sizes")
            [] c2 -> Refused("bin too wide")
            [] ~blocks.ok -> Refused("code of ones")
            [] c4 -> Refused("buffer full")
            [] OTHER -> [why |-> "", data |-> data]
  BY Zenon DEF Assembled
<1> HIDE DEF c2, c4
<1>6. Refused("bin too wide").why = "bin too wide" /\ Refused("buffer full").why = "buffer full"
      /\ [why |-> "", data |-> data].why = ""
  OBVIOUS
<1> DEFINE e == Assembled(img, q, blocks, data)
<1>7. e \in {Refused("bin too wide"), Refused("buffer full"), [why |-> "", data |-> data]}
  <2> HIDE DEF Refused
  <2>1. QED BY <1>2, <1>4, <1>5
<1> HIDE DEF e, Refused
<1>8. e.why \in Reasons
  BY <1>6, <1>7 DEF Reasons
<1>9. QED BY <1>1, <1>8 DEF e

StreamOk(s) == "why" \in DOMAIN s /\ s.why \in Reasons
StreamsOk == DOMAIN stream = Threads /\ \A t \in Threads : StreamOk(stream[t])

LEMMA StreamsOkInit == CInit => StreamsOk
<1> SUFFICES ASSUME CInit PROVE StreamsOk
  OBVIOUS
<1>1. stream = [t \in Threads |-> NoStream]
  BY Zenon DEF CInit
<1>2. StreamOk(NoStream)
  BY DEF StreamOk, NoStream, Reasons
<1>3. QED BY <1>1, <1>2 DEF StreamsOk

(* Only the encoder gives a reason.                                        *)
LEMMA SameReasons ==
  ASSUME StreamsOk, NEW t \in Threads,
         \/ \E data, list, edits : stream' = [stream EXCEPT ![t].data = data, ![t].list = list, ![t].edits = edits]
         \/ \E data, whole : stream' = [stream EXCEPT ![t].data = data, ![t].whole = whole]
  PROVE  StreamsOk'
<1>1. ASSUME NEW data, NEW list, NEW edits,
             stream' = [stream EXCEPT ![t].data = data, ![t].list = list, ![t].edits = edits]
      PROVE  StreamsOk'
  <2>1. DOMAIN stream' = Threads /\ \A u \in Threads \ {t} : stream'[u] = stream[u]
    BY <1>1 DEF StreamsOk
  <2>2. stream'[t] = [stream[t] EXCEPT !.data = data, !.list = list, !.edits = edits]
    BY <1>1 DEF StreamsOk
  <2>3. StreamOk(stream'[t])
    BY <2>2 DEF StreamsOk, StreamOk
  <2>4. QED BY <2>1, <2>3 DEF StreamsOk
<1>2. ASSUME NEW data, NEW whole, stream' = [stream EXCEPT ![t].data = data, ![t].whole = whole]
      PROVE  StreamsOk'
  <2>1. DOMAIN stream' = Threads /\ \A u \in Threads \ {t} : stream'[u] = stream[u]
    BY <1>2 DEF StreamsOk
  <2>2. stream'[t] = [stream[t] EXCEPT !.data = data, !.whole = whole]
    BY <1>2 DEF StreamsOk
  <2>3. StreamOk(stream'[t])
    BY <2>2 DEF StreamsOk, StreamOk
  <2>4. QED BY <2>1, <2>3 DEF StreamsOk
<1>3. QED BY <1>1, <1>2

LEMMA EditKeeps ==
  ASSUME StreamsOk, NEW t \in Threads, NEW data, NEW list, Edit(t, data, list)
  PROVE  StreamsOk'
<1>1. stream' = [stream EXCEPT ![t].data = data, ![t].list = list, ![t].edits = @ + 1]
  BY DEF Edit
<1>2. \E d, l, e : stream' = [stream EXCEPT ![t].data = d, ![t].list = l, ![t].edits = e]
  BY <1>1
<1>3. QED BY <1>2, SameReasons

(* The encoder.                                                            *)
LEMMA EncodeSound ==
  ASSUME StreamsOk, \A i \in DOMAIN Images : ImageFits(Images[i]) /\ TablesFit(Images[i]),
         NEW t \in Threads, NEW img \in DOMAIN Images, NEW comment, wsq_encode_mem(t, img, comment)
  PROVE  StreamsOk'
<1>1. PICK e : /\ e = Encoded(Images[img], comment)
               /\ stream' = [stream EXCEPT ![t].img = img, ![t].why = e.why, ![t].data = e.data, ![t].list = "full"]
  BY Zenon DEF wsq_encode_mem
<1>2. e.why \in Reasons
  <2>1. ImageFits(Images[img]) /\ TablesFit(Images[img])
    OBVIOUS
  <2> DEFINE i == Images[img]
  <2>2. ImageFits(i) /\ TablesFit(i)
    BY <2>1
  <2> HIDE DEF i
  <2>3. Encoded(i, comment).why \in Reasons
    BY <2>2, EncodedSound
  <2>4. QED BY <1>1, <2>3 DEF i
<1>3. DOMAIN stream' = Threads /\ \A u \in Threads \ {t} : stream'[u] = stream[u]
  BY <1>1 DEF StreamsOk
<1>4. stream'[t] = [stream[t] EXCEPT !.img = img, !.why = e.why, !.data = e.data, !.list = "full"]
  BY <1>1 DEF StreamsOk
<1>5. StreamOk(stream'[t])
  BY <1>2, <1>4 DEF StreamsOk, StreamOk
<1>6. QED BY <1>3, <1>5 DEF StreamsOk

(* The encoder refuses an image for a reason of the image's only, never    *)
(* for its own sake: blocks that do not add up, a code of ones only.       *)
THEOREM AlwaysEncoderSound ==
  ASSUME \A i \in DOMAIN Images : ImageFits(Images[i]) /\ TablesFit(Images[i])
  PROVE  CSpec => []EncoderSound
<1>1. CInit => StreamsOk
  BY StreamsOkInit
<1>2. StreamsOk /\ [CNext]_cvars => StreamsOk'
  <2> SUFFICES ASSUME StreamsOk, [CNext]_cvars PROVE StreamsOk'
    OBVIOUS
  <2>1. CASE UNCHANGED stream
    BY <2>1 DEF StreamsOk
  <2>2. CASE CNext
    <3>1. PICK t \in Threads :
            \/ \E img \in DOMAIN Images, text \in Comments : wsq_encode_mem(t, img, text)
            \/ DeleteComments(t)
            \/ \E text \in Added : AddComment(t, text)
            \/ \E at \in Places(t) : Remark(t, at)
            \/ \E len \in CutTo : CutShort(t, len)
            \/ Decode(t)
            \/ TakeNext(t)
      BY <2>2, Zenon DEF CNext
    <3>2. CASE \E img \in DOMAIN Images, text \in Comments : wsq_encode_mem(t, img, text)
      BY <3>2, EncodeSound
    <3>3. CASE DeleteComments(t)
      BY <3>3, EditKeeps DEF DeleteComments
    <3>4. CASE \E text \in Added : AddComment(t, text)
      <4>1. \E data, list : Edit(t, data, list)
        BY <3>4, Zenon DEF AddComment
      <4>2. QED BY <4>1, EditKeeps
    <3>5. CASE \E at \in Places(t) : Remark(t, at)
      <4>1. \E data, list : Edit(t, data, list)
        BY <3>5, Zenon DEF Remark
      <4>2. QED BY <4>1, EditKeeps
    <3>6. CASE \E len \in CutTo : CutShort(t, len)
      <4>1. PICK len \in CutTo : CutShort(t, len)
        BY <3>6
      <4>2. stream' = [stream EXCEPT ![t].data = SubSeq(@, 1, len), ![t].whole = FALSE]
        BY <4>1 DEF CutShort
      <4>3. \E data, whole : stream' = [stream EXCEPT ![t].data = data, ![t].whole = whole]
        BY <4>2
      <4>4. QED BY <4>3, SameReasons
    <3>7. CASE Decode(t)
      <4>1. UNCHANGED stream
        BY <3>7, Zenon DEF Decode, Begin, Table, Frame, StartData, BlockHeader, Symbol, Trailer, Finish
      <4>2. QED BY <2>1, <4>1
    <3>8. CASE TakeNext(t)
      <4>1. stream' = [stream EXCEPT ![t] = [NoStream EXCEPT !.again = TRUE]]
        BY <3>8 DEF TakeNext
      <4>2. StreamOk([NoStream EXCEPT !.again = TRUE])
        BY DEF StreamOk, NoStream, Reasons
      <4>3. QED BY <4>1, <4>2 DEF StreamsOk
    <3>9. QED BY <3>1, <3>2, <3>3, <3>4, <3>5, <3>6, <3>7, <3>8
  <2>3. QED BY <2>1, <2>2 DEF cvars
<1>3. StreamsOk => EncoderSound
  BY DEF StreamsOk, StreamOk, EncoderSound, Reasons
<1>4. QED BY <1>1, <1>2, <1>3, PTL DEF CSpec

===============================================================================
