------------------------------- MODULE Fusion -------------------------------
(***************************************************************************)
(* The score fusion of ebsclient.cpp: multi_score and calc_score.  A score *)
(* in [0, 1] is an integer number of parts of 1 / Unit, rounded down.      *)
(***************************************************************************)
EXTENDS Integers, Sequences, SequencesExt

CONSTANTS
  Unit,                  \* the score 1.0
  ABIS_FLOAT_THRESHOLD   \* tolerance of the comparisons

ABIS_INTEGRA_THRESHOLD == Unit \div 2
T == ABIS_INTEGRA_THRESHOLD

ASSUME FusionOK ==
  /\ Unit \in Nat /\ Unit > 0 /\ Unit % 40 = 0
  /\ ABIS_FLOAT_THRESHOLD \in 1..(T \div 5)

(* x >= T up to the tolerance *)
Reaches(x) == x > T - ABIS_FLOAT_THRESHOLD

(* The surface through four corners, at distances x and y (in 0..T) from   *)
(* the first: b1 + b2 2x + b3 2y + b4 4xy.                                 *)
Surface(f00, f10, f01, f11, x, y) ==
  (f00 * Unit * Unit + 2 * (f10 - f00) * x * Unit + 2 * (f01 - f00) * y * Unit
   + 4 * (f00 - f10 - f01 + f11) * x * y) \div (Unit * Unit)

(* Neither score reaches T; one does, at a; both do. *)
Low(x, y) == Surface(0, T \div 4, T \div 4, (T * 4) \div 5, x, y)

MixedLenient(a, b) == Surface(T \div 4, T \div 2, (T * 4) \div 5, T, a - T, b)  \* mutant
MixedSwapped(a, b) ==                          \* mutant: f10 and f01 exchanged
  Surface(T \div 4, (T * 4) \div 5, T \div 2, T - ABIS_FLOAT_THRESHOLD, a - T, b)
Mixed(a, b) ==
  Surface(T \div 4, T \div 2, (T * 4) \div 5, T - ABIS_FLOAT_THRESHOLD, a - T, b)

High(x, y) == Surface(T, (T * 3) \div 2, (T * 3) \div 2, T * 2, x - T, y - T)

multi_score(x, y) ==
  CASE ~Reaches(x) /\ ~Reaches(y) -> Low(x, y)
    [] Reaches(x) /\ ~Reaches(y) -> Mixed(x, y)
    [] ~Reaches(x) /\ Reaches(y) -> Mixed(y, x)
    [] Reaches(x) /\ Reaches(y) -> High(x, y)

(* A score relative to its modality's threshold: min(s / threshold * T, 1) *)
Normal(s, threshold) ==
  LET n == (s * T) \div threshold IN IF n < Unit THEN n ELSE Unit

calc_score(scores, threshold) ==
  LET normal == [i \in DOMAIN scores |-> Normal(scores[i], threshold)]
  IN  FoldLeft(multi_score, Head(normal), Tail(normal))

=============================================================================
