----------------------------- MODULE VerifyGet -----------------------------
(***************************************************************************)
(* verify_get of rest_verify.cpp: every sample of the request is compared  *)
(* with every template linked to one biocard, and the scores are fused,    *)
(* first per modality and then over the modalities.  Rows are read one by  *)
(* one and never change, so that the request is a loop over its samples.   *)
(***************************************************************************)
EXTENDS Fusion, FiniteSetsExt

CONSTANTS
  Threshold,             \* ABIS_..._THRESHOLD of a modality
  Samples,               \* samples clients send: see SamplesOK
  MaxSamples,            \* bound: samples in a request
  MaxLinks               \* bound: templates linked to the biocard

Modalities == {"face", "finger", "iris"}

(* type: of the template extracted; ok: was it extracted?; cmp: its score  *)
(* with each template of the biocard that is of its type, or -1 when       *)
(* db_tmp_cmp_by_id fails.                                                 *)
ASSUME SamplesOK ==
  /\ MaxSamples \in Nat /\ MaxLinks \in Nat
  /\ Threshold \in [Modalities -> 1..Unit]
  /\ \A s \in Samples :
       s.ok \in BOOLEAN /\ s.cmp \in [1..MaxLinks -> -1..Unit]

VARIABLES
  links,   \* types of the templates of the biocard; never changes
  seen,    \* samples processed; the request may end after any of them
  scores,  \* face_scores, finger_scores and iris_scores
  total   \* ELEMENT_VALUE; -1: none yet; -2: ELEMENT_RESULT is false

vvars == <<links, seen, scores, total>>

VInit ==
  /\ links \in UNION {[1..n -> Modalities] : n \in 0..MaxLinks}
  /\ seen = <<>>
  /\ scores = [m \in Modalities |-> <<>>]
  /\ total = -1

(* Mutant: a row of another type counts as nothing. *)
OtherTypeIsNothing(s, r) == IF links[r] # s.type THEN 0 ELSE Max({0, s.cmp[r]})

(* A row of another type counts as ABIS_FLOAT_THRESHOLD, a row that cannot *)
(* be read as 0.                                                           *)
RowScore(s, r) ==
  IF links[r] # s.type THEN ABIS_FLOAT_THRESHOLD ELSE Max({0, s.cmp[r]})

(* face_cmp_score, finger_cmp_score or iris_cmp_score *)
CmpScore(s) == Max({0} \cup {RowScore(s, r) : r \in DOMAIN links})

(* A sample is left out when it has no template or no score. *)
Counted(s) == s.ok /\ s.type \in Modalities /\ CmpScore(s) >= ABIS_FLOAT_THRESHOLD

NoLinks ==
  /\ links = <<>> /\ total = -1
  /\ total' = -2
  /\ UNCHANGED <<links, seen, scores>>

(* One element of the request *)
Verify(s) ==
  /\ links # <<>> /\ Len(seen) < MaxSamples /\ total = -1
  /\ scores' = IF Counted(s) THEN [scores EXCEPT ![s.type] = Append(@, CmpScore(s))]
                             ELSE scores
  /\ seen' = Append(seen, s)
  /\ UNCHANGED <<links, total>>

ModalScore(m) ==
  IF scores[m] = <<>> THEN <<>> ELSE <<calc_score(scores[m], Threshold[m])>>

(* Mutant: only the best modality counts. *)
BestModality ==
  LET all == ModalScore("face") \o ModalScore("finger") \o ModalScore("iris")
  IN  IF all = <<>> THEN 0 ELSE Max({all[i] : i \in DOMAIN all})

Score ==
  LET all == ModalScore("face") \o ModalScore("finger") \o ModalScore("iris")
  IN  IF all = <<>> THEN 0 ELSE calc_score(all, T)

Total ==
  /\ links # <<>> /\ total = -1
  /\ total' = Score
  /\ UNCHANGED <<links, seen, scores>>

Verified == total # -1 /\ UNCHANGED vvars

VNext == NoLinks \/ (\E s \in Samples : Verify(s)) \/ Total \/ Verified

VSpec == VInit /\ [][VNext]_vvars

-----------------------------------------------------------------------------
(* Properties *)

Seen == {seen[i] : i \in DOMAIN seen}
Matches(s) == Reaches(Normal(CmpScore(s), Threshold[s.type]))

(* The score of a request reaches ABIS_INTEGRA_THRESHOLD exactly when some *)
(* sample was counted and every counted sample matches a template of the   *)
(* biocard, in every modality.                                             *)
EverySampleMatches ==
  total >= 0 =>
    (Reaches(total) <=>
       /\ \E s \in Seen : Counted(s)
       /\ \A s \in Seen : Counted(s) => Matches(s))

(* With templates of two modalities in the biocard no extracted sample is  *)
(* left out: a sample that matches nothing, or whose template cannot be    *)
(* read, lowers the score.                                                 *)
NothingLeftOut ==
  (total >= 0 /\ Reaches(total) /\ \E i, j \in DOMAIN links : links[i] # links[j]) =>
    \A s \in Seen : (s.ok /\ s.type \in Modalities) => Matches(s)
=============================================================================
