------------------------------ MODULE FusionLoop ------------------------------
(***************************************************************************)
(* The loop of calc_score (ebsclient.cpp), run on two vectors of scores    *)
(* side by side, each score of the second no lower than its counterpart.   *)
(***************************************************************************)
EXTENDS Fusion

CONSTANT Grid    \* scores that are given to the loop
ASSUME GridOK == Grid \subseteq 0..Unit

VARIABLES
  score,   \* of the scores so far
  better,  \* of other scores, each no lower than its counterpart
  all      \* has every score so far reached the threshold?

lvars == <<score, better, all>>

LInit ==
  /\ score \in Grid
  /\ better \in {g \in Grid : g >= score}
  /\ all = Reaches(score)

LNext ==
  \E s \in Grid : \E b \in {g \in Grid : g >= s} :
    /\ score' = multi_score(score, s)
    /\ better' = multi_score(better, b)
    /\ all' = (all /\ Reaches(s))

(* The fused score reaches the threshold exactly when each of the scores   *)
(* does: the four surfaces make a conjunction, whatever the number and the *)
(* order of the scores.                                                    *)
Conjunction == Reaches(score) <=> all

(* A better score never lowers the fused score, though the surfaces meet   *)
(* at a jump and the fold is not associative.                              *)
Monotone == score <= better
=============================================================================
