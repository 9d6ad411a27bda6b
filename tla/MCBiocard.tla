----------------------------- MODULE MCBiocard -----------------------------
(* Small instances of Biocard.  Samples of one person resemble each other  *)
(* ("f1", "f2"); "g1" and "g2" are impressions that the vector index takes *)
(* for equal, "g3" a finger whose vector collides with them.               *)
EXTENDS Biocard, TLC

MCKindOf ==
  [s \in Samples |-> CASE s \in {"f0", "f1", "f2"} -> "face"
                       [] s \in {"g0", "g1", "g2", "g3"} -> "finger"
                       [] s \in {"i0", "i1", "i2"} -> "iris"
                       [] OTHER -> "other"]

Alike == {{"f1", "f2"}, {"i1", "i2"}}
Equal == {{"g1", "g2"}, {"g1", "g3"}, {"g2", "g3"}}
MCScore ==
  [s \in Samples |-> [t \in Samples |->
     IF s = t THEN 100 ELSE IF {s, t} \in Equal THEN 96
     ELSE IF {s, t} \in Alike THEN 60 ELSE 10]]
MCGostScore ==
  [s \in Samples |-> [t \in Samples |->
     IF s = t THEN 100 ELSE IF {s, t} = {"g1", "g2"} THEN 30 ELSE 10]]

SeedRow(s) == [vec |-> s, gost |-> NoSample]
SeedFaceFinger == (<<"face", 2>> :> SeedRow("f0")) @@ (<<"finger", 3>> :> SeedRow("g0"))
SeedAll == SeedFaceFinger @@ (<<"iris", 2>> :> SeedRow("i0"))
SeedFaceIris == (<<"face", 4>> :> SeedRow("f0")) @@ (<<"iris", 4>> :> SeedRow("i0"))

Symmetry == Permutations(Workers)
=============================================================================
