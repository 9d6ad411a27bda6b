--------------------------- MODULE MCCompareTasks ---------------------------
(* What the functions of TmpFromJson make of elements of two types, and of *)
(* one that they do not support.                                           *)
EXTENDS CompareTasks

El(e) ==
  LET tmp == tmp_from_json(e)
  IN  [type |-> tmp.type, res |-> tmp.res, xyt |-> finger_xyt_from_json(e) # Unsupported]
Json(t, s, u) == [type |-> t, service |-> s, unit |-> u]
MCElements ==
  {El(e) : e \in {Json("ABIS_FACE_TEMPLATE", 0, TRUE), Json("ABIS_FACE_IMAGE", 1, FALSE),
                  Json("ABIS_FINGER_GOST_TEMPLATE", 0, TRUE), Json("ABIS_FINGER_GOST_IMAGE", 1, TRUE),
                  Json("ABIS_FINGER_GOST_IMAGE", -1, TRUE), Json(NoType, 0, FALSE)}}
=============================================================================
