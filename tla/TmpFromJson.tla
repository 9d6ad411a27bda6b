---------------------------- MODULE TmpFromJson ----------------------------
(***************************************************************************)
(* tmp_from_json and finger_xyt_from_json of restutils.cpp: what becomes   *)
(* of a JSON element.  An element is [type, service, unit]: its            *)
(* ELEMENT_TYPE; for an image, the sign of what the extraction service or  *)
(* the liveness check answers; and whether the vector has the norm 1       *)
(* (within the tolerance of its branch).  The outcome is [type, res]:      *)
(* tmp_type, and the sign of the result.                                   *)
(***************************************************************************)
EXTENDS Integers

NoType == "ABIS_DATA"
Unsupported == [type |-> NoType, res |-> 0]

(* Allocated, and filled by the service; faces and irises are checked.  0  *)
(* is the result of a finger that the service answers with the byte 1.     *)
Filled(e, t) == [type |-> t, res |-> e.service]
FilledUnit(e, t) ==
  [type |-> t, res |-> IF e.service > 0 /\ ~e.unit THEN -1 ELSE e.service]

(* json2tmp and check_tmp: an array of another length has become zeros. *)
Parsed(e, t) == [type |-> t, res |-> IF e.unit THEN 1 ELSE -1]

face_tmp_from_json(e) ==
  IF e.type = "ABIS_FACE_IMAGE" THEN FilledUnit(e, "ABIS_FACE_TEMPLATE")
                                ELSE Parsed(e, "ABIS_FACE_TEMPLATE")

iris_tmp_from_json(e) ==
  IF e.type = "ABIS_IRIS_IMAGE" THEN FilledUnit(e, "ABIS_IRIS_TEMPLATE")
                                ELSE Parsed(e, "ABIS_IRIS_TEMPLATE")

finger_tmp_from_json(e) ==
  CASE e.type = "ABIS_FINGER_IMAGE"         -> Filled(e, "ABIS_FINGER_TEMPLATE")
    [] e.type = "ABIS_FINGER_GOST_IMAGE"    -> Filled(e, "ABIS_FINGER_GOST_TEMPLATE")
    [] e.type = "ABIS_FINGER_TEMPLATE"      -> Parsed(e, "ABIS_FINGER_TEMPLATE")
    [] e.type = "ABIS_FINGER_GOST_TEMPLATE" -> Parsed(e, "ABIS_FINGER_GOST_TEMPLATE")

livecheck_from_json(e) == Filled(e, "ABIS_LIVEFACE_IMAGE")

finger_xyt_from_json(e) ==
  IF e.type = "ABIS_FINGER_GOST_IMAGE" THEN Filled(e, "ABIS_FINGER_GOST_TEMPLATE")
                                       ELSE Unsupported

(* A negative result is made more negative by the type: its sign stays. *)
tmp_from_json(e) ==
  CASE e.type \in {"ABIS_FACE_IMAGE", "ABIS_FACE_TEMPLATE"} -> face_tmp_from_json(e)
    [] e.type \in {"ABIS_IRIS_IMAGE", "ABIS_IRIS_TEMPLATE"} -> iris_tmp_from_json(e)
    [] e.type \in {"ABIS_FINGER_IMAGE", "ABIS_FINGER_TEMPLATE",
                   "ABIS_FINGER_GOST_IMAGE", "ABIS_FINGER_GOST_TEMPLATE"} -> finger_tmp_from_json(e)
    [] e.type = "ABIS_LIVEFACE_IMAGE" -> livecheck_from_json(e)
    [] OTHER -> Unsupported
=============================================================================
