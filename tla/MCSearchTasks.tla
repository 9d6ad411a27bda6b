---------------------------- MODULE MCSearchTasks ----------------------------
(* Elements found and owned or not, searched without comparison, not       *)
(* found, not indexed, not extracted, of no type, and such that throw.     *)
EXTENDS SearchTasks

Found(r, o) == [read |-> r, owned |-> o]
Query(t, s, u, x, c, ids) ==
  [type |-> t, service |-> s, unit |-> u, throws |-> x, compare |-> c, found |-> ids]
MCQueries ==
  {Query("ABIS_FACE_TEMPLATE", 0, TRUE, "never", TRUE,
         <<Found(TRUE, FALSE), Found(FALSE, TRUE), Found(TRUE, TRUE)>>),
   Query("ABIS_IRIS_IMAGE", 1, TRUE, "never", FALSE, <<Found(FALSE, TRUE)>>),
   Query("ABIS_FINGER_GOST_IMAGE", 1, FALSE, "never", TRUE, <<>>),
   Query("ABIS_FINGER_TEMPLATE", 0, TRUE, "never", TRUE, <<>>),
   Query("ABIS_FACE_IMAGE", 1, FALSE, "never", TRUE, <<Found(TRUE, TRUE)>>),
   Query("ABIS_LIVEFACE_IMAGE", 0, FALSE, "never", TRUE, <<>>),
   Query(NoType, 0, FALSE, "db_open", TRUE, <<>>),
   Query(NoType, 0, FALSE, "json", TRUE, <<>>)}
==============================================================================
