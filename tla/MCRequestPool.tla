--------------------------- MODULE MCRequestPool ---------------------------
(* A request without tasks (echo, extract, verify, biocard), a comparison  *)
(* and a search for three elements.                                        *)
EXTENDS RequestPool

CONSTANTS p1, s1, s3

MCTasks == [r \in Requests |-> CASE r = p1 -> -1 [] r = s1 -> 2 [] r = s3 -> 3]
=============================================================================
