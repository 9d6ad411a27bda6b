---------------------------- MODULE MCEbsClient ----------------------------
(* More threads than ports, so that threads wait for each other. *)
EXTENDS EbsClient

CONSTANTS t1, t2, t3
=============================================================================
