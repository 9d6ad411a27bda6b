----------------------------- MODULE MCHandlers -----------------------------
(* Four instances in one.  compare: the elements of MCCompareTasks.        *)
(* verify: scores that fail to be read, are nothing, reach the finger      *)
(* threshold only, and reach both.  loop: calc_score alone, with scores    *)
(* around the threshold and its tolerance, and at both ends.  search: the  *)
(* elements of MCSearchTasks.                                              *)
EXTENDS MCCompareTasks, VerifyGet, FusionLoop, MCSearchTasks

VARIABLE part     \* which of them runs

MCThreshold == [m \in Modalities |-> IF m = "finger" THEN 44 ELSE 100]

MCSamples ==
  [type : {"face", "finger"}, ok : {TRUE}, cmp : [1..MaxLinks -> {-1, 0, 44, 100}]]
    \cup [type : {"iris", "other"}, ok : {TRUE}, cmp : [1..MaxLinks -> {0, 100}]]
    \cup {[type |-> "face", ok |-> FALSE, cmp |-> [r \in 1..MaxLinks |-> 0]]}

MCGrid == {0, 1, T \div 2, T - ABIS_FLOAT_THRESHOLD - 1, T - ABIS_FLOAT_THRESHOLD,
           T - ABIS_FLOAT_THRESHOLD + 1, T - 1, T, T + 1, Unit - 1, Unit}

(* A part that does not run keeps a value of its type. *)
CompareIdle ==
  /\ arr = <<>> /\ threads = 1 /\ pc = [t \in Tasks |-> "queued"]
  /\ type = [t \in Tasks |-> NoType] /\ reg = [t \in Tasks |-> 0] /\ held = {}
  /\ freed = [t \in Tasks |-> 0] /\ step = FALSE /\ res = 0 /\ compare_type = NoType
  /\ tmps = <<>> /\ answer = NoAnswer
VerifyIdle == links = <<>> /\ seen = <<>> /\ scores = [m \in Modalities |-> <<>>] /\ total = -1
LoopIdle == score = 0 /\ better = 0 /\ all = FALSE
SearchIdle ==
  /\ query = <<>> /\ free = 1 /\ at = <<>> /\ size = <<>> /\ good = <<>> /\ found = <<>>
  /\ rows = <<>> /\ row = <<>> /\ dbs = <<>> /\ json_out = <<>> /\ closed = <<>>
  /\ waited = -1 /\ reply = NoReply

MCInit ==
  /\ part \in {"compare", "verify", "loop", "search"}
  /\ IF part = "compare" THEN Init ELSE CompareIdle
  /\ IF part = "verify" THEN VInit ELSE VerifyIdle
  /\ IF part = "loop" THEN LInit ELSE LoopIdle
  /\ IF part = "search" THEN SInit ELSE SearchIdle

MCNext ==
  \/ part = "compare" /\ Next /\ UNCHANGED <<part, vvars, lvars, svars>>
  \/ part = "verify" /\ VNext /\ UNCHANGED <<part, vars, lvars, svars>>
  \/ part = "loop" /\ LNext /\ UNCHANGED <<part, vars, vvars, svars>>
  \/ part = "search" /\ SNext /\ UNCHANGED <<part, vars, vvars, lvars>>

MCSpec == MCInit /\ [][MCNext]_<<part, vars, vvars, lvars, svars>>
=============================================================================
