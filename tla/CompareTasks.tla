---------------------------- MODULE CompareTasks ----------------------------
(***************************************************************************)
(* compare_get of rest_compare.cpp: two tasks of the thread pool extract   *)
(* one template each, and share step, res, compare_type and tmps with no   *)
(* lock.  A step of a task is one access to a shared variable; pc[t] names *)
(* the access that comes next.  A build that keeps a shared value in a     *)
(* register does what this module does when the accesses follow each other *)
(* at once.  tmps.push_back is a read of the size and a write, so that two *)
(* of them may lose an element; what else racing ones may do (a torn       *)
(* vector) is not modelled, nor are elements whose JSON throws.            *)
(***************************************************************************)
EXTENDS Integers, Sequences, FiniteSets, TmpFromJson

CONSTANTS
  Elements,    \* what clients send: see ElementsOK
  Lengths,     \* lengths of the request's array
  FreeThreads  \* how many threads of the pool may be free for the tasks

(* type: json_tmp_type after the extraction; res: its result; xyt: the     *)
(* element is an ABIS_FINGER_GOST_IMAGE, that finger_xyt_from_json takes.  *)
(* An element of an unsupported type has type NoType and result 0; a       *)
(* finger that the service answers with the byte 1 is left out.            *)
ASSUME ElementsOK ==
  /\ \A e \in Elements :
       /\ DOMAIN e = {"type", "res", "xyt"}
       /\ e.res \in {-1, 0, 1} /\ e.xyt \in BOOLEAN
       /\ e.type = NoType <=> e.res = 0
       /\ e.type = NoType => ~e.xyt
  /\ Lengths \subseteq Nat
  /\ FreeThreads \subseteq Nat \ {0}

Tasks == 1..2

VARIABLES
  arr,          \* the request's array; never changes
  threads,      \* free threads of the pool; never changes
  pc,           \* the next access of a task
  type,         \* json_tmp_type of a task
  reg,          \* the shared value a task has read
  held,         \* tasks whose json_tmp_ptr is a template
  freed,        \* how often the template of a task has been freed
  step, res, compare_type,
  tmps,         \* tasks whose json_tmp_ptr was pushed
  answer        \* ELEMENT_RESULT and ELEMENT_TYPE

local == <<pc, type, reg, held, freed>>
shared == <<step, res, compare_type, tmps>>
input == <<arr, threads>>
vars == <<input, local, shared, answer>>

Types == {NoType} \cup {e.type : e \in Elements}
NoAnswer == [result |-> "none", type |-> NoType]
Accesses == {"step", "xyt", "tmp", "res", "setStep", "free", "push", "size",
             "store", "type", "setType", "match", "setMatch", "end"}

Init ==
  /\ arr \in UNION {[1..n -> Elements] : n \in Lengths}
  /\ threads \in FreeThreads
  /\ pc = [t \in Tasks |-> "queued"]
  /\ type = [t \in Tasks |-> NoType]
  /\ reg = [t \in Tasks |-> 0]
  /\ held = {}
  /\ freed = [t \in Tasks |-> 0]
  /\ step = (Len(arr) = 2)
  /\ res = 0
  /\ compare_type = NoType
  /\ tmps = <<>>
  /\ answer = NoAnswer

-----------------------------------------------------------------------------
(* The accesses of a task *)

At(t, p) == pc[t] = p
Goto(t, p) == pc' = [pc EXCEPT ![t] = p]
Running == {t \in Tasks : pc[t] \notin {"queued", "end"}}

(* A free thread of the pool takes the task. *)
Start(t) ==
  /\ At(t, "queued")
  /\ Cardinality(Running) < threads
  /\ Goto(t, "step")
  /\ UNCHANGED <<input, type, reg, held, freed, shared, answer>>

(* The first "if (step)". *)
TestStep(t) ==
  /\ At(t, "step")
  /\ Goto(t, IF step THEN "xyt" ELSE "push")
  /\ UNCHANGED <<input, type, reg, held, freed, shared, answer>>

(* The extraction leaves its result in the shared res. *)
Extract(t) ==
  /\ res' = arr[t].res
  /\ type' = [type EXCEPT ![t] = arr[t].type]
  /\ held' = IF arr[t].type = NoType THEN held ELSE held \cup {t}
  /\ Goto(t, "res")
  /\ UNCHANGED <<input, reg, freed, step, compare_type, tmps, answer>>

(* res = finger_xyt_from_json, that is 0 for the elements it does not take *)
XytFromJson(t) ==
  /\ At(t, "xyt")
  /\ \/ arr[t].xyt /\ Extract(t)
     \/ /\ ~arr[t].xyt
        /\ res' = 0
        /\ Goto(t, "tmp")
        /\ UNCHANGED <<input, type, reg, held, freed, step, compare_type, tmps, answer>>

(* ... and res = tmp_from_json for those. *)
TmpFromJson(t) == At(t, "tmp") /\ Extract(t)

(* Mutant: 0, the result for an unsupported element, counts as success. *)
ReadResZero(t) ==
  /\ At(t, "res")
  /\ reg' = [reg EXCEPT ![t] = IF res >= 0 THEN 1 ELSE 0]
  /\ Goto(t, "setStep")
  /\ UNCHANGED <<input, type, held, freed, shared, answer>>

(* step = res > 0: the read of res ... *)
ReadRes(t) ==
  /\ At(t, "res")
  /\ reg' = [reg EXCEPT ![t] = IF res > 0 THEN 1 ELSE 0]
  /\ Goto(t, "setStep")
  /\ UNCHANGED <<input, type, held, freed, shared, answer>>

(* ... and the write of step. *)
SetStep(t) ==
  /\ At(t, "setStep")
  /\ step' = (reg[t] = 1)
  /\ Goto(t, "free")
  /\ UNCHANGED <<input, type, reg, held, freed, res, compare_type, tmps, answer>>

(* Mutant: the template of a failed extraction is left to the handler. *)
KeepIfFailed(t) ==
  /\ At(t, "free")
  /\ Goto(t, "push")
  /\ UNCHANGED <<input, type, reg, held, freed, shared, answer>>

(* if (!step) free(json_tmp_ptr), and the pointer is kept. *)
FreeIfFailed(t) ==
  /\ At(t, "free")
  /\ freed' = IF ~step /\ t \in held THEN [freed EXCEPT ![t] = @ + 1] ELSE freed
  /\ Goto(t, "push")
  /\ UNCHANGED <<input, type, reg, held, shared, answer>>

(* The second "if (step)". *)
TestPush(t) ==
  /\ At(t, "push")
  /\ Goto(t, IF step THEN "size" ELSE "end")
  /\ UNCHANGED <<input, type, reg, held, freed, shared, answer>>

(* tmps.push_back: the size is read ... *)
ReadSize(t) ==
  /\ At(t, "size")
  /\ reg' = [reg EXCEPT ![t] = Len(tmps)]
  /\ Goto(t, "store")
  /\ UNCHANGED <<input, type, held, freed, shared, answer>>

(* ... and the element stored at that place. *)
StoreTmp(t) ==
  /\ At(t, "store")
  /\ tmps' = Append(SubSeq(tmps, 1, reg[t]), t)
  /\ Goto(t, "type")
  /\ UNCHANGED <<input, type, reg, held, freed, step, res, compare_type, answer>>

(* if (compare_type == ABIS_DATA) *)
TestType(t) ==
  /\ At(t, "type")
  /\ Goto(t, IF compare_type = NoType THEN "setType" ELSE "match")
  /\ UNCHANGED <<input, type, reg, held, freed, shared, answer>>

SetType(t) ==
  /\ At(t, "setType")
  /\ compare_type' = type[t]
  /\ Goto(t, "match")
  /\ UNCHANGED <<input, type, reg, held, freed, step, res, tmps, answer>>

(* step = compare_type == json_tmp_type: the read of compare_type ... *)
ReadType(t) ==
  /\ At(t, "match")
  /\ reg' = [reg EXCEPT ![t] = IF compare_type = type[t] THEN 1 ELSE 0]
  /\ Goto(t, "setMatch")
  /\ UNCHANGED <<input, type, held, freed, shared, answer>>

(* Mutant: the types are not compared. *)
SetAnyMatch(t) ==
  /\ At(t, "setMatch")
  /\ step' = TRUE
  /\ Goto(t, "end")
  /\ UNCHANGED <<input, type, reg, held, freed, res, compare_type, tmps, answer>>

(* ... and the write of step. *)
SetMatch(t) ==
  /\ At(t, "setMatch")
  /\ step' = (reg[t] = 1)
  /\ Goto(t, "end")
  /\ UNCHANGED <<input, type, reg, held, freed, res, compare_type, tmps, answer>>

-----------------------------------------------------------------------------
(* The handler waits for both tasks, answers, and frees what was pushed. *)
Answer ==
  LET ok == step /\ Len(tmps) = 2
  IN  /\ answer = NoAnswer
      /\ \A t \in Tasks : At(t, "end")
      /\ answer' = [result |-> IF ok THEN "true" ELSE "false",
                    type |-> IF ok THEN compare_type ELSE NoType]
      /\ step' = ok
      /\ freed' = [t \in Tasks |-> freed[t] + Cardinality({i \in DOMAIN tmps : tmps[i] = t})]
      /\ UNCHANGED <<input, pc, type, reg, held, res, compare_type, tmps>>

Answered == answer # NoAnswer /\ UNCHANGED vars

Access(t) ==
  \/ Start(t) \/ TestStep(t) \/ XytFromJson(t) \/ TmpFromJson(t)
  \/ ReadRes(t) \/ SetStep(t) \/ FreeIfFailed(t)
  \/ TestPush(t) \/ ReadSize(t) \/ StoreTmp(t)
  \/ TestType(t) \/ SetType(t) \/ ReadType(t) \/ SetMatch(t)

Next == (\E t \in Tasks : Access(t)) \/ Answer \/ Answered

Spec == Init /\ [][Next]_vars

-----------------------------------------------------------------------------
(* Properties *)

Good(e) == e.res > 0

(* Two templates of one type. *)
Comparable == Len(arr) = 2 /\ Good(arr[1]) /\ Good(arr[2]) /\ arr[1].type = arr[2].type

(* When one thread runs the tasks one after the other, in either order, a  *)
(* comparison is accepted exactly when both elements are templates of one  *)
(* type, and the answer names that type.                                   *)
SerialVerdict ==
  threads = 1 /\ answer # NoAnswer =>
    answer = IF Comparable THEN [result |-> "true", type |-> arr[1].type]
                           ELSE [result |-> "false", type |-> NoType]

(* ... and every template that was allocated is freed once, by its task or *)
(* by the handler.                                                         *)
FreedOnce ==
  threads = 1 /\ answer # NoAnswer =>
    \A t \in Tasks : freed[t] = IF t \in held THEN 1 ELSE 0

(* However the tasks interleave, and though they overwrite each other's    *)
(* res and step: a pair without any template is refused.                   *)
NoTemplateRefused ==
  answer.result = "true" => \E t \in 1..Len(arr) : Good(arr[t])

(* "compare_get: mixed compare types": templates of different types are    *)
(* not compared.                                                           *)
MixedTypesRefused ==
  (answer.result = "true" /\ \A t \in 1..Len(arr) : Good(arr[t])) =>
    arr[1].type = arr[2].type

(* "compare_get: error extract template": an element whose template could  *)
(* not be extracted is not compared.                                       *)
FailedExtractRefused ==
  answer.result = "true" => \A t \in 1..Len(arr) : Good(arr[t])
=============================================================================
