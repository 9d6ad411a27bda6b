------------------------------ MODULE Biocard ------------------------------
(***************************************************************************)
(* The handlers of rest_biocard.cpp that change the database: biocard_put  *)
(* (enrol samples into a new or an existing biocard) and biocard_del       *)
(* (delete a biocard, or some of its links).  Every worker serves one      *)
(* request at a time; a step of a worker is one SQL statement with the     *)
(* local computation around it.  pc[w] names the statement sent next.      *)
(*                                                                         *)
(* Reading a vector and comparing it is one step with the search that      *)
(* found it: rows are never deleted and their vectors never change.        *)
(***************************************************************************)
EXTENDS DbClient

CONSTANTS
  Ops,          \* the requests clients send
  MaxElems,     \* bound: elements in the body of a PUT
  MaxRequests,  \* bound: requests in a behaviour
  Faults        \* may statements fail, replies be lost, the server crash?

ASSUME BoundsOK == MaxElems \in Nat /\ MaxRequests \in Nat /\ Faults \in BOOLEAN

VARIABLES
  pc,       \* the next statement of a worker
  card,     \* bc_id
  todo,     \* elements of the request body not processed yet
  cand,     \* (tmp_type, tmp_id) of the current element
  rep,      \* keys written to json_out so far
  answer,   \* last answer of a worker: ELEMENT_RESULT true, or not
  served    \* number of requests received

local == <<card, todo, rep, answer, served>>
vars == <<dbVars, pc, cand, local>>

TxPcs == {"elem", "owner", "insert", "append", "gost", "regost", "overwrite", "link",
          "rollback"}
Requests == UNION {[1..n -> Samples] : n \in 0..MaxElems}

LocalTypeOK ==
  /\ pc \in [Workers -> TxPcs \cup {"idle", "delCard"}]
  /\ card \in [Workers -> CardIds \cup {0}]
  /\ todo \in [Workers -> Seq(Samples)]
  /\ cand \in [Workers -> Keys]
  /\ rep \in [Workers -> SUBSET Keys]
  /\ answer \in [Workers -> {"none", "ok", "fail"}]
  /\ served \in 0..MaxRequests
TypeOK == DbTypeOK /\ LocalTypeOK

Init ==
  /\ DbInit
  /\ pc = [w \in Workers |-> "idle"]
  /\ card = [w \in Workers |-> 0]
  /\ todo = [w \in Workers |-> <<>>]
  /\ cand = [w \in Workers |-> NoKey]
  /\ rep = [w \in Workers |-> {}]
  /\ answer = [w \in Workers |-> "none"]
  /\ served = 0

-----------------------------------------------------------------------------
(* Control *)

Sample(w) == Head(todo[w])
Kind(w) == KindOf[Sample(w)]
CandScore(w) == Score[Sample(w)][rows[cand[w]].vec]

Goto(w, p) == pc' = [pc EXCEPT ![w] = p]

(* A statement that took effect; with faults its reply may be lost. *)
Sent(w, p) == Goto(w, p) \/ (Faults /\ Goto(w, "rollback"))

Receive(w, op, p, c, s) ==
  /\ pc[w] = "idle"
  /\ op \in Ops
  /\ served < MaxRequests
  /\ served' = served + 1
  /\ Goto(w, p)
  /\ card' = [card EXCEPT ![w] = c]
  /\ todo' = [todo EXCEPT ![w] = s]
  /\ cand' = [cand EXCEPT ![w] = NoKey]
  /\ rep' = [rep EXCEPT ![w] = {}]
  /\ answer' = [answer EXCEPT ![w] = "none"]

Reply(w, a) ==
  /\ Goto(w, "idle")
  /\ answer' = [answer EXCEPT ![w] = a]
  /\ UNCHANGED <<card, todo, cand, rep, served>>

AtElement(w, kind) == pc[w] = "elem" /\ todo[w] # <<>> /\ Kind(w) = kind

-----------------------------------------------------------------------------
(* biocard_put *)

(* PUT /biocard: BEGIN and db_add_bc. *)
PutNew(w, s) ==
  \/ /\ Receive(w, "new", "elem", bcSeq + 1, s)
     /\ DbAddBc(w)
     /\ UNCHANGED <<rows, tmpSeq, cards, links, pend, aborted>>
  \/ /\ bcSeq = BcMax
     /\ Receive(w, "new", "rollback", 0, s)
     /\ UNCHANGED dbVars

(* PUT /biocard/{uuid}: BEGIN and db_get_bc_by_gid. *)
PutInto(w, c, s) ==
  /\ IF c \in cards THEN Receive(w, "into", "elem", c, s)
                    ELSE Receive(w, "into", "rollback", 0, s)
  /\ UNCHANGED dbVars

(* ABIS_DATA, or tmp_from_json finds no template. *)
RejectSample(w) ==
  /\ pc[w] = "elem" /\ todo[w] # <<>>
  /\ Goto(w, "rollback")
  /\ UNCHANGED <<dbVars, cand, local>>

(* A template of a type that is neither face, finger nor iris is reported  *)
(* as accepted, with id 0, and nothing is stored.                          *)
SkipOther(w) ==
  /\ AtElement(w, "other")
  /\ todo' = [todo EXCEPT ![w] = Tail(@)]
  /\ UNCHANGED <<dbVars, pc, cand, card, rep, answer, served>>

(* The statement that follows the search, by the score of the row found. *)
FaceNext(score) == IF score >= ABIS_FACE_THRESHOLD THEN "owner" ELSE "insert"
IrisNext(score) == IF score >= ABIS_IRIS_THRESHOLD THEN "owner" ELSE "insert"
FingerNeverInserted(score) == "gost"      \* mutant: always reuse
FingerNext(score) == IF score < ABIS_EQUAL_THRESHOLD THEN "insert" ELSE "gost"

AfterSearch(kind, score) ==
  CASE kind = "face" -> FaceNext(score)
    [] kind = "iris" -> IrisNext(score)
    [] kind = "finger" -> FingerNext(score)

(* The search finds a row, whose vector is read. *)
Found(w, kind) ==
  \E k \in DbSearchTmp(kind, Sample(w)) :
    /\ cand' = [cand EXCEPT ![w] = k]
    /\ Goto(w, AfterSearch(kind, Score[Sample(w)][rows[k].vec]))

(* Mutant: a sample that finds nothing is the first of its index. *)
SearchOrInsert(w, kind) ==
  /\ AtElement(w, kind)
  /\ \/ Stored(kind) = {} /\ Goto(w, "insert") /\ UNCHANGED cand
     \/ Found(w, kind)
  /\ UNCHANGED <<dbVars, local>>

(* An empty index finds nothing, and the element fails. *)
Search(w, kind) ==
  /\ AtElement(w, kind)
  /\ \/ Stored(kind) = {} /\ Goto(w, "rollback") /\ UNCHANGED cand
     \/ Found(w, kind)
  /\ UNCHANGED <<dbVars, local>>

AlwaysInsert(w) == IF Kind(w) # "finger" THEN "insert" ELSE "link"  \* mutant
(* After db_get_bc_for_tmp returned 0. *)
Unowned(w) == IF Kind(w) # "finger" /\ CandScore(w) <= ABIS_EQUAL_THRESHOLD
                THEN "insert" ELSE "link"

(* Mutant: the owner is not looked up. *)
OwnerIgnored(w) ==
  /\ pc[w] = "owner"
  /\ Goto(w, Unowned(w))
  /\ UNCHANGED <<dbVars, cand, local>>

(* A template that a biocard owns already is refused.  An SQL error fails  *)
(* the transaction, but db_get_bc_for_tmp returns 0 all the same.          *)
CheckOwner(w) ==
  /\ pc[w] = "owner"
  /\ \/ /\ Goto(w, IF DbGetBcForTmp(w, cand[w]) THEN "rollback" ELSE Unowned(w))
        /\ UNCHANGED aborted
     \/ /\ Faults
        /\ Goto(w, Unowned(w))
        /\ aborted' = aborted \cup {w}
  /\ UNCHANGED <<tables, txCard, pend, cand, local>>

(* Mutant: a finger is linked before its gost is stored. *)
InsertThenLink(w) ==
  /\ pc[w] = "insert"
  /\ DbInsertTmp(Kind(w), Sample(w))
  /\ cand' = [cand EXCEPT ![w] = <<Kind(w), tmpSeq[Kind(w)] + 1>>]
  /\ Goto(w, "link")
  /\ UNCHANGED <<cards, bcSeq, links, tx, local>>

(* db_get_..._seq and db_insert_..._tmp. *)
Insert(w) ==
  /\ pc[w] = "insert"
  /\ \/ /\ DbInsertTmp(Kind(w), Sample(w))
        /\ cand' = [cand EXCEPT ![w] = <<Kind(w), tmpSeq[Kind(w)] + 1>>]
        /\ Sent(w, IF Kind(w) = "finger" THEN "append" ELSE "link")
     \/ /\ DbInsertRefused(Kind(w))
        /\ Goto(w, "rollback")
        /\ UNCHANGED cand
  /\ UNCHANGED <<cards, bcSeq, links, tx, local>>

(* The first db_append_finger_gost, of a row just inserted. *)
AppendGost(w) ==
  /\ pc[w] = "append"
  /\ DbAppendFingerGost(cand[w], Sample(w))
  /\ Sent(w, "regost")
  /\ UNCHANGED <<tmpSeq, cards, bcSeq, links, tx, cand, local>>

(* Mutant: the stored gost is not compared but replaced. *)
ReplaceGost(w) ==
  /\ pc[w] = "gost"
  /\ Goto(w, "regost")
  /\ UNCHANGED <<dbVars, cand, local>>

(* db_gost_tmp_by_id: no gost yet, a gost that agrees, or another one.  A  *)
(* failed SELECT gives 0, as if there were none: whatever gost there is,   *)
(* it is then overwritten, neither compared nor its owner looked up.       *)
ReadGost(w) ==
  LET gost == rows[cand[w]].gost
  IN  /\ pc[w] = "gost"
      /\ \/ Goto(w, IF gost = NoSample THEN "regost"
                    ELSE IF GostScore[Sample(w)][gost] >= ABIS_FINGER_GOST_THRESHOLD
                           THEN "owner" ELSE "rollback")
         \/ Faults /\ Goto(w, "overwrite")
      /\ UNCHANGED <<dbVars, cand, local>>

(* The second db_append_finger_gost: is_gost is false.  After a failed     *)
(* read of the gost this statement goes by the name "overwrite".           *)
Regost(w) ==
  /\ pc[w] \in {"regost", "overwrite"}
  /\ DbAppendFingerGost(cand[w], Sample(w))
  /\ Sent(w, "link")
  /\ UNCHANGED <<tmpSeq, cards, bcSeq, links, tx, cand, local>>

(* db_add_link, and the element is done. *)
AddLink(w) ==
  /\ pc[w] = "link"
  /\ DbAddLink(w, cand[w], card[w])
  /\ rep' = [rep EXCEPT ![w] = @ \cup {cand[w]}]
  /\ todo' = [todo EXCEPT ![w] = Tail(@)]
  /\ Goto(w, "elem")
  /\ UNCHANGED <<tables, txCard, aborted, cand, card, answer, served>>

(* Mutant: the result of db_add_link is not looked at. *)
RefusalUnnoticed(w) ==
  /\ pc[w] = "link"
  /\ DbAddLinkRefused(w, cand[w], card[w])
  /\ rep' = [rep EXCEPT ![w] = @ \cup {cand[w]}]
  /\ todo' = [todo EXCEPT ![w] = Tail(@)]
  /\ Goto(w, "elem")
  /\ UNCHANGED <<dbVars, cand, card, answer, served>>

(* Mutant: db_add_link is sent again until it succeeds. *)
RefusalRetried(w) ==
  /\ pc[w] = "link"
  /\ DbAddLinkRefused(w, cand[w], card[w])
  /\ UNCHANGED vars

LinkRefused(w) ==
  /\ pc[w] = "link"
  /\ DbAddLinkRefused(w, cand[w], card[w])
  /\ Goto(w, "rollback")
  /\ UNCHANGED <<dbVars, cand, local>>

(* Transactions that wait for each other's keys: PostgreSQL fails one. *)
Waiting(w) == pc[w] = "link" /\ w \notin aborted /\ Holders(w, cand[w]) # {}
OnCycle(w) ==
  \E S \in SUBSET Workers :
    /\ w \in S
    /\ \A v \in S : Waiting(v) /\ Holders(v, cand[v]) \subseteq S
    /\ \A v \in S : \E u \in S : v \in Holders(u, cand[u])

DeadlockVictim(w) ==
  /\ OnCycle(w)
  /\ Goto(w, "rollback")
  /\ UNCHANGED <<dbVars, cand, local>>

(* Every element succeeded.  With faults the reply to COMMIT may be lost. *)
Commit(w) ==
  /\ pc[w] = "elem" /\ todo[w] = <<>>
  /\ DbTxCommit(w)
  /\ Reply(w, "ok") \/ (Faults /\ Reply(w, "fail"))

(* Mutant: what succeeded is kept, "if (inserted > 0)". *)
CommitInserted(w) ==
  /\ pc[w] = "rollback"
  /\ DbTxCommit(w)
  /\ Reply(w, "fail")

Rollback(w) ==
  /\ pc[w] = "rollback"
  /\ DbTxRollback(w)
  /\ Reply(w, "fail")

(* A statement of biocard_put fails, or the handler throws. *)
Abandon(w) ==
  /\ Faults
  /\ pc[w] \in TxPcs \ {"rollback"}
  /\ Goto(w, "rollback")
  /\ UNCHANGED <<dbVars, cand, local>>

-----------------------------------------------------------------------------
(* biocard_del *)

(* DELETE /biocard/{uuid}: db_del_links, whose failure goes unnoticed ... *)
Delete(w, c) ==
  /\ Receive(w, "delete", "delCard", c, <<>>)
  /\ DbDelLinks(c) \/ (Faults /\ UNCHANGED tables)
  /\ UNCHANGED tx

(* ... and db_del_bc, a transaction of its own. *)
DeleteCard(w) ==
  /\ pc[w] = "delCard"
  /\ \/ /\ DbDelBc(card[w])
        /\ Reply(w, IF card[w] \in cards THEN "ok" ELSE "fail")
        /\ UNCHANGED tx
     \/ Faults /\ Reply(w, "fail") /\ UNCHANGED dbVars

(* DELETE /biocard/{uuid} with a body: db_del_link for one element. *)
Unlink(w, k, c) ==
  /\ pc[w] = "idle" /\ "unlink" \in Ops /\ served < MaxRequests
  /\ served' = served + 1
  /\ DbDelLink(k, c)
  /\ UNCHANGED <<tx, pc, cand, card, todo, rep, answer>>

-----------------------------------------------------------------------------
(* The server process dies; PostgreSQL rolls its transactions back. *)
Crash ==
  /\ Faults
  /\ pc' = [w \in Workers |-> "idle"]
  /\ answer' = [w \in Workers |-> IF pc[w] = "idle" THEN answer[w] ELSE "fail"]
  /\ txCard' = [w \in Workers |-> 0]
  /\ pend' = [w \in Workers |-> {}]
  /\ aborted' = {}
  /\ UNCHANGED <<tables, cand, card, todo, rep, served>>

(* All requests of the behaviour are answered. *)
Quiesced ==
  /\ served = MaxRequests
  /\ \A w \in Workers : pc[w] = "idle"
  /\ UNCHANGED vars

Serve(w) ==
  \/ \E s \in Requests :
       PutNew(w, s) \/ \E c \in 1..bcSeq : PutInto(w, c, s)
  \/ \E c \in 1..bcSeq : Delete(w, c)
  \/ \E l \in links : Unlink(w, l.key, l.card)

Step(w) ==
  \/ RejectSample(w) \/ SkipOther(w)
  \/ \E kind \in Enrollable : Search(w, kind)
  \/ CheckOwner(w) \/ Insert(w) \/ AppendGost(w) \/ ReadGost(w) \/ Regost(w)
  \/ AddLink(w) \/ LinkRefused(w) \/ DeadlockVictim(w)
  \/ Commit(w) \/ Rollback(w) \/ Abandon(w) \/ DeleteCard(w)

Next == (\E w \in Workers : Serve(w) \/ Step(w)) \/ Crash \/ Quiesced

Spec == Init /\ [][Next]_vars

(* A thread of the pool keeps running its handler; clients need not send,  *)
(* and the server need not crash.                                          *)
FairSpec == Spec /\ \A w \in Workers : WF_vars(Step(w))
-----------------------------------------------------------------------------
(* Properties *)

(* Clients see what is committed; rows, open transactions and workers are  *)
(* the implementation's own.                                               *)
R == INSTANCE Registry WITH cards <- cards, links <- links

(* The handlers implement the registry: seen from outside, a PUT adds all  *)
(* its links in one step or none, and no interleaving of PUT, DELETE,      *)
(* failures and crashes shows a link to a missing biocard or a template    *)
(* in two biocards.                                                        *)
RegistrySpec == R!Spec

(* Every link, committed or not, names a biocard its transaction can see   *)
(* and a stored row, and a finger row has its gost.  db.txt has no foreign *)
(* key on tmp_id: only the order of the statements of biocard_put, on two  *)
(* connections, makes this true.                                           *)
Resolves(k) ==
  /\ k \in DOMAIN rows
  /\ k[1] = "finger" => rows[k].gost # NoSample
LinksResolve ==
  /\ \A l \in links : l.card \in cards /\ Resolves(l.key)
  /\ \A w \in Workers : \A l \in pend[w] :
       CardVisible(w, l.card) /\ Resolves(l.key)

(* A PUT answered with ELEMENT_RESULT true has every template it reported  *)
(* linked to its biocard, for good: COMMIT of a failed transaction returns *)
(* COMMAND_OK, and must never be reached.                                  *)
OkIsDurable ==
  [][\A w \in Workers :
       (pc[w] = "elem" /\ pc'[w] = "idle" /\ answer'[w] = "ok") =>
         [key : rep[w], card : {card[w]}] \subseteq links']_vars

(* Links appear only by a whole request at once, with no element left to   *)
(* process (the commented-out "if (inserted > 0)" would commit a part).    *)
WholeRequests ==
  [][~(links' \subseteq links) =>
       \E w \in Workers :
         /\ pc[w] = "elem" /\ todo[w] = <<>>
         /\ links' = links \cup [key : rep[w], card : {card[w]}]]_vars

(* An index that starts empty stays empty: the search must return a row    *)
(* before biocard_put inserts one.                                         *)
EmptyKindStaysEmpty ==
  \A kind \in Enrollable :
    (\A k \in DOMAIN Seed : k[1] # kind) => Stored(kind) = {}

(* With an exact search, rows that are all equal to each other are at most *)
(* as many as the workers: each but the first was inserted by a worker     *)
(* that had searched before.  One worker makes no copy, whatever fails and *)
(* is retried.                                                             *)
Copies(C) == \A j, k \in C : j # k => Score[rows[j].vec][rows[k].vec] > ABIS_EQUAL_THRESHOLD
DuplicatesBounded ==
  \A kind \in Enrollable : \A C \in SUBSET Stored(kind) :
    Copies(C) => Cardinality(C) <= Cardinality(Workers)

(* A vector and its gost come from samples that the index takes for equal, *)
(* though several requests write the gost of one row.                      *)
GostFitsVector ==
  \A k \in Stored("finger") :
    rows[k].gost # NoSample =>
      Score[rows[k].gost][rows[k].vec] >= ABIS_EQUAL_THRESHOLD

(* One worker at a time: only a request whose read of the gost failed      *)
(* overwrites the gost of a linked row.  No other failure, crash or retry  *)
(* leads there, and several workers do get there without any failure.      *)
LinkedGostStable ==
  [][\A l \in links :
       rows'[l.key].gost # rows[l.key].gost =>
         \E w \in Workers : pc[w] = "overwrite" /\ cand[w] = l.key]_vars

(* One worker at a time, one element per request, an exact search, no      *)
(* deletions, no faults and a seed unlike every other sample: two face     *)
(* (iris) templates that match are never both linked.  (A row that nobody  *)
(* owns would hide a linked one from biocard_put, which looks at the       *)
(* nearest row only.)                                                      *)
NoTwins ==
  \A kind \in {"face", "iris"} : \A l, m \in {x \in links : x.key[1] = kind} :
    l # m => Score[rows[l.key].vec][rows[m.key].vec] < ABIS_FACE_THRESHOLD

(* Every request is answered, though handlers wait for each other's locks. *)
EveryRequestAnswered ==
  \A w \in Workers : pc[w] # "idle" ~> pc[w] = "idle"
=============================================================================
