------------------------------ MODULE DbClient ------------------------------
(***************************************************************************)
(* The database seen through dbclient.cpp: the tables of db.txt, and the   *)
(* transaction of every worker's connection "transact_db".  Each operator  *)
(* named Db... is one function of dbclient.cpp; the statements that the    *)
(* handlers send on "readonly_db" take effect at once, those sent on       *)
(* "transact_db" wait in txCard and pend for db_tx_commit.                 *)
(*                                                                         *)
(* PostgreSQL itself is not in the repository.  What is assumed of it is   *)
(* READ COMMITTED isolation, the constraints that db.txt declares, and the *)
(* waiting that follows from them: an INSERT of a key that an open         *)
(* transaction has inserted waits for that transaction, and a DELETE of a  *)
(* biocard waits for the open transactions that have linked to it.         *)
(***************************************************************************)
EXTENDS Integers, Sequences, FiniteSets

CONSTANTS
  Workers,      \* threads that serve requests
  Samples,      \* biometric samples clients send
  NoSample,     \* SQL NULL in the column gv
  KindOf,       \* the template type of a sample
  Score,        \* cmp_..._tmp of two samples, in percent
  GostScore,    \* cmp_fingerprint_gost_template of two samples, in percent
  Seed,         \* rows inserted by hand before the service starts
  Sequenced,    \* types whose id sequence exists; db.txt has no template_iris_seq
  ExactSearch,  \* search_data returns a nearest row (else any row)
  SeqMax,       \* largest template id that fits an int
  BcMax         \* MAXVALUE of biocard_uid_seq

Enrollable == {"face", "finger", "iris"}
Kinds == Enrollable \cup {"other"}

ABIS_FACE_THRESHOLD == 50
ABIS_IRIS_THRESHOLD == 50
ABIS_FINGER_GOST_THRESHOLD == 22
ABIS_EQUAL_THRESHOLD == 95

Keys == Kinds \X Nat
NoKey == <<"other", 0>>
Row == [vec : Samples, gost : Samples \cup {NoSample}]
CardIds == 1..BcMax
Link == [key : Keys, card : CardIds]

ASSUME ConstantsOK ==
  /\ KindOf \in [Samples -> Kinds]
  /\ Score \in [Samples -> [Samples -> 0..100]]
  /\ GostScore \in [Samples -> [Samples -> 0..100]]
  /\ NoSample \notin Samples
  /\ DOMAIN Seed \subseteq Enrollable \X Nat
  /\ Seed \in [DOMAIN Seed -> [vec : Samples, gost : {NoSample}]]
  /\ Sequenced \subseteq Enrollable
  /\ ExactSearch \in BOOLEAN
  /\ SeqMax \in Nat /\ BcMax \in Nat

(* A template compared with itself is equal for biocard_put. *)
ASSUME ScoreReflexive == \A s \in Samples : Score[s][s] >= ABIS_EQUAL_THRESHOLD

VARIABLES
  rows,     \* vector tables: template key -> row
  tmpSeq,   \* last id taken from template_face_seq, template_finger_seq, ...
  cards,    \* committed rows of t_biocards
  bcSeq,    \* biocard_uid_seq
  links,    \* committed rows of t_biocard_template_link
  txCard,   \* biocard inserted by the open transaction of a worker, or 0
  pend,     \* links inserted by the open transaction of a worker
  aborted   \* workers whose transaction is in the failed state

tables == <<rows, tmpSeq, cards, bcSeq, links>>
tx == <<txCard, pend, aborted>>
dbVars == <<tables, tx>>

DbTypeOK ==
  /\ DOMAIN rows \subseteq Keys
  /\ rows \in [DOMAIN rows -> Row]
  /\ tmpSeq \in [Enrollable -> 0..SeqMax]
  /\ cards \subseteq CardIds
  /\ bcSeq \in 0..BcMax
  /\ links \subseteq Link
  /\ txCard \in [Workers -> CardIds \cup {0}]
  /\ pend \in [Workers -> SUBSET Link]
  /\ aborted \subseteq Workers

DbInit ==
  /\ rows = Seed
  /\ tmpSeq = [kind \in Enrollable |-> 0]
  /\ cards = {}
  /\ bcSeq = 0
  /\ links = {}
  /\ txCard = [w \in Workers |-> 0]
  /\ pend = [w \in Workers |-> {}]
  /\ aborted = {}

-----------------------------------------------------------------------------
(* Queries *)

Stored(kind) == {k \in DOMAIN rows : k[1] = kind}

Linked(S, k) == \E l \in S : l.key = k

(* db_search_..._tmp: ids[0] of search_data, which must not be empty. *)
DbSearchTmp(kind, s) ==
  {k \in Stored(kind) : ExactSearch =>
     \A j \in Stored(kind) : Score[s][rows[j].vec] <= Score[s][rows[k].vec]}

(* db_get_bc_for_tmp: the transaction sees its own links too. *)
DbGetBcForTmp(w, k) == Linked(links \cup pend[w], k)

(* The biocard a link points to must exist for the transaction. *)
CardVisible(w, c) == c \in cards \/ (c # 0 /\ c = txCard[w])

(* Workers whose open transaction has inserted the key k. *)
Holders(w, k) == {v \in Workers \ {w} : Linked(pend[v], k)}

-----------------------------------------------------------------------------
(* Statements on readonly_db *)

(* Mutant: the sequence hands out one id more than its MAXVALUE. *)
DbInsertTmpOffByOne(kind, s) ==
  LET k == <<kind, tmpSeq[kind] + 1>>
  IN  /\ kind \in Sequenced
      /\ tmpSeq[kind] <= SeqMax
      /\ k \notin DOMAIN rows
      /\ tmpSeq' = [tmpSeq EXCEPT ![kind] = @ + 1]
      /\ rows' = [j \in DOMAIN rows \cup {k} |->
                    IF j = k THEN [vec |-> s, gost |-> NoSample] ELSE rows[j]]

(* db_get_..._seq and db_insert_..._tmp; a used id is refused. *)
DbInsertTmp(kind, s) ==
  LET k == <<kind, tmpSeq[kind] + 1>>
  IN  /\ kind \in Sequenced
      /\ tmpSeq[kind] < SeqMax
      /\ k \notin DOMAIN rows
      /\ tmpSeq' = [tmpSeq EXCEPT ![kind] = @ + 1]
      /\ rows' = [j \in DOMAIN rows \cup {k} |->
                    IF j = k THEN [vec |-> s, gost |-> NoSample] ELSE rows[j]]

(* No id can be had from the sequence; or it is one that is in use, and    *)
(* the insert is refused.                                                  *)
DbInsertRefused(kind) ==
  /\ \/ kind \notin Sequenced /\ UNCHANGED tmpSeq
     \/ tmpSeq[kind] >= SeqMax /\ UNCHANGED tmpSeq
     \/ /\ kind \in Sequenced
        /\ tmpSeq[kind] < SeqMax
        /\ <<kind, tmpSeq[kind] + 1>> \in DOMAIN rows
        /\ tmpSeq' = [tmpSeq EXCEPT ![kind] = @ + 1]
  /\ UNCHANGED rows

DbAppendFingerGost(k, s) == rows' = [rows EXCEPT ![k].gost = s]

-----------------------------------------------------------------------------
(* Statements on transact_db *)

DbAddBc(w) ==
  /\ bcSeq < BcMax
  /\ bcSeq' = bcSeq + 1
  /\ txCard' = [txCard EXCEPT ![w] = bcSeq + 1]

(* db_add_link returns 1. *)
DbAddLink(w, k, c) ==
  /\ w \notin aborted
  /\ ~Linked(links \cup pend[w], k)
  /\ Holders(w, k) = {}
  /\ CardVisible(w, c)
  /\ pend' = [pend EXCEPT ![w] = @ \cup {[key |-> k, card |-> c]}]

(* db_add_link returns 0: failed transaction, UNIQUE single_tmp or         *)
(* FOREIGN KEY biocard_fk.                                                 *)
DbAddLinkRefused(w, k, c) ==
  \/ w \in aborted
  \/ Linked(links \cup pend[w], k)
  \/ Holders(w, k) = {} /\ ~CardVisible(w, c)

EndTx(w) ==
  /\ txCard' = [txCard EXCEPT ![w] = 0]
  /\ pend' = [pend EXCEPT ![w] = {}]
  /\ aborted' = aborted \ {w}

(* COMMIT of a failed transaction succeeds, and rolls back. *)
DbTxCommit(w) ==
  /\ IF w \in aborted
       THEN UNCHANGED <<cards, links>>
       ELSE /\ cards' = cards \cup ({txCard[w]} \ {0})
            /\ links' = links \cup pend[w]
  /\ EndTx(w)
  /\ UNCHANGED <<rows, tmpSeq, bcSeq>>

(* ROLLBACK, or the connection is closed with the transaction open. *)
DbTxRollback(w) == EndTx(w) /\ UNCHANGED tables

-----------------------------------------------------------------------------
(* Statements of biocard_del, each a transaction of its own *)

DbDelLinks(c) ==
  /\ links' = {l \in links : l.card # c}
  /\ UNCHANGED <<rows, tmpSeq, cards, bcSeq>>

DbDelLink(k, c) ==
  /\ links' = links \ {[key |-> k, card |-> c]}
  /\ UNCHANGED <<rows, tmpSeq, cards, bcSeq>>

(* Mutant: the link table has no foreign key to t_biocards. *)
DbDelBcWithoutFK(c) ==
  /\ cards' = cards \ {c}
  /\ UNCHANGED <<rows, tmpSeq, bcSeq, links>>

(* Waits for open transactions that have linked to c; ON DELETE CASCADE. *)
DbDelBc(c) ==
  /\ c \in cards => \A w \in Workers : \A l \in pend[w] : l.card # c
  /\ cards' = cards \ {c}
  /\ links' = {l \in links : l.card # c}
  /\ UNCHANGED <<rows, tmpSeq, bcSeq>>
=============================================================================
