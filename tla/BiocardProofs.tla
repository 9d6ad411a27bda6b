--------------------------- MODULE BiocardProofs ---------------------------
EXTENDS Biocard, FiniteSetTheorems, TLAPS

USE DEF Kinds, Enrollable, Keys, Link, CardIds, Row, TxPcs, NoKey

(***************************************************************************)
(* The inductive invariant.  RowInv speaks of the vector tables and of the *)
(* element every worker is at; TxInv of links and open transactions.       *)
(***************************************************************************)
CandPcs == {"owner", "append", "gost", "regost", "overwrite", "link"}
Seeded(kind) == \E k \in DOMAIN Seed : k[1] = kind

(* The current element of a worker is of an index that has rows; its       *)
(* candidate is a row of that index, and fits it if it is a finger.        *)
ElementOK(w) ==
  /\ pc[w] \in CandPcs \cup {"insert"} =>
       todo[w] # <<>> /\ Kind(w) \in Enrollable /\ Seeded(Kind(w))
  /\ pc[w] \in CandPcs =>
       /\ cand[w] \in DOMAIN rows
       /\ cand[w][1] = Kind(w)
       /\ Kind(w) = "finger" =>
            /\ CandScore(w) >= ABIS_EQUAL_THRESHOLD
            /\ pc[w] \in {"owner", "link"} => rows[cand[w]].gost # NoSample

RowInv ==
  /\ \A w \in Workers : ElementOK(w)
  /\ \A k \in DOMAIN rows : k[1] \in Enrollable /\ Seeded(k[1])
  /\ GostFitsVector

(* What a worker has inserted is what it will report, and it stops at the  *)
(* first failure; with no request it has no transaction.                   *)
TxOK(w) ==
  /\ pc[w] \in TxPcs => pend[w] = [key : rep[w], card : {card[w]}]
  /\ pc[w] \notin TxPcs => pend[w] = {} /\ txCard[w] = 0 /\ w \notin aborted
  /\ w \in aborted => pc[w] # "elem"
  /\ txCard[w] # 0 => card[w] = txCard[w]
  /\ \A l \in pend[w] : CardVisible(w, l.card) /\ Resolves(l.key)

Disjoint(S, T) == \A l \in S, m \in T : l.key # m.key

TxInv ==
  /\ \A w \in Workers : TxOK(w) /\ Disjoint(links, pend[w])
  /\ \A v, w \in Workers : v # w => Disjoint(pend[v], pend[w])
  /\ R!OneLinkPerTemplate(links)
  /\ \A l \in links : l.card \in cards /\ Resolves(l.key)

IInv == TypeOK /\ RowInv /\ TxInv

LEMMA HeadTail ==
  ASSUME NEW S, NEW s \in Seq(S), s # <<>>
  PROVE  Head(s) \in S /\ Tail(s) \in Seq(S)
OBVIOUS

LEMMA RequestsAreSeqs == \A s \in Requests : s \in Seq(Samples)
BY BoundsOK DEF Requests

LEMMA TypeInit == Init => TypeOK
BY ConstantsOK, BoundsOK DEF Init, DbInit, TypeOK, DbTypeOK, LocalTypeOK

LEMMA ReceiveType ==
  ASSUME LocalTypeOK, NEW w \in Workers, NEW op, NEW p \in {"elem", "rollback", "delCard"},
         NEW c \in CardIds \cup {0}, NEW s \in Seq(Samples), Receive(w, op, p, c, s)
  PROVE  LocalTypeOK'
BY BoundsOK DEF LocalTypeOK, Receive, Goto

LEMMA InsertType ==
  ASSUME DbTypeOK, NEW kind \in Enrollable, NEW s \in Samples, DbInsertTmp(kind, s)
  PROVE  /\ rows' \in [DOMAIN rows' -> Row] /\ DOMAIN rows' \subseteq Keys
         /\ tmpSeq' \in [Enrollable -> 0..SeqMax]
<1> DEFINE k == <<kind, tmpSeq[kind] + 1>>
<1>1. k \in Keys
  BY DEF DbTypeOK
<1>2. DOMAIN rows' = DOMAIN rows \cup {k}
  BY DEF DbInsertTmp
<1>3. ASSUME NEW j \in DOMAIN rows'
      PROVE  rows'[j] \in Row
  BY <1>2, <1>3 DEF DbInsertTmp, DbTypeOK
<1>4. rows' = [j \in DOMAIN rows' |-> rows'[j]]
  BY DEF DbInsertTmp
<1>5. tmpSeq' \in [Enrollable -> 0..SeqMax]
  BY ConstantsOK DEF DbInsertTmp, DbTypeOK
<1>. QED BY <1>1, <1>2, <1>3, <1>4, <1>5 DEF DbTypeOK

LEMMA AppendType ==
  ASSUME DbTypeOK, NEW k, NEW s \in Samples, DbAppendFingerGost(k, s)
  PROVE  /\ DOMAIN rows' = DOMAIN rows
         /\ rows' \in [DOMAIN rows -> Row]
         /\ \A j \in DOMAIN rows : rows'[j].vec = rows[j].vec
         /\ \A j \in DOMAIN rows : j # k => rows'[j] = rows[j]
         /\ k \in DOMAIN rows => rows'[k].gost = s
BY DEF DbTypeOK, DbAppendFingerGost

(***************************************************************************)
(* Type correctness, one step per action.                                  *)
(***************************************************************************)
LEMMA ServeType ==
  ASSUME TypeOK, NEW w \in Workers, Serve(w)
  PROVE  TypeOK'
<1> USE DEF TypeOK, tables, tx, dbVars
<1>1. ASSUME NEW s \in Requests, PutNew(w, s)
      PROVE  TypeOK'
  <2>1. CASE bcSeq = BcMax /\ Receive(w, "new", "rollback", 0, s) /\ UNCHANGED dbVars
    BY <2>1, ReceiveType, RequestsAreSeqs DEF DbTypeOK
  <2>2. CASE /\ Receive(w, "new", "elem", bcSeq + 1, s) /\ DbAddBc(w)
             /\ UNCHANGED <<rows, tmpSeq, cards, links, pend, aborted>>
    <3>1. bcSeq + 1 \in CardIds
      BY <2>2, ConstantsOK DEF DbAddBc, DbTypeOK
    <3>2. DbTypeOK'
      BY <2>2, <3>1, ConstantsOK DEF DbAddBc, DbTypeOK
    <3>. QED BY <2>2, <3>1, <3>2, ReceiveType, RequestsAreSeqs
  <2>. QED BY <1>1, <2>1, <2>2 DEF PutNew
<1>2. ASSUME NEW s \in Requests, NEW c \in 1..bcSeq, PutInto(w, c, s)
      PROVE  TypeOK'
  BY <1>2, ReceiveType, RequestsAreSeqs, ConstantsOK DEF PutInto, DbTypeOK
<1>3. ASSUME NEW c \in 1..bcSeq, Delete(w, c)
      PROVE  TypeOK'
  <2>1. c \in CardIds /\ <<>> \in Seq(Samples)
    BY ConstantsOK DEF DbTypeOK
  <2>2. LocalTypeOK'
    BY <1>3, <2>1, ReceiveType DEF Delete
  <2>. QED BY <1>3, <2>2 DEF Delete, DbDelLinks, DbTypeOK
<1>4. ASSUME NEW l \in links, Unlink(w, l.key, l.card)
      PROVE  TypeOK'
  <2>1. DbTypeOK'
    BY <1>4 DEF Unlink, DbDelLink, DbTypeOK
  <2>2. LocalTypeOK'
    BY <1>4, BoundsOK DEF Unlink, LocalTypeOK
  <2>. QED BY <2>1, <2>2
<1>. QED BY <1>1, <1>2, <1>3, <1>4 DEF Serve

LEMMA SampleType ==
  ASSUME TypeOK, NEW w \in Workers, todo[w] # <<>>
  PROVE  Sample(w) \in Samples
BY HeadTail DEF TypeOK, LocalTypeOK, Sample

LEMMA StepType ==
  ASSUME TypeOK, RowInv, NEW w \in Workers, Step(w)
  PROVE  TypeOK'
<1>0. pc[w] \in CandPcs \cup {"insert"} =>
        todo[w] # <<>> /\ Sample(w) \in Samples /\ Kind(w) \in Enrollable
  BY SampleType DEF RowInv, ElementOK
<1> USE DEF TypeOK, tables, tx, dbVars, local, Goto, Sent, Reply
<1>1. CASE RejectSample(w)
  BY <1>1 DEF RejectSample, DbTypeOK, LocalTypeOK
<1>2. CASE SkipOther(w)
  BY <1>2, HeadTail DEF SkipOther, AtElement, DbTypeOK, LocalTypeOK
<1>3. ASSUME NEW kind \in Enrollable, Search(w, kind)
      PROVE  TypeOK'
  <2>1. DbTypeOK'
    BY <1>3 DEF Search, DbTypeOK
  <2>2. pc' \in [Workers -> TxPcs \cup {"idle", "delCard"}]
    BY <1>3 DEF Search, Found, LocalTypeOK, AfterSearch, FaceNext, IrisNext, FingerNext
  <2>3. cand' \in [Workers -> Keys]
    BY <1>3 DEF Search, Found, DbSearchTmp, Stored, LocalTypeOK, DbTypeOK
  <2>. QED BY <1>3, <2>1, <2>2, <2>3 DEF Search, LocalTypeOK
<1>4. CASE CheckOwner(w)
  BY <1>4 DEF CheckOwner, Unowned, DbTypeOK, LocalTypeOK
<1>5. CASE Insert(w)
  <2>. Kind(w) \in Enrollable /\ Sample(w) \in Samples
    BY <1>0, <1>5 DEF Insert
  <2>0. tmpSeq[Kind(w)] + 1 \in Nat /\ <<Kind(w), tmpSeq[Kind(w)] + 1>> \in Keys
    BY <1>5 DEF DbTypeOK
  <2>1. DbTypeOK'
    <3>1. CASE DbInsertTmp(Kind(w), Sample(w))
      BY <1>5, <3>1, InsertType DEF Insert, DbTypeOK
    <3>2. CASE DbInsertRefused(Kind(w))
      <4>1. tmpSeq' \in [Enrollable -> 0..SeqMax]
        BY <1>5, <3>2, ConstantsOK DEF DbInsertRefused, DbTypeOK
      <4>. QED BY <1>5, <3>2, <4>1 DEF Insert, DbInsertRefused, DbTypeOK
    <3>. QED BY <1>5, <3>1, <3>2 DEF Insert
  <2>2. pc' \in [Workers -> TxPcs \cup {"idle", "delCard"}]
    BY <1>5 DEF Insert, LocalTypeOK
  <2>3. cand' \in [Workers -> Keys]
    BY <1>5, <2>0 DEF Insert, LocalTypeOK
  <2>. QED BY <1>5, <2>1, <2>2, <2>3 DEF Insert, LocalTypeOK
<1>6. CASE AppendGost(w)
  BY <1>0, <1>6, AppendType DEF CandPcs, AppendGost, DbTypeOK, LocalTypeOK
<1>7. CASE ReadGost(w)
  BY <1>7 DEF ReadGost, DbTypeOK, LocalTypeOK
<1>8. CASE Regost(w)
  BY <1>0, <1>8, AppendType DEF CandPcs, Regost, DbTypeOK, LocalTypeOK
<1>9. CASE AddLink(w)
  <2>1. cand[w] \in Keys /\ card[w] \in CardIds
    BY <1>9 DEF AddLink, DbAddLink, CardVisible, DbTypeOK, LocalTypeOK
  <2>2. DbTypeOK'
    BY <1>9, <2>1 DEF AddLink, DbAddLink, DbTypeOK
  <2>3. todo' \in [Workers -> Seq(Samples)]
    BY <1>0, <1>9, HeadTail DEF CandPcs, AddLink, LocalTypeOK
  <2>. QED BY <1>9, <2>1, <2>2, <2>3 DEF AddLink, LocalTypeOK
<1>10. CASE LinkRefused(w)
  BY <1>10 DEF LinkRefused, DbTypeOK, LocalTypeOK
<1>11. CASE DeadlockVictim(w)
  BY <1>11 DEF DeadlockVictim, DbTypeOK, LocalTypeOK
<1>12. CASE Commit(w)
  <2>1. DbTypeOK'
    BY <1>12 DEF Commit, DbTxCommit, EndTx, DbTypeOK
  <2>2. LocalTypeOK'
    BY <1>12 DEF Commit, LocalTypeOK
  <2>. QED BY <2>1, <2>2
<1>13. CASE Rollback(w)
  BY <1>13 DEF Rollback, DbTxRollback, EndTx, DbTypeOK, LocalTypeOK
<1>14. CASE Abandon(w)
  BY <1>14 DEF Abandon, DbTypeOK, LocalTypeOK
<1>15. CASE DeleteCard(w)
  <2>1. DbTypeOK'
    BY <1>15 DEF DeleteCard, DbDelBc, DbTypeOK
  <2>2. LocalTypeOK'
    BY <1>15 DEF DeleteCard, LocalTypeOK
  <2>. QED BY <2>1, <2>2
<1>. QED
  BY <1>1, <1>2, <1>3, <1>4, <1>5, <1>6, <1>7, <1>8, <1>9, <1>10, <1>11, <1>12,
     <1>13, <1>14, <1>15 DEF Step

LEMMA TypeStep ==
  ASSUME TypeOK, RowInv, [Next]_vars
  PROVE  TypeOK'
<1>1. CASE UNCHANGED vars
  BY <1>1 DEF vars, dbVars, tables, tx, local, TypeOK, DbTypeOK, LocalTypeOK
<1>2. CASE Crash
  BY <1>2 DEF Crash, tables, TypeOK, DbTypeOK, LocalTypeOK
<1>. QED BY <1>1, <1>2, ServeType, StepType DEF Next, Quiesced

(***************************************************************************)
(* The rows and the candidates.  A step of w leaves the other workers'     *)
(* elements alone, and the rows only grow under them.                      *)
(***************************************************************************)
RowsGrow ==
  /\ DOMAIN rows \subseteq DOMAIN rows'
  /\ \A k \in DOMAIN rows :
       /\ rows'[k].vec = rows[k].vec
       /\ rows[k].gost # NoSample => rows'[k].gost # NoSample

SameElement(v) == pc'[v] = pc[v] /\ todo'[v] = todo[v] /\ cand'[v] = cand[v]
Others(w) == \A v \in Workers \ {w} : SameElement(v)
AtRest(w) == pc[w] \notin CandPcs \cup {"insert"}

LEMMA ElementFrame ==
  ASSUME NEW v \in Workers, ElementOK(v), RowsGrow, SameElement(v)
  PROVE  ElementOK(v)'
BY DEF ElementOK, RowsGrow, SameElement, Kind, Sample, CandScore, CandPcs

LEMMA RowFrame ==
  ASSUME RowInv, NEW w \in Workers, Others(w), RowsGrow, ElementOK(w)',
         \A k \in DOMAIN rows' : k[1] \in Enrollable /\ Seeded(k[1]),
         GostFitsVector'
  PROVE  RowInv'
BY ElementFrame DEF RowInv, Others

LEMMA RowQuiet ==
  ASSUME RowInv, NEW w \in Workers, Others(w), UNCHANGED rows, AtRest(w)'
  PROVE  RowInv'
<1>1. RowsGrow
  BY DEF RowsGrow
<1>2. ElementOK(w)'
  BY DEF AtRest, ElementOK, CandPcs
<1>3. GostFitsVector'
  BY DEF RowInv, GostFitsVector, Stored
<1>. QED BY <1>1, <1>2, <1>3, RowFrame DEF RowInv

LEMMA AppendRow ==
  ASSUME TypeOK, RowInv, NEW w \in Workers, pc[w] \in {"append", "regost", "overwrite"},
         DbAppendFingerGost(cand[w], Sample(w)), UNCHANGED cand, UNCHANGED todo,
         NEW p \in {"regost", "link", "rollback"}, Goto(w, p)
  PROVE  RowInv'
<1>1. /\ todo[w] # <<>> /\ Sample(w) \in Samples
      /\ cand[w] \in DOMAIN rows /\ cand[w][1] = Kind(w)
      /\ Kind(w) = "finger" => Score[Sample(w)][rows[cand[w]].vec] >= ABIS_EQUAL_THRESHOLD
  BY SampleType DEF RowInv, ElementOK, CandPcs, CandScore
<1>2. /\ DOMAIN rows' = DOMAIN rows
      /\ \A j \in DOMAIN rows : rows'[j].vec = rows[j].vec
      /\ \A j \in DOMAIN rows : j # cand[w] => rows'[j] = rows[j]
      /\ rows'[cand[w]].gost = Sample(w)
  BY <1>1, AppendType DEF TypeOK
<1>3. RowsGrow
  BY <1>1, <1>2, ConstantsOK DEF RowsGrow
<1>4. Others(w)
  BY DEF Others, SameElement, Goto, TypeOK, LocalTypeOK
<1>5. ElementOK(w)'
  <2>1. pc'[w] = p /\ todo'[w] = todo[w] /\ cand'[w] = cand[w] /\ rows'[cand[w]].vec = rows[cand[w]].vec
    BY <1>1, <1>2 DEF Goto, TypeOK, LocalTypeOK
  <2>2. Kind(w) \in Enrollable /\ Seeded(Kind(w))
    BY DEF RowInv, ElementOK, CandPcs
  <2>. QED BY <1>1, <1>2, <2>1, <2>2, ConstantsOK DEF ElementOK, CandPcs, Kind, Sample, CandScore
<1>6. GostFitsVector'
  BY <1>1, <1>2 DEF RowInv, GostFitsVector, Stored
<1>. QED BY <1>2, <1>3, <1>4, <1>5, <1>6, RowFrame DEF RowInv

LEMMA SearchRow ==
  ASSUME TypeOK, RowInv, NEW w \in Workers, NEW kind \in Enrollable, Search(w, kind)
  PROVE  RowInv'
<1>1. Others(w) /\ UNCHANGED rows /\ UNCHANGED todo
  BY DEF Others, SameElement, Search, Found, Goto, TypeOK, LocalTypeOK, local, dbVars, tables
<1>2. CASE pc'[w] = "rollback"
  BY <1>1, <1>2, RowQuiet DEF AtRest, CandPcs
<1>3. CASE Found(w, kind)
  <2>1. PICK k \in DbSearchTmp(kind, Sample(w)) :
          /\ cand' = [cand EXCEPT ![w] = k]
          /\ Goto(w, AfterSearch(kind, Score[Sample(w)][rows[k].vec]))
    BY <1>3 DEF Found
  <2>2. k \in DOMAIN rows /\ k[1] = kind /\ Seeded(kind)
    BY <2>1 DEF DbSearchTmp, Stored, RowInv
  <2>3. todo[w] # <<>> /\ Kind(w) = kind
    BY DEF Search, AtElement
  <2>4. cand'[w] = k /\ pc'[w] = AfterSearch(kind, Score[Sample(w)][rows[k].vec])
    BY <2>1 DEF Goto, TypeOK, LocalTypeOK
  <2>5. Score[Sample(w)][rows[k].vec] \in 0..100
    <3>1. Sample(w) \in Samples
      BY <2>3, SampleType
    <3>2. rows[k].vec \in Samples
      BY <2>2 DEF TypeOK, DbTypeOK
    <3>. QED BY <3>1, <3>2, ConstantsOK
  <2>6. /\ pc'[w] \in {"owner", "insert", "gost"}
        /\ kind = "finger" =>
             pc'[w] = "insert" \/ (pc'[w] = "gost" /\ Score[Sample(w)][rows[k].vec] >= ABIS_EQUAL_THRESHOLD)
    BY <2>4, <2>5 DEF AfterSearch, FaceNext, IrisNext, FingerNext, ABIS_EQUAL_THRESHOLD
  <2>7. ElementOK(w)'
    BY <1>1, <2>2, <2>3, <2>4, <2>6 DEF ElementOK, CandPcs, Kind, Sample, CandScore
  <2>8. RowsGrow /\ GostFitsVector'
    BY <1>1 DEF RowsGrow, RowInv, GostFitsVector, Stored
  <2>. QED BY <1>1, <2>7, <2>8, RowFrame DEF RowInv
<1>. QED
  BY <1>2, <1>3 DEF Search, Goto, TypeOK, LocalTypeOK

LEMMA OwnerRow ==
  ASSUME TypeOK, RowInv, NEW w \in Workers, CheckOwner(w)
  PROVE  RowInv'
<1>1. Others(w) /\ UNCHANGED rows /\ UNCHANGED todo /\ UNCHANGED cand
  BY DEF Others, SameElement, CheckOwner, Goto, TypeOK, LocalTypeOK, local, tables
<1>2. CASE pc'[w] = "rollback"
  BY <1>1, <1>2, RowQuiet DEF AtRest, CandPcs
<1>3. CASE pc'[w] = Unowned(w)
  <2>1. ElementOK(w)'
    BY <1>1, <1>3 DEF CheckOwner, Unowned, RowInv, ElementOK, CandPcs, Kind, Sample, CandScore
  <2>2. RowsGrow /\ GostFitsVector'
    BY <1>1 DEF RowsGrow, RowInv, GostFitsVector, Stored
  <2>. QED BY <1>1, <2>1, <2>2, RowFrame DEF RowInv
<1>. QED
  BY <1>2, <1>3 DEF CheckOwner, Goto, TypeOK, LocalTypeOK

LEMMA InsertRow ==
  ASSUME TypeOK, RowInv, NEW w \in Workers, Insert(w)
  PROVE  RowInv'
<1>1. Others(w) /\ UNCHANGED todo
  BY DEF Others, SameElement, Insert, Sent, Goto, TypeOK, LocalTypeOK, local
<1>2. CASE DbInsertRefused(Kind(w)) /\ Goto(w, "rollback")
  BY <1>1, <1>2, RowQuiet DEF DbInsertRefused, AtRest, CandPcs, Goto, TypeOK, LocalTypeOK
<1>3. CASE /\ DbInsertTmp(Kind(w), Sample(w))
           /\ cand' = [cand EXCEPT ![w] = <<Kind(w), tmpSeq[Kind(w)] + 1>>]
           /\ Sent(w, IF Kind(w) = "finger" THEN "append" ELSE "link")
  <2> DEFINE k == <<Kind(w), tmpSeq[Kind(w)] + 1>>
  <2>1. todo[w] # <<>> /\ Kind(w) \in Enrollable /\ Seeded(Kind(w)) /\ Sample(w) \in Samples
    BY SampleType DEF Insert, RowInv, ElementOK
  <2>2. /\ k \notin DOMAIN rows /\ DOMAIN rows' = DOMAIN rows \cup {k}
        /\ \A j \in DOMAIN rows : rows'[j] = rows[j]
        /\ rows'[k].vec = Sample(w) /\ rows'[k].gost = NoSample
    BY <1>3 DEF DbInsertTmp
  <2>3. RowsGrow
    BY <2>2 DEF RowsGrow
  <2>4. /\ cand'[w] = k
        /\ pc'[w] \in {"rollback", IF Kind(w) = "finger" THEN "append" ELSE "link"}
    BY <1>3 DEF Sent, Goto, TypeOK, LocalTypeOK
  <2>5. ElementOK(w)'
    BY <1>1, <2>1, <2>2, <2>4, ScoreReflexive DEF ElementOK, CandPcs, Kind, Sample, CandScore
  <2>6. GostFitsVector'
    BY <2>2 DEF RowInv, GostFitsVector, Stored
  <2>7. \A j \in DOMAIN rows' : j[1] \in Enrollable /\ Seeded(j[1])
    BY <2>1, <2>2 DEF RowInv
  <2>. QED BY <1>1, <2>3, <2>5, <2>6, <2>7, RowFrame
<1>. QED BY <1>2, <1>3 DEF Insert

LEMMA GostRow ==
  ASSUME TypeOK, RowInv, NEW w \in Workers, ReadGost(w)
  PROVE  RowInv'
<1>1. Others(w) /\ UNCHANGED rows /\ UNCHANGED todo /\ UNCHANGED cand
  BY DEF Others, SameElement, ReadGost, Goto, TypeOK, LocalTypeOK, local, dbVars, tables
<1>2. /\ pc'[w] \in {"regost", "overwrite", "owner", "rollback"}
      /\ pc'[w] = "owner" => rows[cand[w]].gost # NoSample
  BY DEF ReadGost, Goto, TypeOK, LocalTypeOK
<1>3. ElementOK(w)'
  BY <1>1, <1>2 DEF ReadGost, RowInv, ElementOK, CandPcs, Kind, Sample, CandScore
<1>4. RowsGrow /\ GostFitsVector'
  BY <1>1 DEF RowsGrow, RowInv, GostFitsVector, Stored
<1>. QED BY <1>1, <1>3, <1>4, RowFrame DEF RowInv

LEMMA RowStep ==
  ASSUME TypeOK, RowInv, [Next]_vars
  PROVE  RowInv'
<1> USE DEF TypeOK, LocalTypeOK, Goto, tables, dbVars, local
<1>1. CASE UNCHANGED vars
  BY <1>1 DEF vars, RowInv, ElementOK, GostFitsVector, Stored, Kind, Sample, CandScore
<1>2. CASE Crash
  BY <1>2 DEF Crash, RowInv, ElementOK, GostFitsVector, Stored, CandPcs
<1>3. ASSUME NEW w \in Workers, Serve(w)
      PROVE  RowInv'
  <2>1. CASE \E l \in links : Unlink(w, l.key, l.card)
    BY <2>1 DEF Unlink, DbDelLink, RowInv, ElementOK, GostFitsVector, Stored, Kind, Sample, CandScore
  <2>2. CASE ~ \E l \in links : Unlink(w, l.key, l.card)
    <3>1. UNCHANGED rows /\ \E op, p, c, s : p \in {"elem", "rollback", "delCard"} /\ Receive(w, op, p, c, s)
      BY <1>3, <2>2 DEF Serve, PutNew, PutInto, Delete, DbDelLinks
    <3>2. Others(w) /\ AtRest(w)'
      BY <3>1 DEF Receive, Others, SameElement, AtRest, CandPcs
    <3>. QED BY <3>1, <3>2, RowQuiet
  <2>. QED BY <2>1, <2>2
<1>4. ASSUME NEW w \in Workers, Step(w)
      PROVE  RowInv'
  <2>1. CASE RejectSample(w) \/ LinkRefused(w) \/ DeadlockVictim(w) \/ Abandon(w)
    BY <2>1, RowQuiet DEF RejectSample, LinkRefused, DeadlockVictim, Abandon,
                          Others, SameElement, AtRest, CandPcs
  <2>2. CASE SkipOther(w)
    BY <2>2, RowQuiet DEF SkipOther, AtElement, Others, SameElement, AtRest, CandPcs
  <2>3. CASE AddLink(w)
    BY <2>3, RowQuiet DEF AddLink, Others, SameElement, AtRest, CandPcs
  <2>4. CASE Commit(w) \/ Rollback(w) \/ DeleteCard(w)
    <3>1. UNCHANGED rows /\ \E a : Reply(w, a)
      BY <2>4 DEF Commit, Rollback, DeleteCard, DbTxCommit, DbTxRollback, DbDelBc
    <3>2. Others(w) /\ AtRest(w)'
      BY <3>1 DEF Reply, Others, SameElement, AtRest, CandPcs
    <3>. QED BY <3>1, <3>2, RowQuiet
  <2>5. CASE AppendGost(w)
    BY <2>5, AppendRow DEF AppendGost, Sent
  <2>6. CASE Regost(w)
    BY <2>6, AppendRow DEF Regost, Sent
  <2>. QED
    BY <1>4, <2>1, <2>2, <2>3, <2>4, <2>5, <2>6, SearchRow, OwnerRow, InsertRow, GostRow DEF Step
<1>. QED BY <1>1, <1>2, <1>3, <1>4 DEF Next, Quiesced

(***************************************************************************)
(* Links and transactions.                                                 *)
(***************************************************************************)
LEMMA RowsGrowStep ==
  ASSUME TypeOK, RowInv, [Next]_vars
  PROVE  RowsGrow
<1>1. CASE UNCHANGED rows
  BY <1>1 DEF RowsGrow
<1>2. ASSUME NEW w \in Workers, Insert(w)
      PROVE  RowsGrow
  BY <1>2 DEF Insert, DbInsertTmp, DbInsertRefused, RowsGrow
<1>3. ASSUME NEW w \in Workers, AppendGost(w) \/ Regost(w)
      PROVE  RowsGrow
  <2>1. todo[w] # <<>> /\ cand[w] \in DOMAIN rows
    BY <1>3 DEF AppendGost, Regost, RowInv, ElementOK, CandPcs
  <2>2. Sample(w) \in Samples /\ DbAppendFingerGost(cand[w], Sample(w))
    BY <1>3, <2>1, SampleType DEF AppendGost, Regost
  <2>3. /\ DOMAIN rows' = DOMAIN rows
        /\ \A j \in DOMAIN rows : rows'[j].vec = rows[j].vec
        /\ \A j \in DOMAIN rows : j # cand[w] => rows'[j] = rows[j]
        /\ rows'[cand[w]].gost = Sample(w)
    BY <2>1, <2>2, AppendType DEF TypeOK
  <2>. QED BY <2>2, <2>3, ConstantsOK DEF RowsGrow
<1>4. ASSUME NEW w \in Workers, Serve(w)
      PROVE  UNCHANGED rows
  BY <1>4 DEF Serve, PutNew, PutInto, Delete, Unlink, DbDelLinks, DbDelLink, dbVars, tables
<1>5. ASSUME NEW w \in Workers, Step(w), ~Insert(w), ~AppendGost(w), ~Regost(w)
      PROVE  UNCHANGED rows
  BY <1>5 DEF Step, RejectSample, SkipOther, Search, CheckOwner, ReadGost, AddLink,
       LinkRefused, DeadlockVictim, Commit, Rollback, Abandon, DeleteCard,
       DbTxCommit, DbTxRollback, DbDelBc, dbVars, tables
<1>6. Crash \/ UNCHANGED vars => UNCHANGED rows
  BY DEF Crash, vars, dbVars, tables
<1>. QED BY <1>1, <1>2, <1>3, <1>4, <1>5, <1>6 DEF Next, Quiesced

SameTx(v) ==
  /\ pc'[v] = pc[v] /\ card'[v] = card[v] /\ rep'[v] = rep[v]
  /\ pend'[v] = pend[v] /\ txCard'[v] = txCard[v]
  /\ v \in aborted' <=> v \in aborted
OtherTxs(w) == \A v \in Workers \ {w} : SameTx(v)

LEMMA ResolvesStable ==
  ASSUME RowsGrow, NEW k, Resolves(k)
  PROVE  Resolves(k)'
BY DEF RowsGrow, Resolves

LEMMA TxFrame ==
  ASSUME TypeOK, NEW v \in Workers, TxOK(v), RowsGrow, SameTx(v),
         \A l \in pend[v] : l.card \in cards => l.card \in cards'
  PROVE  TxOK(v)'
BY ResolvesStable DEF TxOK, SameTx, CardVisible

(* No link appears, and no link loses its biocard. *)
LEMMA NothingAdded ==
  ASSUME TxInv, TypeOK, RowsGrow, links' \subseteq links,
         \A v \in Workers : TxOK(v)' /\ pend'[v] \subseteq pend[v],
         \A l \in links' : l.card \in cards'
  PROVE  TxInv'
<1>1. \A v \in Workers : Disjoint(links, pend[v])'
  BY DEF TxInv, Disjoint
<1>2. \A v, w \in Workers : v # w => Disjoint(pend[v], pend[w])'
  BY DEF TxInv, Disjoint
<1>3. R!OneLinkPerTemplate(links)'
  BY DEF TxInv, R!OneLinkPerTemplate
<1>4. \A l \in links' : l.card \in cards' /\ Resolves(l.key)'
  BY ResolvesStable DEF TxInv
<1>. QED BY <1>1, <1>2, <1>3, <1>4 DEF TxInv

(* A step inside the transaction of w that sends nothing on transact_db,   *)
(* or fails the transaction.                                               *)
LEMMA TxQuiet ==
  ASSUME TypeOK, TxInv, RowsGrow, NEW w \in Workers, pc[w] \in TxPcs,
         OtherTxs(w), pc'[w] \in TxPcs,
         UNCHANGED <<cards, links, pend, txCard, card, rep>>,
         w \in aborted' => pc'[w] # "elem"
  PROVE  TxInv'
<1>1. TxOK(w)'
  BY ResolvesStable DEF TxInv, TxOK, CardVisible
<1>2. ASSUME NEW v \in Workers, v # w
      PROVE  TxOK(v)'
  BY <1>2, TxFrame DEF OtherTxs, TxInv
<1>. QED BY <1>1, <1>2, NothingAdded DEF TxInv

LEMMA ServeTx ==
  ASSUME TypeOK, RowInv, TxInv, RowsGrow, NEW w \in Workers, Serve(w)
  PROVE  TxInv'
<1> USE DEF TypeOK, DbTypeOK, LocalTypeOK, tables, tx, dbVars
<1>1. pc[w] \notin TxPcs /\ pend[w] = {} /\ txCard[w] = 0 /\ w \notin aborted
  BY DEF Serve, PutNew, PutInto, Delete, Unlink, Receive, TxInv, TxOK
<1>2. ASSUME NEW s \in Requests, PutNew(w, s) \/ \E c \in 1..bcSeq : PutInto(w, c, s)
      PROVE  TxInv'
  <2>1. /\ UNCHANGED <<rows, cards, links, pend, aborted>>
        /\ OtherTxs(w)
        /\ pc'[w] \in TxPcs /\ rep'[w] = {}
        /\ txCard'[w] # 0 => card'[w] = txCard'[w]
    BY <1>1, <1>2 DEF PutNew, PutInto, Receive, Goto, DbAddBc, OtherTxs, SameTx
  <2>2. TxOK(w)'
    BY <1>1, <2>1 DEF TxOK
  <2>3. ASSUME NEW v \in Workers, v # w
        PROVE  TxOK(v)'
    BY <2>1, <2>3, TxFrame DEF OtherTxs, TxInv
  <2>. QED BY <2>1, <2>2, <2>3, NothingAdded DEF TxInv
<1>3. ASSUME NEW c \in 1..bcSeq, Delete(w, c)
      PROVE  TxInv'
  <2>1. /\ UNCHANGED <<cards, pend, txCard, aborted>> /\ links' \subseteq links
        /\ OtherTxs(w) /\ pc'[w] = "delCard"
    BY <1>3 DEF Delete, Receive, Goto, DbDelLinks, OtherTxs, SameTx
  <2>2. TxOK(w)'
    BY <1>1, <2>1 DEF TxOK
  <2>3. ASSUME NEW v \in Workers, v # w
        PROVE  TxOK(v)'
    BY <2>1, <2>3, TxFrame DEF OtherTxs, TxInv
  <2>. QED BY <2>1, <2>2, <2>3, NothingAdded DEF TxInv
<1>4. ASSUME NEW l \in links, Unlink(w, l.key, l.card)
      PROVE  TxInv'
  <2>1. /\ UNCHANGED <<cards, pend>> /\ links' \subseteq links
        /\ \A v \in Workers : SameTx(v)
    BY <1>4 DEF Unlink, DbDelLink, SameTx
  <2>2. \A v \in Workers : TxOK(v)'
    BY <2>1, TxFrame DEF TxInv
  <2>. QED BY <2>1, <2>2, NothingAdded DEF TxInv
<1>. QED BY <1>2, <1>3, <1>4 DEF Serve

LEMMA AddLinkTx ==
  ASSUME TypeOK, RowInv, TxInv, RowsGrow, NEW w \in Workers, AddLink(w)
  PROVE  TxInv'
<1> DEFINE l == [key |-> cand[w], card |-> card[w]]
<1> USE DEF TypeOK, DbTypeOK, LocalTypeOK, tables
<1>1. /\ pend'[w] = pend[w] \cup {l} /\ rep'[w] = rep[w] \cup {cand[w]}
      /\ pc[w] = "link" /\ pc'[w] = "elem" /\ w \notin aborted
      /\ UNCHANGED <<rows, cards, links, txCard, aborted, card>>
      /\ OtherTxs(w)
  BY DEF AddLink, DbAddLink, Goto, OtherTxs, SameTx
<1>2. /\ CardVisible(w, card[w])
      /\ \A m \in links \cup pend[w] : m.key # cand[w]
      /\ \A v \in Workers \ {w} : \A m \in pend[v] : m.key # cand[w]
  BY DEF AddLink, DbAddLink, Linked, Holders
<1>3. Resolves(cand[w])
  BY <1>1 DEF RowInv, ElementOK, CandPcs, Resolves
<1>4. TxOK(w)'
  <2>1. pend'[w] = [key : rep'[w], card : {card'[w]}]
    <3>1. pend[w] = [key : rep[w], card : {card[w]}]
      BY <1>1 DEF TxInv, TxOK
    <3>2. \A x : x \in pend'[w] <=> x \in [key : rep'[w], card : {card'[w]}]
      BY <1>1, <3>1
    <3>. QED BY <3>2
  <2>2. \A m \in pend'[w] : CardVisible(w, m.card)' /\ Resolves(m.key)'
    BY <1>1, <1>2, <1>3 DEF TxInv, TxOK, CardVisible, Resolves
  <2>. QED BY <1>1, <2>1, <2>2 DEF TxInv, TxOK
<1>5. ASSUME NEW v \in Workers, v # w
      PROVE  TxOK(v)'
  BY <1>1, <1>5, TxFrame DEF OtherTxs, TxInv
<1>5a. \A v \in Workers \ {w} : pend'[v] = pend[v]
  BY <1>1 DEF OtherTxs, SameTx
<1>6. ASSUME NEW v \in Workers
      PROVE  Disjoint(links, pend[v])'
  <2>1. ASSUME NEW m \in links, NEW n \in pend'[v]
        PROVE  m.key # n.key
    <3>1. \A n1 \in pend[v] : m.key # n1.key
      BY DEF TxInv, Disjoint
    <3>2. CASE v = w
      BY <1>1, <1>2, <3>1, <3>2
    <3>3. CASE v # w
      BY <1>5a, <3>1, <3>3
    <3>. QED BY <3>2, <3>3
  <2>. QED BY <1>1, <2>1 DEF Disjoint
<1>7. ASSUME NEW u \in Workers, NEW v \in Workers, u # v
      PROVE  Disjoint(pend[u], pend[v])'
  <2>1. ASSUME NEW m \in pend'[u], NEW n \in pend'[v]
        PROVE  m.key # n.key
    <3>1. Disjoint(pend[u], pend[v])
      BY <1>7 DEF TxInv
    <3>2. CASE u = w
      BY <1>1, <1>2, <1>5a, <1>7, <2>1, <3>1, <3>2 DEF Disjoint
    <3>3. CASE v = w
      BY <1>1, <1>2, <1>5a, <1>7, <2>1, <3>1, <3>3 DEF Disjoint
    <3>4. CASE u # w /\ v # w
      BY <1>5a, <2>1, <3>1, <3>4 DEF Disjoint
    <3>. QED BY <3>2, <3>3, <3>4
  <2>. QED BY <2>1 DEF Disjoint
<1>8. R!OneLinkPerTemplate(links)' /\ \A m \in links' : m.card \in cards' /\ Resolves(m.key)'
  BY <1>1 DEF TxInv, R!OneLinkPerTemplate, Resolves
<1>. QED BY <1>4, <1>5, <1>6, <1>7, <1>8 DEF TxInv

LEMMA ReplyTx ==
  ASSUME TypeOK, NEW w \in Workers, NEW a, Reply(w, a), EndTx(w)
  PROVE  /\ OtherTxs(w) /\ TxOK(w)'
         /\ pend'[w] = {} /\ \A v \in Workers \ {w} : pend'[v] = pend[v]
BY DEF TypeOK, DbTypeOK, LocalTypeOK, Reply, Goto, EndTx, OtherTxs, SameTx, TxOK

LEMMA CommitTx ==
  ASSUME TypeOK, TxInv, RowsGrow, NEW w \in Workers, Commit(w)
  PROVE  TxInv'
<1>1. /\ OtherTxs(w) /\ TxOK(w)'
      /\ pend'[w] = {} /\ \A v \in Workers \ {w} : pend'[v] = pend[v]
      /\ UNCHANGED rows
  BY ReplyTx DEF Commit, DbTxCommit
<1>2. w \notin aborted
  BY DEF Commit, TxInv, TxOK
<1>3. links' = links \cup pend[w] /\ cards' = cards \cup ({txCard[w]} \ {0})
  BY <1>2 DEF Commit, DbTxCommit
<1>4. ASSUME NEW v \in Workers, v # w
      PROVE  TxOK(v)'
  BY <1>1, <1>3, <1>4, TxFrame DEF OtherTxs, TxInv
<1>5. \A v \in Workers : Disjoint(links, pend[v])'
  BY <1>1, <1>3 DEF TxInv, Disjoint
<1>6. \A u, v \in Workers : u # v => Disjoint(pend[u], pend[v])'
  BY <1>1 DEF TxInv, Disjoint
<1>7. R!OneLinkPerTemplate(links)'
  <2>1. pend[w] = [key : rep[w], card : {card[w]}]
    BY DEF Commit, TxInv, TxOK
  <2>2. \A l, m \in pend[w] : l.key = m.key => l = m
    BY <2>1
  <2>. QED BY <1>3, <2>2 DEF TxInv, Disjoint, R!OneLinkPerTemplate
<1>8. \A l \in links' : l.card \in cards' /\ Resolves(l.key)'
  BY <1>1, <1>3 DEF TxInv, TxOK, CardVisible, Resolves
<1>. QED BY <1>1, <1>4, <1>5, <1>6, <1>7, <1>8 DEF TxInv

LEMMA RollbackTx ==
  ASSUME TypeOK, TxInv, RowsGrow, NEW w \in Workers, Rollback(w)
  PROVE  TxInv'
<1>1. /\ OtherTxs(w) /\ TxOK(w)'
      /\ pend'[w] = {} /\ \A v \in Workers \ {w} : pend'[v] = pend[v]
      /\ UNCHANGED <<cards, links>>
  BY ReplyTx DEF Rollback, DbTxRollback, tables
<1>2. ASSUME NEW v \in Workers, v # w
      PROVE  TxOK(v)'
  BY <1>1, <1>2, TxFrame DEF OtherTxs, TxInv
<1>. QED BY <1>1, <1>2, NothingAdded DEF TxInv

LEMMA DeleteCardTx ==
  ASSUME TypeOK, TxInv, RowsGrow, NEW w \in Workers, DeleteCard(w)
  PROVE  TxInv'
<1>1. /\ OtherTxs(w) /\ TxOK(w)' /\ UNCHANGED pend
      /\ pc[w] = "delCard"
  BY DEF DeleteCard, Reply, Goto, OtherTxs, SameTx, TypeOK, LocalTypeOK, TxOK, TxInv, tx, dbVars
<1>2. /\ links' \subseteq links /\ \A l \in links' : l.card \in cards'
      /\ \A v \in Workers : \A l \in pend[v] : l.card \in cards => l.card \in cards'
  BY DEF DeleteCard, DbDelBc, dbVars, tables, TxInv
<1>3. ASSUME NEW v \in Workers, v # w
      PROVE  TxOK(v)'
  BY <1>1, <1>2, <1>3, TxFrame DEF OtherTxs, TxInv
<1>. QED BY <1>1, <1>2, <1>3, NothingAdded

LEMMA CrashTx ==
  ASSUME TypeOK, TxInv, RowsGrow, Crash
  PROVE  TxInv'
<1>1. /\ \A v \in Workers : pc'[v] = "idle" /\ txCard'[v] = 0 /\ pend'[v] = {}
      /\ aborted' = {} /\ UNCHANGED <<cards, links>>
  BY DEF Crash, tables
<1>2. \A v \in Workers : TxOK(v)'
  BY <1>1 DEF TxOK, TypeOK, LocalTypeOK
<1>. QED BY <1>1, <1>2, NothingAdded DEF TxInv

LEMMA StepTx ==
  ASSUME TypeOK, RowInv, TxInv, RowsGrow, NEW w \in Workers, Step(w)
  PROVE  TxInv'
<1> USE DEF TypeOK, DbTypeOK, LocalTypeOK, tables, tx, dbVars, local, Goto, Sent, OtherTxs, SameTx
<1>1. w \in aborted => pc[w] # "elem"
  BY DEF TxInv, TxOK
<1>2. CASE RejectSample(w) \/ SkipOther(w)
  BY <1>1, <1>2, TxQuiet DEF RejectSample, SkipOther, AtElement
<1>3. ASSUME NEW kind \in Enrollable, Search(w, kind)
      PROVE  TxInv'
  <2>1. pc'[w] \in {"rollback", "owner", "insert", "gost"}
    BY <1>3 DEF Search, Found, AfterSearch, FaceNext, IrisNext, FingerNext
  <2>2. pc[w] = "elem" /\ OtherTxs(w)
    BY <1>3 DEF Search, Found, AtElement
  <2>3. UNCHANGED <<cards, links, pend, txCard, card, rep>>
    BY <1>3 DEF Search
  <2>. QED BY <2>1, <2>2, <2>3, TxQuiet
<1>4. CASE CheckOwner(w)
  <2>1. pc'[w] \in {"rollback", "insert", "link"} /\ pc[w] = "owner"
    BY <1>4 DEF CheckOwner, Unowned
  <2>2. OtherTxs(w) /\ UNCHANGED <<cards, links, pend, txCard, card, rep>>
    BY <1>4 DEF CheckOwner
  <2>. QED BY <2>1, <2>2, TxQuiet
<1>5. CASE Insert(w)
  <2>1. pc'[w] \in {"rollback", "append", "link"} /\ pc[w] = "insert"
    BY <1>5 DEF Insert
  <2>2. OtherTxs(w) /\ UNCHANGED <<cards, links, pend, txCard, card, rep>>
    BY <1>5 DEF Insert
  <2>. QED BY <2>1, <2>2, TxQuiet
<1>6. CASE AppendGost(w) \/ Regost(w)
  <2>1. /\ pc'[w] \in {"rollback", "regost", "link"}
        /\ pc[w] \in {"append", "regost", "overwrite"}
    BY <1>6 DEF AppendGost, Regost
  <2>2. OtherTxs(w) /\ UNCHANGED <<cards, links, pend, txCard, card, rep>>
    BY <1>6 DEF AppendGost, Regost
  <2>. QED BY <2>1, <2>2, TxQuiet
<1>7. CASE ReadGost(w)
  <2>1. pc'[w] \in {"rollback", "regost", "overwrite", "owner"} /\ pc[w] = "gost"
    BY <1>7 DEF ReadGost
  <2>2. OtherTxs(w) /\ UNCHANGED <<cards, links, pend, txCard, card, rep>>
    BY <1>7 DEF ReadGost
  <2>. QED BY <2>1, <2>2, TxQuiet
<1>8. CASE LinkRefused(w) \/ DeadlockVictim(w) \/ Abandon(w)
  <2>1. pc'[w] = "rollback" /\ pc[w] \in TxPcs
    BY <1>8 DEF LinkRefused, DeadlockVictim, OnCycle, Waiting, Abandon
  <2>2. OtherTxs(w) /\ UNCHANGED <<cards, links, pend, txCard, card, rep>>
    BY <1>8 DEF LinkRefused, DeadlockVictim, Abandon
  <2>. QED BY <2>1, <2>2, TxQuiet
<1>. QED
  BY <1>2, <1>3, <1>4, <1>5, <1>6, <1>7, <1>8, AddLinkTx, CommitTx, RollbackTx, DeleteCardTx DEF Step

LEMMA TxStep ==
  ASSUME TypeOK, RowInv, TxInv, [Next]_vars
  PROVE  TxInv'
<1>1. RowsGrow
  BY RowsGrowStep
<1>2. CASE UNCHANGED vars
  BY <1>2 DEF vars, dbVars, tables, tx, local, TxInv, TxOK, Disjoint, CardVisible,
              Resolves, R!OneLinkPerTemplate
<1>. QED BY <1>1, <1>2, CrashTx, ServeTx, StepTx DEF Next, Quiesced

-----------------------------------------------------------------------------
LEMMA IInvInit == Init => IInv
<1> SUFFICES ASSUME Init PROVE IInv
  OBVIOUS
<1>1. TypeOK
  BY TypeInit
<1>2. RowInv
  <2>1. \A w \in Workers : ElementOK(w)
    BY DEF Init, ElementOK, CandPcs
  <2>2. \A k \in DOMAIN rows : k[1] \in Enrollable /\ Seeded(k[1])
    BY ConstantsOK DEF Init, DbInit, Seeded
  <2>3. GostFitsVector
    BY ConstantsOK DEF Init, DbInit, GostFitsVector, Stored
  <2>. QED BY <2>1, <2>2, <2>3 DEF RowInv
<1>3. TxInv
  BY DEF Init, DbInit, TxInv, TxOK, Disjoint, R!OneLinkPerTemplate
<1>. QED BY <1>1, <1>2, <1>3 DEF IInv

LEMMA IInvStep == IInv /\ [Next]_vars => IInv'
BY TypeStep, RowStep, TxStep DEF IInv

LEMMA Inductive == Spec => []IInv
BY IInvInit, IInvStep, PTL DEF Spec

(* The types of all variables, for any number of workers and requests. *)
THEOREM TypeCorrect == Spec => []TypeOK
<1>1. IInv => TypeOK
  BY DEF IInv
<1>. QED BY <1>1, Inductive, PTL

(* No link, committed or in an open transaction, ever names a missing      *)
(* biocard, a missing row, or a finger without its gost, in whatever order *)
(* the statements of any number of workers fail or interleave.             *)
THEOREM LinksAlwaysResolve == Spec => []LinksResolve
<1>1. IInv => LinksResolve
  BY DEF IInv, TxInv, TxOK, LinksResolve
<1>. QED BY <1>1, Inductive, PTL

(* The gost stored with a vector is always of a sample the index takes for *)
(* equal to it, though concurrent requests overwrite it.                   *)
THEOREM GostAlwaysFits == Spec => []GostFitsVector
<1>1. IInv => GostFitsVector
  BY DEF IInv, RowInv
<1>. QED BY <1>1, Inductive, PTL

(* biocard_put never inserts the first row of an index. *)
THEOREM EmptyStaysEmpty == Spec => []EmptyKindStaysEmpty
<1>1. IInv => EmptyKindStaysEmpty
  BY DEF IInv, RowInv, EmptyKindStaysEmpty, Stored, Seeded
<1>. QED BY <1>1, Inductive, PTL

LEMMA Visible ==
  ASSUME [Next]_vars
  PROVE  \/ UNCHANGED <<cards, links>>
         \/ \E w \in Workers :
              \/ Commit(w) \/ DeleteCard(w)
              \/ \E c \in 1..bcSeq : Delete(w, c)
              \/ \E l \in links : Unlink(w, l.key, l.card)
<1> USE DEF tables, tx, dbVars, local
<1>1. ASSUME NEW w \in Workers, Step(w)
      PROVE  Commit(w) \/ DeleteCard(w) \/ UNCHANGED <<cards, links>>
  BY <1>1 DEF Step, RejectSample, SkipOther, Search, CheckOwner, Insert, AppendGost, ReadGost,
              Regost, AddLink, LinkRefused, DeadlockVictim, Rollback, DbTxRollback, Abandon
<1>2. ASSUME NEW w \in Workers, Serve(w)
      PROVE  \/ UNCHANGED <<cards, links>>
             \/ \E c \in 1..bcSeq : Delete(w, c)
             \/ \E l \in links : Unlink(w, l.key, l.card)
  BY <1>2 DEF Serve, PutNew, PutInto
<1>3. Crash \/ UNCHANGED vars => UNCHANGED <<cards, links>>
  BY DEF Crash, vars
<1>. QED BY <1>1, <1>2, <1>3 DEF Next, Quiesced

LEMMA CommitEffect ==
  ASSUME IInv, NEW w \in Workers, Commit(w)
  PROVE  /\ cards' = cards \cup ({txCard[w]} \ {0})
         /\ links' = links \cup [key : rep[w], card : {card[w]}]
         /\ pend[w] = [key : rep[w], card : {card[w]}]
<1>1. w \notin aborted /\ pend[w] = [key : rep[w], card : {card[w]}]
  BY DEF Commit, IInv, TxInv, TxOK
<1>. QED BY <1>1 DEF Commit, DbTxCommit

LEMMA OkIsCommit ==
  ASSUME TypeOK, [Next]_vars, NEW w \in Workers,
         pc[w] = "elem", pc'[w] = "idle", answer'[w] = "ok"
  PROVE  Commit(w)
<1> USE DEF TypeOK, LocalTypeOK, Goto, Sent, Reply, local
<1>1. ASSUME NEW v \in Workers, v # w, Step(v)
      PROVE  pc'[w] = pc[w]
  BY <1>1 DEF Step, RejectSample, SkipOther, Search, Found, CheckOwner, Insert, AppendGost, ReadGost,
              Regost, AddLink, LinkRefused, DeadlockVictim, Commit, Rollback, Abandon, DeleteCard
<1>2. ASSUME NEW v \in Workers, Serve(v)
      PROVE  pc'[w] = pc[w]
  BY <1>2 DEF Serve, PutNew, PutInto, Delete, Unlink, Receive
<1>3. ASSUME Step(w), ~Commit(w)
      PROVE  FALSE
  <2>1. ASSUME NEW kind \in Enrollable, Search(w, kind)
        PROVE  pc'[w] # "idle"
    BY <2>1 DEF Search, Found, AfterSearch, FaceNext, IrisNext, FingerNext
  <2>. QED
    BY <1>3, <2>1 DEF Step, RejectSample, SkipOther, CheckOwner, Insert, AppendGost, ReadGost,
              Regost, AddLink, LinkRefused, DeadlockVictim, OnCycle, Waiting, Rollback, Abandon, DeleteCard
<1>4. ~Crash /\ ~UNCHANGED vars
  BY DEF Crash, vars
<1>. QED BY <1>1, <1>2, <1>3, <1>4 DEF Next, Quiesced

(* A PUT answered true has all it reported linked: the transaction it      *)
(* commits is not a failed one.                                            *)
THEOREM OkAlwaysDurable == Spec => OkIsDurable
<1> DEFINE A == \A w \in Workers :
       (pc[w] = "elem" /\ pc'[w] = "idle" /\ answer'[w] = "ok") =>
         [key : rep[w], card : {card[w]}] \subseteq links'
<1>1. IInv /\ [Next]_vars => [A]_vars
  BY OkIsCommit, CommitEffect DEF IInv
<1>. QED BY <1>1, Inductive, PTL DEF Spec, OkIsDurable

(* Links appear by whole requests: no step but a COMMIT adds any, and it   *)
(* adds what the request reported, after its last element.                 *)
THEOREM OnlyWholeRequests == Spec => WholeRequests
<1> DEFINE A == ~(links' \subseteq links) =>
       \E w \in Workers :
         /\ pc[w] = "elem" /\ todo[w] = <<>>
         /\ links' = links \cup [key : rep[w], card : {card[w]}]
<1>1. ASSUME IInv, [Next]_vars
      PROVE  A
  <2>1. ASSUME NEW w \in Workers, Commit(w)
        PROVE  A
    BY <1>1, <2>1, CommitEffect DEF Commit
  <2>2. ASSUME NEW w \in Workers,
               DeleteCard(w) \/ (\E c \in 1..bcSeq : Delete(w, c))
                            \/ (\E l \in links : Unlink(w, l.key, l.card))
        PROVE  links' \subseteq links
    BY <2>2 DEF DeleteCard, DbDelBc, Delete, DbDelLinks, Unlink, DbDelLink, dbVars, tables
  <2>. QED BY <1>1, <2>1, <2>2, Visible
<1>. QED BY <1>1, Inductive, PTL DEF Spec, WholeRequests

-----------------------------------------------------------------------------
(* Biocard implements Registry: COMMIT maps to Enroll, db_del_links and    *)
(* db_del_link to Strike, db_del_bc to Discard, all else to stuttering.    *)
LEMMA CommitEnrolls ==
  ASSUME IInv, IInv', NEW w \in Workers, Commit(w)
  PROVE  [R!Next]_R!vars
<1>0. /\ cards' = cards \cup ({txCard[w]} \ {0})
      /\ links' = links \cup pend[w]
      /\ pend[w] = [key : rep[w], card : {card[w]}]
  BY CommitEffect
<1>1. R!OneLinkPerTemplate(links')
  BY DEF IInv, TxInv, R!OneLinkPerTemplate
<1>2. /\ rep[w] \subseteq Keys /\ card[w] \in CardIds \cup {0}
      /\ links' \ links \subseteq [key : Keys, card : {card[w]}]
  BY <1>0 DEF IInv, TypeOK, LocalTypeOK
<1>3. CASE txCard[w] # 0
  <2>1. card[w] = txCard[w] /\ card[w] \in CardIds
    BY <1>3 DEF IInv, TypeOK, DbTypeOK, TxInv, TxOK
  <2>2. R!Enroll(card[w])
    BY <1>0, <1>1, <1>2, <1>3, <2>1 DEF R!Enroll
  <2>. QED BY <2>1, <2>2 DEF R!Next
<1>4. CASE txCard[w] = 0 /\ rep[w] # {}
  <2>1. card[w] \in cards /\ card[w] \in CardIds
    <3>1. PICK k \in rep[w] : TRUE
      BY <1>4
    <3>2. [key |-> k, card |-> card[w]] \in pend[w]
      BY <1>0, <3>1
    <3>3. CardVisible(w, card[w])
      BY <3>2 DEF IInv, TxInv, TxOK
    <3>. QED BY <1>4, <3>3 DEF CardVisible, IInv, TypeOK, DbTypeOK
  <2>2. R!Enroll(card[w])
    BY <1>0, <1>1, <1>2, <1>4, <2>1 DEF R!Enroll
  <2>. QED BY <2>1, <2>2 DEF R!Next
<1>5. CASE txCard[w] = 0 /\ rep[w] = {}
  <2>1. pend[w] = {}
    BY <1>0, <1>5
  <2>. QED BY <1>0, <1>5, <2>1 DEF R!vars
<1>. QED BY <1>3, <1>4, <1>5

LEMMA RegistryStep ==
  ASSUME IInv, IInv', [Next]_vars
  PROVE  [R!Next]_R!vars
<1> USE ConstantsOK DEF IInv, TypeOK, DbTypeOK, LocalTypeOK
<1>1. ASSUME NEW w \in Workers, NEW c \in 1..bcSeq, Delete(w, c)
      PROVE  [R!Next]_R!vars
  <2>1. c \in CardIds
    OBVIOUS
  <2>2. R!Strike(c)
    BY <1>1 DEF Delete, DbDelLinks, tables, R!Strike
  <2>. QED BY <2>1, <2>2 DEF R!Next
<1>2. ASSUME NEW w \in Workers, NEW l \in links, Unlink(w, l.key, l.card)
      PROVE  [R!Next]_R!vars
  <2>1. l.card \in CardIds /\ R!Strike(l.card)
    BY <1>2 DEF Unlink, DbDelLink, R!Strike
  <2>. QED BY <2>1 DEF R!Next
<1>3. ASSUME NEW w \in Workers, DeleteCard(w)
      PROVE  [R!Next]_R!vars
  <2>1. CASE UNCHANGED dbVars
    BY <2>1 DEF dbVars, tables, R!vars
  <2>2. CASE DbDelBc(card[w]) /\ card[w] \in CardIds
    <3>1. R!Discard(card[w])
      BY <2>2 DEF DbDelBc, R!Discard
    <3>. QED BY <2>2, <3>1 DEF R!Next
  <2>3. CASE DbDelBc(card[w]) /\ card[w] = 0
    BY <2>3 DEF DbDelBc, TxInv, R!vars
  <2>. QED BY <1>3, <2>1, <2>2, <2>3 DEF DeleteCard
<1>. QED BY <1>1, <1>2, <1>3, Visible, CommitEnrolls DEF R!vars

(* Whatever the interleaving, the failures and the crashes, clients see a  *)
(* registry in which requests are atomic.                                  *)
THEOREM ImplementsRegistry == Spec => RegistrySpec
<1>1. Init => R!Init
  BY DEF Init, DbInit, R!Init
<1>2. IInv /\ IInv' /\ [Next]_vars => [R!Next]_R!vars
  BY RegistryStep
<1>. QED BY <1>1, <1>2, Inductive, PTL DEF Spec, RegistrySpec, R!Spec

-----------------------------------------------------------------------------
(***************************************************************************)
(* What biocard_put promises of duplicates: copies of a template are       *)
(* bounded by the number of workers, and one worker alone keeps the gost   *)
(* of a linked row and never links two matching templates.  The conditions *)
(* under which that holds are hypotheses of the theorems, named below.     *)
(***************************************************************************)
HIDE DEF Kinds, Keys, Link, CardIds, Row, TxPcs, NoKey

OneWorker == \A v, w \in Workers : v = w

(***************************************************************************)
(* Frame: what a step of a worker may touch.                               *)
(***************************************************************************)
LEMMA ActorOnly ==
  ASSUME TypeOK, NEW w \in Workers, Serve(w) \/ Step(w)
  PROVE  Others(w)
<1> USE DEF TypeOK, LocalTypeOK, Others, SameElement, Goto, Reply, Receive, local, vars
<1>1. CASE Serve(w)
  BY <1>1 DEF Serve, PutNew, PutInto, Delete, Unlink
<1>2. CASE RejectSample(w) \/ SkipOther(w) \/ (\E kind \in Enrollable : Search(w, kind))
  BY <1>2 DEF RejectSample, SkipOther, Search, Found
<1>3. CASE CheckOwner(w) \/ Insert(w) \/ AppendGost(w) \/ ReadGost(w) \/ Regost(w)
  BY <1>3 DEF CheckOwner, Insert, AppendGost, ReadGost, Regost, Sent
<1>4. CASE AddLink(w) \/ LinkRefused(w) \/ DeadlockVictim(w)
  BY <1>4 DEF AddLink, LinkRefused, DeadlockVictim
<1>5. CASE Commit(w) \/ Rollback(w) \/ Abandon(w) \/ DeleteCard(w)
  BY <1>5 DEF Commit, Rollback, Abandon, DeleteCard
<1>. QED BY <1>1, <1>2, <1>3, <1>4, <1>5 DEF Step

(* The only steps that write a vector table. *)
Writes(w) == Insert(w) \/ AppendGost(w) \/ Regost(w)

LEMMA RowsKept ==
  ASSUME NEW w \in Workers, Serve(w) \/ Step(w), ~Writes(w)
  PROVE  UNCHANGED rows
<1> USE DEF tables, dbVars, vars
<1>1. CASE Serve(w)
  BY <1>1 DEF Serve, PutNew, PutInto, Delete, Unlink, DbDelLinks, DbDelLink
<1>2. CASE Step(w)
  BY <1>2 DEF Step, Writes, RejectSample, SkipOther, Search, CheckOwner, ReadGost, AddLink,
              LinkRefused, DeadlockVictim, Commit, Rollback, Abandon, DeleteCard,
              DbTxCommit, DbTxRollback, DbDelBc
<1>. QED BY <1>1, <1>2

(* Rows written to keep their vector. *)
LEMMA GostOnly ==
  ASSUME IInv, NEW w \in Workers, AppendGost(w) \/ Regost(w)
  PROVE  /\ DOMAIN rows' = DOMAIN rows
         /\ \A k \in DOMAIN rows : rows'[k].vec = rows[k].vec
         /\ \A k \in DOMAIN rows : k # cand[w] => rows'[k] = rows[k]
<1>1. pc[w] \in CandPcs /\ DbAppendFingerGost(cand[w], Sample(w))
  BY DEF AppendGost, Regost, CandPcs
<1>2. Sample(w) \in Samples
  BY <1>1, SampleType DEF IInv, RowInv, ElementOK
<1>. QED BY <1>1, <1>2, AppendType DEF IInv, TypeOK

(***************************************************************************)
(* Only a finger gets a gost.                                              *)
(***************************************************************************)
GostPcs == {"append", "gost", "regost", "overwrite"}
FingerInv == \A w \in Workers : pc[w] \in GostPcs => Kind(w) = "finger"

LEMMA FingerStep ==
  ASSUME IInv, FingerInv, [Next]_vars
  PROVE  FingerInv'
<1>1. CASE UNCHANGED vars
  BY <1>1 DEF vars, local, FingerInv, Kind, Sample
<1>2. CASE Crash
  BY <1>2 DEF Crash, FingerInv, GostPcs
<1>3. ASSUME NEW w \in Workers, Serve(w) \/ Step(w)
      PROVE  FingerInv'
  <2>1. Others(w)
    BY <1>3, ActorOnly DEF IInv
  <2>2. ASSUME pc'[w] \in GostPcs
        PROVE  Kind(w)' = "finger"
    <3> USE <2>2 DEF GostPcs, Goto, Reply, IInv, TypeOK, LocalTypeOK
    <3>1. CASE Serve(w)
      BY <3>1 DEF Serve, PutNew, PutInto, Delete, Unlink, Receive
    <3>2. CASE RejectSample(w) \/ LinkRefused(w) \/ DeadlockVictim(w) \/ Abandon(w)
      BY <3>2 DEF RejectSample, LinkRefused, DeadlockVictim, Abandon
    <3>3. CASE SkipOther(w) \/ AddLink(w) \/ Commit(w) \/ Rollback(w) \/ DeleteCard(w)
      BY <3>3 DEF SkipOther, AtElement, AddLink, Commit, Rollback, DeleteCard
    <3>4. ASSUME NEW kind \in Enrollable, Search(w, kind)
          PROVE  Kind(w)' = "finger"
      <4>1. UNCHANGED todo /\ Kind(w) = kind /\ Found(w, kind)
        BY <3>4 DEF Search, AtElement, local
      <4>2. PICK score : pc'[w] = AfterSearch(kind, score)
        BY <4>1 DEF Found
      <4>3. kind = "finger"
        BY <4>2 DEF AfterSearch, FaceNext, IrisNext
      <4>. QED BY <4>1, <4>3 DEF Kind, Sample
    <3>5. CASE CheckOwner(w)
      BY <3>5 DEF CheckOwner, Unowned
    <3>6. CASE Insert(w)
      BY <3>6 DEF Insert, Sent, Kind, Sample, local
    <3>7. CASE AppendGost(w) \/ ReadGost(w) \/ Regost(w)
      BY <3>7 DEF AppendGost, ReadGost, Regost, Sent, FingerInv, Kind, Sample, local
    <3>. QED BY <1>3, <3>1, <3>2, <3>3, <3>4, <3>5, <3>6, <3>7 DEF Step
  <2>. QED BY <2>1, <2>2 DEF FingerInv, Others, SameElement, Kind, Sample
<1>. QED BY <1>1, <1>2, <1>3 DEF Next, Quiesced

LEMMA FingerAlways == Spec => [](IInv /\ FingerInv)
<1>1. Init => FingerInv
  BY DEF Init, FingerInv, GostPcs
<1>2. IInv /\ FingerInv /\ [Next]_vars => FingerInv'
  BY FingerStep
<1>. QED BY <1>1, <1>2, Inductive, PTL DEF Spec

(***************************************************************************)
(* One worker: a row whose gost is being written is not linked, unless the *)
(* read of its gost failed.  It was just inserted, or it has no gost yet,  *)
(* and every linked finger has one.                                        *)
(***************************************************************************)
GostUnlinked ==
  \A w \in Workers : pc[w] \in {"append", "regost"} => ~Linked(links, cand[w])

LEMMA GostUnlinkedStep ==
  ASSUME OneWorker, IInv, FingerInv, GostUnlinked, [Next]_vars
  PROVE  GostUnlinked'
<1> SUFFICES ASSUME NEW w \in Workers, pc'[w] \in {"append", "regost"}
             PROVE  ~Linked(links', cand'[w])
  BY DEF GostUnlinked
<1> USE DEF Goto, Reply, IInv, TypeOK, LocalTypeOK, tables, dbVars, local
<1>1. CASE UNCHANGED vars
  BY <1>1 DEF vars, GostUnlinked
<1>2. CASE Serve(w)
  <2>1. pc[w] = "idle" => pc'[w] \in {"idle", "elem", "rollback", "delCard"}
    BY <1>2 DEF Serve, PutNew, PutInto, Delete, Unlink, Receive
  <2>. QED BY <1>2, <2>1 DEF Serve, PutNew, PutInto, Delete, Unlink, Receive
<1>3. CASE Insert(w)
  <2>1. DbInsertTmp(Kind(w), Sample(w)) /\ cand'[w] = <<Kind(w), tmpSeq[Kind(w)] + 1>> /\ UNCHANGED links
    BY <1>3 DEF Insert
  <2>2. cand'[w] \notin DOMAIN rows
    BY <2>1 DEF DbInsertTmp
  <2>. QED BY <2>1, <2>2 DEF Linked, TxInv, Resolves
<1>4. CASE AppendGost(w)
  BY <1>4 DEF AppendGost, GostUnlinked
<1>5. CASE ReadGost(w)
  <2>1. rows[cand[w]].gost = NoSample /\ UNCHANGED <<links, cand>>
    BY <1>5 DEF ReadGost
  <2>2. cand[w][1] = "finger"
    BY <1>5 DEF ReadGost, RowInv, ElementOK, CandPcs, FingerInv, GostPcs
  <2>. QED BY <2>1, <2>2 DEF Linked, TxInv, Resolves
<1>6. CASE Step(w) /\ ~Insert(w) /\ ~AppendGost(w) /\ ~ReadGost(w)
  <2>1. \A kind \in Enrollable : ~Search(w, kind)
    <3>1. ASSUME NEW kind \in Enrollable, Search(w, kind)
          PROVE  FALSE
      <4>1. Found(w, kind) /\ Kind(w) = kind /\ UNCHANGED todo
        BY <3>1 DEF Search, AtElement
      <4>2. PICK score : pc'[w] = AfterSearch(kind, score)
        BY <4>1 DEF Found
      <4>. QED BY <4>2 DEF AfterSearch, FaceNext, IrisNext, FingerNext
    <3>. QED BY <3>1
  <2>2. ~(RejectSample(w) \/ LinkRefused(w) \/ DeadlockVictim(w) \/ Abandon(w) \/ SkipOther(w))
    BY DEF RejectSample, LinkRefused, DeadlockVictim, Abandon, SkipOther, AtElement
  <2>3. ~(AddLink(w) \/ Commit(w) \/ Rollback(w) \/ DeleteCard(w) \/ CheckOwner(w) \/ Regost(w))
    BY DEF AddLink, Commit, Rollback, DeleteCard, CheckOwner, Unowned, Regost, Sent
  <2>. QED BY <1>6, <2>1, <2>2, <2>3 DEF Step
<1>7. ~Crash /\ (Quiesced => UNCHANGED vars)
  BY DEF Crash, Quiesced
<1>. QED BY <1>1, <1>2, <1>3, <1>4, <1>5, <1>6, <1>7 DEF Next, OneWorker

(* With one worker the gost of a linked row is overwritten by a request    *)
(* whose read of it failed, and by no other, whatever else fails and is    *)
(* sent again: biocard_put appends only to a row it has just inserted, or  *)
(* that it found without a gost and hence has no owner.                    *)
THEOREM GostOfLinkedStable ==
  ASSUME OneWorker
  PROVE  Spec => LinkedGostStable
<1> DEFINE Overwritten(l) == \E w \in Workers : pc[w] = "overwrite" /\ cand[w] = l.key
           A == \A l \in links : rows'[l.key].gost # rows[l.key].gost => Overwritten(l)
<1>1. Init => GostUnlinked
  BY DEF Init, GostUnlinked
<1>2. IInv /\ FingerInv /\ GostUnlinked /\ [Next]_vars => GostUnlinked'
  BY GostUnlinkedStep
<1>3. ASSUME IInv, GostUnlinked, [Next]_vars
      PROVE  A
  <2> SUFFICES ASSUME NEW l \in links, ~Overwritten(l)
               PROVE  rows'[l.key].gost = rows[l.key].gost
    OBVIOUS
  <2>1. l.key \in DOMAIN rows
    BY <1>3 DEF IInv, TxInv, Resolves
  <2>2. ASSUME NEW w \in Workers, Insert(w)
        PROVE  rows'[l.key] = rows[l.key]
    BY <2>1, <2>2 DEF Insert, DbInsertTmp, DbInsertRefused
  <2>3. ASSUME NEW w \in Workers, AppendGost(w) \/ Regost(w)
        PROVE  rows'[l.key] = rows[l.key]
    <3>1. l.key # cand[w]
      BY <1>3, <2>3 DEF AppendGost, Regost, GostUnlinked, Linked
    <3>. QED BY <1>3, <2>1, <2>3, <3>1, GostOnly
  <2>4. ASSUME NEW w \in Workers, Serve(w) \/ Step(w), ~Writes(w)
        PROVE  rows' = rows
    BY <2>4, RowsKept
  <2>5. Crash \/ Quiesced \/ UNCHANGED vars => rows' = rows
    BY DEF Crash, Quiesced, vars, dbVars, tables
  <2>. QED BY <1>3, <2>2, <2>3, <2>4, <2>5 DEF Next, Writes
<1>4. IInv /\ FingerInv /\ GostUnlinked /\ [Next]_vars => [A]_vars
  BY <1>3
<1>. QED BY <1>1, <1>2, <1>4, FingerAlways, PTL DEF Spec, LinkedGostStable

(***************************************************************************)
(* Copies.  A worker that is about to insert has found nothing equal to    *)
(* its sample; what it did not see was inserted since, by another worker.  *)
(***************************************************************************)
Inserting(w) ==
  \/ pc[w] = "insert"
  \/ pc[w] = "owner" /\ Kind(w) # "finger" /\ CandScore(w) <= ABIS_EQUAL_THRESHOLD

(* Every row of C equals the sample that w is about to insert. *)
Copying(w, kind, C) ==
  /\ Inserting(w) /\ Kind(w) = kind
  /\ \A k \in C : Score[Sample(w)][rows[k].vec] > ABIS_EQUAL_THRESHOLD

(* Rows that are all equal, together with the workers about to add one     *)
(* more, are at most as many as the workers.                               *)
CopyInv ==
  \A kind \in Enrollable : \A C \in SUBSET Stored(kind), P \in SUBSET Workers :
    Copies(C) /\ (\A w \in P : Copying(w, kind, C)) =>
      IsFiniteSet(C) /\ Cardinality(C) + Cardinality(P) <= Cardinality(Workers)

(* Some worker serves; the rows inserted by hand are not copies.           *)
WorkersFinite == IsFiniteSet(Workers) /\ Workers # {}
SeedDistinct ==
  \A j, k \in DOMAIN Seed :
    j # k /\ j[1] = k[1] => Score[Seed[j].vec][Seed[k].vec] <= ABIS_EQUAL_THRESHOLD

(* A step after which no worker is about to insert that was not before.    *)
StillInserting ==
  \A v \in Workers : Inserting(v)' => Inserting(v) /\ todo'[v] = todo[v]

SameVectors ==
  DOMAIN rows' = DOMAIN rows /\ \A k \in DOMAIN rows : rows'[k].vec = rows[k].vec

LEMMA CopyFrame ==
  ASSUME CopyInv, StillInserting, SameVectors
  PROVE  CopyInv'
<1> SUFFICES ASSUME NEW kind \in Enrollable,
                    NEW C \in SUBSET Stored(kind)', NEW P \in SUBSET Workers,
                    Copies(C)', \A w \in P : Copying(w, kind, C)'
             PROVE  IsFiniteSet(C) /\ Cardinality(C) + Cardinality(P) <= Cardinality(Workers)
  BY DEF CopyInv
<1>1. C \in SUBSET Stored(kind) /\ C \subseteq DOMAIN rows
  BY DEF Stored, SameVectors
<1>2. Copies(C)
  BY <1>1 DEF Copies, SameVectors
<1>3. \A w \in P : Copying(w, kind, C)
  BY <1>1 DEF Copying, StillInserting, SameVectors, Kind, Sample
<1>. QED BY <1>1, <1>2, <1>3 DEF CopyInv

LEMMA ScoreRange ==
  ASSUME NEW s \in Samples, NEW t \in Samples
  PROVE  Score[s][t] \in 0..100
BY ConstantsOK

LEMMA CopyInit ==
  ASSUME WorkersFinite, SeedDistinct
  PROVE  Init => CopyInv
<1> SUFFICES ASSUME Init, NEW kind \in Enrollable,
                    NEW C \in SUBSET Stored(kind), NEW P \in SUBSET Workers,
                    Copies(C), \A w \in P : Copying(w, kind, C)
             PROVE  IsFiniteSet(C) /\ Cardinality(C) + Cardinality(P) <= Cardinality(Workers)
  BY DEF CopyInv
<1>1. P = {}
  BY DEF Init, Copying, Inserting
<1>2. \A j, k \in C : j = k
  <2>1. rows = Seed /\ C \subseteq DOMAIN Seed
    BY DEF Init, DbInit, Stored
  <2>2. ASSUME NEW j \in C, NEW k \in C, j # k
        PROVE  FALSE
    <3>1. j[1] = k[1] /\ j \in DOMAIN Seed /\ k \in DOMAIN Seed
      BY <2>1 DEF Stored
    <3>2. Score[Seed[j].vec][Seed[k].vec] \in 0..100
      BY <3>1, ConstantsOK, ScoreRange
    <3>3. Score[Seed[j].vec][Seed[k].vec] <= 95
      BY <2>2, <3>1 DEF SeedDistinct, ABIS_EQUAL_THRESHOLD
    <3>4. Score[Seed[j].vec][Seed[k].vec] > 95
      BY <2>1, <2>2 DEF Copies, ABIS_EQUAL_THRESHOLD
    <3>. QED BY <3>2, <3>3, <3>4
  <2>. QED BY <2>2
<1>3. Cardinality(Workers) \in Nat /\ Cardinality(Workers) # 0
  BY FS_CardinalityType, FS_EmptySet DEF WorkersFinite
<1>4. CASE C = {}
  BY <1>1, <1>3, <1>4, FS_EmptySet
<1>5. CASE C # {}
  <2>1. PICK c \in C : C = {c}
    BY <1>2, <1>5
  <2>2. IsFiniteSet(C) /\ Cardinality(C) = 1
    BY <2>1, FS_Singleton
  <2>. QED BY <1>1, <1>3, <2>2, FS_EmptySet
<1>. QED BY <1>4, <1>5

(* The worker that inserts has no row equal to its sample yet. *)
LEMMA CopyInsert ==
  ASSUME WorkersFinite, IInv, CopyInv, NEW w \in Workers, Insert(w)
  PROVE  CopyInv'
<1> USE DEF IInv, TypeOK, LocalTypeOK, local
<1>1. todo[w] # <<>> /\ Kind(w) \in Enrollable /\ pc[w] = "insert"
  BY DEF Insert, RowInv, ElementOK
<1>2. pc'[w] \in {"append", "link", "rollback"} /\ UNCHANGED todo
  BY DEF Insert, Sent, Goto
<1>3. Others(w)
  BY ActorOnly DEF Step
<1>4. ASSUME NEW v \in Workers, Inserting(v)', SameVectors \/ DbInsertTmp(Kind(w), Sample(w))
      PROVE  v # w /\ Inserting(v)
  <2>1. v # w
    BY <1>2, <1>4 DEF Inserting
  <2>2. pc'[v] = pc[v] /\ cand'[v] = cand[v] /\ todo'[v] = todo[v]
    BY <1>3, <2>1 DEF Others, SameElement
  <2>3. pc[v] = "owner" => cand[v] \in DOMAIN rows /\ rows'[cand[v]].vec = rows[cand[v]].vec
    BY <1>4 DEF RowInv, ElementOK, CandPcs, SameVectors, DbInsertTmp
  <2>. QED BY <1>4, <2>1, <2>2, <2>3 DEF Inserting, Kind, Sample, CandScore
<1>5. CASE DbInsertRefused(Kind(w))
  <2>1. SameVectors
    BY <1>5 DEF DbInsertRefused, SameVectors
  <2>2. StillInserting
    BY <1>2, <1>4, <2>1 DEF StillInserting
  <2>. QED BY <2>1, <2>2, CopyFrame
<1>6. CASE DbInsertTmp(Kind(w), Sample(w))
  <2> DEFINE new == <<Kind(w), tmpSeq[Kind(w)] + 1>>
  <2>1. /\ new \notin DOMAIN rows /\ DOMAIN rows' = DOMAIN rows \cup {new}
        /\ \A k \in DOMAIN rows : rows'[k] = rows[k]
        /\ rows'[new].vec = Sample(w)
    BY <1>6 DEF DbInsertTmp
  <2> SUFFICES ASSUME NEW kind \in Enrollable,
                      NEW C \in SUBSET Stored(kind)', NEW P \in SUBSET Workers,
                      Copies(C)', \A v \in P : Copying(v, kind, C)'
               PROVE  IsFiniteSet(C) /\ Cardinality(C) + Cardinality(P) <= Cardinality(Workers)
    BY DEF CopyInv
  <2> HIDE DEF new
  <2>2. /\ w \notin P
        /\ \A v \in P : Inserting(v) /\ Kind(v) = kind /\ Kind(v)' = Kind(v) /\ Sample(v)' = Sample(v)
    BY <1>2, <1>4, <1>6 DEF Copying, Kind, Sample
  <2> DEFINE D == C \ {new}
  <2>3. D \in SUBSET Stored(kind) /\ D \subseteq DOMAIN rows
    BY <2>1 DEF Stored
  <2>4. Copies(D) /\ \A v \in P : Copying(v, kind, D)
    BY <2>1, <2>2, <2>3 DEF Copies, Copying
  <2>5. CASE new \notin C
    <3>1. D = C
      BY <2>5
    <3>. QED BY <2>3, <2>4, <3>1 DEF CopyInv
  <2>6. CASE new \in C
    <3>1. Kind(w) = kind
      BY <2>6 DEF Stored, new
    <3>2. \A k \in D : Score[Sample(w)][rows[k].vec] > ABIS_EQUAL_THRESHOLD
      BY <2>1, <2>3, <2>6 DEF Copies
    <3>3. \A v \in P \cup {w} : Copying(v, kind, D)
      BY <1>1, <2>4, <3>1, <3>2 DEF Copying, Inserting
    <3>4. P \cup {w} \in SUBSET Workers
      OBVIOUS
    <3>5. IsFiniteSet(D) /\ Cardinality(D) + Cardinality(P \cup {w}) <= Cardinality(Workers)
      BY <2>3, <2>4, <3>3, <3>4 DEF CopyInv
    <3>6. IsFiniteSet(P) /\ Cardinality(P \cup {w}) = Cardinality(P) + 1
      BY <2>2, FS_Subset, FS_AddElement DEF WorkersFinite
    <3>7. C = D \cup {new} /\ new \notin D
      BY <2>6
    <3>8. IsFiniteSet(C) /\ Cardinality(C) = Cardinality(D) + 1
      <4>. HIDE DEF D
      <4>. QED BY <3>5, <3>7, FS_AddElement
    <3>9. Cardinality(D) \in Nat /\ Cardinality(P) \in Nat /\ Cardinality(Workers) \in Nat
      BY <3>5, <3>6, FS_CardinalityType DEF WorkersFinite
    <3>. QED BY <3>5, <3>6, <3>8, <3>9
  <2>. QED BY <2>5, <2>6
<1>. QED BY <1>5, <1>6 DEF Insert

(* A search that is exact finds a row equal to the sample if there is one. *)
LEMMA CopySearch ==
  ASSUME WorkersFinite, ExactSearch, IInv, CopyInv,
         NEW w \in Workers, NEW kind \in Enrollable, Search(w, kind)
  PROVE  CopyInv'
<1> USE DEF IInv, TypeOK, LocalTypeOK, local, dbVars, tables
<1>1. UNCHANGED <<rows, todo>> /\ Kind(w) = kind /\ todo[w] # <<>>
  BY DEF Search, AtElement
<1>2. Others(w)
  BY ActorOnly DEF Step
<1> SUFFICES ASSUME NEW kd \in Enrollable,
                    NEW C \in SUBSET Stored(kd)', NEW P \in SUBSET Workers,
                    Copies(C)', \A v \in P : Copying(v, kd, C)'
             PROVE  IsFiniteSet(C) /\ Cardinality(C) + Cardinality(P) <= Cardinality(Workers)
  BY DEF CopyInv
<1>3. C \in SUBSET Stored(kd) /\ Copies(C)
  BY <1>1 DEF Stored, Copies
<1>4. ASSUME NEW v \in P, v # w
      PROVE  Copying(v, kd, C)
  BY <1>1, <1>2, <1>4 DEF Copying, Inserting, Others, SameElement, Kind, Sample, CandScore
<1>5. CASE w \notin P
  BY <1>3, <1>4, <1>5 DEF CopyInv
<1>6. CASE C = {}
  <2>1. IsFiniteSet(C) /\ Cardinality(C) = 0
    BY <1>6, FS_EmptySet
  <2>2. Cardinality(P) \in Nat /\ Cardinality(P) <= Cardinality(Workers)
    BY FS_Subset, FS_CardinalityType DEF WorkersFinite
  <2>. QED BY <2>1, <2>2
<1>7. CASE w \in P /\ C # {}
  <2>1. PICK c \in C : TRUE
    BY <1>7
  <2>2. kd = kind /\ Inserting(w)' /\ Score[Sample(w)][rows[c].vec] > ABIS_EQUAL_THRESHOLD
    BY <1>1, <1>7, <2>1 DEF Copying, Kind, Sample
  <2>3. PICK k \in DbSearchTmp(kind, Sample(w)) :
          /\ cand' = [cand EXCEPT ![w] = k]
          /\ Goto(w, AfterSearch(kind, Score[Sample(w)][rows[k].vec]))
    BY <1>3, <2>2 DEF Search, Found
  <2>4. k \in DOMAIN rows /\ c \in DOMAIN rows
    BY <1>3, <2>3 DEF DbSearchTmp, Stored
  <2>5. Score[Sample(w)][rows[c].vec] <= Score[Sample(w)][rows[k].vec]
    BY <1>3, <2>2, <2>3 DEF DbSearchTmp
  <2>6. \A j \in DOMAIN rows : Score[Sample(w)][rows[j].vec] \in 0..100
    <3>1. Sample(w) \in Samples
      BY <1>1, SampleType
    <3>2. \A j \in DOMAIN rows : rows[j].vec \in Samples
      BY DEF DbTypeOK, Row
    <3>. QED BY <3>1, <3>2, ScoreRange
  <2>7. PICK score \in 0..100 : score = Score[Sample(w)][rows[k].vec]
    BY <2>4, <2>6
  <2>8. score > 95
    <3>1. PICK least \in 0..100 : least = Score[Sample(w)][rows[c].vec]
      BY <2>4, <2>6
    <3>2. least > 95 /\ least <= score
      BY <2>2, <2>5, <2>7, <3>1 DEF ABIS_EQUAL_THRESHOLD
    <3>. QED BY <3>2
  <2>9. cand'[w] = k /\ pc'[w] = AfterSearch(kind, score)
    BY <2>3, <2>4, <2>7 DEF Goto
  <2>10. AfterSearch(kind, score) = IF kind = "finger" THEN "gost" ELSE "owner"
    <3>1. FaceNext(score) = "owner" /\ IrisNext(score) = "owner" /\ FingerNext(score) = "gost"
      BY <2>8 DEF FaceNext, IrisNext, FingerNext,
         ABIS_FACE_THRESHOLD, ABIS_IRIS_THRESHOLD, ABIS_EQUAL_THRESHOLD
    <3>. QED BY <3>1 DEF AfterSearch
  <2>11. CandScore(w)' = score
    BY <1>1, <2>7, <2>9 DEF CandScore, Sample
  <2>12. CandScore(w)' <= 95
    BY <2>2, <2>9, <2>10 DEF Inserting, ABIS_EQUAL_THRESHOLD
  <2>. QED BY <2>8, <2>11, <2>12
<1>. QED BY <1>5, <1>6, <1>7

(* No other step lets a worker insert that was not about to. *)
LEMMA CopyQuiet ==
  ASSUME IInv, FingerInv, CopyInv, NEW w \in Workers, Serve(w) \/ Step(w),
         ~Insert(w), \A kind \in Enrollable : ~Search(w, kind)
  PROVE  CopyInv'
<1> USE DEF IInv, TypeOK, LocalTypeOK, local, dbVars, tables, Goto, Reply
<1>1. SameVectors
  BY RowsKept, GostOnly DEF Writes, SameVectors
<1>2. Others(w)
  BY ActorOnly
<1>3. Inserting(w)' => Inserting(w) /\ todo'[w] = todo[w]
  <2>1. CASE Serve(w)
    BY <2>1 DEF Serve, PutNew, PutInto, Delete, Unlink, Receive, Inserting
  <2>2. CASE RejectSample(w) \/ LinkRefused(w) \/ DeadlockVictim(w) \/ Abandon(w)
    BY <2>2 DEF RejectSample, LinkRefused, DeadlockVictim, Abandon, Inserting
  <2>3. CASE SkipOther(w) \/ AddLink(w) \/ Commit(w) \/ Rollback(w) \/ DeleteCard(w)
    BY <2>3 DEF SkipOther, AtElement, AddLink, Commit, Rollback, DeleteCard, Inserting
  <2>4. CASE CheckOwner(w)
    BY <2>4 DEF CheckOwner, Unowned, Inserting
  <2>5. CASE ReadGost(w)
    <3>1. Kind(w)' = "finger"
      BY <2>5 DEF ReadGost, FingerInv, GostPcs, Kind, Sample
    <3>. QED BY <2>5, <3>1 DEF ReadGost, Inserting
  <2>6. CASE AppendGost(w) \/ Regost(w)
    BY <2>6 DEF AppendGost, Regost, Sent, Inserting
  <2>. QED BY <2>1, <2>2, <2>3, <2>4, <2>5, <2>6 DEF Step
<1>4. ASSUME NEW v \in Workers, v # w, Inserting(v)'
      PROVE  Inserting(v) /\ todo'[v] = todo[v]
  <2>1. pc'[v] = pc[v] /\ cand'[v] = cand[v] /\ todo'[v] = todo[v]
    BY <1>2, <1>4 DEF Others, SameElement
  <2>2. pc[v] = "owner" => cand[v] \in DOMAIN rows /\ rows'[cand[v]].vec = rows[cand[v]].vec
    BY <1>1 DEF RowInv, ElementOK, CandPcs, SameVectors
  <2>. QED BY <1>4, <2>1, <2>2 DEF Inserting, Kind, Sample, CandScore
<1>5. StillInserting
  BY <1>3, <1>4 DEF StillInserting
<1>. QED BY <1>1, <1>5, CopyFrame

LEMMA CopyStep ==
  ASSUME WorkersFinite, ExactSearch, IInv, FingerInv, CopyInv, [Next]_vars
  PROVE  CopyInv'
<1>1. CASE UNCHANGED vars
  <2>1. SameVectors
    BY <1>1 DEF vars, dbVars, tables, SameVectors
  <2>2. StillInserting
    BY <1>1 DEF vars, dbVars, tables, local, StillInserting, Inserting, Kind, Sample, CandScore
  <2>. QED BY <2>1, <2>2, CopyFrame
<1>2. CASE Crash
  <2>1. SameVectors /\ StillInserting
    BY <1>2 DEF Crash, tables, SameVectors, StillInserting, Inserting
  <2>. QED BY <2>1, CopyFrame
<1>. QED BY <1>1, <1>2, CopyInsert, CopySearch, CopyQuiet DEF Next, Quiesced

(* Rows that are all equal to each other never outnumber the workers, in   *)
(* whatever order any number of workers search and insert, fail, crash and *)
(* are sent the same samples again: biocard_put searches before it         *)
(* inserts, and nothing but another worker comes in between.               *)
THEOREM CopiesBounded ==
  ASSUME WorkersFinite, ExactSearch, SeedDistinct
  PROVE  Spec => []DuplicatesBounded
<1>1. Init => CopyInv
  BY CopyInit
<1>2. IInv /\ FingerInv /\ CopyInv /\ [Next]_vars => CopyInv'
  BY CopyStep
<1>3. CopyInv => DuplicatesBounded
  <2> SUFFICES ASSUME CopyInv, NEW kind \in Enrollable, NEW C \in SUBSET Stored(kind), Copies(C)
               PROVE  Cardinality(C) <= Cardinality(Workers)
    BY DEF DuplicatesBounded
  <2>1. {} \in SUBSET Workers /\ \A w \in {} : Copying(w, kind, C)
    OBVIOUS
  <2>2. IsFiniteSet(C) /\ Cardinality(C) + Cardinality({}) <= Cardinality(Workers)
    BY <2>1 DEF CopyInv
  <2>. QED BY <2>2, FS_EmptySet, FS_CardinalityType DEF WorkersFinite
<1>. QED BY <1>1, <1>2, <1>3, FingerAlways, PTL DEF Spec

(***************************************************************************)
(* Twins.  biocard_put looks up the owner of the nearest row only: a row   *)
(* that no biocard owns (inserted by hand, unlinked by a DELETE, or left   *)
(* by a PUT that was rolled back) hides a linked one behind it.  Below no  *)
(* such row is left, and only its own sample is near a row of the seed.    *)
(***************************************************************************)
FaceIris == {"face", "iris"}

OneByOne == OneWorker /\ ~Faults /\ MaxElems <= 1 /\ Ops \subseteq {"new", "into"}

SymmetricScore == \A s, t \in Samples : Score[s][t] = Score[t][s]
SelfEqual == \A s \in Samples : Score[s][s] > ABIS_EQUAL_THRESHOLD
SeedApart ==
  \A k \in DOMAIN Seed : \A s \in Samples :
    Score[s][Seed[k].vec] >= ABIS_FACE_THRESHOLD => s = Seed[k].vec

(* A face (iris) row is the seed's, or it is linked or about to be. *)
Placed(k) ==
  \/ k \in DOMAIN Seed
  \/ Linked(links, k)
  \/ \E w \in Workers : Linked(pend[w], k) \/ (pc[w] = "link" /\ cand[w] = k)

Unlike(s, kind) == \A k \in Stored(kind) : Score[s][rows[k].vec] < ABIS_FACE_THRESHOLD

RowsApart ==
  /\ \A k \in DOMAIN Seed : k \in DOMAIN rows /\ rows[k].vec = Seed[k].vec
  /\ \A kind \in FaceIris : \A j, k \in Stored(kind) :
       j # k => Score[rows[j].vec][rows[k].vec] < ABIS_FACE_THRESHOLD
  /\ \A k \in DOMAIN rows : k[1] \in FaceIris => Placed(k)

(* The one element of a request: nothing can refuse it once it has a row. *)
OneElement(w) ==
  /\ pc[w] # "delCard" /\ w \notin aborted
  /\ Len(todo[w]) <= 1
  /\ pend[w] # {} => pc[w] = "elem" /\ todo[w] = <<>>
  /\ pc[w] \in TxPcs \ {"rollback"} => CardVisible(w, card[w])
  /\ pc[w] \in {"owner", "insert", "link"} /\ Kind(w) \in FaceIris =>
       /\ pc[w] = "owner" => CandScore(w) >= ABIS_FACE_THRESHOLD
       /\ pc[w] = "insert" => Unlike(Sample(w), Kind(w))
       /\ pc[w] = "link" => ~Linked(links, cand[w])

SerialInv == RowsApart /\ \A w \in Workers : OneElement(w)
TwinHypotheses ==
  /\ OneByOne /\ ExactSearch
  /\ SymmetricScore /\ SelfEqual /\ SeedDistinct /\ SeedApart

LEMMA LastElement ==
  ASSUME NEW S, NEW s \in Seq(S), s # <<>>, Len(s) <= 1
  PROVE  Tail(s) = <<>>
OBVIOUS

LEMMA ShortRequests ==
  ASSUME MaxElems <= 1, NEW s \in Requests
  PROVE  s \in Seq(Samples) /\ Len(s) <= 1
BY BoundsOK DEF Requests

LEMMA SerialInit ==
  ASSUME TwinHypotheses
  PROVE  Init => SerialInv
<1> SUFFICES ASSUME Init
             PROVE  SerialInv
  OBVIOUS
<1>1. rows = Seed
  BY DEF Init, DbInit
<1>2. ASSUME NEW kind \in FaceIris, NEW j \in Stored(kind), NEW k \in Stored(kind), j # k
      PROVE  Score[rows[j].vec][rows[k].vec] < ABIS_FACE_THRESHOLD
  <2>1. j \in DOMAIN Seed /\ k \in DOMAIN Seed /\ j[1] = k[1]
    BY <1>1 DEF Stored
  <2>2. Seed[j].vec \in Samples /\ Seed[k].vec \in Samples
    BY <2>1, ConstantsOK
  <2>3. Score[Seed[j].vec][Seed[k].vec] \in 0..100
    BY <2>2, ScoreRange
  <2>4. Score[Seed[j].vec][Seed[k].vec] <= 95
    BY <1>2, <2>1 DEF TwinHypotheses, SeedDistinct, ABIS_EQUAL_THRESHOLD
  <2>5. Seed[j].vec # Seed[k].vec
    <3>1. SUFFICES ASSUME Seed[j].vec = Seed[k].vec
                   PROVE  FALSE
      OBVIOUS
    <3>2. Score[Seed[j].vec][Seed[k].vec] > 95
      BY <2>2, <3>1 DEF TwinHypotheses, SelfEqual, ABIS_EQUAL_THRESHOLD
    <3>. QED BY <2>3, <2>4, <3>2
  <2>6. ~(Score[Seed[j].vec][Seed[k].vec] >= ABIS_FACE_THRESHOLD)
    BY <2>1, <2>2, <2>5 DEF TwinHypotheses, SeedApart
  <2>. QED BY <1>1, <2>3, <2>6 DEF ABIS_FACE_THRESHOLD
<1>3. RowsApart
  BY <1>1, <1>2 DEF RowsApart, Placed
<1>4. \A w \in Workers : OneElement(w)
  BY DEF Init, DbInit, OneElement, TxPcs
<1>. QED BY <1>3, <1>4 DEF SerialInv

(* Steps that neither add a row nor take a link away, nor leave "link". *)
LEMMA PlacedFrame ==
  ASSUME SerialInv, SameVectors, OneWorker, NEW w \in Workers, links \subseteq links',
         \A l \in pend[w] : l \in pend'[w] \/ l \in links',
         pc[w] = "link" /\ cand[w][1] \in FaceIris =>
           (pc'[w] = "link" /\ cand'[w] = cand[w]) \/ Linked(pend'[w], cand[w])
  PROVE  RowsApart'
<1>1. ASSUME NEW k \in DOMAIN rows, k[1] \in FaceIris, Placed(k)
      PROVE  Placed(k)'
  BY <1>1 DEF Placed, Linked, OneWorker
<1>. QED BY <1>1 DEF SerialInv, RowsApart, SameVectors, Stored

LEMMA SerialServe ==
  ASSUME TwinHypotheses, IInv, SerialInv, NEW w \in Workers, Serve(w)
  PROVE  SerialInv'
<1> USE DEF TwinHypotheses, OneByOne, IInv, TypeOK, LocalTypeOK, tables, tx, dbVars
<1>1. PICK s \in Requests : PutNew(w, s) \/ \E c \in 1..bcSeq : PutInto(w, c, s)
  BY DEF Serve, Delete, Unlink, Receive
<1>2. /\ UNCHANGED <<rows, cards, links, pend, aborted>> /\ pc[w] = "idle"
      /\ pc'[w] \in {"elem", "rollback"} /\ todo'[w] = s
      /\ pc'[w] = "elem" => card'[w] \in cards \/ (card'[w] # 0 /\ card'[w] = txCard'[w])
  BY <1>1, ConstantsOK DEF PutNew, PutInto, Receive, Goto, DbAddBc, DbTypeOK
<1>3. SameVectors
  BY <1>2 DEF SameVectors
<1>4. RowsApart'
  BY <1>2, <1>3, PlacedFrame
<1>5. OneElement(w)'
  BY <1>2, ShortRequests DEF SerialInv, OneElement, TxPcs, CardVisible
<1>. QED BY <1>4, <1>5 DEF SerialInv, OneWorker

LEMMA SerialSearch ==
  ASSUME TwinHypotheses, IInv, SerialInv, NEW w \in Workers,
         NEW kind \in Enrollable, Search(w, kind)
  PROVE  SerialInv'
<1> USE DEF TwinHypotheses, OneByOne, IInv, TypeOK, LocalTypeOK, tables, tx, dbVars, local
<1>1. UNCHANGED <<rows, todo, card, cards, links, txCard, pend, aborted>>
      /\ pc[w] = "elem" /\ todo[w] # <<>> /\ Kind(w) = kind
  BY DEF Search, AtElement
<1>2. SameVectors
  BY <1>1 DEF SameVectors
<1>3. RowsApart'
  BY <1>1, <1>2, PlacedFrame
<1>4. CASE pc'[w] = "rollback"
  BY <1>1, <1>3, <1>4 DEF SerialInv, OneElement, TxPcs, OneWorker
<1>5. CASE Found(w, kind)
  <2>1. PICK k \in DbSearchTmp(kind, Sample(w)) :
          /\ cand' = [cand EXCEPT ![w] = k]
          /\ Goto(w, AfterSearch(kind, Score[Sample(w)][rows[k].vec]))
    BY <1>5 DEF Found
  <2>2. k \in DOMAIN rows /\ Stored(kind) \subseteq DOMAIN rows
    BY <2>1 DEF DbSearchTmp, Stored
  <2>3. \A j \in DOMAIN rows : Score[Sample(w)][rows[j].vec] \in 0..100
    <3>1. Sample(w) \in Samples
      BY <1>1, SampleType
    <3>2. \A j \in DOMAIN rows : rows[j].vec \in Samples
      BY DEF DbTypeOK, Row
    <3>. QED BY <3>1, <3>2, ScoreRange
  <2>4. PICK score \in 0..100 : score = Score[Sample(w)][rows[k].vec]
    BY <2>2, <2>3
  <2>5. cand'[w] = k /\ pc'[w] = AfterSearch(kind, score)
    BY <2>1, <2>2, <2>4 DEF Goto
  <2>6. CandScore(w)' = score /\ Sample(w)' = Sample(w) /\ Kind(w)' = kind
    BY <1>1, <2>4, <2>5 DEF CandScore, Sample, Kind
  <2>7. CASE kind \in FaceIris
    <3>1. AfterSearch(kind, score) = IF score >= 50 THEN "owner" ELSE "insert"
      BY <2>7 DEF AfterSearch, FaceNext, IrisNext, FaceIris, ABIS_FACE_THRESHOLD, ABIS_IRIS_THRESHOLD
    <3>2. ASSUME score < 50, NEW j \in Stored(kind)
          PROVE  Score[Sample(w)][rows[j].vec] < 50
      <4>1. j \in DOMAIN rows /\ Score[Sample(w)][rows[j].vec] <= Score[Sample(w)][rows[k].vec]
        BY <2>1, <2>2 DEF DbSearchTmp
      <4>2. PICK other \in 0..100 : other = Score[Sample(w)][rows[j].vec]
        BY <2>3, <4>1
      <4>3. other <= score
        BY <2>4, <4>1, <4>2
      <4>4. other < 50
        BY <3>2, <4>3
      <4>. QED BY <4>2, <4>4
    <3>3. score < 50 => Unlike(Sample(w), kind)'
      BY <1>1, <2>6, <3>2 DEF Unlike, Stored, ABIS_FACE_THRESHOLD
    <3>4. pc'[w] = "owner" => CandScore(w)' >= ABIS_FACE_THRESHOLD
      BY <2>5, <2>6, <3>1 DEF ABIS_FACE_THRESHOLD
    <3>5. ASSUME pc'[w] = "insert"
          PROVE  Unlike(Sample(w), Kind(w))'
      <4>1. score < 50
        BY <2>4, <2>5, <3>1, <3>5
      <4>. QED BY <2>6, <3>3, <4>1 DEF Unlike, Stored
    <3>6. pc'[w] \in {"owner", "insert"}
      BY <2>5, <3>1
    <3>7. OneElement(w)'
      BY <1>1, <3>4, <3>5, <3>6 DEF SerialInv, OneElement, TxPcs, CardVisible
    <3>. QED BY <1>3, <3>7 DEF SerialInv, OneWorker
  <2>8. CASE kind = "finger"
    <3>1. pc'[w] \in {"insert", "gost"}
      BY <2>5, <2>8 DEF AfterSearch, FingerNext
    <3>2. OneElement(w)'
      BY <1>1, <2>6, <2>8, <3>1 DEF SerialInv, OneElement, TxPcs, CardVisible, FaceIris
    <3>. QED BY <1>3, <3>2 DEF SerialInv, OneWorker
  <2>. QED BY <2>7, <2>8 DEF FaceIris
<1>. QED BY <1>3, <1>4, <1>5 DEF Search, Goto, SerialInv, OneWorker

(* A row that is near and not owned is the sample's own row of the seed. *)
LEMMA SerialOwner ==
  ASSUME TwinHypotheses, IInv, SerialInv, NEW w \in Workers, CheckOwner(w)
  PROVE  SerialInv'
<1> USE DEF TwinHypotheses, OneByOne, IInv, TypeOK, LocalTypeOK, tables, local
<1>1. /\ UNCHANGED <<rows, todo, card, cand, cards, links, txCard, pend, aborted>>
      /\ pc[w] = "owner"
      /\ pc'[w] = IF DbGetBcForTmp(w, cand[w]) THEN "rollback" ELSE Unowned(w)
  BY DEF CheckOwner, Goto
<1>2. SameVectors
  BY <1>1 DEF SameVectors
<1>3. RowsApart'
  BY <1>1, <1>2, PlacedFrame
<1>4. cand[w] \in DOMAIN rows /\ cand[w][1] = Kind(w) /\ Sample(w) \in Samples
  BY <1>1, SampleType DEF RowInv, ElementOK, CandPcs
<1>5. CASE DbGetBcForTmp(w, cand[w])
  BY <1>1, <1>3, <1>5 DEF SerialInv, OneElement, TxPcs, OneWorker
<1>6. CASE ~DbGetBcForTmp(w, cand[w]) /\ Kind(w) \in FaceIris
  <2>1. ~Linked(links, cand[w]) /\ ~Linked(pend[w], cand[w])
    BY <1>6 DEF DbGetBcForTmp, Linked
  <2>2. cand[w] \in DOMAIN Seed
    BY <1>1, <1>4, <1>6, <2>1 DEF SerialInv, RowsApart, Placed, OneWorker
  <2>3. rows[cand[w]].vec = Seed[cand[w]].vec
    BY <1>4, <2>2 DEF SerialInv, RowsApart
  <2>4. Score[Sample(w)][Seed[cand[w]].vec] >= ABIS_FACE_THRESHOLD
    BY <1>1, <1>6, <2>3 DEF SerialInv, OneElement, CandScore
  <2>5. Sample(w) = Seed[cand[w]].vec
    BY <1>4, <2>2, <2>4 DEF SeedApart
  <2>6. PICK score \in 0..100 : score = CandScore(w)
    BY <1>4, <2>3, <2>5, ScoreRange DEF CandScore
  <2>7. score > 95
    BY <1>4, <2>3, <2>5, <2>6 DEF SelfEqual, CandScore, ABIS_EQUAL_THRESHOLD
  <2>8. pc'[w] = "link"
    BY <1>1, <1>6, <2>6, <2>7 DEF Unowned, ABIS_EQUAL_THRESHOLD
  <2>9. OneElement(w)'
    BY <1>1, <2>1, <2>8 DEF SerialInv, OneElement, TxPcs, CardVisible
  <2>. QED BY <1>3, <2>9 DEF SerialInv, OneWorker
<1>7. CASE ~DbGetBcForTmp(w, cand[w]) /\ Kind(w) \notin FaceIris
  <2>1. Kind(w)' \notin FaceIris /\ pc'[w] \in {"insert", "link"}
    BY <1>1, <1>7 DEF Unowned, Kind, Sample
  <2>2. OneElement(w)'
    BY <1>1, <2>1 DEF SerialInv, OneElement, TxPcs, CardVisible
  <2>. QED BY <1>3, <2>2 DEF SerialInv, OneWorker
<1>. QED BY <1>5, <1>6, <1>7

LEMMA SerialInsert ==
  ASSUME TwinHypotheses, IInv, SerialInv, NEW w \in Workers, Insert(w)
  PROVE  SerialInv'
<1> USE DEF TwinHypotheses, OneByOne, IInv, TypeOK, LocalTypeOK, local, tx
<1>1. /\ UNCHANGED <<todo, card, cards, links, txCard, pend, aborted>>
      /\ pc[w] = "insert" /\ Sample(w) \in Samples
  BY SampleType DEF Insert, RowInv, ElementOK
<1>2. CASE DbInsertRefused(Kind(w)) /\ Goto(w, "rollback")
  <2>1. SameVectors
    BY <1>2 DEF DbInsertRefused, SameVectors
  <2>2. pc'[w] = "rollback"
    BY <1>2 DEF Goto
  <2>3. RowsApart'
    BY <1>1, <2>1, PlacedFrame
  <2>. QED BY <1>1, <2>2, <2>3 DEF SerialInv, OneElement, TxPcs, OneWorker
<1>3. CASE /\ DbInsertTmp(Kind(w), Sample(w))
           /\ cand' = [cand EXCEPT ![w] = <<Kind(w), tmpSeq[Kind(w)] + 1>>]
           /\ Sent(w, IF Kind(w) = "finger" THEN "append" ELSE "link")
  <2> DEFINE new == <<Kind(w), tmpSeq[Kind(w)] + 1>>
  <2>1. /\ new \notin DOMAIN rows /\ DOMAIN rows' = DOMAIN rows \cup {new}
        /\ \A k \in DOMAIN rows : rows'[k] = rows[k]
        /\ rows'[new].vec = Sample(w)
    BY <1>3 DEF DbInsertTmp
  <2>2. new[1] = Kind(w)
    OBVIOUS
  <2>3. pc'[w] = (IF Kind(w) = "finger" THEN "append" ELSE "link") /\ cand'[w] = new
    BY <1>3 DEF Sent, Goto
  <2>4. ~Linked(links', new)
    BY <1>1, <2>1 DEF Linked, TxInv, Resolves
  <2> HIDE DEF new
  <2>5. ASSUME NEW kind \in FaceIris, NEW j \in Stored(kind)', NEW k \in Stored(kind)', j # k
        PROVE  Score[rows'[j].vec][rows'[k].vec] < ABIS_FACE_THRESHOLD
    <3>1. j \in DOMAIN rows \cup {new} /\ k \in DOMAIN rows \cup {new} /\ j[1] = kind /\ k[1] = kind
      BY <2>1 DEF Stored
    <3>2. CASE j # new /\ k # new
      BY <2>1, <2>5, <3>1, <3>2 DEF SerialInv, RowsApart, Stored
    <3>3. CASE j = new
      BY <1>1, <2>1, <2>2, <2>5, <3>1, <3>3 DEF SerialInv, OneElement, Unlike, Stored
    <3>4. CASE k = new
      <4>1. j \in DOMAIN rows /\ rows[j].vec \in Samples /\ rows'[j].vec = rows[j].vec
        BY <2>1, <2>5, <3>1, <3>4 DEF DbTypeOK, Row
      <4>2. Score[Sample(w)][rows[j].vec] < ABIS_FACE_THRESHOLD
        BY <1>1, <2>2, <2>5, <3>1, <3>4, <4>1 DEF SerialInv, OneElement, Unlike, Stored
      <4>. QED BY <1>1, <2>1, <3>4, <4>1, <4>2 DEF SymmetricScore
    <3>. QED BY <3>2, <3>3, <3>4
  <2>6. ASSUME NEW k \in DOMAIN rows', k[1] \in FaceIris
        PROVE  Placed(k)'
    <3>1. CASE k = new
      BY <2>2, <2>3, <2>6, <3>1 DEF Placed, FaceIris
    <3>2. CASE k # new
      BY <1>1, <2>1, <2>6, <3>2 DEF SerialInv, RowsApart, Placed, OneWorker
    <3>. QED BY <3>1, <3>2
  <2>7. \A k \in DOMAIN Seed : k \in DOMAIN rows' /\ rows'[k].vec = Seed[k].vec
    BY <2>1 DEF SerialInv, RowsApart
  <2>8. RowsApart'
    BY <2>5, <2>6, <2>7 DEF RowsApart
  <2>9. OneElement(w)'
    BY <1>1, <2>3, <2>4 DEF SerialInv, OneElement, TxPcs, CardVisible
  <2>. QED BY <2>8, <2>9 DEF SerialInv, OneWorker
<1>. QED BY <1>2, <1>3 DEF Insert

LEMMA SerialLink ==
  ASSUME TwinHypotheses, IInv, SerialInv, NEW w \in Workers, AddLink(w)
  PROVE  SerialInv'
<1> USE DEF TwinHypotheses, OneByOne, IInv, TypeOK, LocalTypeOK, tables, local
<1>1. /\ UNCHANGED <<rows, cards, links, txCard, aborted, cand, card>> /\ pc[w] = "link"
      /\ pc'[w] = "elem" /\ todo'[w] = Tail(todo[w])
      /\ pend'[w] = pend[w] \cup {[key |-> cand[w], card |-> card[w]]}
  BY DEF AddLink, DbAddLink, Goto, DbTypeOK
<1>2. SameVectors
  BY <1>1 DEF SameVectors
<1>3. Linked(pend'[w], cand[w])
  <2>1. [key |-> cand[w], card |-> card[w]] \in pend'[w]
    BY <1>1
  <2>. QED BY <2>1 DEF Linked
<1>4. RowsApart'
  BY <1>1, <1>2, <1>3, PlacedFrame
<1>5. todo'[w] = <<>>
  BY <1>1, LastElement DEF RowInv, ElementOK, CandPcs, SerialInv, OneElement
<1>6. OneElement(w)'
  BY <1>1, <1>5 DEF SerialInv, OneElement, TxPcs, CardVisible
<1>. QED BY <1>4, <1>6 DEF SerialInv, OneWorker

(* A face or iris template about to be linked is never refused. *)
LEMMA NotRefused ==
  ASSUME TwinHypotheses, IInv, SerialInv, NEW w \in Workers, LinkRefused(w)
  PROVE  cand[w][1] \notin FaceIris
<1>1. pc[w] = "link" /\ DbAddLinkRefused(w, cand[w], card[w])
  BY DEF LinkRefused
<1>2. w \notin aborted /\ pend[w] = {} /\ CardVisible(w, card[w])
  BY <1>1 DEF SerialInv, OneElement, TxPcs
<1>3. Linked(links, cand[w])
  BY <1>1, <1>2 DEF DbAddLinkRefused, Linked
<1>4. Kind(w) \notin FaceIris
  BY <1>1, <1>3 DEF SerialInv, OneElement
<1>. QED BY <1>1, <1>4 DEF IInv, RowInv, ElementOK, CandPcs

LEMMA NoDeadlock ==
  ASSUME OneWorker, NEW w \in Workers
  PROVE  ~DeadlockVictim(w)
BY DEF OneWorker, DeadlockVictim, OnCycle, Holders

LEMMA SerialRest ==
  ASSUME TwinHypotheses, IInv, FingerInv, SerialInv, NEW w \in Workers, Step(w),
         \A kind \in Enrollable : ~Search(w, kind),
         ~CheckOwner(w), ~Insert(w), ~AddLink(w)
  PROVE  SerialInv'
<1> USE DEF TwinHypotheses, OneByOne, IInv, TypeOK, LocalTypeOK, tables, tx, dbVars, local,
            Goto, Reply
<1>1. ~Abandon(w) /\ ~DeadlockVictim(w) /\ ~DeleteCard(w)
  BY NoDeadlock DEF Abandon, DeleteCard, SerialInv, OneElement
<1>2. CASE RejectSample(w) \/ LinkRefused(w)
  <2>1. pc'[w] = "rollback" /\ UNCHANGED <<dbVars, cand, local>>
    BY <1>2 DEF RejectSample, LinkRefused
  <2>2. pc[w] \in {"elem", "link"} /\ (pc[w] = "elem" => todo[w] # <<>>)
    BY <1>2 DEF RejectSample, LinkRefused
  <2>3. SameVectors /\ (pc[w] = "link" => cand[w][1] \notin FaceIris)
    BY <1>2, <2>1, NotRefused DEF SameVectors, RejectSample
  <2>4. RowsApart'
    BY <2>1, <2>3, PlacedFrame
  <2>5. OneElement(w)'
    BY <2>1, <2>2 DEF SerialInv, OneElement, TxPcs
  <2>. QED BY <2>4, <2>5 DEF SerialInv, OneWorker
<1>3. CASE SkipOther(w)
  <2>1. /\ UNCHANGED <<dbVars, pc, cand, card>> /\ pc[w] = "elem"
        /\ todo[w] # <<>> /\ todo'[w] = Tail(todo[w])
    BY <1>3 DEF SkipOther, AtElement
  <2>2. SameVectors
    BY <2>1 DEF SameVectors
  <2>3. RowsApart'
    BY <2>1, <2>2, PlacedFrame
  <2>4. todo'[w] = <<>>
    BY <2>1, LastElement DEF SerialInv, OneElement
  <2>5. OneElement(w)'
    BY <2>1, <2>4 DEF SerialInv, OneElement, TxPcs, CardVisible
  <2>. QED BY <2>3, <2>5 DEF SerialInv, OneWorker
<1>4. CASE AppendGost(w) \/ ReadGost(w) \/ Regost(w)
  <2>1. /\ UNCHANGED <<cards, links, tx, cand, local>> /\ Kind(w) = "finger"
        /\ pc[w] \in GostPcs /\ pc'[w] \in {"regost", "overwrite", "link", "owner", "rollback"}
    BY <1>4 DEF AppendGost, ReadGost, Regost, Sent, FingerInv, GostPcs
  <2>2. SameVectors
    BY <1>4, GostOnly DEF ReadGost, SameVectors
  <2>3. RowsApart'
    BY <2>1, <2>2, PlacedFrame DEF GostPcs
  <2>4. Kind(w)' = "finger"
    BY <2>1 DEF Kind, Sample
  <2>5. OneElement(w)'
    BY <2>1, <2>4 DEF SerialInv, OneElement, TxPcs, CardVisible, FaceIris, GostPcs
  <2>. QED BY <2>3, <2>5 DEF SerialInv, OneWorker
<1>5. CASE Commit(w)
  <2>1. /\ UNCHANGED <<rows, cand, todo>> /\ pc[w] = "elem" /\ pc'[w] = "idle"
        /\ links' = links \cup pend[w] /\ pend'[w] = {} /\ aborted' = aborted \ {w}
    BY <1>5 DEF Commit, DbTxCommit, EndTx, SerialInv, OneElement, DbTypeOK
  <2>2. SameVectors
    BY <2>1 DEF SameVectors
  <2>3. RowsApart'
    BY <2>1, <2>2, PlacedFrame
  <2>4. OneElement(w)'
    BY <2>1 DEF SerialInv, OneElement, TxPcs
  <2>. QED BY <2>3, <2>4 DEF SerialInv, OneWorker
<1>6. CASE Rollback(w)
  <2>1. /\ UNCHANGED <<rows, links, cand, todo>> /\ pc[w] = "rollback" /\ pc'[w] = "idle"
        /\ pend'[w] = {} /\ aborted' = aborted \ {w}
    BY <1>6 DEF Rollback, DbTxRollback, EndTx, DbTypeOK
  <2>2. SameVectors /\ pend[w] = {}
    BY <2>1 DEF SameVectors, SerialInv, OneElement
  <2>3. RowsApart'
    BY <2>1, <2>2, PlacedFrame
  <2>4. OneElement(w)'
    BY <2>1 DEF SerialInv, OneElement, TxPcs
  <2>. QED BY <2>3, <2>4 DEF SerialInv, OneWorker
<1>. QED BY <1>1, <1>2, <1>3, <1>4, <1>5, <1>6 DEF Step

LEMMA SerialStep ==
  ASSUME TwinHypotheses, IInv, FingerInv, SerialInv, [Next]_vars
  PROVE  SerialInv'
<1>1. CASE UNCHANGED vars
  BY <1>1 DEF vars, dbVars, tables, tx, local, SerialInv, RowsApart, Placed, Stored, OneElement,
              TxPcs, CardVisible, Kind, Sample, CandScore, Unlike
<1>2. ~Crash
  BY DEF Crash, TwinHypotheses, OneByOne
<1>. QED
  BY <1>1, <1>2, SerialServe, SerialSearch, SerialOwner, SerialInsert, SerialLink, SerialRest
     DEF Next, Quiesced

(* One worker, one element per request, no deletion and no failure, and a  *)
(* seed unlike every other sample: two face (iris) templates that match    *)
(* are never both linked by biocard_put.  Each of these                    *)
(* conditions is needed: without it a row that no biocard owns comes to be *)
(* the nearest of a sample, and the linked row behind it is not looked at. *)
THEOREM TwinsNeverLinked ==
  ASSUME TwinHypotheses
  PROVE  Spec => []NoTwins
<1>1. Init => SerialInv
  BY SerialInit
<1>2. IInv /\ FingerInv /\ SerialInv /\ [Next]_vars => SerialInv'
  BY SerialStep
<1>3. IInv /\ SerialInv => NoTwins
  <2> SUFFICES ASSUME IInv, SerialInv, NEW kind \in FaceIris, NEW l \in links, NEW m \in links,
                      l.key[1] = kind, m.key[1] = kind, l # m
               PROVE  Score[rows[l.key].vec][rows[m.key].vec] < ABIS_FACE_THRESHOLD
    BY DEF NoTwins, FaceIris
  <2>1. l.key # m.key
    BY DEF IInv, TxInv, R!OneLinkPerTemplate
  <2>2. l.key \in Stored(kind) /\ m.key \in Stored(kind)
    BY DEF IInv, TxInv, Resolves, Stored
  <2>. QED BY <2>1, <2>2 DEF SerialInv, RowsApart
<1>. QED BY <1>1, <1>2, <1>3, FingerAlways, PTL DEF Spec

=============================================================================
