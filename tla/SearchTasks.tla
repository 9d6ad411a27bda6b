---------------------------- MODULE SearchTasks ----------------------------
(***************************************************************************)
(* search_get of rest_search.cpp: one task of the thread pool per element  *)
(* opens a connection, extracts a template, searches its index and looks   *)
(* at every row found.  The tasks share two vectors with no lock: dbs, the *)
(* connections the handler will close, and json_out, the answer.           *)
(* dbs.push_back is a read of the size and a write; so is json_out[i],     *)
(* which makes the array longer, or, if another task has done so since the *)
(* read, shorter.  What else racing ones may do (a torn vector) is left    *)
(* out, and what a task does to variables of a handler that has gone.      *)
(***************************************************************************)
EXTENDS Sequences, FiniteSets, TmpFromJson

CONSTANTS
  Queries,   \* elements clients send: see QueriesOK
  Sizes,     \* lengths of the request's array
  Free       \* how many threads of the pool may be free for the tasks

Indexed == {"ABIS_FACE_TEMPLATE", "ABIS_FINGER_GOST_TEMPLATE", "ABIS_IRIS_TEMPLATE"}

(* Beside what TmpFromJson needs, of an element: where its task ends in an *)
(* exception, if it does; ELEMENT_COMPARE; and the rows of its index that  *)
(* db_search_..._tmps returns, none also when it fails: of each, whether   *)
(* it can be read and compared, and whether some biocard owns it.          *)
ASSUME QueriesOK ==
  /\ \A q \in Queries :
       /\ q.service \in -1..1 /\ q.unit \in BOOLEAN /\ q.compare \in BOOLEAN
       /\ q.throws \in {"never", "db_open", "json"}
       /\ q.found \in Seq([read : BOOLEAN, owned : BOOLEAN])
  /\ Sizes \subseteq Nat /\ Free \subseteq Nat \ {0}

VARIABLES
  query,      \* arr; never changes
  free,       \* free threads; never changes
  at,         \* the next access of a task
  size,       \* the size of a shared vector a task has read
  good,       \* step of a task
  found,      \* the rest of its ids
  rows,       \* its json_tmps
  row,        \* its json_row
  dbs,        \* tasks whose connection was pushed
  json_out,
  closed,     \* how often the connection of a task was closed; -1: never opened
  waited,     \* tasks the join has waited for; -1: it has no thread yet
  reply       \* ELEMENT_RESULT and ELEMENT_VALUE

sinput == <<query, free>>
slocal == <<size, good, found, rows, row>>
svars == <<sinput, slocal, at, dbs, json_out, closed, waited, reply>>

Nothing == [type |-> "none", value |-> <<>>]    \* json::value::object(), or null
NoReply == [result |-> "none", value |-> <<>>]
Places == DOMAIN query

SInit ==
  /\ query \in UNION {[1..n -> Queries] : n \in Sizes}
  /\ free \in Free
  /\ at = [i \in Places |-> "queued"]
  /\ size = [i \in Places |-> 0]
  /\ good = [i \in Places |-> FALSE]
  /\ found = [i \in Places |-> <<>>]
  /\ rows = [i \in Places |-> <<>>]
  /\ row = [i \in Places |-> Nothing]
  /\ dbs = <<>> /\ json_out = <<>>
  /\ closed = [i \in Places |-> -1]
  /\ waited = -1 /\ reply = NoReply

-----------------------------------------------------------------------------
(* The accesses of a task *)

Reached(i, p) == at[i] = p /\ reply = NoReply
Then(i, p) == at' = [at EXCEPT ![i] = p]
Holding == {i \in Places : at[i] \notin {"queued", "end", "threw"}}
AllTaken == \A i \in Places : at[i] # "queued"

(* A free thread takes the first task that waits. *)
TakeTask(i) ==
  /\ Reached(i, "queued") /\ \A k \in 1..(i - 1) : at[k] # "queued"
  /\ Cardinality(Holding) < free
  /\ Then(i, "db_open")
  /\ UNCHANGED <<sinput, slocal, dbs, json_out, closed, waited, reply>>

Open(i) ==
  /\ Reached(i, "db_open")
  /\ \/ /\ query[i].throws = "db_open"
        /\ Then(i, "threw") /\ UNCHANGED closed
     \/ /\ query[i].throws # "db_open"
        /\ Then(i, "dbs") /\ closed' = [closed EXCEPT ![i] = 0]
  /\ UNCHANGED <<sinput, slocal, dbs, json_out, waited, reply>>

(* dbs.push_back(db): the size is read ... *)
ReadDbs(i) ==
  /\ Reached(i, "dbs")
  /\ size' = [size EXCEPT ![i] = Len(dbs)]
  /\ Then(i, "push")
  /\ UNCHANGED <<sinput, good, found, rows, row, dbs, json_out, closed, waited, reply>>

(* ... and the connection stored at that place (if the vector has become   *)
(* shorter by then, at its end).                                           *)
UpTo(s, n) == SubSeq(s, 1, IF n < Len(s) THEN n ELSE Len(s))

PushDb(i) ==
  /\ Reached(i, "push")
  /\ dbs' = Append(UpTo(dbs, size[i]), i)
  /\ Then(i, "json")
  /\ UNCHANGED <<sinput, slocal, json_out, closed, waited, reply>>

(* step = tmp_from_json(...): an int kept in a bool.  An element that is   *)
(* ABIS_DATA, or of no known type, has the result 0.                       *)
FromJson(i) ==
  /\ Reached(i, "json")
  /\ IF query[i].throws = "json"
     THEN Then(i, "threw") /\ UNCHANGED good
     ELSE Then(i, "search") /\ good' = [good EXCEPT ![i] = tmp_from_json(query[i]).res # 0]
  /\ UNCHANGED <<sinput, size, found, rows, row, dbs, json_out, closed, waited, reply>>

(* Templates that have no index (fingers without gost, live faces) are not *)
(* searched, and their step stays.                                         *)
Search(i) ==
  LET searched == tmp_from_json(query[i]).type \in Indexed
      ids == IF good[i] /\ searched THEN query[i].found ELSE <<>>
      step == good[i] /\ (searched => ids # <<>>)
  IN  /\ Reached(i, "search")
      /\ found' = [found EXCEPT ![i] = ids]
      /\ good' = [good EXCEPT ![i] = step]
      /\ Then(i, IF step THEN "ids" ELSE "json_out")
      /\ UNCHANGED <<sinput, size, rows, row, dbs, json_out, closed, waited, reply>>

(* One pass of the loop over ids: db_tmp_cmp_by_id, db_get_bc_for_tmp. *)
Tmp(q, r, step) ==
  [result |-> step, uuid |-> step /\ r.owned, score |-> step /\ r.owned /\ q.compare]

Look(i) ==
  LET q == query[i]
      r == Head(found[i])
      step == IF q.compare THEN r.read ELSE good[i]
  IN  /\ Reached(i, "ids") /\ found[i] # <<>>
      /\ rows' = [rows EXCEPT ![i] = Append(@, Tmp(q, r, step))]
      /\ good' = [good EXCEPT ![i] = step]
      /\ found' = [found EXCEPT ![i] = Tail(@)]
      /\ UNCHANGED <<sinput, at, size, row, dbs, json_out, closed, waited, reply>>

Looked(i) ==
  /\ Reached(i, "ids") /\ found[i] = <<>>
  /\ row' = [row EXCEPT ![i] = [type |-> tmp_from_json(query[i]).type, value |-> rows[i]]]
  /\ Then(i, "json_out")
  /\ UNCHANGED <<sinput, size, good, found, rows, dbs, json_out, closed, waited, reply>>

(* json_out[i] = json_row: the size of the array is read ... *)
ReadOut(i) ==
  /\ Reached(i, "json_out")
  /\ size' = [size EXCEPT ![i] = Len(json_out)]
  /\ Then(i, "store")
  /\ UNCHANGED <<sinput, good, found, rows, row, dbs, json_out, closed, waited, reply>>

(* Mutant: rows are appended, in the order in which the tasks end. *)
AppendRow(i) ==
  /\ Reached(i, "store")
  /\ json_out' = Append(UpTo(json_out, size[i]), row[i])
  /\ Then(i, "end")
  /\ UNCHANGED <<sinput, slocal, dbs, closed, waited, reply>>

(* ... the array is given the size i if it had less, and the row is stored *)
(* there; it is lost when another task has made the array shorter since.   *)
StoreRow(i) ==
  LET known == Len(json_out)
      resized == IF size[i] >= i THEN json_out
                 ELSE [k \in 1..i |-> IF k <= known THEN json_out[k] ELSE Nothing]
  IN  /\ Reached(i, "store")
      /\ json_out' = IF i \in DOMAIN resized THEN [resized EXCEPT ![i] = row[i]] ELSE resized
      /\ Then(i, "end")
      /\ UNCHANGED <<sinput, slocal, dbs, closed, waited, reply>>

-----------------------------------------------------------------------------
(* The join takes a thread after all tasks have (see RequestPool), and     *)
(* waits for one task after the other.                                     *)
TakeJoin ==
  /\ waited = -1 /\ AllTaken /\ Cardinality(Holding) < free
  /\ waited' = 0
  /\ UNCHANGED <<sinput, slocal, at, dbs, json_out, closed, reply>>

WaitFor(i) ==
  /\ waited = i - 1 /\ at[i] = "end"
  /\ waited' = i
  /\ UNCHANGED <<sinput, slocal, at, dbs, json_out, closed, reply>>

(* The action answers, and closes the connections it knows of. *)
Reply(result) ==
  /\ reply = NoReply
  /\ reply' = result
  /\ closed' = [i \in Places |-> closed[i] + Cardinality({k \in DOMAIN dbs : dbs[k] = i})]
  /\ UNCHANGED <<sinput, slocal, at, dbs, json_out, waited>>

ReplyRows ==
  /\ waited = Len(query)
  /\ Reply([result |-> "true", value |-> json_out])

(* v.wait() throws what the task threw. *)
ReplyException ==
  /\ waited + 1 \in Places /\ waited >= 0 /\ at[waited + 1] = "threw"
  /\ Reply([result |-> "false", value |-> <<>>])

Replied == reply # NoReply /\ UNCHANGED svars

TaskStep(i) ==
  \/ TakeTask(i) \/ Open(i) \/ ReadDbs(i) \/ PushDb(i) \/ FromJson(i) \/ Search(i)
  \/ Look(i) \/ Looked(i) \/ ReadOut(i) \/ StoreRow(i)

SNext ==
  \/ \E i \in Places : TaskStep(i) \/ WaitFor(i)
  \/ TakeJoin \/ ReplyRows \/ ReplyException \/ Replied

SSpec == SInit /\ [][SNext]_svars

-----------------------------------------------------------------------------
(* Properties *)

Throws(i) == query[i].throws # "never"

(* What a client may read in the row of a template: what is known of every *)
(* row of the index that was found, each on its own.                       *)
OwnRow(q) ==
  LET tmp == tmp_from_json(q)
      step(r) == q.compare => r.read
  IN  IF tmp.res = 0 \/ (tmp.type \in Indexed /\ q.found = <<>>) THEN Nothing
      ELSE [type |-> tmp.type,
            value |-> IF tmp.type \notin Indexed THEN <<>>
                      ELSE [j \in DOMAIN q.found |-> Tmp(q, q.found[j], step(q.found[j]))]]

Failed(i) == tmp_from_json(query[i]).res < 0

RowsInPlace ==
  \A i \in DOMAIN reply.value :
    ~Failed(i) => reply.value[i] \in {Nothing, OwnRow(query[i])}

InTurn ==
  /\ IF \E i \in Places : Throws(i) THEN reply.result = "false"
     ELSE /\ reply.result = "true" /\ Len(reply.value) = Len(query)
          /\ \A i \in Places : ~Failed(i) => reply.value[i] = OwnRow(query[i])
  /\ \A i \in Places : closed[i] = IF query[i].throws = "db_open" THEN -1 ELSE 1

(* A search is answered with what was found for each element, at its       *)
(* place; of tasks that race a row may be missing, but none is another's.  *)
(* When one thread runs the tasks no row is missing, a task that throws    *)
(* makes the answer an exception, and every connection that was opened,    *)
(* also by the tasks after an exception, is closed once.                   *)
SearchAnswers ==
  reply # NoReply => RowsInPlace /\ (free = 1 => InTurn)

(* "search_get: error extract bio template": an element whose template     *)
(* could not be extracted is not searched.                                 *)
FailedNotSearched ==
  \A i \in DOMAIN reply.value : Failed(i) => reply.value[i] = Nothing
=============================================================================
