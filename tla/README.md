# abis-rest-server: a verification project

TLA+ modules of the ABIS REST server (`src/src`), TLC runs that check them on
small instances, and TLAPS proofs of what matters most for every instance.  The
fingerprint image library it is built with (`src/nbis`) is modelled as far as WSQ needs it.
Paths and line numbers are those of the repository.

## The system

`abis-rest-server` enrols, compares, verifies and searches biometric templates
(face, finger, iris). One process listens on HTTP with six endpoints; its
handlers run on a pool of five threads, talk to PostgreSQL through libpq and to
an extraction service through TCP sockets.

| Component | Source | State it keeps | Operations |
|---|---|---|---|
| server, thread pool | `main.cpp`, `restutils.cpp:59-107` | the pool's queue of jobs and its five threads | `handle_request`: run the action on another thread, wait, reply |
| enrolment | `rest_biocard.cpp` | local to a request: open transaction, current element, answer so far | `PUT /biocard[/{uuid}]`, `DELETE /biocard/{uuid}`, `GET /biocard/{uuid}` |
| database | `dbclient.cpp`, `db.txt` | vector tables, id sequences, `t_biocards`, `t_biocard_template_link` | one function per statement |
| comparison | `rest_compare.cpp` | local variables shared by two tasks | `GET`/`POST /compare` |
| verification | `rest_verify.cpp` | local scores | `/verify/{uuid}` |
| search | `rest_search.cpp` | local variables shared by one task per element | `/search` |
| template extraction from JSON | `restutils.cpp:109-359` | none | `tmp_from_json`, `finger_xyt_from_json` |
| extraction client | `ebsclient.cpp:1-306` | port pool: a semaphore and a socket per port, `mx_finder`, `current_port_` | `find_free_port`, `ebs_request` |
| score fusion | `ebsclient.cpp:343-412` | none | `multi_score`, `calc_score` |
| extract, echo | `rest_extract.cpp`, `rest_echo.cpp` | none | |
| settings, images, fingerprint comparison, liveness | `config.cpp`, `imgutils.cpp`, `fplibclient.cpp`, `liveclient.cpp` | none that changes (`mx_finger` guards one library call) | `convert_image` |
| WSQ codec | `nbis/wsq`, `nbis/jpegl/huff.cpp` | global tables, frame header and trees; a static byte of the bit reader | `wsq_encode_mem`, `wsq_decode_mem`, `wsq_decode_file` |
| WSQ stream | `nbis/wsq/tableio.cpp`, `nbis/ioutil`, `nbis/util` | none | segments written and read; comments added and deleted |
| attribute lists | `nbis/fet` | none: a list is passed on | features set and deleted, per coder; list to text and back |
| lossless JPEG, SD4 and SD14 formats | `nbis/jpegl`, `nbis/jpegl/sd4util.cpp`, `nbis/wsq/sd14util.cpp` | not called | |

**How they interact.** A handler of any endpoint calls `handle_request`, which
posts its action to the same pool and waits. The actions of search and compare
post further tasks and wait for these. `tmp_from_json` calls the extraction
client, where requests compete for ports. `biocard_put` uses two connections:
searches and inserts of vector rows take effect at once on `readonly_db`, the
biocard and its links wait in a transaction on `transact_db`. Requests meet in
the database only, and there through the unique index and the foreign key of
the link table, which are also the locks they wait on. `extract_finger_template`
has `convert_image` unpack an image first, which calls the WSQ decoder: from any
thread of the pool, with no lock, though the decoder's tables are global.

**What is hard.** Interleavings of statements of several requests; statements
that fail, replies that are lost, processes that die between two connections'
writes; two tasks that share variables with no lock; a shared port pool that
is searched while a semaphore is held; jobs of a small pool that wait for jobs
of the same pool; thresholds with a tolerance; a decoder that fails half-way
through a table and is called again; code trees and subbands at the sizes where
integer division bites. `PROJECT.json` lists each of
these hazards at its line, with the properties that cover it or the reason why
none does.

**What makes it correct.**

- enrolment: all links of a request or none, none to a missing biocard or a
  missing row, a template in one biocard at most; an answer of `true` is
  durable; a retry stores no second copy; the two halves of a finger template
  belong together;
- comparison: only two templates of one type are compared, each is freed once;
- extraction client: one request per socket, its own answer, ports are not
  lost, a waiting thread is served;
- fusion and verification: the threshold is reached exactly when every score
  reaches its own;
- search: each element is answered with what was found for it, at its place, and
  no connection stays open;
- WSQ: what is decoded is the image that was encoded, or nothing; every call
  ends, without a crash unless the stream was cut; every pixel has its symbol;
- attribute lists: the header tells their length, and no coder's features
  outlive it;
- thread pool: waits do not use up the threads; no task outlives the handler
  whose variables it uses.

## The modules

| Module | Models | Runs |
|---|---|---|
| `Registry` | abstract: biocards and links as clients see them | refined by `Biocard` |
| `Extraction` | abstract: the calls of the extraction service, and one counting semaphore | refined by `EbsClient` |
| `DbClient` | the tables and functions of `dbclient.cpp` that `biocard_put` and `biocard_del` use | with `Biocard` |
| `Biocard` (extends `DbClient`) | `biocard_put`, `biocard_del`, faults, crash | `biocard_*` |
| `TmpFromJson` | the branches of `tmp_from_json` and `finger_xyt_from_json` | gives `CompareTasks` and `SearchTasks` their elements |
| `CompareTasks` | `compare_get` | `handlers`, `compare_*` |
| `SearchTasks` (extends `TmpFromJson`) | `search_get` | `handlers`, `search_failed` |
| `Fusion`, `FusionLoop` | `multi_score`; the loop of `calc_score` | `handlers` |
| `VerifyGet` (extends `Fusion`) | `verify_get` | `handlers` |
| `EbsClient` | `find_free_port`, `ebs_request` | `ebs` |
| `RequestPool` | `handle_request`, the tasks of search and compare, the pool | `pool` |
| `WsqTree` | the wavelet tree and the quantization tree | with the next three |
| `WsqFilter`, `WsqTransform` | the filters along a line; an image decomposed and reconstructed, node after node | `wsq` |
| `WsqQuant` | shift and scale, variances, bins, quantized data | with `WsqCodec` |
| `WsqHuffman` | tokens, codes from counts, compression, the bit reader | with `WsqCodec` |
| `Nistcom`, `NistcomLife` | attribute lists; a list that goes from coder to coder | `wsq` |
| `WsqStream` | every segment of a stream, written and read, in memory and in a file | with `WsqCodec` |
| `WsqCodec` (extends all of them) | the encoder, a stream on its way, the decoder in several threads | `wsq`, `wsq_race` |
| `BiocardProofs`, `EbsClientProofs`, `HandlerProofs` (fusion, verification, comparison, search), `PoolProofs`, `WsqTreeProofs`, `WsqCodeProofs` (extends it), `WsqProofs` (extends that) | theorems and proofs | |
| `InductionFacts` | lemmas: induction over the naturals, stated for sets, and what a fold needs of it | |

`MC...` modules give the constants their values for TLC. Operators that a
comment calls a mutant are not used by any specification: they are plausible
bugs of the definition they precede, and each property is known to fail with
one of them in place. `MCHandlers` and `MCWsq` run several small instances, one
at a time, as the parts of one run.

### DbClient and Biocard

A step of a worker is one SQL statement with the local computation around it;
`pc[w]` names the statement that comes next. The operators `Db...` carry the
names of the functions of `dbclient.cpp`.

| Variable | Code |
|---|---|
| `rows`, `tmpSeq` | `face_vectors`, `finger_vectors`, `iris_vectors` and their id sequences |
| `cards`, `bcSeq`, `links` | committed `t_biocards`, `biocard_uid_seq`, committed `t_biocard_template_link` |
| `txCard`, `pend`, `aborted` | the open transaction on `transact_db`: its biocard, its links, whether it has failed |
| `card`, `todo`, `cand`, `rep`, `answer` | `bc_id`, the rest of `arr`, `tmp_id` of the element, the keys put in `json_out`, `ELEMENT_RESULT` |

Decisions worth knowing:

- A template is a sample; what the vector index says of two samples is `Score`,
  what the fingerprint matcher says of their gosts is `GostScore`, both
  constants. Rows are never deleted and their vectors never change, so that
  search, fetch and comparison are one step. Taking an id from a sequence and
  inserting the row are one step: an id taken by a process that dies only
  leaves a gap.
- `ExactSearch` says whether `search_data` returns a nearest row. It is FALSE
  where the property must hold for any result, TRUE where it depends on it.
- `Sequenced` are the types whose id sequence exists: `db.txt` creates none
  for iris. `biocard_retry` uses iris without one; `biocard_core` and
  `biocard_serial` give it one, the former so that nothing but the empty index
  keeps the type empty.
- `Unlink` is one element of the body of a DELETE, whose `db_del_link` is a
  transaction of its own.
- With `Faults`, a statement may fail, a reply may be lost after the statement
  took effect, COMMIT included, and the process may die at any point.
- Assumed of PostgreSQL: READ COMMITTED; the constraints `db.txt` declares; an
  INSERT of a key another open transaction has inserted waits for it; a DELETE
  of a biocard waits for the open transactions that have linked to it; of
  transactions that wait in a circle one is failed (`DeadlockVictim`).

### TmpFromJson

An element is its type, the sign of what the service answers, and whether the
vector is of norm 1; the outcome is the template's type and the sign of the
result. A finger that the service answers with the byte 1 gives the result 0,
for its threshold is `ABIS_TEMPLATE_SIZE + 1`. A JSON array of the wrong length becomes zeros, which
only the norm check catches.

### CompareTasks

A step is one access to a variable the two tasks share: `step`, `res`,
`compare_type`, `tmps`. The bodies are split as the C++ statements are, a
read-modify-write into its read and its write. `push_back` is a read of the
size and a write. Left out: elements whose JSON throws (`RequestPool` and
`SearchTasks` have them), and what a torn vector may do.

### SearchTasks

A task for each element; a step is one access to a vector the tasks share
(`dbs`, `json_out`), or the local work between two of them. `dbs.push_back` and
`json_out[i] = row` are each a read of the size and a write with it: of two that
race one entry may be lost, and a vector or an array may get shorter. Tasks start in the
order of the queue, and the join takes a thread after all tasks have theirs, as
`RequestPool` shows in full. A task that throws ends the join; a task still
running when the handler answers stops there, for its variables are gone (that
it may run on is `OutlivesOnlyAfterThrow`). Nearest rows, their owners and
scores are given with the element.

### EbsClient

A thread goes through `find_free_port` (`find`, `finder`, `spin`) and
`ebs_request` (`connect` to `post`), one step per blocking call. `request[p]`
is the request the service is working on at the other end of port `p`, so that
"whose template is this" can be asked. Error codes are one value: callers ask
only whether the result is positive. Assumed, and listed as hazards: the first
request fills the pool alone, `close` does not throw, `write_some` writes
everything, `current_port_` does not overflow.

`Extraction` is what the threads are promised: one semaphore with as many units
as there are ports, a unit held while a call is served, an answer that is the
call's own or a failure. The mapping (`Calls`) takes as free units the ports
whose semaphore is 1, all of them before the pool is filled; a call waits from
`find` to `spin` and is served from `connect` to `post`; and an answer of
another request maps to a value that `Extraction` does not have, so that it
would be no step of it.

### Fusion, FusionLoop and VerifyGet

Scores are integer parts of `Unit`, rounded down after each surface; the
comparisons keep their tolerance. `FusionLoop` runs the loop of
`calc_score` on two vectors of scores, one no lower than the other, with no
bound on their number, on a grid of scores. `VerifyGet` has both levels of fusion; a row of another
type counts as `ABIS_FLOAT_THRESHOLD`, as in the code.

### RequestPool

A job is a handler, the action of `handle_request`, and for search and compare
the task that creates the element tasks, these, and the continuation that
waits for them. The queue is first in first out, as that of the library's
`io_service` is: with any other order the properties fail (mutant
`TakeNewest`). A job that waits keeps its thread.

### The WSQ modules

`WsqCodec` has the global tables of the source as variables (`dtt_table`,
`dqt_table`, `dht_table`, `frm_header_wsq`, the two trees, and `code`, the
static byte of the bit reader) and the locals of a call in `decoder[t]`. Its
`pc` is the place in `wsq_decode_mem`: tables before the frame, the frame, the
tables of a block, symbols, comments after the third block, the end. A step is
a table, a header, or a symbol with its bits. Decisions worth knowing:

- A stream is a sequence of bytes, so that it can be cut anywhere; only a
  comment's text is one element and counts as a byte.
- The source has each operation twice, on memory and on a file. The twins are
  one operator with the parameter `kind` where they differ: the end of a file
  reads as bytes, a file's symbols are not counted against the pixels, and its
  Huffman tables are not forgotten by the next call.
- Coefficients, bins, shift and scale are thousandths; an image is its
  coefficients that differ from zero. How wide a bin is follows from real
  variances and is an input; *which* bands have a variance is worked out.
- The transform itself runs in `WsqTransform`, on integer taps: the 5/3 bank
  times 16 is exact, so that perfect reconstruction is equality. A bank in a
  stream is the 9/7 bank of `globals.cpp` as integers, with sign and exponent.
- `MaxHuffBits` and `UintMax` are constants: the code is the same for the 16
  bits and the 2^32 - 1 of the source.
- The three `del_..._nistcom` of `NistcomLife` stand for a coder that unpacks a
  picture. They are part of the library's interface (`nistcom.h:93-95`); nothing in
  the repository calls them, the server included.
- A stream may be edited between encoder and decoder (`delete_comments_wsq`,
  `add_comment_wsq`, comments of another encoder) and cut short.
- Left out: filters of even length, which the program does not have; features
  without a value, which are null pointers that the code follows; allocations
  that fail. A table read in part leaves the globals as they were.

## The runs

With two TLC workers none takes more than two minutes.

| Run | Bounds | Shows |
|---|---|---|
| `biocard_core` | 2 workers, 2 requests of up to 2 elements, PUT and both DELETEs, any search result, faults | type correctness; empty indexes stay empty; a gost fits its vector; links resolve; `true` is durable; whole requests; `Registry` is implemented |
| `biocard_live` | 2 workers, 2 requests of up to 2 elements, exact search, no faults, fairness | every request is answered, through a deadlock of two PUTs too |
| `biocard_serial` | 1 worker, 5 requests of one element, exact search | no two matching faces or irises linked |
| `biocard_retry` | 1 worker, 4 requests, faults, exact search | no second copy; the gost of a linked row stays, unless its read failed |
| `handlers` | *compare*: arrays of 0 to 3 elements of 6 outcomes, one or two free threads. *verify*: 2 samples, 2 links. *loop*: 11 scores around 0, T/2, T and 1, `Unit` = 200. *search*: arrays of 0 to 3 of 8 elements, one or two free threads | compare, one thread: right verdict, templates freed once; two threads: a pair with no template is refused. Fusion is a conjunction and monotone. Verification reaches the threshold iff every counted sample matches. Search: no row in another's place; with one thread every row and every connection |
| `compare_mixed`, `compare_failed` | two free threads | **violated**, see Findings |
| `search_failed` | as the search of `handlers` | **violated**, see Findings |
| `ebs` | 3 threads, 2 ports, fairness | one request per port; own answer; free ports are closed; `Extraction` is implemented; the thread that holds `mx_finder` is served |
| `pool` | 5 threads, a plain request, a comparison and a search for three; tasks may throw; fairness | what it takes to exhaust the pool; when a task outlives its handler; below a load of five every request is answered |
| `wsq` | *codec*: 8 images of 20x20 to 400x400; up to 2 edits; every cut of three of the streams, except most within the quantization table; a second image after the first; memory and file. *transform*: impulses at corners and edges of 50x49 and 53x51. *list*: three coders, two pictures | decoded is what was encoded, whole streams only, crashes in two cases of a cut stream, every pixel counted, every call ends; perfect reconstruction; lists true to their length and coder |
| `wsq_race` | two threads, two images | **violated**, see Findings |

**Why the bounds are enough.** Two workers suffice for every pairwise conflict
(two inserts, two owners, link against DELETE, a deadlock needs two
transactions with two links each, which `MaxElems = 2` allows). Three requests
let one of them find what the two others left. A request after a failed one
needs one worker and a second request; `biocard_retry` has four. Three threads
on two ports make one wait at a busy pool and another at `mx_finder`. Three
scores show what the fold does to a fused score, and the loop of `Fusion` is
closed: its states are all scores reachable with any number of them. Three
elements of a search let two tasks race and a third throw.
`PoolSize` is that of `main.cpp:90`, and three requests load the pool with five.
The images of `wsq` are chosen by what they do: sizes from 20 to 400, among them
81 and 161, where the bands of an image get their variances; every kind of symbol at the boundary of its
range; a code that is longer than `MaxHuffBits` and must be shortened; a blank
image; a bin that does not fit its segment; a picture so small that the stream
does not fit the buffer. Odd and even sides meet all four turns at the ends of
a line.

**Fairness.** `FairSpec` of `Biocard`: a thread keeps running its handler, and
PostgreSQL answers; weak fairness of each worker's own steps, nothing for
clients, faults or crashes. `EbsClient`: weak fairness of each thread and of
the service, which answers or drops every connection (the code has no timeout
that would do it). No fairness between threads that wait at `mx_finder`: the
semaphore promises none, and so only the thread that holds it is shown to be
served. `Extraction` states safety alone. `RequestPool`: weak fairness of taking the next
job and of every request's jobs; clients send the bodies they announced.

## Findings

- `compare_mixed`: both tasks of `compare_get` find `compare_type` unset, or
  one overwrites the other's `step = false` (`rest_compare.cpp:66-67`), and a
  face template is "compared" with a finger template; the answer is `true`,
  where line 69 logs `mixed compare types` and refuses.
- `compare_failed`: a task whose extraction failed reads the `res` or `step`
  of the other task (`rest_compare.cpp:53-56`); its template, which it may
  have freed, is compared, where line 59 logs `error extract template` and
  gives it up.
- `search_failed`: `step` is a `bool` that takes the result of `tmp_from_json`
  (`rest_search.cpp:61`); a failure, which is negative, makes it true, and the
  template that was not filled is searched and answered, where line 62 logs
  `error extract bio template`.
- `wsq_race`: `decoder.cpp:89-90` promises the reconstructed pixmap of the
  buffer; with two threads in the decoder one returns, with the result 0, a
  picture made with the other's tables.

With one free thread the first two cannot happen (`SerialVerdict`), and however the tasks
interleave a pair with no template at all is refused (`NoTemplateRefused`).

Limits of the code that the passing properties state exactly. The repository
promises no more, except where the comment in `wsq/ppi.cpp` does, named below:

- `EmptyKindStaysEmpty`: PUT never stores the first template of an index.
- `DuplicatesBounded` is one copy per worker: concurrent PUTs do store copies.
  TLC checks it for one worker that fails and retries (no second copy), the
  theorem `CopiesBounded` holds for any number.
  It counts rows that all match *each other*: a row may be equal to two others
  that are not equal to each other (to be within a distance is not transitive),
  and with such samples one worker stores several rows that equal a given one.
- `LinkedGostStable` holds for one worker, and not of a request whose read of
  the gost fails: `db_gost_tmp_by_id` returns 0 then (`dbclient.cpp:500-534`), as
  for a row without a gost, and `biocard_put` overwrites what is stored
  (`rest_biocard.cpp:272-274`, `304`). `Biocard` calls the statement
  `"overwrite"` when it is reached in this way. The row may be linked; the request then
  fails at its own link, but the new gost stays. It still fits the vector
  (`GostFitsVector`).
- `NoTwins` holds for one worker, requests of one element, without deletions
  and without faults, and for a seed that resembles no other sample. All of
  these leave rows without an owner, and such a row in front of a linked one
  hides it: `biocard_put` looks at the owner of the nearest row only.
- `ExhaustedOnlyWhenFull` is tight: a plain request may hold one thread while
  it waits, a search or a comparison two; at a load of five (five echoes, or
  two searches and an echo) the pool can stop for ever.
- `OutlivesOnlyAfterThrow`: an element that throws ends the join, and tasks
  after it run on with references to variables that are gone.
- `SearchAnswers` promises every row and connection for one thread only: tasks
  that race may lose one.
- `CrashOnlyCut` says which streams crash the decoder: all that end in one of two
  ways, and no others. A stream may end within the filter taps:
  `getc_transform_table` frees the filters there, and the decoder's way out
  frees them again (`tableio.cpp:607`, `util.cpp:1353`). Or a *file* ends one
  bit before the 8 or 16 bits after a symbol do: `nextbits_wsq` calls itself for
  the last bit with `NULL` for the marker (`decoder.cpp:847`), the end of the file
  reads as the marker `FF FF`, and that is stored through the pointer
  (`decoder.cpp:827`). A stream in memory ends with an error instead. An escape
  is needed, so the images `edge` and `skewed` are cut too.
- `OnlyWhole` excepts an attribute list without a resolution. A comment in
  `wsq/ppi.cpp` says `Otherwise, PPI not in NISTCOM, so ppi = -1.`; the decoder
  refuses the image.

## What is proved

`BiocardProofs`, for all sets of workers and samples, all scores and bounds,
from `ConstantsOK`, `BoundsOK` and `ScoreReflexive` (a template compared with
itself is equal, which `biocard_put` relies on):

| Theorem | States | Further hypotheses |
|---|---|---|
| `TypeCorrect` | `Spec => []TypeOK` | |
| `LinksAlwaysResolve` | `Spec => []LinksResolve` | |
| `GostAlwaysFits` | `Spec => []GostFitsVector` | |
| `EmptyStaysEmpty` | `Spec => []EmptyKindStaysEmpty` | |
| `OkAlwaysDurable`, `OnlyWholeRequests` | the action properties of `biocard_core` | |
| `ImplementsRegistry` | `Spec => RegistrySpec`: every step maps to a step of `Registry` or a stutter | |
| `GostOfLinkedStable` | `Spec => LinkedGostStable`: only after a failed read is it overwritten | `OneWorker` |
| `CopiesBounded` | `Spec => []DuplicatesBounded` | `ExactSearch`, `SeedDistinct`, finitely many workers |
| `TwinsNeverLinked` | `Spec => []NoTwins` | `TwinHypotheses` |

The inductive invariant of the first six is `TypeOK /\ RowInv /\ TxInv`. The
properties alone are not inductive: that a link resolves needs to know of the
candidate of a worker *before* it links it (`RowInv`: the row exists, is of the
element's index, fits the sample, and has its gost when the next statement
links it), and that a commit is whole and durable needs to know what the open
transaction holds (`TxInv`: its links are exactly the reported ones, disjoint
from all others, and a failed transaction never stands at COMMIT).

The other three add to it:

- `GostUnlinked`: the row whose gost a worker is about to write has no link,
  unless the read of its gost failed. With one worker nobody links it in between.
- `CopyInv`: rows that all match each other, *together with the workers about to
  insert one more like them*, are no more than the workers. A search that finds
  nothing equal shows that there is no such row yet; an insert turns a worker
  into a row; a crash or a failure only takes workers away. That is why faults
  and retries do not matter, and only concurrency does.
- `SerialInv`: no two face (iris) rows match (`RowsApart`); each row is the
  seed's, linked, or about to be linked by the element at work (`Placed`); and what that
  element knows of the index is so (`OneElement`).

What the hypotheses say of the matcher (`SymmetricScore`, `SelfEqual`) holds of
the scores of `ebsclient.cpp:308-334`, which fall with the distance of the two
vectors; a vector has the distance 0 from itself. TLC finds a counterexample to `NoTwins` when any one
of `OneWorker`, `~Faults`, `MaxElems <= 1`, `Ops` without deletions and
`ExactSearch` is dropped, so that none of them is there for the proof only.

`EbsClientProofs`, for any number of threads and ports, from `PortsOK`:
`TypeCorrect`, `PortsExclusive`, `AnswersOwn`, `FreePortsClosed`, and
`PoolIsOneSemaphore` (`Spec => ActsAsOneSemaphore`: every step is one of
`Extraction` or a stutter). The invariant
adds to the properties who owns a port: a thread owns one from `TryPort` to
`Post`, the semaphore of an owned port is 0 (`OwnerInv`), an open socket has an
owner that will close it (`SocketInv`), the request at its other end is
the owner's (`RequestInv`), and a request has a result from `close` on and none
before (`ResultInv`). In the refinement each try of a port that is taken
stutters, and the number of free units follows the semaphores.

`HandlerProofs`, of comparison, for any elements and any number of free threads, from
`ElementsOK`: `Refused` (`NoTemplateRefused`), `Serial` (`SerialVerdict`) and
`Freed` (`FreedOnce`). `Refused` rests on `HopelessInv`: without a template
`step` is true only until the first task has stored its outcome, and no task
gets as far as `push`. The other two rest on `SerialInv`: with one thread the
tasks take turns, and the state of each is a function of what the one before
left (`Turn`).

`HandlerProofs`, of search, for any elements, any length of a request and any number of free
threads, from `QueriesOK`: `Answers` (`SearchAnswers`). What holds of racing
tasks rests on `SearchInv`: a task knows its own row whatever the others do
(`Local`; `Looking` is the invariant of its loop), and a cell of the answer is
its own row or nothing. With one thread (`SearchSerialInv`) what a task has read of a
vector's size is still so when it writes (`Fresh`), and the connections in the
vector are those that were opened, once each.

`PoolProofs`, for any pool size, requests and numbers of tasks, from `PoolOK`:
`Outlives` (`OutlivesOnlyAfterThrow`) and `Full` (`ExhaustedOnlyWhenFull`). The
invariant says where each job is (`Places`: queued, running or ended, once),
that a request's jobs start in order (`Chain`), and that its elements stand in
the queue before its join (`Behind`); a count of the waiting jobs gives `Full`.

`HandlerProofs`, of fusion, for any `Unit`, any grid and any number of scores, from
`FusionOK` (the tolerance is between 1 and a fifth of the threshold):
`AllMustReach` (`Conjunction`) and `BetterNeverLowers` (`Monotone`), from the
bounds of each surface on its side of the threshold and the size of the jump.
For verification, from `SamplesOK` as well and for any number of samples and
links: `EverySampleMustMatch` (`EverySampleMatches`) and `NothingIsLeftOut`
(`NothingLeftOut`). The steps between are lemmas about the folds: the fold of
`multi_score` reaches the threshold exactly when every score folded does, in any
order, which holds of `calc_score` and, one level up, of the modalities;
`VerifyInv` says what the handler has seen and added up so far.

`WsqProofs`: every coefficient of 16 bits and every run of zeros, however long,
comes back from its tokens (`CoefficientsComeBack`, `RunsComeBack`), and the
tokens from their bits, as told below; no thread
ever finds the filters freed between two steps (`FreedFiltersForgotten`). Of
attribute lists, for all pictures and every sequence of coders, with no
assumption: `HeaderAlwaysCounts` (`HeaderCounts`) and `NothingOfAnother`
(`OnlyItsCoder`). The lemmas are the contract of the list: what `updatefet`
and `deletefet` do to names and length (`Update`, `DeleteDrops`), what a fold of
updates does (`UpdatedNames`), and that a list made from its text is that list again
(`Reread`), for lists that name nothing twice (`Listed`). `ListInv` adds that
the list of a compressed picture has both features that unpacking deletes; with
one of them missing `Deleted` would return before it counts.

`WsqTreeProofs`, of the two trees of `tree.cpp`, for images of any size:

| Theorem | States | Hypotheses |
|---|---|---|
| `BandsAreLeaves` | `Aligned(build_wsq_trees(w, h), w, h)` | sides from 1 to 32767 |
| `AlwaysAligned` | `FSpec => []BandsAligned` | `OriginalsFit`: the same, of every image |
| `EveryBandMeasured` | `variance` drops none of the sixty bands | sides from 81 to 65535 |
| `AlwaysMeasured` | `CSpec /\ []FrameSizes => []BandsMeasured` | one thread |

The transform splits twenty nodes in turn; `Leaves` is a fold. The proof goes
through it with `InductionFacts`: after `i` splits the boxes are those of
`Filled(w, h, i)`, the regions that have been born by then (`Born`) and not been
split, without the empty ones. `Tiled` strengthens this to what makes it
inductive: two regions that are both there have no pixel in common, so that a
split takes one box away and no other. That the four quarters of each node stand
where `Children` says, inverted or not, is `ChildrenAreQuarters`; it is the only
place that looks into `build_w_tree` and `build_q_tree`.

The hypotheses are those of the code. A side of a `Q_TREE` is a `short`, which
holds 32767 and no more (`AsStored`); the bands of a side of 65535 are still
shorts, but not their corners, and `variance` looks at the sides only.
`BandsMeasured` needs one thread because the trees are globals: a second decoder
that builds its own in between leaves the first with the bands of another
image. `FrameSizes` says that the sides a header gave are what two bytes hold; it
is a conjunct of `TypeOK`, which TLC checks, since the bytes of a stream
have no type in the model to prove it from.

`WsqCodeProofs`, of the encoder, for images of any content, any number of
threads and whatever is done to a stream on its way:

| Theorem | States | Hypotheses |
|---|---|---|
| `FullCode` | the sizes of `find_huff_sizes` make a full code (Kraft's sum is one) | the symbols are finitely many numbers |
| `ShortCodes` | no code is longer than twice `MaxHuffBits`, the places of the array in which `find_num_huff_sizes` counts | fewer symbols than `Fibonacci[2 * MaxHuffBits + 3]` |
| `CodesNeverOnes` | the code of a block passes `check_huffcodes_wsq` | the same |
| `SizesAgree` | what `quantize` writes is as long as the three blocks of `quant_block_sizes` | sides from 1 to 32767 |
| `AlwaysEncoderSound` | `CSpec => []EncoderSound` | `ImageFits` and `TablesFit` of every image: the two hypotheses above, bins wider than 0 |

`EncoderSound` says of a whole run that the encoder refuses an image for the
image's sake only. Its proof is one about each function on the way, in four parts:

- *Sizes.* While groups of symbols are merged, the symbols of each group, with
  the sizes they have so far, make a full code (`Merging`). The reserved symbol,
  which is counted once and is the last, is in the end of the greatest size:
  its group stays `Behind` the others, that is, a group that may be merged before
  it is less deep. This is where the order of equal counts in
  `find_least_freq` matters.
- *Limit.* `bits` is followed through `sort_huffbits` with two sums over it
  (`Tally`): the number of codes up to a size, and how many of the numbers of
  that many bits they take up. Shortening a pair keeps the second (`PairStep`),
  an odd code out can only be the reserved one, and when all sizes
  above `MaxHuffBits` are empty the reserved code is taken off the longest
  (`Ready`, `ReservedOff`). What is left has room at every size (`Roomy`).
- *Codes.* `build_huffcodes` gives the i-th code the number that follows those
  taken up before it (`CodeStep`), which is below the greatest of its size
  where there is room (`CodesFit`); and so the modulus of 16 bits never acts.
- *Blocks.* The pixels of a region are those of its four quarters
  (`PixelsSplit`), from what `WsqTreeProofs` says of the trees; in the order of the
  bands this makes the three blocks 19, 33 and 8 bands long (`BlocksOfBands`), and the
  bands that are not kept are taken off both sides.

The bound on the symbols is the code's own: beyond it the C array overflows and
what follows is undefined. With 16 bits it is 9227465, symbols of runs and
coefficients together; a block of an image with fewer pixels has fewer.

`WsqProofs`, of the way of the symbols through a stream:

| Theorem | States | Hypotheses |
|---|---|---|
| `CodesReadBack` | the decoder's tables find every code of a block at its size and not before, and its symbol | those of `CodesNeverOnes` |
| `BlockReadsBack` | from the bytes of a block come its tokens, one after the other, and then the marker after it | the same; each token has the bits that follow its symbol and is among those the code was made of |
| `StreamReadsBack` | in the encoder's output the two tables and three blocks follow the headers, and the decoder's readers get each as it was written | those of `AlwaysEncoderSound` for the image; quantized coefficients of 16 bits; an image that is not refused |

- *Tables and codes.* `gen_decode_table` knows of a code only how many there are
  of each size (`Held`). The codes of one size follow each other, below those that
  begin longer ones, so that a part of a code is above the greatest of
  its size (`Above`), and the place the code leads to is that of its symbol in
  the order of `sort_code_sizes` (`ReadsBack`).
- *Bits and bytes.* A reader is at a bit of the block (`Reading`): at a place
  in the data, where some bytes have a stuffed zero after them, with some bits of the
  last byte left. `nextbits_wsq` takes one bit after the other, and gives the number
  they spell wherever the bytes begin (`NumberRead`), `decode_data` the code
  (`CodeRead`).
- *The end.* `flush_bits` fills the last byte with ones, seven at most. Ones only
  are above the greatest code of every size (`TableOnes`), and `MaxHuffBits` is
  at least 8: so the reader takes no padding for a code, asks for another bit and
  meets the marker (`PaddingRead`).
- *The stream.* Every writer gives a sequence, whatever it writes (`Headers` too,
  with any comment); a concatenation has its parts where the
  lengths say (`Lies`, `Placed9`). A run's or a coefficient's token has
  the bits its symbol calls for (`RunsWhole`, `CoefWhole`), and so `BlockReadsBack` holds of
  all three blocks, of which the last two share a code made from both.

Of the constants these proofs assume `MaxHuffBitsOK` (8 to 16) and `FilterBankOK`:
the taps of the filters are numbers. That a quantized coefficient has 16 bits is what the
code takes for granted: `quantize` puts them into an array of `short`.

The nodes of a tree are put together with `++` of `WsqTree`, which is defined
there: the prover knows nothing of `@@` and `:>` of the module `TLC`.

`InductionFacts` has induction over the naturals in a form that the provers can
use, for a set in the place of a predicate (the library's theorems take an
operator, which they cannot instantiate), from the well-foundedness of `<`; and
the steps by which `FoldLeft` goes through a sequence.

**Only model-checked.** Liveness (`EveryRequestAnswered` of both modules,
`FinderServed`): the prover does not handle
fairness and ENABLED. What a fold over a whole stream computes (segments
and their readers, the transform): `TypeOK`, `RoundTrip`,
`OnlyWhole`, `LimitExact`, `CrashOnlyCut`, `PerfectReconstruction` and `Advances` of
the codec. `StreamReadsBack` is about the readers of tables and blocks and a
stream as the encoder left it; that the decoder's loop calls them in that order
from marker to marker, that the headers come back, and what an edit or a cut
does to a stream, is for the runs.

## Not modelled, and why

- The nearest-neighbour order inside a vector index, and the search for bin
  widths: real numbers, whose outcome is an input of the models.
- The bytes of the extraction protocol: header and length arithmetic decide
  only between success and failure here.
- The unlocked filling of the port pool by two first requests, a `close` that
  throws, and `current_port_` past 2^31: hazards without a property, with the
  reason at each.
- The second `request.reply` after `handle_request` has replied: what it does
  is decided inside the library.
- Of NBIS: the lossless JPEG coder and the SD4 and SD14 formats, which nothing
  calls (what they share with WSQ is modelled); `huff_buf` of
  `encoder.cpp:222-226`, whose size is assumed; `write_comment` of
  `jpegl/tableio.cpp:1420`, which has size and count of its `fwrite` exchanged,
  takes a comment it has written for a failure, and has no caller; `readfet`,
  `writefet`, `printfet` and `print_comments_wsq`, which read or print files.
- Settings, logging, pixel work of `convert_image`, the liveness and
  fingerprint libraries, the test collections: no state of their own that other
  parts read, or external code.

## Plan

Done: the server's handlers, their tasks and the thread pool; the database with
its faults; the port pool; the WSQ codec; proofs of every component that keeps state. Left:

1. `EbsProtocol`: the exchange of `ebs_request` with lengths and short reads,
   as an implementation of `EbsClient`'s `Receive`.
2. Two decoders that interleave inside a table.
