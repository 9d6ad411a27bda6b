------------------------------- MODULE WsqCodec -------------------------------
(***************************************************************************)
(* The WSQ encoder (nbis/wsq/encoder.cpp) and decoder (decoder.cpp), whose *)
(* tables are global variables.  The encoder runs in a tool of its own; a  *)
(* stream may be edited on its way, or cut short; the decoder runs in the  *)
(* threads that convert images (src/imgutils.cpp), without a lock.         *)
(*                                                                         *)
(* A decoder's step is a table, a header or a symbol with its bits.        *)
(* Threads interleave between steps; in the code they do so within them.   *)
(* A table of which the stream holds a part is left as it was here; in the *)
(* code it is overwritten as far as it was read.                           *)
(***************************************************************************)
EXTENDS WsqStream

CONSTANTS
  Threads,      \* threads that decode
  Images,       \* images to encode, by name
  FilterBank,   \* the encoder's filters
  Kinds,        \* where streams are: subset of {"mem", "file"}
  Comments,     \* texts passed to the encoder
  Added,        \* texts added to a stream
  Edited,       \* images whose streams are edited, MaxEdits times at most
  MaxEdits,
  Cut, CutTo,   \* images whose streams are cut, and to which lengths
  Again         \* images a thread decodes after another one, encoded without a text

IsBank(bank) == bank.lo \in Seq(Int) /\ bank.hi \in Seq(Int)
ASSUME FilterBankOK == IsBank(FilterBank)

VARIABLES
  stream,                                   \* what each thread is to decode
  dtt_table, dqt_table, dht_table, frm_header_wsq, trees, code,   \* globals
  decoder                                   \* the locals of each thread

globals == <<dtt_table, dqt_table, dht_table, frm_header_wsq, trees, code>>
cvars == <<stream, dtt_table, dqt_table, dht_table, frm_header_wsq, trees, code, decoder>>

NoText == [kind |-> "none", fet |-> <<>>]
NoStream == [img |-> "none", why |-> "", data |-> <<>>, list |-> "none", whole |-> TRUE,
             edits |-> 0, again |-> FALSE]
Idle == [pc |-> "idle"]

CInit ==
  /\ stream = [t \in Threads |-> NoStream]
  /\ dtt_table = [filters |-> "null", def |-> 0, lo |-> <<>>, hi |-> <<>>]
  /\ dqt_table = [def |-> 0, C |-> 0, q |-> <<>>, z |-> <<>>]
  /\ dht_table = [id \in 0..7 |-> [tabdef |-> 0, bits |-> <<>>, values |-> <<>>]]
  /\ frm_header_wsq = [height |-> 0, width |-> 0, m_shift |-> 0, r_scale |-> 0]
  /\ trees = [w_tree |-> <<>>, q_tree |-> <<>>]
  /\ code = [k \in Kinds |-> 0]
  /\ decoder = [t \in Threads |-> Idle]

-----------------------------------------------------------------------------
(* The encoder: the image quantized; what comes before the blocks; the     *)
(* three blocks, of which the last two share a table.                      *)

QuantizedBy(img, t, kept) ==
  [kept |-> kept, sip |-> quantize(img.coefs, kept, t.q_tree),
   qsize |-> quant_block_sizes(kept, t.w_tree, t.q_tree)]
QuantizedIn(img, t) == QuantizedBy(img, t, Kept(img, t.q_tree))
Quantized(img) == QuantizedIn(img, build_wsq_trees(img.w, img.h))

Headers(img, comment, kept) ==
  Marker(SOI) \o putc_nistcom_wsq(comment, img) \o putc_transform_table(FilterBank)
    \o putc_quantization_table(kept) \o putc_frame_header_wsq(img.w, img.h, conv_img_2_flt(img))

Parts(sip, qsize) ==
  << Tokens(Block(sip, 0, qsize[1])), Tokens(Block(sip, qsize[1], qsize[2])),
     Tokens(Block(sip, qsize[1] + qsize[2], qsize[3])) >>
Coded(part, table1, table2) ==
  [ok |-> table1.ok /\ table2.ok,
   data |-> putc_huffman_table(0, table1) \o putc_block_header(0) \o compress_block(part[1], table1.codes)
         \o putc_huffman_table(1, table2) \o putc_block_header(1) \o compress_block(part[2], table2.codes)
         \o putc_block_header(1) \o compress_block(part[3], table2.codes)]
Blocks(part) == Coded(part, gen_hufftable_wsq(part[1]), gen_hufftable_wsq(part[2] \o part[3]))

(* [why, data]: why the encoder refuses, or "". *)
Assembled(img, q, blocks, data) ==
  LET Refused(why) == [why |-> why, data |-> <<>>]
  IN  CASE q.sip.len # q.qsize[1] + q.qsize[2] + q.qsize[3] -> Refused("block sizes")
        [] ~Writable(q.kept)              -> Refused("bin too wide")
        [] ~blocks.ok                     -> Refused("code of ones")
        [] Len(data) > img.w * img.h      -> Refused("buffer full")
        [] OTHER                          -> [why |-> "", data |-> data]
WithHeaders(img, comment, q, blocks) ==
  Assembled(img, q, blocks, Headers(img, comment, q.kept) \o blocks.data \o Marker(EOI))
EncodedAs(img, comment, q) == WithHeaders(img, comment, q, Blocks(Parts(q.sip, q.qsize)))
Encoded(img, comment) == EncodedAs(img, comment, Quantized(img))

wsq_encode_mem(t, img, comment) ==
  /\ stream[t].img = "none"
  /\ stream[t].again => img \in Again /\ comment = NoText
  /\ \E e \in {Encoded(Images[img], comment)} :
       stream' = [stream EXCEPT ![t].img = img, ![t].why = e.why, ![t].data = e.data,
                                ![t].list = "full"]
  /\ UNCHANGED <<globals, decoder>>

-----------------------------------------------------------------------------
(* The stream on its way.                                                  *)

OnItsWay(t) == stream[t].data # <<>> /\ stream[t].whole /\ decoder[t].pc = "idle"

Edit(t, data, list) ==
  /\ OnItsWay(t) /\ stream[t].img \in Edited
  /\ stream[t].edits < MaxEdits
  /\ stream' = [stream EXCEPT ![t].data = data, ![t].list = list, ![t].edits = @ + 1]
  /\ UNCHANGED <<globals, decoder>>

DeleteComments(t) == OnItsWay(t) /\ Edit(t, delete_comments_wsq(stream[t].data), "none")

(* The first list counts. *)
AddComment(t, text) ==
  /\ OnItsWay(t)
  /\ LET list == IF stream[t].list # "none" \/ text.kind # "nistcom" THEN stream[t].list
                 ELSE IF "PPI" \in Names(string2fet(text.fet)) THEN "full" ELSE "bare"
     IN  Edit(t, add_comment_wsq(stream[t].data, text), list)

(* Another encoder puts comments before blocks or at the end. *)
Remark(t, at) ==
  /\ OnItsWay(t)
  /\ Edit(t, LET d == stream[t].data
             IN  SubSeq(d, 1, at - 1) \o putc_comment(Note) \o SubSeq(d, at, Len(d)),
          stream[t].list)

Places(t) ==
  IF OnItsWay(t) THEN {at \in ToSet(Segments(stream[t].data)) : stream[t].data[at + 1] \in {SOB, EOI}}
  ELSE {}

CutShort(t, len) ==
  /\ OnItsWay(t) /\ stream[t].img \in Cut /\ stream[t].edits = 0
  /\ len < Len(stream[t].data)
  /\ stream' = [stream EXCEPT ![t].data = SubSeq(@, 1, len), ![t].whole = FALSE]
  /\ UNCHANGED <<globals, decoder>>

-----------------------------------------------------------------------------
(* The decoder.  A call ends with the result and the filters given back;   *)
(* giving back what getc_transform_table has freed is a crash.             *)

End(t, out, dtt) ==
  /\ decoder' = [decoder EXCEPT ![t] =
                   [pc |-> "done", out |-> IF dtt.filters = "freed" THEN [ok |-> FALSE, crash |-> TRUE] ELSE out]]
  /\ dtt_table' = [dtt EXCEPT !.filters = "null"]

Refuse(t, dtt) == End(t, [ok |-> FALSE, crash |-> FALSE], dtt)

Crash(t) ==
  /\ decoder' = [decoder EXCEPT ![t] = [pc |-> "done", out |-> [ok |-> FALSE, crash |-> TRUE]]]
  /\ UNCHANGED dtt_table

Goes(t, d) == decoder' = [decoder EXCEPT ![t] = d] /\ UNCHANGED dtt_table

NoTable == [maxcode |-> <<>>, mincode |-> <<>>, valptr |-> <<>>]

(* Filters are forgotten; the Huffman tables, of a stream in memory only. *)
Begin(t, kind) ==
  LET soi == getc_marker_wsq(stream[t].data, kind, 1, "SOI")
      next == getc_marker_wsq(stream[t].data, kind, soi.at, "TBLS_N_SOF")
      dtt == [dtt_table EXCEPT !.filters = "null"]
  IN  /\ decoder[t].pc = "idle" /\ stream[t].img # "none" /\ stream[t].why = ""
      /\ dht_table' = IF kind = "mem" THEN [id \in 0..7 |-> [dht_table[id] EXCEPT !.tabdef = 0]]
                                      ELSE dht_table
      /\ IF ~soi.ok \/ ~next.ok THEN Refuse(t, dtt)
         ELSE /\ dtt_table' = dtt
              /\ decoder' = [decoder EXCEPT ![t] =
                   [pc |-> "head", kind |-> kind, at |-> next.at, marker |-> next.marker,
                    w |-> 0, h |-> 0, ppi |-> 0, blk |-> 0, left |-> 0, table |-> NoTable, tabid |-> 0,
                    ipc |-> 0, ipc_mx |-> 0, ipc_q |-> FALSE, sip |-> <<>>]]
      /\ UNCHANGED <<stream, dqt_table, frm_header_wsq, trees, code>>

(* A table, up to the marker that ends the tables of its place. *)
EndOf == [head |-> {SOF}, block |-> {SOB}, trailer |-> (0..255) \ {COM}]
NextType == [head |-> "TBLS_N_SOF", block |-> "TBLS_N_SOB", trailer |-> "ANY"]

Table(t) ==
  LET d == decoder[t]
      data == stream[t].data
  IN  /\ d.pc \in DOMAIN EndOf /\ d.marker \notin EndOf[d.pc]
      /\ \E r \in {getc_table_wsq(d.marker, data, d.at, dtt_table, dqt_table, dht_table)} :
         \E next \in {getc_marker_wsq(data, d.kind, r.at, NextType[d.pc])} :
           /\ dqt_table' = r.dqt /\ dht_table' = r.dht
           /\ IF ~r.ok \/ ~next.ok THEN Refuse(t, r.dtt)
              ELSE /\ dtt_table' = r.dtt
                   /\ decoder' = [decoder EXCEPT ![t].at = next.at, ![t].marker = next.marker]
      /\ UNCHANGED <<stream, frm_header_wsq, trees, code>>

(* The frame header, the resolution from the comments, and the trees. *)
Frame(t) ==
  LET d == decoder[t]
      data == stream[t].data
  IN  /\ d.pc = "head" /\ d.marker = SOF
      /\ \E r \in {getc_frame_header_wsq(data, d.at)}, list \in {getc_ppi_wsq(data, d.kind)} :
           /\ frm_header_wsq' = IF r.ok THEN r.frm ELSE frm_header_wsq
           /\ IF ~r.ok \/ ~list.ok
              THEN Refuse(t, dtt_table) /\ UNCHANGED trees
              ELSE /\ Goes(t, [d EXCEPT !.pc = "data", !.at = r.at, !.ppi = list.ppi,
                                        !.w = r.frm.width, !.h = r.frm.height])
                   /\ trees' = build_wsq_trees(r.frm.width, r.frm.height)
      /\ UNCHANGED <<stream, dqt_table, dht_table, code>>

(* Where the loop over the data goes with a marker. *)
At(d, marker) ==
  IF marker = EOI THEN [d EXCEPT !.pc = "finish", !.marker = marker]
  ELSE [d EXCEPT !.pc = "block", !.marker = marker, !.blk = @ + 1]

StartData(t) ==
  LET d == decoder[t]
      next == getc_marker_wsq(stream[t].data, d.kind, d.at, "TBLS_N_SOB")
  IN  /\ d.pc = "data"
      /\ IF ~next.ok THEN Refuse(t, dtt_table)
         ELSE Goes(t, At([d EXCEPT !.at = next.at, !.ipc_mx = frm_header_wsq.width * frm_header_wsq.height],
                         next.marker))
      /\ UNCHANGED <<stream, dqt_table, dht_table, frm_header_wsq, trees, code>>

LimitOnce(d) ==              \* mutant: the four bands of the last quarter forgotten
  LET AreaOf(n) == Area(trees.q_tree[n])
  IN  IF dqt_table.def = 1 /\ ~d.ipc_q
      THEN [d EXCEPT !.ipc_q = TRUE, !.ipc_mx = @ - Total({n \in 0..59 : dqt_table.q[n] = 0}, AreaOf)]
      ELSE d

(* The bands that are not kept leave no pixels.  (In a file they are not   *)
(* counted.)                                                               *)
Limit(d) ==
  LET AreaOf(n) == Area(trees.q_tree[n])
  IN  IF dqt_table.def = 1 /\ ~d.ipc_q
      THEN [d EXCEPT !.ipc_q = TRUE, !.ipc_mx = @ - Total({n \in 0..63 : dqt_table.q[n] = 0}, AreaOf)]
      ELSE d

BlockHeader(t) ==
  LET d == decoder[t]
      r == getc_block_header(stream[t].data, d.at)
      table == dht_table[r.id]
  IN  /\ d.pc = "block" /\ d.marker = SOB
      /\ IF ~r.ok \/ r.id \notin 0..7 THEN Refuse(t, dtt_table)
         ELSE IF table.tabdef # 1 THEN Refuse(t, dtt_table)
         ELSE Goes(t, [Limit(d) EXCEPT !.pc = "symbol", !.at = r.at, !.left = 0, !.tabid = r.id,
                                       !.table = gen_decode_table(table.bits)])
      /\ UNCHANGED <<stream, dqt_table, dht_table, frm_header_wsq, trees, code>>

(* Bits that follow an escape. *)
Follows(sym) ==
  CASE sym \in {101, 102, 105} -> 8 [] sym \in {103, 104, 106} -> 16 [] OTHER -> 0
Runs == 1..100 \cup {105, 106}

KnownSymbol(sym, kind) == sym \in 1..254 \/ (sym = 0 /\ kind = "file")

Coefficient(sym, bits) ==
  Short(CASE sym \in {101, 103} -> bits [] sym \in {102, 104} -> -bits [] OTHER -> sym - 180)

(* No symbol: a marker, the end, or bits that are no code. *)
NoSymbol(t, r) ==
  LET d == [decoder[t] EXCEPT !.at = r.at, !.marker = r.code2]
  IN  \/ /\ r.fault = "marker"
         /\ Goes(t, IF r.code2 = COM /\ d.blk = 3 THEN [d EXCEPT !.pc = "trailer"] ELSE At(d, r.code2))
         /\ code' = [code EXCEPT ![d.kind] = r.code]
      \/ r.fault = "lost" /\ Crash(t) /\ UNCHANGED code
      \/ r.fault = "end" /\ Refuse(t, dtt_table) /\ UNCHANGED code

(* What the symbol and the bits r after it stand for. *)
Put(t, sym, r) ==
  LET d == [decoder[t] EXCEPT !.at = r.at, !.left = r.left]
      n == IF sym <= 100 THEN sym ELSE r.out
      past == d.kind = "mem" /\ (d.ipc > d.ipc_mx \/ (sym \in Runs /\ d.ipc + n > d.ipc_mx))
  IN  /\ IF r.fault = "crash" THEN Crash(t)
         ELSE IF ~KnownSymbol(sym, d.kind) \/ r.fault # "none" \/ past THEN Refuse(t, dtt_table)
         ELSE IF sym \in Runs THEN Goes(t, [d EXCEPT !.ipc = @ + n])
         ELSE Goes(t, [d EXCEPT !.ipc = @ + 1,
                         !.sip = Append(@, [at |-> d.ipc, v |-> Coefficient(sym, r.out)])])
      /\ code' = [code EXCEPT ![d.kind] = r.code]

(* No bits are read after a symbol that has no room. *)
Bits(d, sym) == IF d.kind = "mem" /\ d.ipc > d.ipc_mx THEN 0 ELSE Follows(sym)

(* A reader where the thread has got to; the current byte is a static      *)
(* variable.                                                               *)
Reader(t) ==
  [at |-> decoder[t].at, left |-> decoder[t].left, code |-> code[decoder[t].kind], code2 |-> 0,
   fault |-> "none", out |-> 0]

SymbolAt(t, place) ==
  LET values == dht_table[decoder[t].tabid].values
  IN  IF place \in DOMAIN values THEN values[place] ELSE 0

(* One symbol and its bits. *)
Symbol(t) ==
  LET d == decoder[t]
      data == stream[t].data
  IN  /\ d.pc = "symbol"
      /\ \E s \in {decode_data(data, d.kind, Reader(t), d.table)} :
           IF s.r.fault # "none" THEN NoSymbol(t, s.r)
           ELSE \E sym \in {SymbolAt(t, inx2(s, d.table))} :
                  Put(t, sym, nextbits_wsq(data, d.kind, s.r, Bits(d, sym)))
      /\ UNCHANGED <<stream, dqt_table, dht_table, frm_header_wsq, trees>>

(* A comment after the third block is over. *)
Trailer(t) ==
  LET d == decoder[t]
  IN  /\ d.pc = "trailer" /\ d.marker # COM
      /\ Goes(t, At(d, d.marker))
      /\ UNCHANGED <<stream, dqt_table, dht_table, frm_header_wsq, trees, code>>

(* unquantize, wsq_reconstruct and conv_img_2_uchar: the image is known by *)
(* its coefficients, the filters and the shift it was made with, and the   *)
(* grey that a place without coefficients gets.                            *)
Finish(t) ==
  LET d == decoder[t]
  IN  /\ d.pc = "finish"
      /\ IF dqt_table.def # 1 \/ dtt_table.def # 1 THEN Refuse(t, dtt_table)
         ELSE IF dtt_table.filters = "null" THEN Crash(t)
         ELSE End(t, [ok |-> TRUE, crash |-> FALSE, w |-> d.w, h |-> d.h, ppi |-> d.ppi,
                      ipc |-> d.ipc, ipc_mx |-> d.ipc_mx,
                      coefs |-> unquantize(d.sip, dqt_table, trees.q_tree),
                      bank |-> [lo |-> dtt_table.lo, hi |-> dtt_table.hi],
                      grey |-> conv_img_2_uchar(0, frm_header_wsq)], dtt_table)
      /\ UNCHANGED <<stream, dqt_table, dht_table, frm_header_wsq, trees, code>>

(* The thread is given another image. *)
TakeNext(t) ==
  /\ decoder[t].pc = "done" /\ ~decoder[t].out.crash /\ ~stream[t].again
  /\ Again # {}
  /\ stream' = [stream EXCEPT ![t] = [NoStream EXCEPT !.again = TRUE]]
  /\ decoder' = [decoder EXCEPT ![t] = Idle]
  /\ UNCHANGED globals

Decode(t) ==
  \/ \E kind \in Kinds : Begin(t, kind)
  \/ Table(t) \/ Frame(t) \/ StartData(t) \/ BlockHeader(t) \/ Symbol(t) \/ Trailer(t) \/ Finish(t)

CNext == \E t \in Threads :
  \/ \E img \in DOMAIN Images, text \in Comments : wsq_encode_mem(t, img, text)
  \/ DeleteComments(t)
  \/ \E text \in Added : AddComment(t, text)
  \/ \E at \in Places(t) : Remark(t, at)
  \/ \E len \in CutTo : CutShort(t, len)
  \/ Decode(t)
  \/ TakeNext(t)

CSpec == CInit /\ [][CNext]_cvars
-----------------------------------------------------------------------------
Done(t) == decoder[t].pc = "done"
Out(t) == decoder[t].out
Pic(t) == Images[stream[t].img]

Phases == {"idle", "head", "data", "block", "symbol", "trailer", "finish", "done"}

(* A side of a frame is the number of two bytes. *)
FrameSizes ==
  \A t \in Threads : decoder[t].pc = "data" =>
    \A side \in {decoder[t].w, decoder[t].h} : side \in Nat /\ side < 65536

TypeOK ==
  /\ FrameSizes
  /\ dtt_table.filters \in {"null", "held"}
  /\ \A id \in 0..7 : dht_table[id].tabdef \in {0, 1}
  /\ \A t \in Threads :
       /\ decoder[t].pc \in Phases
       /\ stream[t].edits \in 0..MaxEdits
       /\ decoder[t].pc \notin {"idle", "done"} =>
            decoder[t].at <= Len(stream[t].data) + 3 /\ decoder[t].left \in 0..8

(* The encoder gives up only for a reason of the image's: never because    *)
(* its blocks do not add up to what was quantized, and never because the   *)
(* code it has made has one of ones only, which the padding would spell.   *)
EncoderSound == \A t \in Threads : stream[t].why \in {"", "bin too wide", "buffer full"}

(* A coefficient comes back within six tenths of the width of its bin;     *)
(* those of bands that are not kept are zero, and so are all the others.   *)
Near(img, coefs) ==
  LET q_tree == build_wsq_trees(img.w, img.h).q_tree
      kept == Kept(img, q_tree)
      Same(a, b) == a.band = b.band /\ a.at = b.at
      Got(c) == LET s == SelectSeq(coefs, LAMBDA d : Same(c, d)) IN IF s = <<>> THEN 0 ELSE s[1].f
  IN  /\ \A i \in DOMAIN img.coefs :
           LET c == img.coefs[i]
           IN  IF c.band \in DOMAIN kept
               THEN Abs(Got(c) - c.f) <= (6 * kept[c.band]) \div 10
               ELSE Got(c) = 0
      /\ \A i \in DOMAIN coefs : \E j \in DOMAIN img.coefs : Same(coefs[i], img.coefs[j])

(* What a decoded stream gives is the image that was encoded, and its      *)
(* resolution when an attribute list is left to tell it: whatever was      *)
(* added to the stream or deleted from it on its way, and whatever was     *)
(* decoded by the same tables before.                                      *)
RoundTrip ==
  \A t \in Threads : Done(t) /\ Out(t).ok =>
    LET img == Pic(t)  out == Out(t)
    IN  /\ out.w = img.w /\ out.h = img.h
        /\ out.ppi = (IF stream[t].list = "none" THEN -1 ELSE img.ppi)
        /\ out.bank = Decoded(FilterBank)
        /\ out.grey = (img.mean + One \div 2) \div One
        /\ Near(img, out.coefs)

(* A stream that got through whole is decoded, but for one whose attribute *)
(* list names no resolution; one that was cut short, wherever, never is.   *)
OnlyWhole ==
  \A t \in Threads : Done(t) => (Out(t).ok <=> stream[t].whole /\ stream[t].list # "bare")

(* The decoder crashes on two kinds of cut streams and on no other stream: *)
(* one that ends within the filter taps, whose filters it gives back twice *)
(* (from getc_transform_table on); and a file that ends one bit before the *)
(* bits after a symbol do: nextbits_wsq calls itself for that bit without  *)
(* a place for a marker, and the end of the file reads as one.             *)
InTaps(data) == LET dtt == AfterComments(data) IN Len(data) \in (dtt + 5)..(dtt + 58)
Unread(data, r) ==
  LET stuffing(i) == i > r.at /\ data[i] = 0 /\ data[i - 1] = 255
      readable(i) == data[i] # 255 \/ i < Len(data)
  IN  r.left + 8 * Cardinality({i \in r.at..Len(data) : readable(i) /\ ~stuffing(i)})
EndsOneBitShort(t) ==
  LET d == decoder[t]
      data == stream[t].data
  IN  /\ d.pc = "symbol" /\ d.kind = "file"
      /\ \E s \in {decode_data(data, d.kind, Reader(t), d.table)} :
           /\ s.r.fault = "none"
           /\ Unread(data, s.r) + 1 = Follows(SymbolAt(t, inx2(s, d.table)))
CrashOnlyCut ==
  [][\A t \in Threads : ~Done(t) /\ Done(t)' =>
       (Out(t)'.crash <=>
          ~stream[t].whole /\ (InTaps(stream[t].data) \/ EndsOneBitShort(t)))]_cvars

(* The count of pixels that guards the buffer of a stream in memory is     *)
(* exact: the symbols of an image fill it to the last pixel.               *)
LimitExact ==
  \A t \in Threads : decoder[t].pc = "finish" /\ decoder[t].kind = "mem" =>
    decoder[t].ipc = decoder[t].ipc_mx

(* From 81 by 81 pixels on every band has a variance, so that none is      *)
(* dropped for its size.                                                   *)
BandsMeasured ==
  \A t \in Threads : decoder[t].pc = "data" /\ decoder[t].w > 80 /\ decoder[t].h > 80 =>
    \A smooth \in BOOLEAN : variance(trees.q_tree, smooth) = 0..59

(* What a thread decodes is the image in its own stream, whoever decodes   *)
(* at the same time ("decodes it, returning the reconstructed pixmap").    *)
OwnPixmap == RoundTrip

(* Every call of the decoder ends: no step leaves it where it was, each    *)
(* goes on in the stream or to a later phase, and TypeOK bounds how far it *)
(* gets past the end, also in a file, where the end reads as bytes.        *)
BitsPassed(d) == 8 * d.at - d.left
Running(t) == decoder[t].pc \notin {"idle", "done"}
Advances ==
  [][\A t \in Threads : Running(t) /\ decoder'[t] # decoder[t] =>
       \/ decoder'[t].pc = "done"
       \/ decoder[t].pc = "trailer" /\ decoder'[t].pc # "trailer"
       \/ BitsPassed(decoder'[t]) > BitsPassed(decoder[t])]_cvars
=============================================================================
