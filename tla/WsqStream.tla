------------------------------ MODULE WsqStream ------------------------------
(***************************************************************************)
(* The segments of a WSQ stream, written and read (nbis/wsq/tableio.cpp,   *)
(* nbis/jpegl/huff.cpp and tableio.cpp, nbis/util/computil.cpp,            *)
(* nbis/ioutil/dataio.cpp, nbis/wsq/ppi.cpp, util.cpp).                    *)
(*                                                                         *)
(* A stream is a sequence of bytes, but that the text of a comment is one  *)
(* element of it, [kind, fet], and counts as one byte.  The source has     *)
(* every operation twice, on memory (getc_, putc_) and on a file (read_,   *)
(* write_): the twins are one operator here, with the place of the stream, *)
(* `kind` ("mem" or "file"), where they differ.  A reader returns          *)
(* [ok, at, ...] with the place it has got to.  A segment holds what this  *)
(* encoder puts in it: one Huffman table, filters of odd length.           *)
(***************************************************************************)
EXTENDS WsqHuffman, WsqFilter, Nistcom

CONSTANT UintMax          \* the largest filter tap in the stream (2^32 - 1)
ASSUME UintMaxOK == UintMax \in Nat /\ UintMax >= 1000000

(* The second byte of each marker. *)
SOI == 160
EOI == 161
SOF == 162
SOB == 163
DTT == 164
DQT == 165
DHT == 166
COM == 168

(* Numbers, the high byte first. *)
putc_ushort(n) == <<(n % 65536) \div 256, n % 256>>
putc_uint(n) == [i \in 1..4 |-> (n \div 256^(4 - i)) % 256]
Marker(m) == <<255, m>>

Has(data, at, n) == at + n - 1 <= Len(data)
Ended == [ok |-> FALSE]
getc_ushort(data, at) == 256 * data[at] + data[at + 1]
getc_uint(data, at) == 65536 * getc_ushort(data, at) + getc_ushort(data, at + 2)

-----------------------------------------------------------------------------
(* Markers: which are let through depends on what may come.                *)

Tables == {DTT, DQT, DHT, COM}

WelcomeNoNotes(type, kind) ==          \* mutant: no comment before a block
  CASE type = "SOI" -> {SOI}
    [] type = "TBLS_N_SOF" -> Tables \cup {SOF}
    [] type = "TBLS_N_SOB" -> (Tables \ {COM}) \cup {SOB}
    [] type = "ANY" -> IF kind = "mem" THEN SOI..COM ELSE 0..255

Welcome(type, kind) ==
  CASE type = "SOI" -> {SOI}
    [] type = "TBLS_N_SOF" -> Tables \cup {SOF}
    [] type = "TBLS_N_SOB" -> Tables \cup {SOB}
    [] type = "ANY" -> IF kind = "mem" THEN SOI..COM ELSE 0..255

getc_marker_wsq(data, kind, at, type) ==
  IF ~Has(data, at, 2) THEN Ended
  ELSE [ok |-> data[at] = 255 /\ data[at + 1] \in Welcome(type, kind),
        at |-> at + 2, marker |-> data[at + 1]]

-----------------------------------------------------------------------------
(* Comments.                                                               *)

Nist(fet) == [kind |-> "nistcom", fet |-> fet2string(fet)]
Note == [kind |-> "note", fet |-> <<>>]

putc_comment(text) == Marker(COM) \o putc_ushort(3) \o <<text>>

getc_comment(data, at) ==
  IF ~Has(data, at, 2) THEN Ended
  ELSE IF ~Has(data, at + 2, getc_ushort(data, at) - 2) THEN Ended
  ELSE [ok |-> TRUE, at |-> at + getc_ushort(data, at), text |-> data[at + 2]]

(* The attributes of the image go into the attribute list that was passed, *)
(* or into a new one before the note that was.                             *)
putc_nistcom_wsq(comment, img) ==
  LET passed == IF comment.kind = "nistcom" THEN string2fet(comment.fet) ELSE NoList
  IN  putc_comment(Nist(combine_wsq_nistcom(passed, img, 75)))
        \o (IF comment.kind = "note" THEN putc_comment(comment) ELSE <<>>)

getc_skip_marker_segment(data, kind, at) ==
  IF ~Has(data, at, 2) THEN Ended
  ELSE [ok |-> kind = "file" \/ at + getc_ushort(data, at) <= Len(data),
        at |-> at + getc_ushort(data, at)]

(* The first attribute list before the first block: [ok, found, fet]. *)
getc_nistcom_wsq(data, kind) ==
  LET NotThere(ok) == [ok |-> ok, found |-> FALSE, fet |-> NoList]
      scan[at \in 1..(Len(data) + 65536)] ==
        LET m == getc_marker_wsq(data, kind, at, "ANY")
            text == getc_comment(data, m.at)
            skip == getc_skip_marker_segment(data, kind, m.at)
        IN  IF ~m.ok THEN NotThere(FALSE)
            ELSE IF m.marker = SOB THEN NotThere(TRUE)
            ELSE IF m.marker = COM /\ text.ok /\ text.text.kind = "nistcom"
                 THEN [ok |-> TRUE, found |-> TRUE, fet |-> string2fet(text.text.fet)]
                 ELSE IF skip.ok THEN scan[skip.at] ELSE NotThere(FALSE)
  IN  IF getc_marker_wsq(data, kind, 1, "SOI").ok THEN scan[3] ELSE NotThere(FALSE)

(* [ok, ppi]: -1 when there is no list; a list without PPI is an error. *)
PpiOf(list) ==
  LET value == extractfet("PPI", list.fet)
  IN  IF ~list.ok THEN [ok |-> FALSE, ppi |-> 0]
      ELSE IF list.found THEN [ok |-> value.ok, ppi |-> value.value]
      ELSE [ok |-> TRUE, ppi |-> -1]
getc_ppi_wsq(data, kind) == PpiOf(getc_nistcom_wsq(data, kind))

(* The first marker after the SOI that is not of a comment. *)
AfterComments(data) ==
  LET from[at \in 3..(Len(data) + 4)] ==
        IF Has(data, at, 5) /\ data[at + 1] = COM THEN from[at + 5] ELSE at
  IN  from[3]

(* A new comment goes in after those that follow the SOI. *)
add_comment_wsq(data, text) ==
  LET at == AfterComments(data)
  IN  SubSeq(data, 1, at - 1) \o putc_comment(text) \o SubSeq(data, at, Len(data))

(* The data of a block end at a 255 without a zero after it. *)
DataEnd(data, at) ==
  LET IsMarker(i) == data[i] = 255 /\ data[i + 1] # 0
  IN  CHOOSE i \in at..(Len(data) - 1) : IsMarker(i) /\ \A j \in at..(i - 1) : ~IsMarker(j)

(* Where the segment of the marker at `at` ends, with its data. *)
SegmentEnd(data, at) ==
  LET past == at + 2 + getc_ushort(data, at + 2)
  IN  IF data[at + 1] = SOB THEN DataEnd(data, past) ELSE past

(* The places of the markers of a whole stream, after the SOI. *)
Segments(data) ==
  LET from[at \in 3..Len(data)] ==
        IF data[at + 1] = EOI THEN <<at>> ELSE <<at>> \o from[SegmentEnd(data, at)]
  IN  from[3]

delete_comments_blocks(data) ==        \* mutant: a block is copied without its data
  LET places == Segments(data)
      Kept1(at) == IF data[at + 1] = EOI THEN Marker(EOI)
                   ELSE IF data[at + 1] = COM THEN <<>>
                   ELSE SubSeq(data, at, at + 1 + getc_ushort(data, at + 2))
  IN  Marker(SOI) \o Joined([i \in DOMAIN places |-> Kept1(places[i])])

delete_comments_wsq(data) ==
  LET places == Segments(data)
      Kept1(at) == IF data[at + 1] = EOI THEN Marker(EOI)
                   ELSE IF data[at + 1] = COM THEN <<>>
                   ELSE SubSeq(data, at, SegmentEnd(data, at) - 1)
  IN  Marker(SOI) \o Joined([i \in DOMAIN places |-> Kept1(places[i])])

-----------------------------------------------------------------------------
(* Wavelet filters, in ten-thousandths, from the centre to the end.        *)

TapDecimal(v) ==
  IF v = 0 THEN [scale |-> 0, int |-> 0]
  ELSE LET k == CHOOSE k \in 1..10 : Abs(v) * 10^k >= UintMax /\ \A j \in 0..(k - 1) : Abs(v) * 10^j < UintMax
       IN  [scale |-> k + 3, int |-> Abs(v) * 10^(k - 1)]

FromTap(sign, scale, int) ==
  LET v == IF int = 0 THEN 0 ELSE int \div 10^(scale - 4)
  IN  IF sign = 0 THEN v ELSE -v

putc_transform_table(bank) ==
  LET Half1(f) == SubSeq(f, Len(f) \div 2 + 1, Len(f))
      Tap(v) == <<IF v >= 0 THEN 0 ELSE 1, TapDecimal(v).scale>> \o putc_uint(TapDecimal(v).int)
      taps == Half1(bank.lo) \o Half1(bank.hi)
  IN  Marker(DTT) \o putc_ushort(58) \o <<Len(bank.lo), Len(bank.hi)>>
        \o Joined([i \in DOMAIN taps |-> Tap(taps[i])])

(* The first size and the first half are of what becomes the high filter.  *)
(* When the stream ends in the taps, both filters have been freed, but the *)
(* pointers to them are kept ("freed").                                    *)
Taps(data, at, dtt) ==
  LET hisz == (data[at + 2] + 1) \div 2
      losz == (data[at + 3] + 1) \div 2
      Tap(i) == LET p == at + 4 + 6 * (i - 1)
                IN  FromTap(data[p], data[p + 1], getc_uint(data, p + 2))
  IN  IF ~Has(data, at + 4, 6 * (hisz + losz))
      THEN [ok |-> FALSE, at |-> at, dtt |-> [dtt EXCEPT !.filters = "freed"]]
      ELSE [ok |-> TRUE, at |-> at + 4 + 6 * (hisz + losz),
            dtt |-> [filters |-> "held", def |-> 1,
                     lo |-> Mirrored([i \in 1..losz |-> Tap(hisz + i)]),
                     hi |-> Mirrored([i \in 1..hisz |-> Tap(i)])]]

(* mutant: the same clean-up when there is nothing to free *)
getc_transform_table_freed(data, at, dtt) ==
  IF Has(data, at, 4) THEN Taps(data, at, dtt)
  ELSE [ok |-> FALSE, at |-> at, dtt |-> [dtt EXCEPT !.filters = "freed"]]

getc_transform_table(data, at, dtt) ==
  IF Has(data, at, 4) THEN Taps(data, at, dtt)
  ELSE [ok |-> FALSE, at |-> at, dtt |-> dtt]

-----------------------------------------------------------------------------
(* Quantization table: the bin centre, then 64 pairs of width and zero bin.*)

Decimal(v) == <<ToDecimal(v).scale>> \o putc_ushort(ToDecimal(v).shrt)
AsDecimal(data, at) == FromDecimal([scale |-> data[at], shrt |-> getc_ushort(data, at + 1)])

(* Too wide a bin cannot be written. *)
Writable(kept) == \A n \in DOMAIN kept : ZeroBin(kept[n]) < 65535 * One

putc_quantization_table(kept) ==
  LET Entry(n) == IF n \in DOMAIN kept THEN Decimal(kept[n]) \o Decimal(ZeroBin(kept[n]))
                  ELSE <<0, 0, 0, 0, 0, 0>>
  IN  Marker(DQT) \o putc_ushort(389) \o <<2>> \o putc_ushort(44)
        \o Joined([i \in 1..64 |-> Entry(i - 1)])

getc_quantization_table(data, at, dqt) ==
  IF ~Has(data, at, 389) THEN [ok |-> FALSE, at |-> at, dqt |-> dqt]
  ELSE [ok |-> TRUE, at |-> at + 389,
        dqt |-> [def |-> 1,
                 C |-> (getc_ushort(data, at + 3) * 100) \div 10^data[at + 2],
                 q |-> Strict([n \in 0..63 |-> AsDecimal(data, at + 5 + 6 * n)]),
                 z |-> Strict([n \in 0..63 |-> AsDecimal(data, at + 8 + 6 * n)])]]

-----------------------------------------------------------------------------
(* Huffman tables 0 and 1 of eight.                                        *)

putc_huffman_table(id, huff) ==
  Marker(DHT) \o putc_ushort(3 + MaxHuffBits + Len(huff.values)) \o <<id>> \o huff.bits \o huff.values

(* [ok, at, id, bits, values]; more values than symbols are refused. *)
getc_huffman_table(data, at) ==
  LET first == at + 3 + MaxHuffBits
      bits == SubSeq(data, at + 3, first - 1)
      num == FoldLeft(+, 0, bits)
  IN  IF Has(data, at, 3 + MaxHuffBits) /\ num <= Reserved + 1 /\ Has(data, first, num)
      THEN [ok |-> TRUE, at |-> first + num, id |-> data[at + 2],
            bits |-> bits, values |-> SubSeq(data, first, first + num - 1)]
      ELSE Ended

getc_huffman_table_wsq(data, at, dht) ==
  LET r == getc_huffman_table(data, at)
  IN  IF r.ok THEN [ok |-> TRUE, at |-> r.at,
                    dht |-> [dht EXCEPT ![r.id] = [tabdef |-> 1, bits |-> r.bits, values |-> r.values]]]
      ELSE [ok |-> FALSE, at |-> at, dht |-> dht]

(* Any table: [ok, at, dtt, dqt, dht]. *)
getc_table_wsq(marker, data, at, dtt, dqt, dht) ==
  LET transform == getc_transform_table(data, at, dtt)
      quantization == getc_quantization_table(data, at, dqt)
      huffman == getc_huffman_table_wsq(data, at, dht)
      comment == getc_comment(data, at)
      Read(r, t, q, h) == [ok |-> r.ok, at |-> IF r.ok THEN r.at ELSE at,
                           dtt |-> t, dqt |-> q, dht |-> h]
  IN  CASE marker = DTT -> Read(transform, transform.dtt, dqt, dht)
        [] marker = DQT -> Read(quantization, dtt, quantization.dqt, dht)
        [] marker = DHT -> Read(huffman, dtt, dqt, huffman.dht)
        [] marker = COM -> Read(comment, dtt, dqt, dht)
        [] OTHER        -> Read(Ended, dtt, dqt, dht)

-----------------------------------------------------------------------------
putc_frame_header_wsq(w, h, shift) ==
  Marker(SOF) \o putc_ushort(17) \o <<0, 255>> \o putc_ushort(h) \o putc_ushort(w)
    \o Decimal(shift.m_shift) \o Decimal(shift.r_scale) \o <<0, 0, 0>>

getc_frame_header_wsq(data, at) ==
  IF ~Has(data, at, 17) THEN Ended
  ELSE [ok |-> TRUE, at |-> at + 17,
        frm |-> [height |-> getc_ushort(data, at + 4), width |-> getc_ushort(data, at + 6),
                 m_shift |-> AsDecimal(data, at + 8), r_scale |-> AsDecimal(data, at + 11)]]

putc_block_header(id) == Marker(SOB) \o putc_ushort(3) \o <<id>>

getc_block_header(data, at) ==
  IF ~Has(data, at, 3) THEN Ended ELSE [ok |-> TRUE, at |-> at + 3, id |-> data[at + 2]]
=============================================================================
