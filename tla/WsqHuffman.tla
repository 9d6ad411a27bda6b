------------------------------ MODULE WsqHuffman ------------------------------
(***************************************************************************)
(* Quantized data as bits: nbis/wsq/encoder.cpp cuts a block into tokens   *)
(* and counts and writes their symbols, nbis/jpegl/huff.cpp makes a code   *)
(* from the counts, nbis/wsq/decoder.cpp reads the bits back one by one.   *)
(***************************************************************************)
EXTENDS WsqQuant

CONSTANT MaxHuffBits       \* the longest code (MAX_HUFFBITS, 16)
ASSUME MaxHuffBitsOK == MaxHuffBits \in 8..16   \* seven bits of padding are no code

MaxHuffCoeff == 74
MaxHuffZRun == 100
MaxRun == 65535            \* rcnt < 0xFFFF
Reserved == 256            \* MAX_HUFFCOUNTS_WSQ: a symbol counted, never written

-----------------------------------------------------------------------------
(* Tokens: a symbol, and for an escape a number of 8 or 16 bits after it.  *)

Token(sym, bits, size) == [sym |-> sym, bits |-> bits, size |-> size]

CoefToken(v) ==
  CASE v > 255              -> Token(103, v, 16)
    [] v \in (MaxHuffCoeff + 1)..255 -> Token(101, v, 8)
    [] v < -255             -> Token(104, -v, 16)
    [] v \in (-255)..(-MaxHuffCoeff) -> Token(102, -v, 8)
    [] OTHER                -> Token(v + 180, 0, 0)

RunToken(n) ==
  IF n <= MaxHuffZRun THEN Token(n, 0, 0)
  ELSE IF n <= 255 THEN Token(105, n, 8) ELSE Token(106, n, 16)

(* A run of n zeros, in pieces of at most MaxRun. *)
Run(n) ==
  [i \in 1..(n \div MaxRun) |-> RunToken(MaxRun)]
    \o (IF n % MaxRun = 0 THEN <<>> ELSE <<RunToken(n % MaxRun)>>)

(* The part of the data from place `from` on, of the given length. *)
Block(sip, from, len) ==
  LET coefs == Chosen(sip.coefs, {c \in ToSet(sip.coefs) : from <= c.at /\ c.at < from + len})
  IN  [len |-> len, coefs |-> [i \in DOMAIN coefs |-> [coefs[i] EXCEPT !.at = @ - from]]]

Tokens(block) ==
  LET n == Len(block.coefs)
      Gap(i) == LET here == IF i > n THEN block.len ELSE block.coefs[i].at
                IN  IF i = 1 THEN here ELSE here - block.coefs[i - 1].at - 1
  IN  Joined([i \in 1..(n + 1) |->
        Run(Gap(i)) \o (IF i > n THEN <<>> ELSE <<CoefToken(block.coefs[i].v)>>)])

count_block(tokens) ==
  LET used == {tokens[i].sym : i \in DOMAIN tokens}
  IN  Strict([s \in used \cup {Reserved} |->
                IF s = Reserved THEN 1 ELSE Cardinality({i \in DOMAIN tokens : tokens[i].sym = s})])

-----------------------------------------------------------------------------
(* A code from the counts.                                                 *)

(* The least count goes first; of two equal ones, that of the later symbol. *)
find_least_freq(freq, S) ==
  CHOOSE v \in S : \A o \in S : freq[v] < freq[o] \/ (freq[v] = freq[o] /\ v >= o)

(* The two least groups of symbols become one, until one is left. *)
Merge(s, i) ==
  LET v1 == find_least_freq(s.freq, DOMAIN s.freq)
      v2 == find_least_freq(s.freq, DOMAIN s.freq \ {v1})
      both == s.group[v1] \cup s.group[v2]
      rest == DOMAIN s.freq \ {v2}
  IN  [freq |-> [v \in rest |-> IF v = v1 THEN s.freq[v1] + s.freq[v2] ELSE s.freq[v]],
       group |-> [v \in rest |-> IF v = v1 THEN both ELSE s.group[v]],
       size |-> [v \in DOMAIN s.size |-> IF v \in both THEN s.size[v] + 1 ELSE s.size[v]]]

Unmerged(counts) == [freq |-> counts, group |-> [v \in DOMAIN counts |-> {v}],
                   size |-> [v \in DOMAIN counts |-> 0]]
find_huff_sizes(counts) ==
  FoldLeft(Merge, Unmerged(counts), [i \in 1..(Cardinality(DOMAIN counts) - 1) |-> i]).size

(* How many codes there are of each size; the reserved one is not counted. *)
find_num_huff_sizes(size) ==
  Strict([l \in 1..(2 * MaxHuffBits) |->
            Cardinality({s \in DOMAIN size \ {Reserved} : size[s] = l})])

adjust(size) == \E s \in DOMAIN size \ {Reserved} : size[s] > MaxHuffBits

(* Codes that are too long are made shorter in pairs, at the expense of a  *)
(* shorter one; the reserved code, which makes the pairs come out even,    *)
(* is taken off the end.                                                   *)
Longest(bits, l) == CHOOSE j \in 1..l : bits[j] # 0 /\ \A k \in (j + 1)..l : bits[k] = 0

ShortenPair(bits, l) ==
  LET j == Longest(bits, l - 2)
      up == [bits EXCEPT ![l] = @ - 2, ![l - 1] = @ + 1]
  IN  [[up EXCEPT ![j + 1] = @ + 2] EXCEPT ![j] = @ - 1]

Shorten(bits, l) ==
  [FoldLeft(ShortenPair, bits, [i \in 1..((bits[l] + 1) \div 2) |-> l]) EXCEPT ![l] = 0]

sort_huffbits_full(bits) ==   \* mutant: the reserved code is left in
  FoldLeft(Shorten, bits, [i \in 1..MaxHuffBits |-> 2 * MaxHuffBits + 1 - i])

sort_huffbits(bits) ==
  LET short == FoldLeft(Shorten, bits, [i \in 1..MaxHuffBits |-> 2 * MaxHuffBits + 1 - i])
  IN  [short EXCEPT ![Longest(short, MaxHuffBits)] = @ - 1]

(* The symbols by size, then by number. *)
sort_code_sizes(size) ==
  LET coded == {s \in DOMAIN size \ {Reserved} : size[s] > 0}
      Rank(s) == Cardinality({o \in coded : size[o] < size[s] \/ (size[o] = size[s] /\ o <= s)})
  IN  [r \in 1..Cardinality(coded) |-> CHOOSE s \in coded : Rank(s) = r]

build_huffsizes(bits) ==
  Joined([l \in 1..MaxHuffBits |-> [i \in 1..bits[l] |-> l]])

(* Each code is the one before plus one, with zeros up to its size. *)
build_huffcodes(sizes) ==
  LET code[i \in DOMAIN sizes] ==
        IF i = 1 THEN 0 ELSE ((code[i - 1] + 1) * 2^(sizes[i] - sizes[i - 1])) % 65536
  IN  Strict(code)

AllOnes(code, size) == code = 2^size - 1

check_huffcodes_wsq(sizes) == \A i \in DOMAIN sizes : ~AllOnes(build_huffcodes(sizes)[i], sizes[i])

build_huffcode_table(sizes, values) ==
  LET codes == build_huffcodes(sizes)
      At(s) == CHOOSE i \in DOMAIN sizes : values[i] = s
  IN  [s \in ToSet(values) |-> [code |-> codes[At(s)], size |-> sizes[At(s)]]]

(* [ok, bits, values, codes]; the encoder refuses a code of ones only. *)
HuffTable(bits, values) ==
  LET sizes == build_huffsizes(bits)
  IN  [ok |-> check_huffcodes_wsq(sizes), bits |-> SubSeq(bits, 1, MaxHuffBits),
       values |-> values, codes |-> build_huffcode_table(sizes, values)]
Limited(size) ==
  LET num == find_num_huff_sizes(size)
  IN  IF adjust(size) THEN sort_huffbits(num) ELSE num
Sized(size) == HuffTable(Limited(size), sort_code_sizes(size))
gen_hufftable_wsq(tokens) == Sized(find_huff_sizes(count_block(tokens)))

-----------------------------------------------------------------------------
(* Bytes: the highest bit first, the last byte filled up with ones, and a  *)
(* zero byte after each 255, which would look like a marker.               *)

write_bits(code, size) == [i \in 1..size |-> (code \div 2^(size - i)) % 2]

flush_bits(bits) == bits \o [i \in 1..((8 - (Len(bits) % 8)) % 8) |-> 1]

Byte(bits, k) ==
  LET b(i) == bits[8 * (k - 1) + i] * 2^(8 - i)
  IN  b(1) + b(2) + b(3) + b(4) + b(5) + b(6) + b(7) + b(8)

Stuffed(byte) == IF byte = 255 THEN <<255, 0>> ELSE <<byte>>

compress_block(tokens, codes) ==
  LET out(t) == write_bits(codes[t.sym].code, codes[t.sym].size) \o write_bits(t.bits, t.size)
      bits == flush_bits(Joined([i \in DOMAIN tokens |-> out(tokens[i])]))
  IN  Joined([k \in 1..(Len(bits) \div 8) |-> Stuffed(Byte(bits, k))])

-----------------------------------------------------------------------------
(* The decoder's tables for codes of each size.                            *)

gen_decode_table(bits) ==
  LET codes == build_huffcodes(build_huffsizes(bits))
      Upto(l) == FoldLeft(+, 0, SubSeq(bits, 1, l))
  IN  [maxcode |-> [l \in 1..MaxHuffBits |-> IF bits[l] = 0 THEN -1 ELSE codes[Upto(l)]],
       mincode |-> [l \in 1..MaxHuffBits |-> IF bits[l] = 0 THEN 0 ELSE codes[Upto(l - 1) + 1]],
       valptr |-> [l \in 1..MaxHuffBits |-> IF bits[l] = 0 THEN 0 ELSE Upto(l - 1)]]

(* Reading.  A reader is [at, left, code, fault]: the next byte, the bits  *)
(* left of the current byte, that byte, and why reading stopped: "end",    *)
(* "marker" (with the marker's second byte in `code2`), "unstuffed", or    *)
(* "crash", for a marker met where the caller passes no place for one.     *)
(* Past its end a file goes on as bytes of 255 (EOF cast to a byte).       *)

FetchZero(data, kind, at) ==    \* mutant: a file ends in zeros
  IF at <= Len(data) THEN data[at] ELSE IF kind = "file" THEN 0 ELSE -1

Fetch(data, kind, at) == IF at <= Len(data) THEN data[at] ELSE IF kind = "file" THEN 255 ELSE -1

LoadByte(data, kind, r, bits_req, asked) ==
  LET code == Fetch(data, kind, r.at)
      code2 == Fetch(data, kind, r.at + 1)
      full == [r EXCEPT !.at = @ + 1, !.left = 8, !.code = code]
      pair == [full EXCEPT !.at = @ + 1, !.code2 = code2]
  IN  CASE code = -1             -> [r EXCEPT !.fault = "end"]
        [] code \in 0..254       -> full
        [] code = 255 /\ code2 = -1 -> [full EXCEPT !.fault = "end"]
        [] code = 255 /\ code2 = 0  -> pair
        [] OTHER -> [pair EXCEPT !.fault = IF bits_req # 1 THEN "unstuffed"
                                           ELSE IF asked = 1 THEN "marker" ELSE "crash"]

HighestBit(r) == (r.code \div 2^(r.left - 1)) % 2

TakeBitAgain(r) ==   \* mutant: a bit is looked at and not taken
  IF r.fault # "none" THEN r ELSE [r EXCEPT !.out = 2 * @ + HighestBit(r)]

TakeBit(r) ==
  IF r.fault # "none" THEN r
  ELSE [r EXCEPT !.left = @ - 1, !.code = @ % 2^(r.left - 1), !.out = 2 * @ + HighestBit(r)]

(* One of `asked` bits, `bits_req` of which are still to come. *)
NextBit(data, kind, r, bits_req, asked) ==
  TakeBit(IF r.fault = "none" /\ r.left = 0 THEN LoadByte(data, kind, r, bits_req, asked) ELSE r)

nextbits_wsq(data, kind, r, n) ==
  FoldLeft(LAMBDA s, i : NextBit(data, kind, s, n + 1 - i, n), [r EXCEPT !.out = 0], [i \in 1..n |-> i])

(* One symbol: bits until they make a code.  A code longer than any leads  *)
(* past the ends of the tables ("lost").                                   *)
decode_data(data, kind, r, table) ==
  LET Found(s) == s.size > 0 /\ s.r.out <= table.maxcode[s.size]
      Longer(s, i) ==
        IF s.r.fault # "none" \/ Found(s) THEN s
        ELSE [r |-> NextBit(data, kind, s.r, 1, 1), size |-> s.size + 1]
      Lost(s) == IF s.r.fault = "none" /\ ~Found(s) THEN [s EXCEPT !.r.fault = "lost"] ELSE s
  IN  Lost(FoldLeft(Longer, [r |-> [r EXCEPT !.out = 0], size |-> 0], [i \in 1..MaxHuffBits |-> i]))

(* Its place in the values. *)
inx2(s, table) == table.valptr[s.size] + s.r.out - table.mincode[s.size] + 1
=============================================================================
