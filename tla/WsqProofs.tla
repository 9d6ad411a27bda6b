------------------------------ MODULE WsqProofs ------------------------------
(***************************************************************************)
(* Of the WSQ codec, for every image and every value of the constants: the *)
(* tokens of the encoder mean to the decoder what they were made of; the   *)
(* decoder's tables find each code of the encoder, at its size and not     *)
(* before; the bits of a block come out of the bytes as they went in, and  *)
(* what pads the last byte is no code, but leads to the marker after it;   *)
(* so the tables and the blocks of a stream are read as they were written; *)
(* and no thread uses the filters another has freed.  Of the attribute     *)
(* list: it stays true to itself from coder to coder.                      *)
(***************************************************************************)
EXTENDS WsqCodeProofs, NistcomLife, FiniteSetTheorems, SequenceTheorems, TLAPS

(* Which token a coefficient becomes.                                      *)
LEMMA Tokens5 ==
  ASSUME NEW v \in Int
  PROVE  /\ v > 255            => CoefToken(v) = Token(103, v, 16)
         /\ 75 <= v /\ v <= 255 => CoefToken(v) = Token(101, v, 8)
         /\ v < -255           => CoefToken(v) = Token(104, -v, 16)
         /\ -255 <= v /\ v <= -74 => CoefToken(v) = Token(102, -v, 8)
         /\ -73 <= v /\ v <= 74 => CoefToken(v) = Token(v + 180, 0, 0)
<1> DEFINE a == v > 255
           b == v \in (MaxHuffCoeff + 1)..255
           c == v < -255
           d == v \in (-255)..(-MaxHuffCoeff)
<1>1. (b <=> 75 <= v /\ v <= 255) /\ (d <=> -255 <= v /\ v <= -74)
  BY DEF MaxHuffCoeff
<1>2. CoefToken(v) = CASE a -> Token(103, v, 16) [] b -> Token(101, v, 8)
                       [] c -> Token(104, -v, 16) [] d -> Token(102, -v, 8)
                       [] OTHER -> Token(v + 180, 0, 0)
  BY Zenon DEF CoefToken
<1>3. /\ v > 255             => a /\ ~b /\ ~c /\ ~d
      /\ 75 <= v /\ v <= 255 => ~a /\ b /\ ~c /\ ~d
      /\ v < -255            => ~a /\ ~b /\ c /\ ~d
      /\ -255 <= v /\ v <= -74 => ~a /\ ~b /\ ~c /\ d
      /\ -73 <= v /\ v <= 74 => ~a /\ ~b /\ ~c /\ ~d
  BY <1>1 DEF a, c
<1> HIDE DEF a, b, c, d
<1>4. v > 255 => CoefToken(v) = Token(103, v, 16)
  BY <1>2, <1>3, Zenon
<1>5. 75 <= v /\ v <= 255 => CoefToken(v) = Token(101, v, 8)
  BY <1>2, <1>3, Zenon
<1>6. v < -255 => CoefToken(v) = Token(104, -v, 16)
  BY <1>2, <1>3, Zenon
<1>7. -255 <= v /\ v <= -74 => CoefToken(v) = Token(102, -v, 8)
  BY <1>2, <1>3, Zenon
<1>8. -73 <= v /\ v <= 74 => CoefToken(v) = Token(v + 180, 0, 0)
  BY <1>2, <1>3, Zenon
<1>9. QED BY <1>4, <1>5, <1>6, <1>7, <1>8

(* What the decoder makes of a symbol.                                     *)
LEMMA SymbolBits ==
  ASSUME NEW s \in Int
  PROVE  /\ s \in {101, 102, 105} => Follows(s) = 8
         /\ s \in {103, 104, 106} => Follows(s) = 16
         /\ s \in 1..100 \cup 107..254 => Follows(s) = 0
<1>1. /\ s \in {101, 102, 105} => s \notin {103, 104, 106}
      /\ s \in {103, 104, 106} => s \notin {101, 102, 105}
      /\ s \in 1..100 \cup 107..254 => s \notin {101, 102, 105} /\ s \notin {103, 104, 106}
  OBVIOUS
<1>2. Follows(s) = CASE s \in {101, 102, 105} -> 8 [] s \in {103, 104, 106} -> 16 [] OTHER -> 0
  BY Zenon DEF Follows
<1>3. s \in {101, 102, 105} => Follows(s) = 8
  BY <1>1, <1>2, Zenon
<1>4. s \in {103, 104, 106} => Follows(s) = 16
  BY <1>1, <1>2, Zenon
<1>5. s \in 1..100 \cup 107..254 => Follows(s) = 0
  BY <1>1, <1>2, Zenon
<1>6. QED BY <1>3, <1>4, <1>5

LEMMA Symbols ==
  ASSUME NEW s \in Int, NEW n
  PROVE  /\ s \in {101, 103} => Coefficient(s, n) = Short(n)
         /\ s \in {102, 104} => Coefficient(s, n) = Short(-n)
         /\ s \in 107..254   => Coefficient(s, n) = Short(s - 180)
<1>1. /\ s \in {101, 103} => s \notin {102, 104}
      /\ s \in {102, 104} => s \notin {101, 103}
      /\ s \in 107..254 => s \notin {101, 103} /\ s \notin {102, 104}
  OBVIOUS
<1>2. Coefficient(s, n) = Short(CASE s \in {101, 103} -> n [] s \in {102, 104} -> -n [] OTHER -> s - 180)
  BY Zenon DEF Coefficient
<1>3. s \in {101, 103} => Coefficient(s, n) = Short(n)
  BY <1>1, <1>2, Zenon
<1>4. s \in {102, 104} => Coefficient(s, n) = Short(-n)
  BY <1>1, <1>2, Zenon
<1>5. s \in 107..254 => Coefficient(s, n) = Short(s - 180)
  BY <1>1, <1>2, Zenon
<1>6. QED BY <1>3, <1>4, <1>5

(* A coefficient of 16 bits comes back from its symbol and its bits, which *)
(* fit the size they are written with; its symbol is none of a run, and    *)
(* the decoder reads as many bits after it as the encoder writes           *)
(* (compress_block in encoder.cpp, huffman_decode_data_mem in decoder.cpp).*)
ComesBack(v, token) ==
  /\ Coefficient(token.sym, token.bits) = v
  /\ token.sym \in 1..254 \ Runs
  /\ token.size = Follows(token.sym)
  /\ token.size = 8 => token.bits \in 0..255
  /\ token.size = 16 => 0 <= token.bits /\ token.bits <= 65535

THEOREM CoefficientsComeBack ==
  \A v \in Int : -32768 <= v /\ v <= 32767 => ComesBack(v, CoefToken(v))
<1> SUFFICES ASSUME NEW v \in Int, -32768 <= v, v <= 32767 PROVE ComesBack(v, CoefToken(v))
  OBVIOUS
<1>1. Short(v) = v
  BY ShortIdentity
<1>2. -(-v) = v /\ v + 180 - 180 = v
  OBVIOUS
<1>3. \A s, b, z : Token(s, b, z).sym = s /\ Token(s, b, z).bits = b /\ Token(s, b, z).size = z
  BY DEF Token
<1>4. \A s \in {101, 102, 103, 104} \cup 107..254 : s \in 1..254 \ Runs /\ s \in Int
  BY DEF Runs
<1>5. CASE v > 255
  <2>1. Coefficient(103, v) = v /\ Follows(103) = 16
    BY <1>1, Symbols, SymbolBits
  <2>2. CoefToken(v) = Token(103, v, 16)
    BY <1>5, Tokens5
  <2>3. QED BY <1>3, <1>4, <1>5, <2>1, <2>2 DEF ComesBack
<1>6. CASE 75 <= v /\ v <= 255
  <2>1. Coefficient(101, v) = v /\ Follows(101) = 8
    BY <1>1, Symbols, SymbolBits
  <2>2. CoefToken(v) = Token(101, v, 8)
    BY <1>6, Tokens5
  <2>3. QED BY <1>3, <1>4, <1>6, <2>1, <2>2 DEF ComesBack
<1>7. CASE v < -255
  <2>1. Coefficient(104, -v) = v /\ Follows(104) = 16
    BY <1>1, <1>2, Symbols, SymbolBits
  <2>2. CoefToken(v) = Token(104, -v, 16)
    BY <1>7, Tokens5
  <2>3. QED BY <1>3, <1>4, <1>7, <2>1, <2>2 DEF ComesBack
<1>8. CASE -255 <= v /\ v <= -74
  <2>1. Coefficient(102, -v) = v /\ Follows(102) = 8
    BY <1>1, <1>2, Symbols, SymbolBits
  <2>2. CoefToken(v) = Token(102, -v, 8)
    BY <1>8, Tokens5
  <2>3. QED BY <1>3, <1>4, <1>8, <2>1, <2>2 DEF ComesBack
<1>9. CASE -73 <= v /\ v <= 74
  <2>1. v + 180 \in 107..254 /\ v + 180 \in Int
    BY <1>9
  <2>2. Coefficient(v + 180, 0) = v /\ Follows(v + 180) = 0
    BY <1>1, <1>2, <2>1, Symbols, SymbolBits
  <2>3. CoefToken(v) = Token(v + 180, 0, 0)
    BY <1>9, Tokens5
  <2>4. QED BY <1>3, <1>4, <2>1, <2>2, <2>3 DEF ComesBack
<1>10. QED BY <1>5, <1>6, <1>7, <1>8, <1>9

(* A run of zeros that fits one token comes back as long as it was: its    *)
(* length is the symbol, or the bits that the decoder reads after it.      *)
RunLength(token) == IF token.sym <= 100 THEN token.sym ELSE token.bits

RunComesBack(n, token) ==
  /\ RunLength(token) = n
  /\ token.sym \in Runs
  /\ token.size = Follows(token.sym)
  /\ token.size = 8 => token.bits \in 0..255

LEMMA OneToken ==
  ASSUME NEW n \in Nat, 1 <= n, n <= 65535
  PROVE  RunComesBack(n, RunToken(n))
<1>1. CASE n <= 100
  <2>1. RunToken(n) = [sym |-> n, bits |-> 0, size |-> 0]
    BY <1>1 DEF RunToken, Token, MaxHuffZRun
  <2>2. n \in 1..100 /\ Follows(n) = 0
    BY <1>1, SymbolBits
  <2>3. QED BY <1>1, <2>1, <2>2 DEF RunComesBack, RunLength, Runs
<1>2. CASE n \in 101..255
  <2>1. RunToken(n) = [sym |-> 105, bits |-> n, size |-> 8]
    BY <1>2 DEF RunToken, Token, MaxHuffZRun
  <2>2. Follows(105) = 8
    BY SymbolBits
  <2>3. QED BY <1>2, <2>1, <2>2 DEF RunComesBack, RunLength, Runs
<1>3. CASE n > 255
  <2>1. RunToken(n) = [sym |-> 106, bits |-> n, size |-> 16]
    BY <1>3 DEF RunToken, Token, MaxHuffZRun
  <2>2. Follows(106) = 16
    BY SymbolBits
  <2>3. QED BY <1>3, <2>1, <2>2 DEF RunComesBack, RunLength, Runs
<1>4. QED BY <1>1, <1>2, <1>3

LEMMA Following ==
  ASSUME NEW S, NEW s \in Seq(S), NEW x \in S
  PROVE  /\ Len(s \o <<x>>) = Len(s) + 1
         /\ (s \o <<x>>)[Len(s) + 1] = x
         /\ \A i \in 1..Len(s) : (s \o <<x>>)[i] = s[i]
OBVIOUS

(* However long a run is, its tokens make it up (compress_block in         *)
(* encoder.cpp cuts it at MaxRun): each but the last comes back as MaxRun  *)
(* zeros, the last one as the rest, which is never none.                   *)
THEOREM RunsComeBack ==
  \A n \in Nat : n > 0 =>
    LET last == Len(Run(n))
    IN  /\ last > 0
        /\ \A i \in 1..(last - 1) : RunComesBack(MaxRun, Run(n)[i])
        /\ RunComesBack(n - (last - 1) * MaxRun, Run(n)[last])
<1> SUFFICES ASSUME NEW n \in Nat, n > 0
             PROVE  /\ Len(Run(n)) > 0
                    /\ \A i \in 1..(Len(Run(n)) - 1) : RunComesBack(MaxRun, Run(n)[i])
                    /\ RunComesBack(n - (Len(Run(n)) - 1) * MaxRun, Run(n)[Len(Run(n))])
  OBVIOUS
<1> DEFINE k == n \div MaxRun
           rest == n % MaxRun
           full == [i \in 1..k |-> RunToken(MaxRun)]
<1>1. MaxRun \in Nat /\ MaxRun = 65535
  BY DEF MaxRun
<1>2. /\ k \in Nat /\ rest \in Nat
      /\ rest < MaxRun /\ n = k * MaxRun + rest
  <2>1. \A m \in Nat : /\ m \div 65535 \in Nat /\ m % 65535 \in Nat /\ m % 65535 < 65535
                       /\ m = (m \div 65535) * 65535 + (m % 65535)
    OBVIOUS
  <2>2. QED BY <1>1, <2>1
<1>3. RunComesBack(MaxRun, RunToken(MaxRun))
  BY <1>1, OneToken
<1>4. Len(full) = k /\ full \in Seq({RunToken(MaxRun)}) /\ \A i \in 1..k : full[i] = RunToken(MaxRun)
  BY <1>2
<1> HIDE DEF k, rest, full
<1>5. CASE rest = 0
  <2>1. Run(n) = full
    <3>1. Run(n) = full \o <<>>
      BY <1>5 DEF Run, full, k, rest
    <3>2. QED BY <1>4, <3>1
  <2>2. k > 0 /\ n - (k - 1) * MaxRun = MaxRun
    BY <1>1, <1>2, <1>5
  <2>3. QED BY <1>2, <1>3, <1>4, <2>1, <2>2
<1>6. CASE rest # 0
  <2>1. Run(n) = full \o <<RunToken(rest)>>
    BY <1>6 DEF Run, full, k, rest
  <2>2. Len(Run(n)) = k + 1 /\ Run(n)[k + 1] = RunToken(rest) /\ \A i \in 1..k : Run(n)[i] = full[i]
    <3> DEFINE S == {RunToken(MaxRun), RunToken(rest)}
    <3>1. full \in Seq(S) /\ RunToken(rest) \in S
      BY <1>4
    <3> HIDE DEF S
    <3>2. QED BY <1>4, <2>1, <3>1, Following
  <2>3. RunComesBack(rest, RunToken(rest))
    BY <1>1, <1>2, <1>6, OneToken
  <2>4. Len(Run(n)) - 1 = k /\ Len(Run(n)) > 0
    BY <1>2, <2>2
  <2>5. n - (Len(Run(n)) - 1) * MaxRun = rest
    BY <1>1, <1>2, <2>4
  <2>6. Run(n)[Len(Run(n))] = RunToken(rest)
    BY <2>2
  <2>7. ASSUME NEW i \in 1..(Len(Run(n)) - 1) PROVE RunComesBack(MaxRun, Run(n)[i])
    BY <1>3, <1>4, <2>2, <2>4
  <2>8. QED BY <2>3, <2>4, <2>5, <2>6, <2>7
<1>7. QED BY <1>5, <1>6

-----------------------------------------------------------------------------
(* The filters are a global that getc_transform_table may leave freed.     *)
HasFilters(dtt) == "filters" \in DOMAIN dtt
Sane(dtt) == HasFilters(dtt) /\ dtt.filters \in {"null", "held"}
FreedForgotten == Sane(dtt_table)

LEMMA TapsHeld ==
  ASSUME NEW data, NEW at, NEW dtt, Sane(dtt)
  PROVE  LET r == getc_transform_table(data, at, dtt)
         IN  HasFilters(r.dtt) /\ (r.ok => Sane(r.dtt))
<1> DEFINE r == getc_transform_table(data, at, dtt)
<1>1. CASE ~Has(data, at, 4)
  <2>1. r = [ok |-> FALSE, at |-> at, dtt |-> dtt]
    BY <1>1 DEF getc_transform_table
  <2>2. QED BY <2>1 DEF Sane
<1>2. CASE Has(data, at, 4)
  <2>1. r = Taps(data, at, dtt)
    BY <1>2 DEF getc_transform_table
  <2> DEFINE hisz == (data[at + 2] + 1) \div 2
             losz == (data[at + 3] + 1) \div 2
  <2>2. CASE ~Has(data, at + 4, 6 * (hisz + losz))
    <3>1. Taps(data, at, dtt) = [ok |-> FALSE, at |-> at, dtt |-> [dtt EXCEPT !.filters = "freed"]]
      BY <2>2, Zenon DEF Taps
    <3>2. HasFilters([dtt EXCEPT !.filters = "freed"])
      BY DEF Sane, HasFilters
    <3>3. QED BY <2>1, <3>1, <3>2
  <2>3. CASE Has(data, at + 4, 6 * (hisz + losz))
    <3>1. PICK lo, hi : Taps(data, at, dtt).dtt = [filters |-> "held", def |-> 1, lo |-> lo, hi |-> hi]
      BY <2>3, Zenon DEF Taps
    <3>2. QED BY <2>1, <3>1 DEF Sane, HasFilters
  <2>4. QED BY <2>2, <2>3
<1>3. QED BY <1>1, <1>2

(* A table that was read well leaves the filters as they were, or held.    *)
LEMMA TableHeld ==
  ASSUME NEW m, NEW data, NEW at, NEW dtt, NEW dqt, NEW dht, Sane(dtt)
  PROVE  LET r == getc_table_wsq(m, data, at, dtt, dqt, dht)
         IN  HasFilters(r.dtt) /\ (r.ok => Sane(r.dtt))
<1> DEFINE r == getc_table_wsq(m, data, at, dtt, dqt, dht)
           transform == getc_transform_table(data, at, dtt)
           Of(f, t, q, h) == [ok |-> f.ok, at |-> IF f.ok THEN f.at ELSE at, dtt |-> t, dqt |-> q, dht |-> h]
<1>1. CASE m = DTT
  <2>1. m # DQT /\ m # DHT /\ m # COM
    BY <1>1 DEF DTT, DQT, DHT, COM
  <2>2. r = Of(transform, transform.dtt, dqt, dht)
    BY <1>1, <2>1, Zenon DEF getc_table_wsq
  <2>3. r.dtt = transform.dtt /\ r.ok = transform.ok
    BY <2>2
  <2>4. QED BY <2>3, TapsHeld
<1>2. CASE m # DTT
  <2> DEFINE quantization == getc_quantization_table(data, at, dqt)
             huffman == getc_huffman_table_wsq(data, at, dht)
             comment == getc_comment(data, at)
  <2>1. CASE m = DQT
    <3>1. m # DHT /\ m # COM
      BY <2>1 DEF DQT, DHT, COM
    <3>2. r = Of(quantization, dtt, quantization.dqt, dht)
      BY <1>2, <2>1, <3>1, Zenon DEF getc_table_wsq
    <3>3. QED BY <3>2 DEF Sane
  <2>2. CASE m = DHT
    <3>1. m # DQT /\ m # COM
      BY <2>2 DEF DQT, DHT, COM
    <3>2. r = Of(huffman, dtt, dqt, huffman.dht)
      BY <1>2, <2>2, <3>1, Zenon DEF getc_table_wsq
    <3>3. QED BY <3>2 DEF Sane
  <2>3. CASE m = COM
    <3>1. m # DQT /\ m # DHT
      BY <2>3 DEF DQT, DHT, COM
    <3>2. r = Of(comment, dtt, dqt, dht)
      BY <1>2, <2>3, <3>1, Zenon DEF getc_table_wsq
    <3>3. QED BY <3>2 DEF Sane
  <2>4. CASE m \notin {DQT, DHT, COM}
    <3>1. r = Of(Ended, dtt, dqt, dht)
      BY <1>2, <2>4, Zenon DEF getc_table_wsq
    <3>2. QED BY <3>1 DEF Sane
  <2>5. QED BY <2>1, <2>2, <2>3, <2>4
<1>3. QED BY <1>1, <1>2

(* A call that ends has forgotten the filters, whatever state they were in.*)
LEMMA Forgets ==
  ASSUME NEW d, NEW t, NEW out, HasFilters(d), End(t, out, d)
  PROVE  FreedForgotten'
<1>1. dtt_table' = [d EXCEPT !.filters = "null"]
  BY DEF End
<1>2. QED BY <1>1 DEF FreedForgotten, Sane, HasFilters

LEMMA ForgottenStart == CInit => FreedForgotten
BY DEF CInit, FreedForgotten, Sane, HasFilters

LEMMA ForgottenStep == FreedForgotten /\ [CNext]_cvars => FreedForgotten'
<1> SUFFICES ASSUME FreedForgotten, [CNext]_cvars PROVE FreedForgotten'
  OBVIOUS
<1>1. UNCHANGED dtt_table => FreedForgotten'
  BY DEF FreedForgotten, Sane, HasFilters
<1>2. HasFilters(dtt_table) /\ HasFilters([dtt_table EXCEPT !.filters = "null"])
  BY DEF FreedForgotten, Sane, HasFilters
<1>3. ASSUME NEW t, Refuse(t, dtt_table) PROVE FreedForgotten'
  BY <1>2, <1>3, Forgets DEF Refuse
<1>4. ASSUME NEW t, NEW d, Goes(t, d) PROVE FreedForgotten'
  BY <1>1, <1>4 DEF Goes
<1>5. CASE UNCHANGED cvars
  BY <1>1, <1>5 DEF cvars
<1>6. ASSUME NEW t \in Threads, Decode(t) PROVE FreedForgotten'
  <2>1. CASE \E kind \in Kinds : Begin(t, kind)
    <3>1. \/ Refuse(t, [dtt_table EXCEPT !.filters = "null"])
          \/ dtt_table' = [dtt_table EXCEPT !.filters = "null"]
      BY <2>1, Zenon DEF Begin
    <3>2. CASE Refuse(t, [dtt_table EXCEPT !.filters = "null"])
      BY <1>2, <3>2, Forgets DEF Refuse
    <3>3. CASE dtt_table' = [dtt_table EXCEPT !.filters = "null"]
      BY <1>2, <3>3 DEF FreedForgotten, Sane, HasFilters
    <3>4. QED BY <3>1, <3>2, <3>3
  <2>2. CASE Table(t)
    <3>1. PICK r : /\ r = getc_table_wsq(decoder[t].marker, stream[t].data, decoder[t].at,
                                         dtt_table, dqt_table, dht_table)
                   /\ Refuse(t, r.dtt) \/ (r.ok /\ dtt_table' = r.dtt)
      BY <2>2, Zenon DEF Table
    <3>2. HasFilters(r.dtt) /\ (r.ok => Sane(r.dtt))
      BY <3>1, TableHeld, Zenon DEF FreedForgotten
    <3>3. CASE Refuse(t, r.dtt)
      BY <3>2, <3>3, Forgets DEF Refuse
    <3>4. CASE r.ok /\ dtt_table' = r.dtt
      BY <3>2, <3>4 DEF FreedForgotten, Sane, HasFilters
    <3>5. QED BY <3>1, <3>3, <3>4
  <2>3. CASE Frame(t)
    <3>1. Refuse(t, dtt_table) \/ \E d : Goes(t, d)
      BY <2>3, Zenon DEF Frame
    <3>2. QED BY <1>3, <1>4, <3>1
  <2>4. CASE StartData(t)
    <3>1. Refuse(t, dtt_table) \/ \E d : Goes(t, d)
      BY <2>4, Zenon DEF StartData
    <3>2. QED BY <1>3, <1>4, <3>1
  <2>5. CASE BlockHeader(t)
    <3>1. Refuse(t, dtt_table) \/ \E d : Goes(t, d)
      BY <2>5, Zenon DEF BlockHeader
    <3>2. QED BY <1>3, <1>4, <3>1
  <2>6. CASE Symbol(t)
    <3>1. (\E r : NoSymbol(t, r)) \/ (\E sym, r : Put(t, sym, r))
      BY <2>6, Zenon DEF Symbol
    <3>2. ASSUME NEW sym, NEW r, Put(t, sym, r) PROVE FreedForgotten'
      <4>1. Crash(t) \/ Refuse(t, dtt_table) \/ \E d : Goes(t, d)
        BY <3>2, Zenon DEF Put
      <4>2. QED BY <1>1, <1>3, <1>4, <4>1 DEF Crash
    <3>3. ASSUME NEW r, NoSymbol(t, r) PROVE FreedForgotten'
      <4>1. Crash(t) \/ Refuse(t, dtt_table) \/ \E d : Goes(t, d)
        BY <3>3, Zenon DEF NoSymbol
      <4>2. QED BY <1>1, <1>3, <1>4, <4>1 DEF Crash
    <3>4. QED BY <3>1, <3>2, <3>3
  <2>7. CASE Trailer(t)
    <3>1. \E d : Goes(t, d)
      BY <2>7, Zenon DEF Trailer
    <3>2. QED BY <1>4, <3>1
  <2>8. CASE Finish(t)
    <3>1. Refuse(t, dtt_table) \/ Crash(t) \/ \E out : End(t, out, dtt_table)
      BY <2>8, Zenon DEF Finish
    <3>2. QED BY <1>1, <1>2, <1>3, <3>1, Forgets DEF Crash
  <2>9. QED BY <1>6, <2>1, <2>2, <2>3, <2>4, <2>5, <2>6, <2>7, <2>8 DEF Decode
<1>7. CASE CNext
  <2>1. PICK t \in Threads :
          \/ \E img \in DOMAIN Images, text \in Comments : wsq_encode_mem(t, img, text)
          \/ DeleteComments(t)
          \/ \E text \in Added : AddComment(t, text)
          \/ \E at \in Places(t) : Remark(t, at)
          \/ \E len \in CutTo : CutShort(t, len)
          \/ Decode(t)
          \/ TakeNext(t)
    BY <1>7 DEF CNext
  <2>2. CASE \E img \in DOMAIN Images, text \in Comments : wsq_encode_mem(t, img, text)
    BY <1>1, <2>2 DEF wsq_encode_mem, globals
  <2>3. CASE DeleteComments(t) \/ \E text \in Added : AddComment(t, text)
    BY <1>1, <2>3 DEF DeleteComments, AddComment, Edit, globals
  <2>4. CASE \E at \in Places(t) : Remark(t, at)
    BY <1>1, <2>4 DEF Remark, Edit, globals
  <2>5. CASE (\E len \in CutTo : CutShort(t, len)) \/ TakeNext(t)
    BY <1>1, <2>5 DEF CutShort, TakeNext, globals
  <2>6. QED BY <1>6, <2>1, <2>2, <2>3, <2>4, <2>5
<1>8. QED BY <1>5, <1>7

(* Between the steps of the decoder no thread finds the filters freed: a   *)
(* call that fails inside the taps puts null in their place before it ends *)
(* (tableio.cpp and util.cpp of nbis/wsq).                                 *)
THEOREM FreedFiltersForgotten == CSpec => []FreedForgotten
BY ForgottenStart, ForgottenStep, PTL DEF CSpec

-----------------------------------------------------------------------------
(* The folds of the decoder.                                               *)

LEMMA SumSteps ==
  ASSUME NEW base, NEW s, NEW len \in Nat, DOMAIN s = 1..len
  PROVE  \E at : /\ at[0] = base
                 /\ \A n \in 0..(len - 1) : at[n + 1] = at[n] + s[n + 1]
                 /\ at[len] = FoldLeft(+, base, s)
<1> DEFINE op == [name |-> "add"]
           IsSum(h) == h = [t \in SUBSET (1..len) |-> IF t = {} THEN base ELSE h[t \ {Max(t)}] + s[Max(t)]]
<1>1. \A x, y : Apply(op, x, y) = x + y
  BY DEF Apply
<1> HIDE DEF op
<1>2. \A h : IsSum(h) <=> IsFold(h, op, base, s, len)
  BY <1>1 DEF IsFold
<1>3. FoldLeft(+, base, s) = (CHOOSE h : IsSum(h))[1..len]
  BY DEF FoldLeft, MapThenFoldSet
<1> DEFINE g == CHOOSE h : IsSum(h)
<1> HIDE DEF IsSum
<1>4. IsSum(g)
  BY <1>2, FoldExists, Zenon
<1> HIDE DEF g
<1>5. IsFold(g, op, base, s, len)
  BY <1>2, <1>4
<1>6. PICK at : StepByStep(at, op, base, s, len, g[1..len])
  BY <1>5, FoldSteps, Zenon
<1>7. QED BY <1>1, <1>3, <1>6 DEF g, StepByStep

(* The bits of a number, one after the other.                              *)
NumberSteps(at, data, kind, r, n) ==
  /\ at[0] = [r EXCEPT !.out = 0]
  /\ \A i \in 0..(n - 1) : at[i + 1] = NextBit(data, kind, at[i], n - i, n)

LEMMA BitSteps ==
  ASSUME NEW data, NEW kind, NEW r, NEW n \in Nat
  PROVE  \E at : NumberSteps(at, data, kind, r, n) /\ at[n] = nextbits_wsq(data, kind, r, n)
<1> DEFINE op == [name |-> "bit", data |-> data, kind |-> kind, n |-> n]
           base == [r EXCEPT !.out = 0]
           s == [i \in 1..n |-> i]
           IsBits(h) == h = [t \in SUBSET (1..n) |->
             IF t = {} THEN base ELSE NextBit(data, kind, h[t \ {Max(t)}], n + 1 - s[Max(t)], n)]
<1>1. \A x, y : Apply(op, x, y) = NextBit(data, kind, x, n + 1 - y, n)
  BY DEF Apply
<1>2. DOMAIN s = 1..n /\ \A i \in 1..n : s[i] = i
  OBVIOUS
<1>3. nextbits_wsq(data, kind, r, n) = (CHOOSE h : IsBits(h))[1..n]
  BY DEF nextbits_wsq, FoldLeft, MapThenFoldSet
<1> HIDE DEF op, s, base
<1>4. \A h : IsBits(h) <=> IsFold(h, op, base, s, n)
  BY <1>1 DEF IsFold
<1> DEFINE g == CHOOSE h : IsBits(h)
<1> HIDE DEF IsBits
<1>5. IsBits(g)
  BY <1>4, FoldExists, Zenon
<1> HIDE DEF g
<1>6. IsFold(g, op, base, s, n)
  BY <1>4, <1>5
<1>7. PICK at : StepByStep(at, op, base, s, n, g[1..n])
  BY <1>6, FoldSteps, Zenon
<1>8. ASSUME NEW i \in 0..(n - 1) PROVE at[i + 1] = NextBit(data, kind, at[i], n - i, n)
  <2>1. at[i + 1] = Apply(op, at[i], s[i + 1])
    BY <1>7 DEF StepByStep
  <2>2. s[i + 1] = i + 1 /\ n + 1 - (i + 1) = n - i
    BY <1>2
  <2>3. QED BY <1>1, <2>1, <2>2
<1>9. NumberSteps(at, data, kind, r, n)
  BY <1>7, <1>8 DEF StepByStep, NumberSteps, base
<1>10. at[n] = nextbits_wsq(data, kind, r, n)
  BY <1>3, <1>7 DEF StepByStep, g
<1>11. QED BY <1>9, <1>10

(* The bits of a code, until it is found.                                  *)
CodeSteps(at, data, kind, table, r) ==
  /\ at[0] = [r |-> [r EXCEPT !.out = 0], size |-> 0]
  /\ \A i \in 0..(MaxHuffBits - 1) : at[i + 1] = LongerCode(data, kind, table, at[i])
LostCode(table, s) ==
  IF s.r.fault = "none" /\ ~FoundCode(table, s) THEN [s EXCEPT !.r.fault = "lost"] ELSE s

LEMMA LongerSteps ==
  ASSUME NEW data, NEW kind, NEW r, NEW table
  PROVE  \E at : /\ CodeSteps(at, data, kind, table, r)
                 /\ decode_data(data, kind, r, table) = LostCode(table, at[MaxHuffBits])
<1> DEFINE n == MaxHuffBits
           op == [name |-> "longer", data |-> data, kind |-> kind, table |-> table]
           base == [r |-> [r EXCEPT !.out = 0], size |-> 0]
           s == [i \in 1..n |-> i]
           IsCode(h) == h = [t \in SUBSET (1..n) |->
             IF t = {} THEN base ELSE LongerCode(data, kind, table, h[t \ {Max(t)}])]
<1>1. \A x, y : Apply(op, x, y) = LongerCode(data, kind, table, x)
  BY DEF Apply
<1>2. n \in Nat /\ DOMAIN s = 1..n
  BY MaxHuffBitsOK
<1>3. decode_data(data, kind, r, table) = LostCode(table, (CHOOSE h : IsCode(h))[1..n])
  <2>1. decode_data(data, kind, r, table) = LostCode(table, FoldLeft(LAMBDA x, i : LongerCode(data, kind, table, x), base, s))
    BY Zenon DEF decode_data, LostCode, LongerCode, FoundCode
  <2>2. FoldLeft(LAMBDA x, i : LongerCode(data, kind, table, x), base, s) = (CHOOSE h : IsCode(h))[1..n]
    BY <1>2 DEF FoldLeft, MapThenFoldSet
  <2>3. QED BY <2>1, <2>2
<1> HIDE DEF op, s, base
<1>4. \A h : IsCode(h) <=> IsFold(h, op, base, s, n)
  BY <1>1 DEF IsFold
<1> DEFINE g == CHOOSE h : IsCode(h)
<1> HIDE DEF IsCode, n
<1>5. IsCode(g)
  BY <1>4, <1>2, FoldExists, Zenon
<1> HIDE DEF g
<1>6. IsFold(g, op, base, s, n)
  BY <1>4, <1>5
<1>7. PICK at : StepByStep(at, op, base, s, n, g[1..n])
  BY <1>2, <1>6, FoldSteps, Zenon
<1>8. CodeSteps(at, data, kind, table, r)
  BY <1>1, <1>7 DEF StepByStep, CodeSteps, base, n
<1>9. at[n] = g[1..n]
  BY <1>7 DEF StepByStep
<1>10. QED BY <1>3, <1>8, <1>9 DEF g, n

-----------------------------------------------------------------------------
(* The tables.                                                             *)

CodesUpto(bits, l) == FoldLeft(+, 0, SubSeq(bits, 1, l))

LEMMA UptoIs ==
  ASSUME NEW q, NEW c, NEW bits \in Seq(Int), Tally(q, c, bits, MaxHuffBits),
         Len(bits) >= MaxHuffBits, NEW l \in 0..MaxHuffBits
  PROVE  CodesUpto(bits, l) = c[l]
<1> DEFINE s == SubSeq(bits, 1, l)
<1>1. l \in Nat /\ l <= Len(bits) /\ MaxHuffBits \in Nat
  BY MaxHuffBitsOK
<1>2. DOMAIN s = 1..l /\ \A i \in 1..l : s[i] = bits[i]
  <2>1. s = [i \in 1..l |-> bits[i]]
    BY <1>1
  <2>2. QED BY <2>1
<1> HIDE DEF s
<1>3. PICK at : /\ at[0] = 0
                /\ \A i \in 0..(l - 1) : at[i + 1] = at[i] + s[i + 1]
                /\ at[l] = FoldLeft(+, 0, s)
  BY <1>1, <1>2, SumSteps
<1> DEFINE T == {i \in Nat : i <= l => at[i] = c[i]}
<1>4. 0 \in T
  BY <1>3 DEF Tally
<1>5. ASSUME NEW i \in T PROVE i + 1 \in T
  <2>1. SUFFICES ASSUME i + 1 <= l PROVE at[i + 1] = c[i + 1]
    OBVIOUS
  <2>2. i \in Nat /\ i \in 0..(l - 1) /\ i + 1 \in 1..l /\ i + 1 \in 1..MaxHuffBits /\ at[i] = c[i]
        /\ (i + 1) - 1 = i
    BY <1>1, <2>1
  <2>3. at[i + 1] = c[i] + bits[i + 1]
    BY <1>2, <1>3, <2>2
  <2>4. c[i + 1] = c[i] + bits[i + 1]
    BY <2>2 DEF Tally
  <2>5. QED BY <2>3, <2>4
<1>6. T \in SUBSET Nat
  OBVIOUS
<1> HIDE DEF T
<1>7. T = Nat
  BY <1>4, <1>5, <1>6, SetInduction
<1>8. at[l] = c[l]
  BY <1>1, <1>7 DEF T
<1>9. CodesUpto(bits, l) = at[l]
  BY <1>3, Zenon DEF CodesUpto, s
<1>10. QED BY <1>8, <1>9

(* A code of K codes as the stream holds it.                               *)
Held(bits, q, c) ==
  /\ bits \in Seq(Int) /\ Len(bits) = MaxHuffBits
  /\ \A i \in 1..MaxHuffBits : bits[i] >= 0
  /\ Roomy(bits, q, c)

(* The greatest code of size l, the least, and the place before it.        *)
LEMMA TableIs ==
  ASSUME NEW bits, NEW q, NEW c, Held(bits, q, c), NEW l \in 1..MaxHuffBits,
         NEW table, table = gen_decode_table(bits)
  PROVE  /\ bits[l] = 0 => table.maxcode[l] = -1
         /\ bits[l] # 0 => /\ table.maxcode[l] = q[l] - 1
                           /\ table.mincode[l] = 2 * q[l - 1]
                           /\ table.valptr[l] = c[l - 1]
<1> DEFINE n == MaxHuffBits
           sizes == build_huffsizes(bits)
           codes == build_huffcodes(sizes)
           Sum1(k) == CodesUpto(bits, k)
<1>1. n \in Nat /\ l - 1 \in 0..n /\ l \in 0..n /\ n \in 0..n
  BY MaxHuffBitsOK
<1>2. Tally(q, c, bits, n) /\ bits \in Seq(Int) /\ Len(bits) = n
  BY DEF Held, Roomy
<1>3. \A i \in 1..n : bits[i] \in Int /\ bits[i] >= 0
  BY <1>1, <1>2 DEF Held
<1>4. Placed(sizes, c) /\ \A i \in DOMAIN sizes : codes[i] = CodeOf(sizes, q, c, i)
  BY <1>3, CodesAre DEF Held
<1>5. Sum1(l) = c[l] /\ Sum1(l - 1) = c[l - 1]
  BY <1>1, <1>2, UptoIs
<1>6. /\ table.maxcode = [k \in 1..n |-> IF bits[k] = 0 THEN -1 ELSE codes[Sum1(k)]]
      /\ table.mincode = [k \in 1..n |-> IF bits[k] = 0 THEN 0 ELSE codes[Sum1(k - 1) + 1]]
      /\ table.valptr = [k \in 1..n |-> IF bits[k] = 0 THEN 0 ELSE Sum1(k - 1)]
  <2>1. gen_decode_table(bits) =
          [maxcode |-> [k \in 1..n |-> IF bits[k] = 0 THEN -1 ELSE codes[Sum1(k)]],
           mincode |-> [k \in 1..n |-> IF bits[k] = 0 THEN 0 ELSE codes[Sum1(k - 1) + 1]],
           valptr |-> [k \in 1..n |-> IF bits[k] = 0 THEN 0 ELSE Sum1(k - 1)]]
    BY Zenon DEF gen_decode_table, CodesUpto
  <2> HIDE DEF sizes, codes, n, Sum1
  <2>2. QED BY <2>1
<1> HIDE DEF Sum1, codes
<1>7. /\ table.maxcode[l] = IF bits[l] = 0 THEN -1 ELSE codes[c[l]]
      /\ table.mincode[l] = IF bits[l] = 0 THEN 0 ELSE codes[c[l - 1] + 1]
      /\ table.valptr[l] = IF bits[l] = 0 THEN 0 ELSE c[l - 1]
  BY <1>5, <1>6
<1> HIDE DEF sizes
<1>8. ASSUME bits[l] # 0
      PROVE  codes[c[l]] = q[l] - 1 /\ codes[c[l - 1] + 1] = 2 * q[l - 1]
  <2>1. c[l] = c[l - 1] + bits[l] /\ q[l] = 2 * q[l - 1] + bits[l] /\ bits[l] \in Int /\ bits[l] >= 1
    BY <1>2, <1>3, <1>8 DEF Tally
  <2>2. Sequenced(SizeRuns(bits), n, Nat) /\ Offsets(c, SizeRuns(bits), n)
    BY <1>2, <1>3, TallyOffsets
  <2>3. \A i \in 0..n : c[i] \in Nat /\ q[i] \in Int
    BY <1>2, <2>2 DEF Offsets, Tally
  <2>4. c[l] <= c[n] /\ c[l] \in Nat /\ c[l - 1] \in Nat /\ c[n] \in Nat /\ q[l] \in Int /\ q[l - 1] \in Int
    <3>1. l <= n
      BY <1>1
    <3> HIDE DEF n
    <3>2. QED BY <1>1, <2>2, <2>3, <3>1, Rising
  <2>5. ASSUME NEW i \in Nat, c[l - 1] < i, i <= c[l] PROVE i \in DOMAIN sizes /\ sizes[i] = l
    <3>1. i \in DOMAIN sizes
      BY <1>4, <2>4, <2>5 DEF Placed
    <3>2. sizes[i] \in 1..n /\ c[sizes[i] - 1] < i /\ i <= c[sizes[i]]
      BY <1>4, <3>1 DEF Placed
    <3>3. Piece(c, n, i) = sizes[i]
      <4> HIDE DEF n
      <4>1. QED BY <1>1, <2>2, <3>2, PieceIs
    <3>4. Piece(c, n, i) = l
      <4>1. l \in 1..n /\ i \in Int
        BY <2>5
      <4> HIDE DEF n
      <4>2. QED BY <1>1, <2>2, <2>5, <4>1, PieceIs
    <3>5. QED BY <3>1, <3>3, <3>4
  <2>6. c[l] \in DOMAIN sizes /\ sizes[c[l]] = l
    BY <2>1, <2>4, <2>5
  <2>7. c[l - 1] + 1 \in DOMAIN sizes /\ sizes[c[l - 1] + 1] = l
    BY <2>1, <2>4, <2>5
  <2>8. codes[c[l]] = 2 * q[l - 1] + (c[l] - c[l - 1]) - 1
    BY <1>4, <2>6 DEF CodeOf
  <2>9. codes[c[l - 1] + 1] = 2 * q[l - 1] + ((c[l - 1] + 1) - c[l - 1]) - 1
    BY <1>4, <2>7 DEF CodeOf
  <2>10. QED BY <2>1, <2>4, <2>8, <2>9
<1>9. QED BY <1>7, <1>8

(* Whatever the codes of the sizes after p, they start above those of p.   *)
LEMMA StartsAbove ==
  ASSUME NEW bits, NEW q, NEW c, Held(bits, q, c),
         NEW p \in 0..MaxHuffBits, NEW k \in 0..MaxHuffBits, p <= k
  PROVE  q[k] >= q[p] * 2^(k - p) /\ q[k] >= 0 /\ q[k] \in Int
<1> DEFINE n == MaxHuffBits
           T == {m \in Nat : p + m <= n => q[p + m] >= q[p] * 2^m}
           P == {m \in Nat : m <= n => q[m] >= 0}
<1>1. n \in Nat /\ Tally(q, c, bits, n) /\ \A i \in 1..n : bits[i] \in Int /\ bits[i] >= 0
  BY MaxHuffBitsOK DEF Held, Roomy
<1>2. q[p] \in Int
  BY <1>1 DEF Tally
<1> HIDE DEF n
<1>3. 0 \in T
  <2>1. 2^0 = 1 /\ p + 0 = p
    BY Powers
  <2>2. QED BY <1>2, <2>1
<1>4. ASSUME NEW m \in T PROVE m + 1 \in T
  <2>1. SUFFICES ASSUME p + (m + 1) <= n PROVE q[p + (m + 1)] >= q[p] * 2^(m + 1)
    OBVIOUS
  <2>2. /\ m \in Nat /\ p + (m + 1) \in 1..n /\ (p + (m + 1)) - 1 = p + m
        /\ p + m \in 0..n /\ q[p + m] >= q[p] * 2^m
    BY <1>1, <2>1
  <2>3. /\ q[p + (m + 1)] = 2 * q[p + m] + bits[p + (m + 1)] /\ q[p + m] \in Int
        /\ bits[p + (m + 1)] \in Int /\ bits[p + (m + 1)] >= 0
    BY <1>1, <2>2 DEF Tally
  <2>4. 2^(m + 1) = 2 * 2^m /\ 2^m \in Nat
    BY <2>2, Powers
  <2>5. \A x \in Int, y \in Nat : x * (2 * y) = 2 * (x * y) /\ x * y \in Int
    OBVIOUS
  <2>6. q[p] * 2^(m + 1) = 2 * (q[p] * 2^m) /\ q[p] * 2^m \in Int
    BY <1>2, <2>4, <2>5
  <2>7. QED BY <2>2, <2>3, <2>6
<1>5. 0 \in P
  BY <1>1 DEF Tally
<1>6. ASSUME NEW m \in P PROVE m + 1 \in P
  <2>1. SUFFICES ASSUME m + 1 <= n PROVE q[m + 1] >= 0
    OBVIOUS
  <2>2. m \in Nat /\ m + 1 \in 1..n /\ (m + 1) - 1 = m /\ m \in 0..n /\ q[m] >= 0
    BY <1>1, <2>1
  <2>3. q[m + 1] = 2 * q[m] + bits[m + 1] /\ q[m] \in Int /\ bits[m + 1] \in Int /\ bits[m + 1] >= 0
    BY <1>1, <2>2 DEF Tally
  <2>4. QED BY <2>2, <2>3
<1>7. T \in SUBSET Nat /\ P \in SUBSET Nat
  OBVIOUS
<1> HIDE DEF T, P
<1>8. T = Nat /\ P = Nat
  BY <1>3, <1>4, <1>5, <1>6, <1>7, SetInduction
<1>9. k - p \in Nat /\ p + (k - p) = k /\ k \in Nat /\ k <= n /\ k \in 0..n
  BY <1>1 DEF n
<1>10. p + (k - p) <= n => q[p + (k - p)] >= q[p] * 2^(k - p)
  BY <1>8, <1>9 DEF T
<1>11. q[k] >= 0 /\ q[k] \in Int
  BY <1>1, <1>8, <1>9 DEF P, Tally
<1>12. QED BY <1>9, <1>10, <1>11

LEMMA Quotients ==
  /\ \A x, a \in Nat, m \in Nat \ {0} : x >= a * m => x \div m >= a
  /\ \A x \in Nat, m \in Nat \ {0} : x < m => x \div m = 0
  /\ \A x \in Nat : x \div 1 = x
  /\ \A x \in Nat, m \in Nat \ {0} :
       /\ x \div m \in Nat /\ x \div (2 * m) \in Nat
       /\ x \div m = 2 * (x \div (2 * m)) + ((x \div m) % 2)
<1>1. \A x \in Nat, m \in Nat \ {0} :
        x \div m \in Nat /\ m * (x \div m) <= x /\ x < m * (x \div m) + m
  OBVIOUS
<1>2. ASSUME NEW x \in Nat, NEW a \in Nat, NEW m \in Nat \ {0}, x >= a * m PROVE x \div m >= a
  <2> DEFINE d == x \div m
  <2>1. d \in Nat /\ x < m * d + m
    BY <1>1
  <2> HIDE DEF d
  <2>2. CASE d < a
    <3>1. a - (d + 1) \in Nat
      BY <2>1, <2>2
    <3>2. m * (d + 1) <= m * (d + 1) + m * (a - (d + 1))
      BY <2>1, <3>1
    <3>3. m * (d + 1) = m * d + m /\ m * (d + 1) + m * (a - (d + 1)) = a * m
      BY <2>1, <3>1
    <3>4. m * d + m \in Int /\ a * m \in Int
      BY <2>1
    <3>5. QED BY <1>2, <2>1, <3>2, <3>3, <3>4
  <2>3. QED BY <2>1, <2>2 DEF d
<1>3. ASSUME NEW x \in Nat, NEW m \in Nat \ {0}, x < m PROVE x \div m = 0
  BY <1>3
<1>4. \A x \in Nat : x \div 1 = x
  OBVIOUS
<1>5. ASSUME NEW x \in Nat, NEW m \in Nat \ {0}
      PROVE  x \div (2 * m) = (x \div m) \div 2
  <2> DEFINE d == x \div m
             h == d \div 2
  <2>1. d \in Nat /\ m * d <= x /\ x < m * d + m
    BY <1>1
  <2> HIDE DEF d
  <2>2. h \in Nat /\ 2 * h <= d /\ d <= 2 * h + 1
    BY <2>1
  <2> HIDE DEF h
  <2>3. (2 * m) * h <= m * d /\ m * d + m <= (2 * m) * h + 2 * m
    <3>1. d - 2 * h \in Nat /\ 2 * h + 1 - d \in Nat
      BY <2>1, <2>2
    <3>2. m * (d - 2 * h) >= 0 /\ m * (2 * h + 1 - d) >= 0
      BY <3>1
    <3>3. m * (d - 2 * h) = m * d - (2 * m) * h /\ m * (2 * h + 1 - d) = (2 * m) * h + m - m * d
      BY <2>1, <2>2
    <3>4. m * d \in Int /\ (2 * m) * h \in Int
      BY <2>1, <2>2
    <3>5. QED BY <3>2, <3>3, <3>4
  <2>4. (2 * m) * h <= x /\ x < (2 * m) * h + 2 * m
    <3>1. m * d \in Int /\ (2 * m) * h \in Int
      BY <2>1, <2>2
    <3>2. QED BY <2>1, <2>3, <3>1
  <2>5. 2 * m \in Nat \ {0}
    OBVIOUS
  <2>6. \A M \in Nat \ {0} : M * h <= x /\ x < M * h + M => x \div M = h
    BY <2>2
  <2>7. x \div (2 * m) = h
    BY <2>4, <2>5, <2>6
  <2>8. QED BY <2>7 DEF d, h
<1>6. ASSUME NEW x \in Nat, NEW m \in Nat \ {0}
      PROVE  /\ x \div m \in Nat /\ x \div (2 * m) \in Nat
             /\ x \div m = 2 * (x \div (2 * m)) + ((x \div m) % 2)
  <2> DEFINE d == x \div m
  <2>1. d \in Nat
    BY <1>1
  <2> HIDE DEF d
  <2>2. d = 2 * (d \div 2) + (d % 2) /\ d \div 2 \in Nat
    BY <2>1
  <2>3. x \div (2 * m) = d \div 2
    BY <1>5 DEF d
  <2>4. QED BY <2>1, <2>2, <2>3 DEF d
<1>7. QED BY <1>2, <1>3, <1>4, <1>6

(* No code of size p is found in the number v.                             *)
Above(table, p, v) == ~(v <= table.maxcode[p])

(* A code is found when its last bit is read, and at its own place.        *)
LEMMA CodeFound ==
  ASSUME NEW bits, NEW q, NEW c, Held(bits, q, c),
         NEW table, table = gen_decode_table(bits),
         NEW sizes, sizes = build_huffsizes(bits), NEW i \in DOMAIN sizes,
         NEW w, w = build_huffcodes(sizes)[i], NEW size, size = sizes[i]
  PROVE  /\ size \in 1..MaxHuffBits /\ w \in Nat /\ w < 2^size
         /\ \A p \in 1..(size - 1) : Above(table, p, w \div 2^(size - p))
         /\ w <= table.maxcode[size]
         /\ table.valptr[size] + w - table.mincode[size] + 1 = i
<1> DEFINE n == MaxHuffBits
<1>1. n \in Nat /\ Tally(q, c, bits, n) /\ \A l \in 1..n : bits[l] \in Int /\ bits[l] >= 0
  BY MaxHuffBitsOK DEF Held, Roomy
<1>2. Placed(sizes, c) /\ w = CodeOf(sizes, q, c, i) /\ Roomy(bits, q, c)
  BY <1>1, CodesAre DEF Held
<1>3. w \in Nat /\ w + 1 < 2^size
  BY <1>1, <1>2, CodesFit
<1>4. size \in 1..n /\ c[size - 1] < i /\ i <= c[size] /\ i \in Nat
  BY <1>2 DEF Placed
<1>5. w = 2 * q[size - 1] + (i - c[size - 1]) - 1
  BY <1>2 DEF CodeOf
<1> HIDE DEF n
<1>6. size \in Nat /\ size - 1 \in 0..n /\ size \in 0..n /\ size \in 1..n
  BY <1>1, <1>4
<1>7. /\ q[size] = 2 * q[size - 1] + bits[size] /\ c[size] = c[size - 1] + bits[size]
      /\ q[size] \in Int /\ q[size - 1] \in Int /\ c[size] \in Int /\ c[size - 1] \in Int
      /\ bits[size] \in Int /\ bits[size] >= 0
  BY <1>1, <1>6 DEF Tally
<1>8. bits[size] # 0
  BY <1>4, <1>7
<1>9. /\ table.maxcode[size] = q[size] - 1 /\ table.mincode[size] = 2 * q[size - 1]
      /\ table.valptr[size] = c[size - 1]
  BY <1>6, <1>8, TableIs DEF n
<1>10. w <= table.maxcode[size] /\ table.valptr[size] + w - table.mincode[size] + 1 = i
  BY <1>4, <1>5, <1>7, <1>9
<1>11. ASSUME NEW p \in 1..(size - 1) PROVE Above(table, p, w \div 2^(size - p))
  <2>1. p \in 1..n /\ p \in 0..n /\ p <= size - 1 /\ (size - 1) - p \in Nat
        /\ size - p = ((size - 1) - p) + 1 /\ size - p \in Nat
    BY <1>1, <1>6
  <2>2. q[size - 1] >= q[p] * 2^((size - 1) - p) /\ q[p] >= 0 /\ q[p] \in Int
    BY <1>6, <2>1, StartsAbove DEF n
  <2>3. 2^(size - p) = 2 * 2^((size - 1) - p) /\ 2^((size - 1) - p) \in Nat /\ 2^((size - 1) - p) >= 1
    BY <2>1, Powers
  <2>4. \A x \in Int, y \in Nat : x * (2 * y) = 2 * (x * y) /\ x * y \in Int
    OBVIOUS
  <2>5. q[p] * 2^(size - p) = 2 * (q[p] * 2^((size - 1) - p)) /\ q[p] * 2^((size - 1) - p) \in Int
    BY <2>2, <2>3, <2>4
  <2>6. w >= q[p] * 2^(size - p)
    BY <1>3, <1>4, <1>5, <1>7, <2>2, <2>5
  <2>7. w \div 2^(size - p) >= q[p] /\ w \div 2^(size - p) \in Nat
    <3>1. 2^(size - p) \in Nat \ {0} /\ q[p] \in Nat
      BY <2>2, <2>3
    <3>2. QED BY <1>3, <2>6, <3>1, Quotients
  <2>8. table.maxcode[p] = -1 \/ table.maxcode[p] = q[p] - 1
    BY <2>1, TableIs DEF n
  <2>9. QED BY <2>2, <2>7, <2>8 DEF Above
<1>12. w < 2^size
  BY <1>3, <1>6, Powers
<1>13. QED BY <1>3, <1>4, <1>10, <1>11, <1>12 DEF n

(* Ones only are no code of any size.                                      *)
LEMMA OnesAbove ==
  ASSUME NEW bits, NEW q, NEW c, Held(bits, q, c),
         NEW table, table = gen_decode_table(bits), NEW p \in 1..MaxHuffBits
  PROVE  Above(table, p, 2^p - 1)
<1>1. p \in Nat /\ p \in 0..MaxHuffBits
  BY MaxHuffBitsOK
<1>2. 2^p \in Nat /\ 2^p >= 1
  BY <1>1, Powers
<1>3. q[p] < 2^p /\ q[p] \in Int
  BY <1>1 DEF Held, Roomy, Tally
<1>4. table.maxcode[p] = -1 \/ table.maxcode[p] = q[p] - 1
  BY TableIs
<1>5. QED BY <1>2, <1>3, <1>4 DEF Above

(* The symbols, each at its rank.                                          *)
LEMMA Ranked ==
  ASSUME NEW size, NEW D \in SUBSET Nat, NEW d, Complete(size, D, d),
         NEW x \in D \ {Reserved}
  PROVE  /\ DOMAIN sort_code_sizes(size) = 1..Cardinality(D \ {Reserved})
         /\ \E i \in 1..Cardinality(D \ {Reserved}) : sort_code_sizes(size)[i] = x
<1> DEFINE coded == {s \in DOMAIN size \ {Reserved} : size[s] > 0}
           R(s) == {o \in coded : size[o] < size[s] \/ (size[o] = size[s] /\ o <= s)}
           Rank(s) == Cardinality(R(s))
           m == Cardinality(coded)
           values == [r \in 1..m |-> CHOOSE s \in coded : Rank(s) = r]
<1>1. IsFiniteSet(D) /\ size \in [D -> Nat] /\ \A s \in D \ {Reserved} : size[s] >= 1
  BY DEF Complete
<1>2. coded = D \ {Reserved}
  <2>1. DOMAIN size = D /\ \A s \in D \ {Reserved} : size[s] > 0
    BY <1>1
  <2>2. QED BY <2>1
<1>3. sort_code_sizes(size) = values
  BY DEF sort_code_sizes
<1>4. IsFiniteSet(coded) /\ x \in coded /\ \A s \in coded : s \in Nat /\ size[s] \in Nat
  <2>1. IsFiniteSet(D \ {Reserved})
    BY <1>1, FS_Subset
  <2>2. QED BY <1>1, <1>2, <2>1
<1>5. ASSUME NEW s \in coded PROVE R(s) \in SUBSET coded /\ IsFiniteSet(R(s)) /\ Rank(s) \in 1..m /\ Rank(s) \in Int
  <2>1. R(s) \in SUBSET coded /\ s \in R(s)
    BY <1>4
  <2> HIDE DEF R, coded
  <2>2. IsFiniteSet(R(s)) /\ Rank(s) <= m /\ Rank(s) \in Nat /\ m \in Nat
    BY <1>4, <2>1, FS_Subset, FS_CardinalityType
  <2>3. Rank(s) # 0
    BY <2>1, <2>2, FS_EmptySet
  <2>4. Rank(s) \in 1..m /\ Rank(s) \in Int
    BY <2>2, <2>3
  <2>5. QED BY <2>1, <2>2, <2>4
<1>6. ASSUME NEW s \in coded, NEW t \in coded, size[s] < size[t] \/ (size[s] = size[t] /\ s < t)
      PROVE  Rank(s) < Rank(t)
  <2>1. R(s) \in SUBSET R(t) /\ t \in R(t) /\ t \notin R(s)
    BY <1>4, <1>6
  <2>2. IsFiniteSet(R(t)) /\ IsFiniteSet(R(s)) /\ Rank(s) \in Int /\ Rank(t) \in Int
    BY <1>5
  <2> HIDE DEF R
  <2>3. Rank(s) <= Rank(t) /\ Rank(s) # Rank(t)
    BY <2>1, <2>2, FS_Subset
  <2> HIDE DEF Rank
  <2>4. QED BY <2>2, <2>3
<1>7. ASSUME NEW s \in coded, Rank(s) = Rank(x) PROVE s = x
  <2>1. Rank(s) \in Int /\ Rank(x) \in Int
    BY <1>4, <1>5
  <2>2. ~(Rank(s) < Rank(x)) /\ ~(Rank(x) < Rank(s))
    <3> HIDE DEF Rank
    <3>1. QED BY <1>7, <2>1
  <2> HIDE DEF Rank, R, coded
  <2>3. \/ s = x
        \/ size[s] < size[x] \/ (size[s] = size[x] /\ s < x)
        \/ size[x] < size[s] \/ (size[x] = size[s] /\ x < s)
    BY <1>4
  <2>4. QED BY <1>4, <1>6, <2>2, <2>3
<1>8. Rank(x) \in 1..m /\ values[Rank(x)] = x
  <2>1. Rank(x) \in 1..m
    BY <1>4, <1>5
  <2>2. values[Rank(x)] = CHOOSE s \in coded : Rank(s) = Rank(x)
    BY <2>1
  <2> HIDE DEF Rank, R, coded, values
  <2>3. QED BY <1>4, <1>7, <2>1, <2>2
<1>9. DOMAIN values = 1..m
  OBVIOUS
<1> HIDE DEF values, Rank, R
<1>10. QED BY <1>2, <1>3, <1>8, <1>9

(* The stream holds the numbers of the codes up to MaxHuffBits.            *)
LEMMA CutBits ==
  ASSUME NEW bits, NEW K, Prefixed(bits, K), NEW cut, cut = SubSeq(bits, 1, MaxHuffBits)
  PROVE  /\ \E q, c : Held(cut, q, c) /\ c[MaxHuffBits] = K
         /\ build_huffsizes(cut) = build_huffsizes(bits)
<1> DEFINE n == MaxHuffBits
<1>1. n \in Nat /\ Longer \in Nat /\ n <= Longer
  BY MaxHuffBitsOK DEF Longer
<1>2. bits \in [1..Longer -> Int] /\ \A i \in 1..n : bits[i] >= 0
  BY DEF Prefixed
<1>3. bits \in Seq(Int) /\ Len(bits) = Longer
  <2>1. \A N \in Nat : \A f \in [1..N -> Int] : f \in Seq(Int) /\ Len(f) = N
    OBVIOUS
  <2>2. QED BY <1>1, <1>2, <2>1
<1>4. cut \in Seq(Int) /\ Len(cut) = n /\ \A i \in 1..n : cut[i] = bits[i]
  <2>1. cut = [i \in 1..n |-> bits[i]]
    BY <1>1, <1>3
  <2>2. \A i \in 1..n : bits[i] \in Int
    BY <1>1, <1>2
  <2>3. cut \in [1..n -> Int]
    BY <2>1, <2>2
  <2>4. \A N \in Nat : \A f \in [1..N -> Int] : f \in Seq(Int) /\ Len(f) = N
    OBVIOUS
  <2>5. \A i \in 1..n : cut[i] = bits[i]
    BY <2>1
  <2> HIDE DEF n
  <2>6. cut \in Seq(Int) /\ Len(cut) = n
    BY <1>1, <2>3, <2>4
  <2>7. QED BY <2>5, <2>6
<1>5. PICK q, c : Roomy(bits, q, c) /\ c[n] = K
  BY DEF Prefixed
<1>6. Held(cut, q, c)
  <2>1. Roomy(cut, q, c)
    BY <1>4, <1>5 DEF Roomy, Tally
  <2>2. \A i \in 1..n : cut[i] >= 0
    BY <1>2, <1>4
  <2>3. QED BY <1>4, <2>1, <2>2 DEF Held
<1>7. build_huffsizes(cut) = build_huffsizes(bits)
  <2>1. [l \in 1..n |-> [i \in 1..cut[l] |-> l]] = [l \in 1..n |-> [i \in 1..bits[l] |-> l]]
    BY <1>4
  <2>2. QED BY <2>1, Zenon DEF build_huffsizes
<1>8. QED BY <1>5, <1>6, <1>7

(* A word of a code as it is read: found at its size, and as its symbol.   *)
ReadsBack(table, symbols, w, s) ==
  LET place == table.valptr[w.size] + w.code - table.mincode[w.size] + 1
  IN  /\ w.size \in 1..MaxHuffBits /\ w.code \in Nat /\ w.code < 2^w.size
      /\ \A p \in 1..(w.size - 1) : Above(table, p, w.code \div 2^(w.size - p))
      /\ w.code <= table.maxcode[w.size]
      /\ place \in DOMAIN symbols /\ symbols[place] = s

LEMMA WordsReadBack ==
  ASSUME NEW size, NEW D \in SUBSET Nat, NEW d, Complete(size, D, d),
         NEW K, K = Cardinality(D \ {Reserved}), Prefixed(Limited(size), K),
         NEW huff, huff = HuffTable(Limited(size), sort_code_sizes(size)),
         NEW s \in D \ {Reserved}
  PROVE  ReadsBack(gen_decode_table(huff.bits), huff.values, huff.codes[s], s)
<1> DEFINE n == MaxHuffBits
           bits == Limited(size)
           symbols == sort_code_sizes(size)
           sizes == build_huffsizes(bits)
           cut == SubSeq(bits, 1, n)
           codes == build_huffcodes(sizes)
           Spot(x) == CHOOSE i \in DOMAIN sizes : symbols[i] = x
           table == gen_decode_table(cut)
<1>1. /\ DOMAIN symbols = 1..K /\ \E i \in 1..K : symbols[i] = s
  BY Ranked
<1> HIDE DEF bits, symbols
<1>2. /\ huff.bits = cut /\ huff.values = symbols
      /\ huff.codes = [x \in ToSet(symbols) |-> [code |-> codes[Spot(x)], size |-> sizes[Spot(x)]]]
  <2>1. huff = HuffTable(bits, symbols)
    BY DEF bits, symbols
  <2>2. huff = [ok |-> check_huffcodes_wsq(sizes), bits |-> cut, values |-> symbols,
                codes |-> build_huffcode_table(sizes, symbols)]
    BY <2>1, Zenon DEF HuffTable
  <2>3. build_huffcode_table(sizes, symbols)
          = [x \in ToSet(symbols) |-> [code |-> codes[Spot(x)], size |-> sizes[Spot(x)]]]
    BY Zenon DEF build_huffcode_table
  <2> HIDE DEF sizes, cut, codes, Spot
  <2>4. QED BY <2>2, <2>3
<1>3. PICK q, c : Held(cut, q, c) /\ c[n] = K
  BY CutBits DEF bits
<1>4. sizes = build_huffsizes(cut)
  BY CutBits DEF bits
<1>5. \A i \in 1..n : cut[i] \in Int /\ cut[i] >= 0
  BY <1>3 DEF Held
<1> HIDE DEF cut, sizes, codes
<1>6. DOMAIN sizes = 1..K
  <2>1. Placed(sizes, c)
    BY <1>3, <1>4, <1>5, CodesAre DEF Held
  <2>2. QED BY <1>3, <2>1 DEF Placed
<1> DEFINE i == Spot(s)
<1>7. i \in DOMAIN sizes /\ symbols[i] = s
  BY <1>1, <1>6
<1>8. s \in ToSet(symbols)
  <2>1. i \in DOMAIN symbols /\ symbols[i] = s
    BY <1>1, <1>6, <1>7
  <2> HIDE DEF i
  <2>2. QED BY <2>1 DEF ToSet
<1>9. huff.codes[s] = [code |-> codes[i], size |-> sizes[i]]
  BY <1>2, <1>8
<1> HIDE DEF i, Spot
<1> DEFINE w == huff.codes[s]
<1>10. w.code = codes[i] /\ w.size = sizes[i]
  BY <1>9
<1> HIDE DEF w, table
<1>11. /\ w.size \in 1..n /\ w.code \in Nat /\ w.code < 2^w.size
       /\ \A p \in 1..(w.size - 1) : Above(table, p, w.code \div 2^(w.size - p))
       /\ w.code <= table.maxcode[w.size]
       /\ table.valptr[w.size] + w.code - table.mincode[w.size] + 1 = i
  BY <1>3, <1>4, <1>7, <1>10, CodeFound DEF codes, table
<1>12. i \in DOMAIN symbols /\ symbols[i] = s
  BY <1>1, <1>6, <1>7
<1>13. ReadsBack(table, symbols, w, s)
  BY <1>11, <1>12 DEF ReadsBack
<1>14. QED BY <1>2, <1>13 DEF w, table

(* Whatever the symbols of a block and however often each occurs, the      *)
(* decoder's tables (gen_decode_table), made from nothing but the numbers  *)
(* of codes of each size in the stream, find the code of each symbol that  *)
(* gen_hufftable_wsq has given it: no shorter part of it is taken for a    *)
(* code, and the place it leads to in the values is that of the symbol.    *)
THEOREM CodesReadBack ==
  ASSUME NEW tokens \in Seq(TokenSet), Len(tokens) + 1 < Fibonacci[Longer + 3],
         NEW huff, huff = gen_hufftable_wsq(tokens), NEW i \in DOMAIN tokens
  PROVE  ReadsBack(gen_decode_table(huff.bits), huff.values, huff.codes[tokens[i].sym], tokens[i].sym)
<1> DEFINE counts == count_block(tokens)
           D == DOMAIN counts
           size == find_huff_sizes(counts)
           s == tokens[i].sym
<1>1. size[Reserved] <= Longer
  BY FewSymbols
<1>2. /\ Complete(size, D, size[Reserved]) /\ Prefixed(Limited(size), Cardinality(D \ {Reserved}))
      /\ huff = HuffTable(Limited(size), sort_code_sizes(size))
  BY <1>1, TableCode
<1>3. Tallied(counts)
  BY CountsOk
<1>4. s \in D \ {Reserved}
  <2>1. D = {tokens[k].sym : k \in DOMAIN tokens} \cup {Reserved}
    BY Stricted DEF count_block
  <2>2. tokens[i] \in TokenSet
    OBVIOUS
  <2>3. s \in 1..254
    BY <2>2 DEF TokenSet
  <2>4. s # Reserved
    <3>1. \A x \in 1..254 : x # Reserved
      BY DEF Reserved
    <3> HIDE DEF s
    <3>2. QED BY <2>3, <3>1
  <2> HIDE DEF D
  <2>5. s \in D
    BY <2>1
  <2> HIDE DEF s
  <2>6. QED BY <2>4, <2>5
<1>5. D \in SUBSET Nat
  <2>1. D \ {Reserved} \in SUBSET (1..254) /\ Reserved \in Nat
    BY <1>3 DEF Tallied, Reserved
  <2> HIDE DEF D
  <2>2. ASSUME NEW x \in D PROVE x \in Nat
    <3>1. x \in D \ {Reserved} \/ x = Reserved
      OBVIOUS
    <3>2. \A y \in 1..254 : y \in Nat
      OBVIOUS
    <3>3. QED BY <2>1, <3>1, <3>2
  <2>3. QED BY <2>2
<1> HIDE DEF D, size, s
<1>6. QED BY <1>2, <1>4, <1>5, WordsReadBack DEF s

-----------------------------------------------------------------------------
(* The bits of a byte.                                                     *)

LEMMA BytePowers ==
  /\ 2^0 = 1 /\ 2^1 = 2 /\ 2^2 = 4 /\ 2^3 = 8 /\ 2^4 = 16
  /\ 2^5 = 32 /\ 2^6 = 64 /\ 2^7 = 128 /\ 2^8 = 256
<1>1. 2^0 = 1 /\ \A n \in Nat : 2^(n + 1) = 2 * 2^n
  BY Powers
<1>2. 2^1 = 2 /\ 2^2 = 4 /\ 2^3 = 8 /\ 2^4 = 16
  BY <1>1
<1>3. 2^5 = 32 /\ 2^6 = 64 /\ 2^7 = 128 /\ 2^8 = 256
  BY <1>1, <1>2
<1>4. QED BY <1>1, <1>2, <1>3

(* The bit above the lowest m, and what is left without it.                *)
TopBit(byte, m, b) == ((byte % (2 * m)) \div m) % 2 = b /\ (byte % (2 * m)) % m = byte % m

Parted(byte, m, hi, b, lo) ==
  hi \in Nat /\ b \in {0, 1} /\ lo \in Nat /\ lo < m /\ byte = (2 * m) * hi + m * b + lo

LEMMA BitOver ==
  ASSUME NEW m \in Nat \ {0}, NEW hi, NEW b, NEW lo, NEW byte, Parted(byte, m, hi, b, lo)
  PROVE  TopBit(byte, m, b)
<1>0. hi \in Nat /\ b \in {0, 1} /\ lo \in Nat /\ lo < m /\ byte = (2 * m) * hi + m * b + lo
  BY DEF Parted
<1> DEFINE M == 2 * m
           rest == m * b + lo
<1>1. M \in Nat \ {0} /\ rest \in Nat /\ rest < M
  BY <1>0
<1>2. byte = M * hi + rest
  <2>1. m * b \in Int /\ (2 * m) * hi \in Int
    BY <1>0
  <2>2. QED BY <1>0, <2>1
<1> HIDE DEF M
<1>3. \A k \in Nat \ {0}, x, r \in Nat : r < k => (k * x + r) % k = r
  OBVIOUS
<1>4. byte % M = rest
  <2> HIDE DEF rest
  <2>1. QED BY <1>0, <1>1, <1>2, <1>3
<1>5. rest % m = lo /\ byte % m = lo
  <2>1. b \in Nat /\ 2 * hi + b \in Nat
    BY <1>0
  <2>2. byte = m * (2 * hi + b) + lo
    <3>1. \A x, y, z \in Nat : (2 * x) * y + x * z = x * (2 * y + z)
      OBVIOUS
    <3>2. (2 * m) * hi + m * b = m * (2 * hi + b)
      BY <1>0, <2>1, <3>1
    <3>3. QED BY <1>0, <3>2
  <2>3. QED BY <1>0, <1>3, <2>1, <2>2
<1>6. rest \div m = b
  <2>1. \A k \in Nat \ {0}, x, r \in Nat : r < k => (k * x + r) \div k = x
    OBVIOUS
  <2>2. QED BY <1>0, <2>1
<1>7. b % 2 = b
  BY <1>0
<1> HIDE DEF rest
<1>8. QED BY <1>4, <1>5, <1>6, <1>7 DEF TopBit, M

Bit(bits, k, i) == bits[8 * (k - 1) + i]

BitString(bits, n) == n \in Nat /\ bits \in [1..n -> {0, 1}]

LEMMA ByteBits ==
  ASSUME NEW n, NEW bits, BitString(bits, n), NEW k \in Nat, k >= 1, 8 * k <= n
  PROVE  /\ Byte(bits, k) \in 0..255
         /\ \A l \in 1..8 : TopBit(Byte(bits, k), 2^(l - 1), bits[8 * k + 1 - l])
         /\ (\A i \in 1..8 : Bit(bits, k, i) = 1) => Byte(bits, k) = 255
<1> DEFINE b1 == Bit(bits, k, 1)
           b2 == Bit(bits, k, 2)
           b3 == Bit(bits, k, 3)
           b4 == Bit(bits, k, 4)
           b5 == Bit(bits, k, 5)
           b6 == Bit(bits, k, 6)
           b7 == Bit(bits, k, 7)
           b8 == Bit(bits, k, 8)
           byte == Byte(bits, k)
<1>1. \A i \in 1..8 : Bit(bits, k, i) \in {0, 1}
  <2>1. \A i \in 1..8 : 8 * (k - 1) + i \in 1..n
    BY DEF BitString
  <2>2. QED BY <2>1 DEF Bit, BitString
<1>2. /\ b1 \in {0, 1} /\ b2 \in {0, 1} /\ b3 \in {0, 1} /\ b4 \in {0, 1}
      /\ b5 \in {0, 1} /\ b6 \in {0, 1} /\ b7 \in {0, 1} /\ b8 \in {0, 1}
  BY <1>1
<1>3. byte = 128 * b1 + 64 * b2 + 32 * b3 + 16 * b4 + 8 * b5 + 4 * b6 + 2 * b7 + b8
  <2>1. byte = b1 * 2^(8 - 1) + b2 * 2^(8 - 2) + b3 * 2^(8 - 3) + b4 * 2^(8 - 4)
               + b5 * 2^(8 - 5) + b6 * 2^(8 - 6) + b7 * 2^(8 - 7) + b8 * 2^(8 - 8)
    BY DEF Byte, Bit
  <2>2. /\ 2^(8 - 1) = 128 /\ 2^(8 - 2) = 64 /\ 2^(8 - 3) = 32 /\ 2^(8 - 4) = 16
        /\ 2^(8 - 5) = 8 /\ 2^(8 - 6) = 4 /\ 2^(8 - 7) = 2 /\ 2^(8 - 8) = 1
    BY BytePowers
  <2> HIDE DEF b1, b2, b3, b4, b5, b6, b7, b8
  <2>3. QED BY <1>2, <2>1, <2>2
<1>4. \A l \in 1..8 : bits[8 * k + 1 - l] = Bit(bits, k, 9 - l)
  <2>1. \A l \in 1..8 : 8 * (k - 1) + (9 - l) = 8 * k + 1 - l
    OBVIOUS
  <2>2. QED BY <2>1 DEF Bit
<1>5. (\A i \in 1..8 : Bit(bits, k, i) = 1) => byte = 255
  <2>1. SUFFICES ASSUME \A i \in 1..8 : Bit(bits, k, i) = 1 PROVE byte = 255
    OBVIOUS
  <2>2. b1 = 1 /\ b2 = 1 /\ b3 = 1 /\ b4 = 1 /\ b5 = 1 /\ b6 = 1 /\ b7 = 1 /\ b8 = 1
    BY <2>1
  <2> HIDE DEF b1, b2, b3, b4, b5, b6, b7, b8, byte
  <2>3. QED BY <1>3, <2>2
<1>6. ASSUME NEW l \in 1..8 PROVE TopBit(byte, 2^(l - 1), Bit(bits, k, 9 - l))
  <2> HIDE DEF b1, b2, b3, b4, b5, b6, b7, b8, byte
  <2>1. TopBit(byte, 1, b8)
    <3> DEFINE hi == 64 * b1 + 32 * b2 + 16 * b3 + 8 * b4 + 4 * b5 + 2 * b6 + b7
    <3>2. hi \in Nat /\ byte = (2 * 1) * hi + 1 * b8 + 0
      BY <1>2, <1>3
    <3>3. Parted(byte, 1, hi, b8, 0)
      BY <1>2, <3>2 DEF Parted
    <3> HIDE DEF hi
    <3>4. QED BY <3>3, BitOver
  <2>2. TopBit(byte, 2, b7)
    <3> DEFINE hi == 32 * b1 + 16 * b2 + 8 * b3 + 4 * b4 + 2 * b5 + b6
                 lo == b8
    <3>2. hi \in Nat /\ lo \in Nat /\ lo < 2 /\ byte = (2 * 2) * hi + 2 * b7 + lo
      BY <1>2, <1>3
    <3>3. Parted(byte, 2, hi, b7, lo)
      BY <1>2, <3>2 DEF Parted
    <3> HIDE DEF hi, lo
    <3>4. QED BY <3>3, BitOver
  <2>3. TopBit(byte, 4, b6)
    <3> DEFINE hi == 16 * b1 + 8 * b2 + 4 * b3 + 2 * b4 + b5
                 lo == 2 * b7 + b8
    <3>2. hi \in Nat /\ lo \in Nat /\ lo < 4 /\ byte = (2 * 4) * hi + 4 * b6 + lo
      BY <1>2, <1>3
    <3>3. Parted(byte, 4, hi, b6, lo)
      BY <1>2, <3>2 DEF Parted
    <3> HIDE DEF hi, lo
    <3>4. QED BY <3>3, BitOver
  <2>4. TopBit(byte, 8, b5)
    <3> DEFINE hi == 8 * b1 + 4 * b2 + 2 * b3 + b4
                 lo == 4 * b6 + 2 * b7 + b8
    <3>2. hi \in Nat /\ lo \in Nat /\ lo < 8 /\ byte = (2 * 8) * hi + 8 * b5 + lo
      BY <1>2, <1>3
    <3>3. Parted(byte, 8, hi, b5, lo)
      BY <1>2, <3>2 DEF Parted
    <3> HIDE DEF hi, lo
    <3>4. QED BY <3>3, BitOver
  <2>5. TopBit(byte, 16, b4)
    <3> DEFINE hi == 4 * b1 + 2 * b2 + b3
                 lo == 8 * b5 + 4 * b6 + 2 * b7 + b8
    <3>2. hi \in Nat /\ lo \in Nat /\ lo < 16 /\ byte = (2 * 16) * hi + 16 * b4 + lo
      BY <1>2, <1>3
    <3>3. Parted(byte, 16, hi, b4, lo)
      BY <1>2, <3>2 DEF Parted
    <3> HIDE DEF hi, lo
    <3>4. QED BY <3>3, BitOver
  <2>6. TopBit(byte, 32, b3)
    <3> DEFINE hi == 2 * b1 + b2
                 lo == 16 * b4 + 8 * b5 + 4 * b6 + 2 * b7 + b8
    <3>2. hi \in Nat /\ lo \in Nat /\ lo < 32 /\ byte = (2 * 32) * hi + 32 * b3 + lo
      BY <1>2, <1>3
    <3>3. Parted(byte, 32, hi, b3, lo)
      BY <1>2, <3>2 DEF Parted
    <3> HIDE DEF hi, lo
    <3>4. QED BY <3>3, BitOver
  <2>7. TopBit(byte, 64, b2)
    <3> DEFINE hi == b1
                 lo == 32 * b3 + 16 * b4 + 8 * b5 + 4 * b6 + 2 * b7 + b8
    <3>2. hi \in Nat /\ lo \in Nat /\ lo < 64 /\ byte = (2 * 64) * hi + 64 * b2 + lo
      BY <1>2, <1>3
    <3>3. Parted(byte, 64, hi, b2, lo)
      BY <1>2, <3>2 DEF Parted
    <3> HIDE DEF hi, lo
    <3>4. QED BY <3>3, BitOver
  <2>8. TopBit(byte, 128, b1)
    <3> DEFINE lo == 64 * b2 + 32 * b3 + 16 * b4 + 8 * b5 + 4 * b6 + 2 * b7 + b8
    <3>2. lo \in Nat /\ lo < 128 /\ byte = (2 * 128) * 0 + 128 * b1 + lo
      BY <1>2, <1>3
    <3>3. Parted(byte, 128, 0, b1, lo)
      BY <1>2, <3>2 DEF Parted
    <3> HIDE DEF lo
    <3>4. QED BY <3>3, BitOver
  <2> HIDE DEF TopBit
  <2>9. CASE l = 1
    <3>1. 2^(l - 1) = 1 /\ Bit(bits, k, 9 - l) = b8
      BY <2>9, BytePowers DEF b8
    <3>2. QED BY <2>1, <3>1
  <2>10. CASE l = 2
    <3>1. 2^(l - 1) = 2 /\ Bit(bits, k, 9 - l) = b7
      BY <2>10, BytePowers DEF b7
    <3>2. QED BY <2>2, <3>1
  <2>11. CASE l = 3
    <3>1. 2^(l - 1) = 4 /\ Bit(bits, k, 9 - l) = b6
      BY <2>11, BytePowers DEF b6
    <3>2. QED BY <2>3, <3>1
  <2>12. CASE l = 4
    <3>1. 2^(l - 1) = 8 /\ Bit(bits, k, 9 - l) = b5
      BY <2>12, BytePowers DEF b5
    <3>2. QED BY <2>4, <3>1
  <2>13. CASE l = 5
    <3>1. 2^(l - 1) = 16 /\ Bit(bits, k, 9 - l) = b4
      BY <2>13, BytePowers DEF b4
    <3>2. QED BY <2>5, <3>1
  <2>14. CASE l = 6
    <3>1. 2^(l - 1) = 32 /\ Bit(bits, k, 9 - l) = b3
      BY <2>14, BytePowers DEF b3
    <3>2. QED BY <2>6, <3>1
  <2>15. CASE l = 7
    <3>1. 2^(l - 1) = 64 /\ Bit(bits, k, 9 - l) = b2
      BY <2>15, BytePowers DEF b2
    <3>2. QED BY <2>7, <3>1
  <2>16. CASE l = 8
    <3>1. 2^(l - 1) = 128 /\ Bit(bits, k, 9 - l) = b1
      BY <2>16, BytePowers DEF b1
    <3>2. QED BY <2>8, <3>1
  <2>17. QED BY <2>9, <2>10, <2>11, <2>12, <2>13, <2>14, <2>15, <2>16
<1>7. byte \in 0..255
  <2> HIDE DEF b1, b2, b3, b4, b5, b6, b7, b8, byte
  <2>1. QED BY <1>2, <1>3
<1> HIDE DEF byte
<1>8. \A l \in 1..8 : TopBit(byte, 2^(l - 1), bits[8 * k + 1 - l])
  BY <1>4, <1>6
<1>9. QED BY <1>5, <1>7, <1>8 DEF byte

-----------------------------------------------------------------------------
(* Reading.                                                                *)

(* The bytes of these bits lie in the data, byte k from place p[k] on, and *)
(* a marker is after them.                                                 *)
Coming(data, bits, n, p) ==
  /\ n \in Nat /\ BitString(bits, 8 * n) /\ Len(data) \in Nat
  /\ \A k \in 1..(n + 1) : p[k] \in Nat /\ p[k] + 1 <= Len(data)
  /\ \A k \in 1..n :
       /\ data[p[k]] = Byte(bits, k)
       /\ Byte(bits, k) = 255 => data[p[k] + 1] = 0 /\ p[k + 1] = p[k] + 2
       /\ Byte(bits, k) # 255 => p[k + 1] = p[k] + 1
  /\ data[p[n + 1]] = 255 /\ data[p[n + 1] + 1] \in 1..255

(* A reader that has read the first j of them, `left` of byte k are left.  *)
ReaderAt(bits, p, r, k, left) ==
  /\ r = [at |-> p[k + 1], left |-> left, code |-> r.code, code2 |-> r.code2,
          fault |-> "none", out |-> r.out]
  /\ left > 0 => k >= 1 /\ r.code = Byte(bits, k) % 2^left

Reading(bits, n, p, r, j) ==
  \E k \in 0..n, left \in 0..7 : j = 8 * k - left /\ ReaderAt(bits, p, r, k, left)

(* What is loaded, from the byte and the one after it.                     *)
IsReader(r, at, left, code2, fault, out) ==
  r = [at |-> at, left |-> left, code |-> r.code, code2 |-> code2, fault |-> fault, out |-> out]

LoadsTo(next, one, two, at, code2, fault, out, alone) ==
  /\ one \in 0..254 =>
       next = [at |-> at + 1, left |-> 8, code |-> one, code2 |-> code2, fault |-> fault, out |-> out]
  /\ one = 255 /\ two = 0 =>
       next = [at |-> (at + 1) + 1, left |-> 8, code |-> one, code2 |-> two, fault |-> fault, out |-> out]
  /\ one = 255 /\ two \in 1..255 /\ alone =>
       next = [at |-> (at + 1) + 1, left |-> 8, code |-> one, code2 |-> two, fault |-> "marker", out |-> out]

LEMMA Loaded ==
  ASSUME NEW data, NEW kind, NEW r, NEW req, NEW asked, NEW at \in Nat, NEW code2, NEW fault, NEW out,
         IsReader(r, at, 0, code2, fault, out)
  PROVE  LoadsTo(LoadByte(data, kind, r, req, asked), Fetch(data, kind, at), Fetch(data, kind, at + 1),
                 at, code2, fault, out, req = 1 /\ asked = 1)
<1> DEFINE one == Fetch(data, kind, at)
           two == Fetch(data, kind, at + 1)
           next == LoadByte(data, kind, r, req, asked)
<1>0. r = [at |-> at, left |-> 0, code |-> r.code, code2 |-> code2, fault |-> fault, out |-> out]
  BY DEF IsReader
<1> DEFINE full == [r EXCEPT !.at = @ + 1, !.left = 8, !.code = one]
           pair == [full EXCEPT !.at = @ + 1, !.code2 = two]
           marked == [pair EXCEPT !.fault = "marker"]
<1>1. r.at = at
  BY <1>0
<1>2. full = [at |-> at + 1, left |-> 8, code |-> one, code2 |-> code2, fault |-> fault, out |-> out]
  <2> DEFINE c == r.code
             moved == [r EXCEPT !.at = at + 1]
             eight == [moved EXCEPT !.left = 8]
  <2>1. r = [at |-> at, left |-> 0, code |-> c, code2 |-> code2, fault |-> fault, out |-> out]
    BY <1>0
  <2>2. full = [eight EXCEPT !.code = one]
    BY <1>1
  <2> HIDE DEF c
  <2>3. moved = [at |-> at + 1, left |-> 0, code |-> c, code2 |-> code2, fault |-> fault, out |-> out]
    BY <2>1
  <2> HIDE DEF moved
  <2>4. eight = [at |-> at + 1, left |-> 8, code |-> c, code2 |-> code2, fault |-> fault, out |-> out]
    BY <2>3
  <2> HIDE DEF eight, full
  <2>5. QED BY <2>2, <2>4
<1> HIDE DEF full
<1>3. pair = [at |-> (at + 1) + 1, left |-> 8, code |-> one, code2 |-> two, fault |-> fault, out |-> out]
  <2> DEFINE moved == [full EXCEPT !.at = (at + 1) + 1]
  <2>1. full.at = at + 1
    BY <1>2
  <2>2. pair = [moved EXCEPT !.code2 = two]
    BY <2>1
  <2>3. moved = [at |-> (at + 1) + 1, left |-> 8, code |-> one, code2 |-> code2, fault |-> fault, out |-> out]
    BY <1>2
  <2> HIDE DEF moved, pair
  <2>4. QED BY <2>2, <2>3
<1> HIDE DEF pair
<1>4. marked = [at |-> (at + 1) + 1, left |-> 8, code |-> one, code2 |-> two, fault |-> "marker", out |-> out]
  BY <1>3
<1> HIDE DEF marked
<1>5. next = CASE one = -1             -> [r EXCEPT !.fault = "end"]
               [] one \in 0..254       -> full
               [] one = 255 /\ two = -1 -> [full EXCEPT !.fault = "end"]
               [] one = 255 /\ two = 0  -> pair
               [] OTHER -> [pair EXCEPT !.fault = IF req # 1 THEN "unstuffed"
                                                  ELSE IF asked = 1 THEN "marker" ELSE "crash"]
  BY <1>1 DEF LoadByte, full, pair
<1>6. one \in 0..254 => next = full
  BY <1>5
<1>7. one = 255 /\ two = 0 => next = pair
  BY <1>5
<1>8. one = 255 /\ two \in 1..255 /\ req = 1 /\ asked = 1 => next = marked
  <2>1. SUFFICES ASSUME one = 255, two \in 1..255, req = 1, asked = 1 PROVE next = marked
    OBVIOUS
  <2>2. two # -1 /\ two # 0 /\ one # -1 /\ one \notin 0..254
    BY <2>1
  <2>3. QED BY <1>5, <2>1, <2>2 DEF marked
<1> HIDE DEF one, two, next
<1>9. LoadsTo(next, one, two, at, code2, fault, out, req = 1 /\ asked = 1)
  BY <1>2, <1>3, <1>4, <1>6, <1>7, <1>8 DEF LoadsTo
<1>10. QED BY <1>9 DEF one, two, next

(* The byte after k bytes is loaded, the zero after a byte of ones with it.*)
LEMMA NextByte ==
  ASSUME NEW data, NEW kind, NEW bits, NEW n, NEW p, Coming(data, bits, n, p),
         NEW r, NEW k \in 0..n, ReaderAt(bits, p, r, k, 0), k < n, NEW req, NEW asked,
         NEW next, next = LoadByte(data, kind, r, req, asked)
  PROVE  /\ next = [at |-> p[k + 2], left |-> 8, code |-> Byte(bits, k + 1), code2 |-> next.code2,
                    fault |-> "none", out |-> r.out]
<1> DEFINE byte == Byte(bits, k + 1)
           at == p[k + 1]
<1>1. n \in Nat /\ k + 1 \in 1..n /\ k + 1 \in 1..(n + 1) /\ (k + 1) + 1 = k + 2 /\ k + 1 \in Nat
  BY DEF Coming
<1>2. at \in Nat /\ at + 1 <= Len(data) /\ at <= Len(data) /\ Len(data) \in Nat
  BY <1>1 DEF Coming
<1>3. data[at] = byte
  BY <1>1 DEF Coming
<1>4. byte = 255 => data[at + 1] = 0 /\ p[k + 2] = at + 2
  BY <1>1 DEF Coming
<1>5. byte # 255 => p[k + 2] = at + 1
  BY <1>1 DEF Coming
<1>6. byte \in 0..255
  <2>1. BitString(bits, 8 * n) /\ 8 * (k + 1) <= 8 * n /\ k + 1 >= 1
    BY <1>1 DEF Coming
  <2>2. QED BY <1>1, <2>1, ByteBits
<1>7. r = [at |-> at, left |-> 0, code |-> r.code, code2 |-> r.code2, fault |-> "none", out |-> r.out]
  BY DEF ReaderAt
<1> HIDE DEF byte, at
<1>8. r.at = at
  BY <1>7
<1>9. Fetch(data, kind, r.at) = byte /\ Fetch(data, kind, r.at + 1) = data[at + 1]
  BY <1>2, <1>3, <1>8 DEF Fetch
<1>10. IsReader(r, at, 0, r.code2, "none", r.out)
  BY <1>7 DEF IsReader
<1>11. CASE byte = 255
  <2>1. next = [at |-> (at + 1) + 1, left |-> 8, code |-> byte, code2 |-> data[at + 1],
                fault |-> "none", out |-> r.out]
    <3>1. byte = Fetch(data, kind, at) /\ data[at + 1] = Fetch(data, kind, at + 1)
      BY <1>8, <1>9
    <3>2. LoadsTo(next, Fetch(data, kind, at), Fetch(data, kind, at + 1), at, r.code2, "none", r.out, req = 1 /\ asked = 1)
      BY <1>2, <1>10, Loaded
    <3>3. data[at + 1] = 0
      BY <1>4, <1>11
    <3>4. QED BY <1>11, <3>1, <3>2, <3>3 DEF LoadsTo
  <2>2. (at + 1) + 1 = p[k + 2] /\ next.code2 = data[at + 1]
    BY <1>2, <1>4, <1>11, <2>1
  <2>3. QED BY <2>1, <2>2 DEF byte
<1>12. CASE byte # 255
  <2>1. next = [at |-> at + 1, left |-> 8, code |-> byte, code2 |-> r.code2, fault |-> "none", out |-> r.out]
    <3>1. byte = Fetch(data, kind, at) /\ byte \in 0..254
      BY <1>6, <1>8, <1>9, <1>12
    <3>2. LoadsTo(next, Fetch(data, kind, at), Fetch(data, kind, at + 1), at, r.code2, "none", r.out, req = 1 /\ asked = 1)
      BY <1>2, <1>10, Loaded
    <3>3. QED BY <3>1, <3>2 DEF LoadsTo
  <2>2. at + 1 = p[k + 2] /\ next.code2 = r.code2
    BY <1>5, <1>12, <2>1
  <2>3. QED BY <2>1, <2>2 DEF byte
<1>13. QED BY <1>11, <1>12

(* Of `left` bits the highest is taken.                                    *)
FullReader(bits, p, r, k, left) ==
  r = [at |-> p[k + 1], left |-> left, code |-> Byte(bits, k) % 2^left, code2 |-> r.code2,
       fault |-> "none", out |-> r.out]
Took(bits, p, r, k, left, next) ==
  ReaderAt(bits, p, next, k, left - 1) /\ next.out = 2 * r.out + bits[8 * k + 1 - left]

LEMMA HighestTaken ==
  ASSUME NEW n \in Nat, NEW bits, BitString(bits, 8 * n), NEW k \in 1..n, NEW left \in 1..8,
         NEW r, NEW p, FullReader(bits, p, r, k, left)
  PROVE  Took(bits, p, r, k, left, TakeBit(r))
<1> DEFINE byte == Byte(bits, k)
           at == p[k + 1]
           m == 2^(left - 1)
           b == bits[8 * k + 1 - left]
<1>1. byte \in 0..255 /\ TopBit(byte, m, b)
  <2>1. k \in Nat /\ k >= 1 /\ 8 * k <= 8 * n
    OBVIOUS
  <2> DEFINE N == 8 * n
  <2>2. BitString(bits, N) /\ 8 * k <= N
    BY <2>1
  <2> HIDE DEF N
  <2>3. /\ Byte(bits, k) \in 0..255
        /\ \A l \in 1..8 : TopBit(Byte(bits, k), 2^(l - 1), bits[8 * k + 1 - l])
    BY <2>1, <2>2, ByteBits
  <2>4. QED BY <2>3
<1>2. 2^left = 2 * m
  <2>1. left - 1 \in Nat /\ (left - 1) + 1 = left
    OBVIOUS
  <2>2. QED BY <2>1, Powers
<1> HIDE DEF byte, m, b, at
<1>3. r = [at |-> at, left |-> left, code |-> byte % (2 * m), code2 |-> r.code2, fault |-> "none", out |-> r.out]
  BY <1>2 DEF byte, at, FullReader
<1>4. TakeBit(r) = [r EXCEPT !.left = @ - 1, !.code = @ % m, !.out = 2 * @ + HighestBit(r)]
  <2>1. r.fault = "none" /\ r.left = left
    BY <1>3
  <2>2. QED BY <2>1 DEF TakeBit, m
<1>5. HighestBit(r) = ((byte % (2 * m)) \div m) % 2
  <2>1. r.code = byte % (2 * m) /\ r.left = left
    BY <1>3
  <2>2. QED BY <2>1 DEF HighestBit, m
<1>6. HighestBit(r) = b /\ (byte % (2 * m)) % m = byte % m
  BY <1>1, <1>5 DEF TopBit
<1>7. TakeBit(r) = [at |-> at, left |-> left - 1, code |-> byte % m, code2 |-> r.code2,
                    fault |-> "none", out |-> 2 * r.out + b]
  <2> DEFINE x == r.out
             y == r.code2
  <2>1. r = [at |-> at, left |-> left, code |-> byte % (2 * m), code2 |-> y, fault |-> "none", out |-> x]
    BY <1>3
  <2>2. TakeBit(r) = [at |-> at, left |-> left - 1, code |-> (byte % (2 * m)) % m, code2 |-> y,
                      fault |-> "none", out |-> 2 * x + HighestBit(r)]
    <3> HIDE DEF x, y
    <3>1. QED BY <1>4, <2>1
  <2>3. QED BY <1>6, <2>2
<1>8. ReaderAt(bits, p, TakeBit(r), k, left - 1)
  <2>1. TakeBit(r).code = byte % m /\ TakeBit(r).code2 = r.code2 /\ TakeBit(r).out = 2 * r.out + b
    BY <1>7
  <2>2. QED BY <1>7, <2>1 DEF ReaderAt, byte, m, at
<1>9. QED BY <1>7, <1>8 DEF b, Took

(* One more bit.                                                           *)
LEMMA BitRead ==
  ASSUME NEW data, NEW kind, NEW bits, NEW n, NEW p, Coming(data, bits, n, p),
         NEW r, NEW j, Reading(bits, n, p, r, j), j < 8 * n, NEW req, NEW asked,
         NEW next, next = NextBit(data, kind, r, req, asked)
  PROVE  /\ j \in Nat /\ Reading(bits, n, p, next, j + 1)
         /\ next.out = 2 * r.out + bits[j + 1] /\ next.fault = "none"
<1>1. PICK k \in 0..n, left \in 0..7 : j = 8 * k - left /\ ReaderAt(bits, p, r, k, left)
  BY DEF Reading
<1>2. n \in Nat /\ BitString(bits, 8 * n) /\ k \in Nat /\ left \in Nat
  BY DEF Coming
<1>3. r.fault = "none" /\ r.left = left
  BY <1>1 DEF ReaderAt
<1>4. ASSUME NEW x, NEW l \in 0..7, ReaderAt(bits, p, x, l, left) PROVE x.fault = "none"
  BY <1>4 DEF ReaderAt
<1>5. CASE left > 0
  <2>1. k \in 1..n /\ left \in 1..8 /\ left - 1 \in 0..7
        /\ 8 * k + 1 - left = j + 1 /\ 8 * k - (left - 1) = j + 1 /\ j \in Nat
    BY <1>1, <1>2, <1>5 DEF ReaderAt
  <2>2. FullReader(bits, p, r, k, left)
    BY <1>1, <1>5 DEF ReaderAt, FullReader
  <2>3. next = TakeBit(r)
    BY <1>3, <1>5 DEF NextBit
  <2>4. Took(bits, p, r, k, left, next)
    BY <1>2, <2>1, <2>2, <2>3, HighestTaken
  <2>5. next.fault = "none"
    BY <2>4 DEF ReaderAt, Took
  <2>6. Reading(bits, n, p, next, j + 1)
    BY <2>1, <2>4 DEF Reading, Took
  <2>7. QED BY <2>1, <2>4, <2>5, <2>6 DEF Took
<1>6. CASE left = 0
  <2>1. k < n /\ k + 1 \in 1..n /\ k + 1 \in 0..n /\ (k + 1) + 1 = k + 2 /\ j \in Nat
        /\ 8 * (k + 1) + 1 - 8 = j + 1 /\ 8 * (k + 1) - 7 = j + 1 /\ 8 - 1 = 7 /\ 8 \in 1..8 /\ 7 \in 0..7
    BY <1>1, <1>2, <1>6
  <2> DEFINE x == LoadByte(data, kind, r, req, asked)
             byte == Byte(bits, k + 1)
             at == p[(k + 1) + 1]
  <2>2. x = [at |-> p[k + 2], left |-> 8, code |-> byte, code2 |-> x.code2, fault |-> "none", out |-> r.out]
    BY <1>1, <1>6, <2>1, NextByte
  <2>3. byte \in 0..255
    <3>1. k + 1 \in Nat /\ k + 1 >= 1 /\ 8 * (k + 1) <= 8 * n
      BY <1>2, <2>1
    <3>2. QED BY <1>2, <3>1, ByteBits
  <2>4. byte % 2^8 = byte
    <3> HIDE DEF byte
    <3>1. 2^8 = 256
      BY BytePowers
    <3>2. QED BY <2>3, <3>1
  <2>5. next = TakeBit(x)
    BY <1>3, <1>6 DEF NextBit
  <2>6. at = p[k + 2]
    BY <2>1
  <2>7. x.out = r.out
    BY <2>2
  <2> HIDE DEF x
  <2>8. FullReader(bits, p, x, k + 1, 8)
    BY <2>2, <2>4, <2>6, <2>7 DEF FullReader, at
  <2>9. Took(bits, p, x, k + 1, 8, next)
    BY <1>2, <2>1, <2>5, <2>8, HighestTaken
  <2>10. ReaderAt(bits, p, next, k + 1, 7)
    BY <2>1, <2>9 DEF Took
  <2>11. next.fault = "none"
    BY <2>10 DEF ReaderAt
  <2>12. Reading(bits, n, p, next, j + 1)
    BY <2>1, <2>10 DEF Reading
  <2>13. QED BY <2>1, <2>7, <2>9, <2>11, <2>12 DEF Took
<1>7. QED BY <1>2, <1>5, <1>6

(* After the last bit there is the marker.                                 *)
LEMMA MarkerRead ==
  ASSUME NEW data, NEW kind, NEW bits, NEW n, NEW p, Coming(data, bits, n, p),
         NEW r, Reading(bits, n, p, r, 8 * n),
         NEW next, next = NextBit(data, kind, r, 1, 1)
  PROVE  next.fault = "marker" /\ next.code2 = data[p[n + 1] + 1] /\ next.at = p[n + 1] + 2
<1>1. PICK k \in 0..n, left \in 0..7 : 8 * n = 8 * k - left /\ ReaderAt(bits, p, r, k, left)
  BY DEF Reading
<1>2. n \in Nat /\ k = n /\ left = 0
  BY <1>1 DEF Coming
<1> DEFINE at == p[n + 1]
<1>3. r = [at |-> at, left |-> 0, code |-> r.code, code2 |-> r.code2, fault |-> "none", out |-> r.out]
  BY <1>1, <1>2 DEF ReaderAt
<1>4. at \in Nat /\ at + 1 <= Len(data) /\ at <= Len(data) /\ Len(data) \in Nat
      /\ data[at] = 255 /\ data[at + 1] \in 1..255
  <2>1. n + 1 \in 1..(n + 1)
    BY <1>2
  <2>2. QED BY <2>1 DEF Coming
<1> HIDE DEF at
<1>5. r.at = at /\ r.fault = "none" /\ r.left = 0
  BY <1>3
<1>6. Fetch(data, kind, r.at) = 255 /\ Fetch(data, kind, r.at + 1) = data[at + 1]
  BY <1>4, <1>5 DEF Fetch
<1> DEFINE x == LoadByte(data, kind, r, 1, 1)
<1>7. x = [at |-> (at + 1) + 1, left |-> 8, code |-> 255, code2 |-> data[at + 1],
           fault |-> "marker", out |-> r.out]
  <2>1. 255 = Fetch(data, kind, at) /\ data[at + 1] = Fetch(data, kind, at + 1)
    BY <1>5, <1>6
  <2>2. IsReader(r, at, 0, r.code2, "none", r.out)
    BY <1>3 DEF IsReader
  <2>3. LoadsTo(x, Fetch(data, kind, at), Fetch(data, kind, at + 1), at, r.code2, "none", r.out, 1 = 1 /\ 1 = 1)
    BY <1>4, <2>2, Loaded
  <2>4. QED BY <1>4, <2>1, <2>3 DEF LoadsTo
<1>8. x.fault = "marker" /\ x.code2 = data[at + 1] /\ x.at = (at + 1) + 1
  BY <1>7
<1> HIDE DEF x
<1>9. next = x
  <2>1. next = TakeBit(x)
    BY <1>5 DEF NextBit, x
  <2>2. x.fault # "none"
    BY <1>8
  <2>3. QED BY <2>1, <2>2 DEF TakeBit
<1>10. QED BY <1>4, <1>8, <1>9 DEF at

(* Bits j + 1 to j + size are those of the number.                         *)
HoldBits(bits, j, number, size) ==
  \A i \in 1..size : bits[j + i] = (number \div 2^(size - i)) % 2

HeldBy(bits, n, j, number, size) ==
  size \in Nat /\ number \in Nat /\ number < 2^size /\ j + size <= 8 * n /\ HoldBits(bits, j, number, size)

(* What every reader starts with.                                          *)
LEMMA Restarted ==
  ASSUME NEW bits, NEW n, NEW p, NEW r, NEW j, Reading(bits, n, p, r, j)
  PROVE  Reading(bits, n, p, [r EXCEPT !.out = 0], j) /\ [r EXCEPT !.out = 0].out = 0
         /\ [r EXCEPT !.out = 0].fault = "none" /\ r.fault = "none"
<1>1. PICK k \in 0..n, left \in 0..7 : j = 8 * k - left /\ ReaderAt(bits, p, r, k, left)
  BY DEF Reading
<1> DEFINE c == r.code
           c2 == r.code2
           x == r.out
           at == p[k + 1]
           new == [r EXCEPT !.out = 0]
<1>2. r = [at |-> at, left |-> left, code |-> c, code2 |-> c2, fault |-> "none", out |-> x]
      /\ (left > 0 => k >= 1 /\ c = Byte(bits, k) % 2^left)
  BY <1>1 DEF ReaderAt
<1> HIDE DEF c, c2, x, at
<1>3. new = [at |-> at, left |-> left, code |-> c, code2 |-> c2, fault |-> "none", out |-> 0]
  BY <1>2
<1> HIDE DEF new
<1>4. new.code = c /\ new.code2 = c2 /\ new.out = 0 /\ new.fault = "none"
  BY <1>3
<1>5. ReaderAt(bits, p, new, k, left)
  BY <1>2, <1>3, <1>4 DEF ReaderAt, at
<1>6. r.fault = "none"
  BY <1>2
<1>7. Reading(bits, n, p, new, j)
  BY <1>1, <1>5 DEF Reading
<1>8. QED BY <1>4, <1>6, <1>7 DEF new

(* The number made of the first i of `size` bits, and of one more.         *)
LEMMA OneBitMore ==
  ASSUME NEW number \in Nat, NEW size \in Nat, NEW i \in Nat, i < size
  PROVE  /\ number \div 2^(size - (i + 1)) \in Nat
         /\ number \div 2^(size - (i + 1))
              = 2 * (number \div 2^(size - i)) + ((number \div 2^(size - (i + 1))) % 2)
<1> DEFINE l == size - (i + 1)
           m == 2^l
<1>1. l \in Nat /\ l + 1 = size - i
  OBVIOUS
<1>2. m \in Nat \ {0} /\ 2^(size - i) = 2 * m
  <2>1. 2^l \in Nat /\ 2^l >= 1 /\ 2^(l + 1) = 2 * 2^l
    BY <1>1, Powers
  <2>2. QED BY <1>1, <2>1
<1> HIDE DEF m
<1>3. number \div m \in Nat /\ number \div m = 2 * (number \div (2 * m)) + ((number \div m) % 2)
  BY <1>2, Quotients
<1>4. QED BY <1>2, <1>3 DEF m

(* nextbits_wsq reads a number.                                            *)
NumberComes(bits, n, p, next, j, number, size) ==
  Reading(bits, n, p, next, j + size) /\ next.out = number /\ next.fault = "none"

LEMMA NumberRead ==
  ASSUME NEW data, NEW kind, NEW bits, NEW n, NEW p, Coming(data, bits, n, p),
         NEW r, NEW j \in Nat, Reading(bits, n, p, r, j),
         NEW size, NEW number, HeldBy(bits, n, j, number, size)
  PROVE  NumberComes(bits, n, p, nextbits_wsq(data, kind, r, size), j, number, size)
<1> DEFINE next == nextbits_wsq(data, kind, r, size)
<1>0. size \in Nat /\ number \in Nat /\ number < 2^size /\ j + size <= 8 * n
      /\ HoldBits(bits, j, number, size)
  BY DEF HeldBy
<1>1. PICK at : NumberSteps(at, data, kind, r, size) /\ at[size] = nextbits_wsq(data, kind, r, size)
  BY <1>0, BitSteps
<1> DEFINE Is(i) == Reading(bits, n, p, at[i], j + i) /\ at[i].out = number \div 2^(size - i)
                    /\ at[i].fault = "none"
           T == {i \in Nat : i <= size => Is(i)}
<1>2. 0 \in T
  <2>1. at[0] = [r EXCEPT !.out = 0]
    BY <1>1 DEF NumberSteps
  <2>2. Reading(bits, n, p, at[0], j) /\ at[0].out = 0 /\ at[0].fault = "none"
    BY <2>1, Restarted
  <2>3. 2^size \in Nat \ {0} /\ size - 0 = size /\ j + 0 = j
    BY <1>0, Powers
  <2>4. number \div 2^size = 0
    BY <1>0, <2>3, Quotients
  <2>5. Is(0)
    BY <2>2, <2>3, <2>4
  <2> HIDE DEF Is
  <2>6. QED BY <2>5
<1>3. ASSUME NEW i \in T PROVE i + 1 \in T
  <2>1. SUFFICES ASSUME i + 1 <= size PROVE Is(i + 1)
    OBVIOUS
  <2>2. i \in Nat /\ i \in 0..(size - 1) /\ i < size /\ i + 1 \in 1..size /\ Is(i)
    BY <1>0, <2>1
  <2>3. at[i + 1] = NextBit(data, kind, at[i], size - i, size)
    BY <1>1, <2>2 DEF NumberSteps
  <2> DEFINE J == j + i
  <2>4. n \in Nat /\ J < 8 * n /\ J + 1 = j + (i + 1)
    BY <1>0, <2>1, <2>2 DEF Coming
  <2>5. Reading(bits, n, p, at[i], J)
    BY <2>2
  <2> HIDE DEF J
  <2>6. /\ Reading(bits, n, p, at[i + 1], J + 1) /\ at[i + 1].out = 2 * at[i].out + bits[J + 1]
        /\ at[i + 1].fault = "none"
    <3> DEFINE s == at[i]
    <3>1. Reading(bits, n, p, s, J) /\ at[i + 1] = NextBit(data, kind, s, size - i, size)
      BY <2>3, <2>5
    <3> HIDE DEF s
    <3>2. /\ Reading(bits, n, p, at[i + 1], J + 1) /\ at[i + 1].out = 2 * s.out + bits[J + 1]
          /\ at[i + 1].fault = "none"
      BY <2>4, <3>1, BitRead
    <3>3. QED BY <3>2 DEF s
  <2>7. bits[J + 1] = (number \div 2^(size - (i + 1))) % 2
    BY <1>0, <2>2, <2>4 DEF HoldBits
  <2>8. number \div 2^(size - (i + 1)) = 2 * (number \div 2^(size - i)) + ((number \div 2^(size - (i + 1))) % 2)
    BY <1>0, <2>2, OneBitMore
  <2>9. at[i].out = number \div 2^(size - i)
    BY <2>2
  <2>10. at[i + 1].out = number \div 2^(size - (i + 1))
    BY <2>6, <2>7, <2>8, <2>9
  <2>11. QED BY <2>4, <2>6, <2>10
<1>4. T \in SUBSET Nat
  OBVIOUS
<1> HIDE DEF T, Is
<1>5. T = Nat
  BY <1>2, <1>3, <1>4, SetInduction
<1>6. Is(size)
  BY <1>0, <1>5 DEF T
<1>7. number \div 2^(size - size) = number
  <2>1. size - size = 0 /\ 2^0 = 1 /\ number \div 1 = number
    BY <1>0, Powers, Quotients
  <2>2. QED BY <2>1
<1>8. QED BY <1>1, <1>6, <1>7 DEF Is, NumberComes

(* Once a code is found, or there is none, nothing more is read.           *)
Stopped(table, s) == s.r.fault # "none" \/ FoundCode(table, s)

LEMMA Stays ==
  ASSUME NEW at, NEW data, NEW kind, NEW table, NEW r, CodeSteps(at, data, kind, table, r),
         NEW m \in 0..MaxHuffBits, Stopped(table, at[m])
  PROVE  LostCode(table, at[MaxHuffBits]) = at[m]
<1> DEFINE T == {i \in Nat : m + i <= MaxHuffBits => at[m + i] = at[m]}
<1>1. MaxHuffBits \in Nat /\ m \in Nat
  BY MaxHuffBitsOK
<1>2. 0 \in T
  <2>1. m + 0 = m
    BY <1>1
  <2>2. QED BY <2>1
<1>3. ASSUME NEW i \in T PROVE i + 1 \in T
  <2>1. SUFFICES ASSUME m + (i + 1) <= MaxHuffBits PROVE at[m + (i + 1)] = at[m]
    OBVIOUS
  <2>2. m + i \in 0..(MaxHuffBits - 1) /\ (m + i) + 1 = m + (i + 1) /\ at[m + i] = at[m]
    BY <1>1, <2>1
  <2>3. at[m + (i + 1)] = LongerCode(data, kind, table, at[m])
    <3>1. at[(m + i) + 1] = LongerCode(data, kind, table, at[m + i])
      BY <2>2 DEF CodeSteps
    <3>2. QED BY <2>2, <3>1
  <2>4. LongerCode(data, kind, table, at[m]) = at[m]
    BY DEF LongerCode, Stopped
  <2>5. QED BY <2>3, <2>4
<1>4. T \in SUBSET Nat
  OBVIOUS
<1> HIDE DEF T
<1>5. T = Nat
  BY <1>2, <1>3, <1>4, SetInduction
<1>6. MaxHuffBits - m \in T /\ m + (MaxHuffBits - m) = MaxHuffBits
  BY <1>1, <1>5
<1>7. at[MaxHuffBits] = at[m]
  BY <1>1, <1>6 DEF T
<1>8. LostCode(table, at[m]) = at[m]
  BY DEF LostCode, Stopped
<1>9. QED BY <1>7, <1>8

(* One more bit of a code.                                                 *)
LEMMA LongerRead ==
  ASSUME NEW data, NEW kind, NEW bits, NEW n, NEW p, Coming(data, bits, n, p), NEW table,
         NEW s, NEW j, Reading(bits, n, p, s.r, j), j < 8 * n, s.r.fault = "none", ~FoundCode(table, s),
         NEW next, next = LongerCode(data, kind, table, s)
  PROVE  /\ Reading(bits, n, p, next.r, j + 1) /\ next.r.fault = "none"
         /\ next.r.out = 2 * s.r.out + bits[j + 1] /\ next.size = s.size + 1
<1> DEFINE x == NextBit(data, kind, s.r, 1, 1)
<1>1. next = [r |-> x, size |-> s.size + 1]
  BY DEF LongerCode
<1>2. Reading(bits, n, p, x, j + 1) /\ x.out = 2 * s.r.out + bits[j + 1] /\ x.fault = "none"
  BY BitRead
<1> HIDE DEF x
<1>3. QED BY <1>1, <1>2

(* decode_data reads a code.                                               *)
CodeComes(bits, n, p, d, j, table, symbols, sym) ==
  /\ Reading(bits, n, p, d.r, j) /\ d.r.fault = "none"
  /\ inx2(d, table) \in DOMAIN symbols /\ symbols[inx2(d, table)] = sym

LEMMA CodeRead ==
  ASSUME NEW data, NEW kind, NEW bits, NEW n, NEW p, Coming(data, bits, n, p),
         NEW r, NEW j \in Nat, Reading(bits, n, p, r, j),
         NEW table, NEW symbols, NEW w, NEW sym, ReadsBack(table, symbols, w, sym),
         HeldBy(bits, n, j, w.code, w.size)
  PROVE  CodeComes(bits, n, p, decode_data(data, kind, r, table), j + w.size, table, symbols, sym)
<1> DEFINE d == decode_data(data, kind, r, table)
<1>1. PICK at : CodeSteps(at, data, kind, table, r) /\ d = LostCode(table, at[MaxHuffBits])
  BY LongerSteps
<1> DEFINE size == w.size
           number == w.code
           place == table.valptr[size] + number - table.mincode[size] + 1
<1>2. /\ size \in 1..MaxHuffBits /\ number \in Nat /\ number < 2^size
      /\ \A i \in 1..(size - 1) : Above(table, i, number \div 2^(size - i))
      /\ number <= table.maxcode[size]
      /\ place \in DOMAIN symbols /\ symbols[place] = sym
  BY DEF ReadsBack
<1>3. j + size <= 8 * n /\ HoldBits(bits, j, number, size) /\ n \in Nat /\ size \in Nat
      /\ MaxHuffBits \in Nat
  <2>1. n \in Nat
    BY DEF Coming
  <2>2. j + w.size <= 8 * n /\ HoldBits(bits, j, w.code, w.size)
    BY Zenon DEF HeldBy
  <2>3. size \in Nat /\ MaxHuffBits \in Nat
    BY <1>2, MaxHuffBitsOK
  <2>4. QED BY <2>1, <2>2, <2>3
<1>4. d = LostCode(table, at[MaxHuffBits])
  BY <1>1
<1> HIDE DEF size, number, place, d
<1> DEFINE Is(i) == Reading(bits, n, p, at[i].r, j + i) /\ at[i].r.out = number \div 2^(size - i)
                    /\ at[i].r.fault = "none" /\ at[i].size = i
           T == {i \in Nat : i <= size => Is(i)}
<1>5. 0 \in T
  <2> DEFINE new == [r EXCEPT !.out = 0]
  <2>1. at[0] = [r |-> new, size |-> 0]
    BY <1>1 DEF CodeSteps
  <2>2. Reading(bits, n, p, new, j) /\ new.out = 0 /\ new.fault = "none"
    BY Restarted
  <2> HIDE DEF new
  <2>3. at[0].r = new /\ at[0].size = 0
    BY <2>1
  <2>4. 2^size \in Nat \ {0} /\ size - 0 = size /\ j + 0 = j
    BY <1>3, Powers
  <2>5. number \div 2^size = 0
    BY <1>2, <2>4, Quotients
  <2>6. Is(0)
    BY <2>2, <2>3, <2>4, <2>5
  <2> HIDE DEF Is
  <2>7. QED BY <2>6
<1>6. ASSUME NEW i \in T PROVE i + 1 \in T
  <2>1. SUFFICES ASSUME i + 1 <= size PROVE Is(i + 1)
    OBVIOUS
  <2>2. i \in Nat /\ i \in 0..(MaxHuffBits - 1) /\ i < size /\ i + 1 \in 1..size /\ Is(i)
    BY <1>2, <1>3, <2>1
  <2>3. at[i + 1] = LongerCode(data, kind, table, at[i])
    BY <1>1, <2>2 DEF CodeSteps
  <2>4. at[i].r.out = number \div 2^(size - i) /\ at[i].size = i /\ at[i].r.fault = "none"
    BY <2>2
  <2>5. ~FoundCode(table, at[i])
    <3>1. CASE i = 0
      BY <2>4, <3>1 DEF FoundCode
    <3>2. CASE i # 0
      <4>1. i \in 1..(size - 1)
        BY <1>3, <2>2, <3>2
      <4>2. Above(table, i, number \div 2^(size - i))
        BY <1>2, <4>1
      <4>3. QED BY <2>4, <4>2 DEF FoundCode, Above
    <3>3. QED BY <3>1, <3>2
  <2> DEFINE J == j + i
  <2>6. J < 8 * n /\ J + 1 = j + (i + 1)
    BY <1>3, <2>1, <2>2
  <2>7. Reading(bits, n, p, at[i].r, J)
    BY <2>2
  <2> HIDE DEF J
  <2>8. /\ Reading(bits, n, p, at[i + 1].r, J + 1) /\ at[i + 1].r.fault = "none"
        /\ at[i + 1].r.out = 2 * at[i].r.out + bits[J + 1] /\ at[i + 1].size = at[i].size + 1
    <3> DEFINE s == at[i]
    <3>1. Reading(bits, n, p, s.r, J) /\ s.r.fault = "none" /\ ~FoundCode(table, s)
      BY <2>4, <2>5, <2>7
    <3>2. at[i + 1] = LongerCode(data, kind, table, s)
      BY <2>3
    <3> HIDE DEF s
    <3>3. /\ Reading(bits, n, p, at[i + 1].r, J + 1) /\ at[i + 1].r.fault = "none"
          /\ at[i + 1].r.out = 2 * s.r.out + bits[J + 1] /\ at[i + 1].size = s.size + 1
      BY <2>6, <3>1, <3>2, LongerRead
    <3>4. QED BY <3>3 DEF s
  <2>9. bits[J + 1] = (number \div 2^(size - (i + 1))) % 2
    BY <1>3, <2>2, <2>6 DEF HoldBits
  <2>10. number \div 2^(size - (i + 1)) = 2 * (number \div 2^(size - i)) + ((number \div 2^(size - (i + 1))) % 2)
    BY <1>2, <1>3, <2>2, OneBitMore
  <2>11. at[i + 1].r.out = number \div 2^(size - (i + 1))
    BY <2>4, <2>8, <2>9, <2>10
  <2>12. QED BY <2>4, <2>6, <2>8, <2>11
<1>7. T \in SUBSET Nat
  OBVIOUS
<1> HIDE DEF T, Is
<1>8. T = Nat
  BY <1>5, <1>6, <1>7, SetInduction
<1>9. Is(size)
  BY <1>3, <1>8 DEF T
<1>10. number \div 2^(size - size) = number
  <2>1. size - size = 0 /\ 2^0 = 1 /\ number \div 1 = number
    BY <1>2, <1>3, Powers, Quotients
  <2>2. QED BY <2>1
<1> DEFINE s == at[size]
<1>11. Reading(bits, n, p, s.r, j + size) /\ s.r.out = number /\ s.r.fault = "none" /\ s.size = size
  BY <1>9, <1>10 DEF Is
<1>12. Stopped(table, s)
  BY <1>2, <1>11 DEF Stopped, FoundCode
<1>13. d = s
  <2>1. size \in 0..MaxHuffBits
    BY <1>2, <1>3
  <2>2. LostCode(table, at[MaxHuffBits]) = at[size]
    BY <1>1, <1>12, <2>1, Stays
  <2>3. QED BY <1>4, <2>2
<1> HIDE DEF s
<1>14. inx2(d, table) = place
  BY <1>11, <1>13 DEF inx2, place
<1>15. QED BY <1>2, <1>11, <1>13, <1>14 DEF size, d, CodeComes

(* What pads the last byte is no code: decode_data gets to the marker.     *)
LEMMA PaddingRead ==
  ASSUME NEW data, NEW kind, NEW bits, NEW n, NEW p, Coming(data, bits, n, p),
         NEW r, NEW j \in Nat, Reading(bits, n, p, r, j), j <= 8 * n, 8 * n - j < MaxHuffBits,
         \A i \in (j + 1)..(8 * n) : bits[i] = 1,
         NEW table, \A i \in 1..MaxHuffBits : Above(table, i, 2^i - 1),
         NEW d, d = decode_data(data, kind, r, table)
  PROVE  d.r.fault = "marker" /\ d.r.code2 = data[p[n + 1] + 1] /\ d.r.at = p[n + 1] + 2
<1>1. PICK at : CodeSteps(at, data, kind, table, r) /\ d = LostCode(table, at[MaxHuffBits])
  BY LongerSteps
<1> DEFINE pad == 8 * n - j
<1>2. n \in Nat /\ MaxHuffBits \in Nat /\ pad \in Nat /\ pad < MaxHuffBits /\ j + pad = 8 * n
  BY MaxHuffBitsOK DEF Coming
<1> HIDE DEF pad
<1> DEFINE Is(i) == Reading(bits, n, p, at[i].r, j + i) /\ at[i].r.out = 2^i - 1
                    /\ at[i].r.fault = "none" /\ at[i].size = i
           T == {i \in Nat : i <= pad => Is(i)}
<1>3. 0 \in T
  <2> DEFINE new == [r EXCEPT !.out = 0]
  <2>1. at[0] = [r |-> new, size |-> 0]
    BY <1>1 DEF CodeSteps
  <2>2. Reading(bits, n, p, new, j) /\ new.out = 0 /\ new.fault = "none"
    BY Restarted
  <2> HIDE DEF new
  <2>3. at[0].r = new /\ at[0].size = 0
    BY <2>1
  <2>4. 2^0 - 1 = 0 /\ j + 0 = j
    BY Powers
  <2>5. Is(0)
    BY <2>2, <2>3, <2>4
  <2> HIDE DEF Is
  <2>6. QED BY <2>5
<1>4. ASSUME NEW i \in Nat, i <= pad, Is(i)
      PROVE  ~FoundCode(table, at[i]) /\ at[i + 1] = LongerCode(data, kind, table, at[i])
  <2>1. i \in 0..(MaxHuffBits - 1) /\ at[i].r.out = 2^i - 1 /\ at[i].size = i
    BY <1>2, <1>4
  <2>2. at[i + 1] = LongerCode(data, kind, table, at[i])
    BY <1>1, <2>1 DEF CodeSteps
  <2>3. CASE i = 0
    BY <2>1, <2>2, <2>3 DEF FoundCode
  <2>4. CASE i # 0
    <3>1. i \in 1..MaxHuffBits
      BY <1>2, <2>1, <2>4
    <3>2. Above(table, i, 2^i - 1)
      BY <3>1
    <3>3. QED BY <2>1, <2>2, <3>2 DEF FoundCode, Above
  <2>5. QED BY <2>3, <2>4
<1>5. ASSUME NEW i \in T PROVE i + 1 \in T
  <2>1. SUFFICES ASSUME i + 1 <= pad PROVE Is(i + 1)
    OBVIOUS
  <2>2. i \in Nat /\ i <= pad /\ Is(i)
    BY <1>2, <2>1
  <2> DEFINE J == j + i
             s == at[i]
  <2>3. J < 8 * n /\ J + 1 = j + (i + 1) /\ J + 1 \in (j + 1)..(8 * n)
    BY <1>2, <2>1, <2>2
  <2>4. Reading(bits, n, p, s.r, J) /\ s.r.fault = "none" /\ s.r.out = 2^i - 1 /\ s.size = i
    BY <2>2
  <2>5. ~FoundCode(table, s) /\ at[i + 1] = LongerCode(data, kind, table, s)
    BY <1>4, <2>2
  <2> HIDE DEF J, s
  <2>6. /\ Reading(bits, n, p, at[i + 1].r, J + 1) /\ at[i + 1].r.fault = "none"
        /\ at[i + 1].r.out = 2 * s.r.out + bits[J + 1] /\ at[i + 1].size = s.size + 1
    BY <2>3, <2>4, <2>5, LongerRead
  <2>7. bits[J + 1] = 1
    BY <2>3
  <2>8. 2^i \in Nat /\ 2^(i + 1) = 2 * 2^i
    BY <2>2, Powers
  <2>9. at[i + 1].r.out = 2^(i + 1) - 1
    BY <2>4, <2>6, <2>7, <2>8
  <2>10. QED BY <2>3, <2>4, <2>6, <2>9
<1>6. T \in SUBSET Nat
  OBVIOUS
<1> HIDE DEF T
<1>7. T = Nat
  BY <1>3, <1>5, <1>6, SetInduction
<1>8. Is(pad)
  BY <1>2, <1>7 DEF T
<1> DEFINE s == at[pad]
<1>9. Reading(bits, n, p, s.r, 8 * n) /\ s.r.fault = "none" /\ s.size = pad
  BY <1>2, <1>8
<1>10. ~FoundCode(table, s) /\ at[pad + 1] = LongerCode(data, kind, table, s)
  BY <1>2, <1>4, <1>8
<1> HIDE DEF s
<1> DEFINE x == NextBit(data, kind, s.r, 1, 1)
<1>11. at[pad + 1] = [r |-> x, size |-> s.size + 1]
  BY <1>9, <1>10 DEF LongerCode
<1>12. x.fault = "marker" /\ x.code2 = data[p[n + 1] + 1] /\ x.at = p[n + 1] + 2
  <2> DEFINE y == s.r
  <2>1. Reading(bits, n, p, y, 8 * n) /\ x = NextBit(data, kind, y, 1, 1)
    BY <1>9
  <2> HIDE DEF x, y
  <2>2. QED BY <2>1, MarkerRead
<1> HIDE DEF x
<1>13. at[pad + 1].r = x
  BY <1>11
<1>14. d = at[pad + 1]
  <2>1. pad + 1 \in 0..MaxHuffBits
    BY <1>2
  <2>2. Stopped(table, at[pad + 1])
    BY <1>12, <1>13 DEF Stopped
  <2>3. QED BY <1>1, <2>1, <2>2, Stays
<1>15. QED BY <1>12, <1>13, <1>14

-----------------------------------------------------------------------------
(* What lies in the data.                                                  *)

(* An element of one of the sequences is where the lengths of those before *)
(* put it.                                                                 *)
JoinedFrom(joined, c, seqs, n, S) ==
  /\ joined \in Seq(S) /\ Len(joined) = c[n]
  /\ \A i \in 1..n : \A x \in 1..Len(seqs[i]) :
       c[i - 1] + x \in 1..c[n] /\ joined[c[i - 1] + x] = seqs[i][x]

LEMMA JoinedAt ==
  ASSUME NEW S, NEW n, NEW seqs, NEW c, Sequenced(seqs, n, S), Offsets(c, seqs, n),
         n = 0 => seqs = <<>>
  PROVE  JoinedFrom(Joined(seqs), c, seqs, n, S)
<1>1. n \in Nat /\ c[0] = 0 /\ \A i \in 0..n : c[i] \in Nat
  BY DEF Sequenced, Offsets
<1>2. CASE n = 0
  <2>1. Joined(seqs) = <<>>
    BY <1>2 DEF Joined
  <2>2. QED BY <1>1, <1>2, <2>1 DEF JoinedFrom
<1>3. CASE n # 0
  <2>1. n >= 1 /\ n \in 0..n
    BY <1>1, <1>3
  <2>2. Joined(seqs) = Glued(c, seqs, n, 1, n) /\ Joined(seqs) \in Seq(S)
    BY <2>1, JoinedIs, JoinedSeq
  <2>3. Joined(seqs) = [k \in 1..c[n] |-> Nth(c, seqs, n, k)]
    <3>1. c[n] \in Nat /\ 1 - 1 = 0 /\ c[n] - 0 = c[n] /\ \A k \in Int : k + 0 = k
      BY <1>1, <2>1
    <3>2. QED BY <1>1, <2>2, <3>1 DEF Glued
  <2>4. Len(Joined(seqs)) = c[n]
    BY <1>1, <2>1, <2>3
  <2>5. ASSUME NEW i \in 1..n, NEW x \in 1..Len(seqs[i])
        PROVE  c[i - 1] + x \in 1..c[n] /\ Joined(seqs)[c[i - 1] + x] = seqs[i][x]
    <3> DEFINE k == c[i - 1] + x
    <3>1. i \in 0..n /\ i - 1 \in 0..n /\ i <= n
      BY <1>1
    <3>2. c[i] \in Nat /\ c[i - 1] \in Nat /\ c[i] = c[i - 1] + Len(seqs[i]) /\ Len(seqs[i]) \in Nat
      BY <1>1, <3>1 DEF Offsets, Sequenced
    <3>3. c[i] <= c[n]
      BY <1>1, <2>1, <3>1, Rising
    <3>4. k \in Int /\ c[i - 1] < k /\ k <= c[i] /\ k \in 1..c[n] /\ k - c[i - 1] = x
      <4> DEFINE lo == c[i - 1]
                 hi == c[i]
                 top == c[n]
                 len == Len(seqs[i])
      <4>1. lo \in Nat /\ hi = lo + len /\ hi <= top /\ top \in Nat /\ len \in Nat /\ x \in 1..len
        BY <1>1, <2>1, <3>2, <3>3
      <4> HIDE DEF lo, hi, top, len
      <4>2. lo + x \in Int /\ lo < lo + x /\ lo + x <= hi /\ lo + x \in 1..top /\ (lo + x) - lo = x
        BY <4>1
      <4>3. QED BY <4>2 DEF lo, hi, top
    <3> HIDE DEF k
    <3>5. Piece(c, n, k) = i
      BY <1>1, <3>4, PieceIs
    <3>6. Joined(seqs)[k] = seqs[i][x]
      BY <2>3, <3>4, <3>5 DEF Nth
    <3>7. QED BY <3>4, <3>6 DEF k
  <2>6. QED BY <2>2, <2>4, <2>5 DEF JoinedFrom
<1>4. QED BY <1>2, <1>3

LEMMA Written ==
  ASSUME NEW number \in Nat, NEW size \in Nat
  PROVE  /\ write_bits(number, size) \in Seq({0, 1}) /\ Len(write_bits(number, size)) = size
         /\ \A i \in 1..size : write_bits(number, size)[i] = (number \div 2^(size - i)) % 2
<1> DEFINE b == [i \in 1..size |-> (number \div 2^(size - i)) % 2]
<1>1. write_bits(number, size) = b
  BY DEF write_bits
<1>2. ASSUME NEW i \in 1..size PROVE (number \div 2^(size - i)) % 2 \in {0, 1}
  <2>1. 2^(size - i) \in Nat \ {0}
    <3>1. size - i \in Nat
      OBVIOUS
    <3>2. QED BY <3>1, Powers
  <2> DEFINE x == number \div 2^(size - i)
  <2>2. x \in Nat
    BY <2>1, Quotients
  <2> HIDE DEF x
  <2>3. x % 2 \in {0, 1}
    BY <2>2
  <2>4. QED BY <2>3 DEF x
<1>3. b \in [1..size -> {0, 1}]
  BY <1>2
<1>4. \A i \in 1..size : b[i] = (number \div 2^(size - i)) % 2
  OBVIOUS
<1> HIDE DEF b
<1>5. b \in Seq({0, 1}) /\ Len(b) = size
  BY <1>3
<1>6. QED BY <1>1, <1>4, <1>5

(* The last byte is filled up with ones.                                   *)
LEMMA Flushed ==
  ASSUME NEW joined \in Seq({0, 1}), NEW bits, bits = flush_bits(joined), NEW n, n = Len(bits) \div 8
  PROVE  /\ n \in Nat /\ BitString(bits, 8 * n) /\ Len(joined) <= 8 * n /\ 8 * n - Len(joined) < 8
         /\ \A i \in 1..Len(joined) : bits[i] = joined[i]
         /\ \A i \in (Len(joined) + 1)..(8 * n) : bits[i] = 1
<1> DEFINE len == Len(joined)
           pad == (8 - (len % 8)) % 8
           ones == [i \in 1..pad |-> 1]
<1>1. len \in Nat
  OBVIOUS
<1>2. bits = joined \o ones
  BY DEF flush_bits
<1>3. joined \in [1..len -> {0, 1}]
  OBVIOUS
<1> HIDE DEF len
<1>4. pad \in Nat /\ pad < 8 /\ (len + pad) % 8 = 0
  <2>1. \A x \in 0..7 : (8 - x) % 8 \in 0..7 /\ (x + ((8 - x) % 8)) % 8 = 0
    OBVIOUS
  <2>2. len % 8 \in 0..7
    BY <1>1
  <2>3. pad \in 0..7 /\ ((len % 8) + pad) % 8 = 0
    BY <2>1, <2>2
  <2> HIDE DEF pad
  <2>4. QED BY <1>1, <2>3
<1> HIDE DEF pad
<1>5. ones \in Seq({0, 1}) /\ Len(ones) = pad /\ \A i \in 1..pad : ones[i] = 1
  BY <1>4
<1> HIDE DEF ones
<1>6. bits \in Seq({0, 1}) /\ Len(bits) = len + pad
  <2>1. \A s, u \in Seq({0, 1}) : s \o u \in Seq({0, 1}) /\ Len(s \o u) = Len(s) + Len(u)
    OBVIOUS
  <2>2. joined \o ones \in Seq({0, 1}) /\ Len(joined \o ones) = Len(joined) + Len(ones)
    BY <1>5, <2>1
  <2>3. QED BY <1>2, <1>5, <2>2 DEF len
<1>7. n \in Nat /\ 8 * n = len + pad
  BY <1>1, <1>4, <1>6
<1>8. \A i \in 1..len : bits[i] = joined[i]
  BY <1>1, <1>2, <1>5 DEF len
<1>9. ASSUME NEW i \in (len + 1)..(8 * n) PROVE bits[i] = 1
  <2>1. i - len \in 1..pad /\ i \in 1..(len + pad) /\ i > len
    BY <1>1, <1>4, <1>7
  <2>2. bits[i] = ones[i - len]
    BY <1>1, <1>2, <1>5, <2>1 DEF len
  <2>3. QED BY <1>5, <2>1, <2>2
<1>10. BitString(bits, 8 * n)
  <2>1. bits \in [1..(len + pad) -> {0, 1}]
    BY <1>6
  <2>2. QED BY <1>7, <2>1 DEF BitString
<1>11. QED BY <1>1, <1>4, <1>7, <1>8, <1>9, <1>10 DEF len

(* The bytes of a block are in the data from a place on, then a marker.    *)
Ahead(data, from, block) ==
  /\ from \in Nat /\ Len(data) \in Nat /\ from + Len(block) + 1 <= Len(data)
  /\ \A x \in 1..Len(block) : data[from + x - 1] = block[x]
  /\ data[from + Len(block)] = 255 /\ data[from + Len(block) + 1] \in 1..255

Bytes(bits, n) == Joined([k \in 1..n |-> Stuffed(Byte(bits, k))])

LEMMA BytesComing ==
  ASSUME NEW n \in Nat, NEW bits, BitString(bits, 8 * n), NEW data, NEW from,
         Ahead(data, from, Bytes(bits, n))
  PROVE  \E p : Coming(data, bits, n, p) /\ p[1] = from /\ p[n + 1] = from + Len(Bytes(bits, n))
<1> DEFINE seqs == [k \in 1..n |-> Stuffed(Byte(bits, k))]
           block == Bytes(bits, n)
           S == 0..255
<1>1. ASSUME NEW k \in 1..n PROVE Byte(bits, k) \in S
  <2>1. k \in Nat /\ k >= 1 /\ 8 * k <= 8 * n
    OBVIOUS
  <2> DEFINE N == 8 * n
  <2>2. BitString(bits, N) /\ 8 * k <= N
    BY <2>1
  <2> HIDE DEF N
  <2>3. QED BY <2>1, <2>2, ByteBits
<1>2. ASSUME NEW k \in 1..n
      PROVE  /\ seqs[k] \in Seq(S) /\ Len(seqs[k]) = (IF Byte(bits, k) = 255 THEN 2 ELSE 1)
             /\ seqs[k][1] = Byte(bits, k) /\ (Byte(bits, k) = 255 => seqs[k][2] = 0)
  <2> DEFINE byte == Byte(bits, k)
  <2>1. seqs[k] = IF byte = 255 THEN <<255, 0>> ELSE <<byte>>
    BY DEF Stuffed
  <2>2. byte \in S
    BY <1>1
  <2> HIDE DEF byte, seqs
  <2>3. CASE byte = 255
    <3>1. seqs[k] = <<255, 0>>
      BY <2>1, <2>3
    <3>2. <<255, 0>> \in Seq(0..255) /\ Len(<<255, 0>>) = 2 /\ <<255, 0>>[1] = 255 /\ <<255, 0>>[2] = 0
      OBVIOUS
    <3>3. QED BY <2>3, <3>1, <3>2 DEF byte
  <2>4. CASE byte # 255
    <3>1. seqs[k] = <<byte>>
      BY <2>1, <2>4
    <3>2. <<byte>> \in Seq(S) /\ Len(<<byte>>) = 1 /\ <<byte>>[1] = byte
      BY <2>2
    <3>3. QED BY <2>4, <3>1, <3>2 DEF byte
  <2>5. QED BY <2>3, <2>4
<1>3. Sequenced(seqs, n, S)
  <2>1. Len(seqs) = n /\ DOMAIN seqs = 1..n
    OBVIOUS
  <2> HIDE DEF seqs, S
  <2>2. QED BY <1>2, <2>1 DEF Sequenced
<1>4. n = 0 => seqs = <<>>
  OBVIOUS
<1>5. block = Joined(seqs)
  BY DEF Bytes
<1> HIDE DEF seqs, S, block
<1>6. PICK e : Offsets(e, seqs, n)
  BY <1>3, OffsetsExist
<1>7. JoinedFrom(block, e, seqs, n, S)
  BY <1>3, <1>4, <1>5, <1>6, JoinedAt
<1>8. e[0] = 0 /\ (\A k \in 0..n : e[k] \in Nat) /\ \A k \in 1..n : e[k] = e[k - 1] + Len(seqs[k])
  BY <1>6 DEF Offsets
<1>9. Len(block) = e[n] /\ e[n] \in Nat
  BY <1>7, <1>8 DEF JoinedFrom
<1>10. /\ from \in Nat /\ Len(data) \in Nat /\ from + e[n] + 1 <= Len(data)
       /\ \A x \in 1..e[n] : data[from + x - 1] = block[x]
       /\ data[from + e[n]] = 255 /\ data[from + e[n] + 1] \in 1..255
  BY <1>9 DEF Ahead, block
<1> DEFINE p == [k \in 1..(n + 1) |-> from + e[k - 1]]
<1>11. /\ p[n + 1] = from + e[n] /\ p[1] = from
       /\ \A k \in 1..n : p[k] = from + e[k - 1] /\ p[k + 1] = from + e[k]
  <2>1. n + 1 \in 1..(n + 1) /\ (n + 1) - 1 = n /\ 1 \in 1..(n + 1) /\ 1 - 1 = 0 /\ from + 0 = from
    BY <1>10
  <2>2. \A k \in 1..n : k \in 1..(n + 1) /\ k + 1 \in 1..(n + 1) /\ (k + 1) - 1 = k
    OBVIOUS
  <2>3. QED BY <1>8, <2>1, <2>2
<1>12. ASSUME NEW k \in 1..(n + 1) PROVE p[k] \in Nat /\ p[k] + 1 <= Len(data)
  <2>1. k - 1 \in 0..n /\ n \in 0..n /\ k - 1 <= n
    OBVIOUS
  <2>2. e[k - 1] <= e[n] /\ e[k - 1] \in Nat
    BY <1>3, <1>6, <1>8, <2>1, Rising
  <2>3. p[k] = from + e[k - 1]
    OBVIOUS
  <2> DEFINE here == e[k - 1]
             end == e[n]
  <2>4. here <= end /\ here \in Nat /\ end \in Nat /\ from \in Nat /\ Len(data) \in Nat
        /\ from + end + 1 <= Len(data) /\ p[k] = from + here
    BY <1>9, <1>10, <2>2, <2>3
  <2> HIDE DEF p, here, end
  <2>5. QED BY <2>4
<1> HIDE DEF p
<1>13. ASSUME NEW k \in 1..n
       PROVE  /\ data[p[k]] = Byte(bits, k)
              /\ Byte(bits, k) = 255 => data[p[k] + 1] = 0 /\ p[k + 1] = p[k] + 2
              /\ Byte(bits, k) # 255 => p[k + 1] = p[k] + 1
  <2>1. e[k - 1] \in Nat /\ e[k] \in Nat /\ e[k] = e[k - 1] + Len(seqs[k])
    <3>1. k - 1 \in 0..n /\ k \in 0..n
      OBVIOUS
    <3>2. QED BY <1>8, <3>1
  <2>2. ASSUME NEW x \in 1..Len(seqs[k]) PROVE data[from + (e[k - 1] + x) - 1] = seqs[k][x]
    <3>1. e[k - 1] + x \in 1..e[n] /\ block[e[k - 1] + x] = seqs[k][x]
      BY <1>7 DEF JoinedFrom
    <3>2. QED BY <1>10, <3>1
  <2>3. 1 \in 1..Len(seqs[k]) /\ (Byte(bits, k) = 255 => 2 \in 1..Len(seqs[k]))
    BY <1>2
  <2>4. from + (e[k - 1] + 1) - 1 = p[k] /\ from + (e[k - 1] + 2) - 1 = p[k] + 1
    <3> DEFINE here == e[k - 1]
    <3>1. p[k] = from + here /\ here \in Nat /\ from \in Nat
      BY <1>10, <1>11, <2>1
    <3> HIDE DEF here
    <3>2. from + (here + 1) - 1 = p[k] /\ from + (here + 2) - 1 = p[k] + 1
      BY <3>1
    <3>3. QED BY <3>2 DEF here
  <2>5. data[p[k]] = Byte(bits, k)
    BY <1>2, <2>2, <2>3, <2>4
  <2>6. Byte(bits, k) = 255 => data[p[k] + 1] = 0
    BY <1>2, <2>2, <2>3, <2>4
  <2>7. p[k] = from + e[k - 1] /\ p[k + 1] = from + e[k]
    BY <1>11
  <2>8. /\ Byte(bits, k) = 255 => p[k + 1] = p[k] + 2
        /\ Byte(bits, k) # 255 => p[k + 1] = p[k] + 1
    <3> DEFINE here == e[k - 1]
               next == e[k]
               len == Len(seqs[k])
    <3>1. /\ p[k] = from + here /\ p[k + 1] = from + next /\ next = here + len
          /\ here \in Nat /\ from \in Nat /\ len = (IF Byte(bits, k) = 255 THEN 2 ELSE 1)
      BY <1>2, <1>10, <2>1, <2>7
    <3> HIDE DEF here, next, len
    <3>2. QED BY <3>1
  <2>9. QED BY <2>5, <2>6, <2>8
<1>14. data[p[n + 1]] = 255 /\ data[p[n + 1] + 1] \in 1..255
  BY <1>10, <1>11
<1>15. Coming(data, bits, n, p)
  BY <1>10, <1>12, <1>13, <1>14 DEF Coming
<1>16. QED BY <1>9, <1>11, <1>15 DEF block

-----------------------------------------------------------------------------
(* The words of a block.                                                   *)

WordBits(codes, t) == write_bits(codes[t.sym].code, codes[t.sym].size) \o write_bits(t.bits, t.size)
Words(tokens, codes) == [i \in DOMAIN tokens |-> WordBits(codes, tokens[i])]

LEMMA BlockIs ==
  ASSUME NEW tokens, NEW codes, NEW bits, bits = flush_bits(Joined(Words(tokens, codes)))
  PROVE  compress_block(tokens, codes) = Bytes(bits, Len(bits) \div 8)
BY Zenon DEF compress_block, Bytes, Words, WordBits

(* A token of a symbol, with as many bits as follow that symbol.           *)
Whole(t) == t.size = Follows(t.sym) /\ t.bits \in Nat /\ t.bits < 2^t.size

FollowsNat == \A sym : Follows(sym) \in Nat

LEMMA FollowsBits == FollowsNat
BY DEF FollowsNat, Follows

(* Where the bits of each token are: its code, then its number.            *)
Laid(joined, c, tokens, codes, n) ==
  /\ c[0] = 0 /\ (\A i \in 0..n : c[i] \in Nat /\ c[i] <= c[n])
  /\ joined \in Seq({0, 1}) /\ Len(joined) = c[n]
  /\ \A i \in 1..n :
       /\ c[i] = c[i - 1] + codes[tokens[i].sym].size + tokens[i].size
       /\ HoldBits(joined, c[i - 1], codes[tokens[i].sym].code, codes[tokens[i].sym].size)
       /\ HoldBits(joined, c[i - 1] + codes[tokens[i].sym].size, tokens[i].bits, tokens[i].size)

LEMMA WordsLaid ==
  ASSUME NEW n \in Nat, NEW tokens, Len(tokens) = n, DOMAIN tokens = 1..n, NEW codes,
         \A i \in 1..n : /\ Whole(tokens[i])
                         /\ codes[tokens[i].sym].code \in Nat /\ codes[tokens[i].sym].size \in Nat
  PROVE  \E c : Laid(Joined(Words(tokens, codes)), c, tokens, codes, n)
<1> DEFINE seqs == Words(tokens, codes)
           joined == Joined(seqs)
           Code(i) == codes[tokens[i].sym].code
           Size(i) == codes[tokens[i].sym].size
           Number(i) == tokens[i].bits
           After(i) == tokens[i].size
           S == {0, 1}
<1>1. ASSUME NEW i \in 1..n
      PROVE  /\ Code(i) \in Nat /\ Size(i) \in Nat /\ Number(i) \in Nat /\ After(i) \in Nat
             /\ seqs[i] = write_bits(Code(i), Size(i)) \o write_bits(Number(i), After(i))
  <2>1. Whole(tokens[i]) /\ Code(i) \in Nat /\ Size(i) \in Nat
    OBVIOUS
  <2>2. After(i) \in Nat /\ Number(i) \in Nat
    BY <2>1, FollowsBits DEF Whole, FollowsNat
  <2>3. seqs[i] = write_bits(Code(i), Size(i)) \o write_bits(Number(i), After(i))
    BY DEF Words, WordBits
  <2>4. QED BY <2>1, <2>2, <2>3
<1>2. Len(seqs) = n /\ DOMAIN seqs = 1..n /\ (n = 0 => seqs = <<>>)
  BY DEF Words
<1> HIDE DEF seqs, Code, Size, Number, After, S, joined
<1>3. ASSUME NEW i \in 1..n
      PROVE  /\ seqs[i] \in Seq(S) /\ Len(seqs[i]) = Size(i) + After(i)
             /\ \A x \in 1..Size(i) : seqs[i][x] = (Code(i) \div 2^(Size(i) - x)) % 2
             /\ \A x \in 1..After(i) : seqs[i][Size(i) + x] = (Number(i) \div 2^(After(i) - x)) % 2
  <2> DEFINE a == write_bits(Code(i), Size(i))
             b == write_bits(Number(i), After(i))
             l == Size(i)
             m == After(i)
  <2>1. /\ a \in Seq(S) /\ Len(a) = l /\ l \in Nat
        /\ \A x \in 1..l : a[x] = (Code(i) \div 2^(l - x)) % 2
    BY <1>1, Written DEF S
  <2>2. /\ b \in Seq(S) /\ Len(b) = m /\ m \in Nat
        /\ \A x \in 1..m : b[x] = (Number(i) \div 2^(m - x)) % 2
    BY <1>1, Written DEF S
  <2>3. seqs[i] = a \o b
    BY <1>1
  <2> HIDE DEF a, b, l, m
  <2>4. \A s, u \in Seq(S) : s \o u \in Seq(S) /\ Len(s \o u) = Len(s) + Len(u)
    OBVIOUS
  <2>5. a \o b \in Seq(S) /\ Len(a \o b) = l + m
    BY <2>1, <2>2, <2>4
  <2>6. \A x \in 1..l : (a \o b)[x] = a[x]
    BY <2>1, <2>2
  <2>7. ASSUME NEW x \in 1..m PROVE (a \o b)[l + x] = b[x]
    <3>1. \A k \in 1..(l + m) : k > l => (a \o b)[k] = b[k - l]
      BY <2>1, <2>2
    <3>2. l + x \in 1..(l + m) /\ l + x > l /\ (l + x) - l = x
      BY <2>1, <2>2
    <3>3. QED BY <3>1, <3>2
  <2>8. QED BY <2>1, <2>2, <2>3, <2>5, <2>6, <2>7 DEF l, m
<1>4. Sequenced(seqs, n, S)
  BY <1>2, <1>3 DEF Sequenced
<1>5. PICK c : Offsets(c, seqs, n)
  BY <1>4, OffsetsExist
<1>6. JoinedFrom(joined, c, seqs, n, S)
  BY <1>2, <1>4, <1>5, JoinedAt DEF joined
<1>7. c[0] = 0 /\ (\A i \in 0..n : c[i] \in Nat) /\ \A i \in 1..n : c[i] = c[i - 1] + Len(seqs[i])
  BY <1>5 DEF Offsets
<1>8. ASSUME NEW i \in 0..n PROVE c[i] \in Nat /\ c[i] <= c[n]
  <2>1. n \in 0..n /\ i <= n
    OBVIOUS
  <2>2. QED BY <1>4, <1>5, <1>7, <2>1, Rising
<1>9. joined \in Seq({0, 1}) /\ Len(joined) = c[n]
  BY <1>6 DEF JoinedFrom, S
<1>10. ASSUME NEW i \in 1..n
       PROVE  /\ c[i] = c[i - 1] + Size(i) + After(i)
              /\ HoldBits(joined, c[i - 1], Code(i), Size(i))
              /\ HoldBits(joined, c[i - 1] + Size(i), Number(i), After(i))
  <2> DEFINE from == c[i - 1]
             l == Size(i)
             m == After(i)
  <2>1. from \in Nat /\ c[i] = from + Len(seqs[i])
    <3>1. i - 1 \in 0..n
      OBVIOUS
    <3>2. QED BY <1>7, <3>1
  <2>2. l \in Nat /\ m \in Nat /\ Len(seqs[i]) = l + m
    BY <1>1, <1>3
  <2>3. \A x \in 1..Len(seqs[i]) : joined[from + x] = seqs[i][x]
    BY <1>6 DEF JoinedFrom
  <2>4. /\ \A x \in 1..l : seqs[i][x] = (Code(i) \div 2^(l - x)) % 2
        /\ \A x \in 1..m : seqs[i][l + x] = (Number(i) \div 2^(m - x)) % 2
    BY <1>3
  <2> HIDE DEF from, l, m
  <2>5. c[i] = from + l + m
    BY <2>1, <2>2
  <2>6. ASSUME NEW x \in 1..l PROVE joined[from + x] = (Code(i) \div 2^(l - x)) % 2
    <3>1. x \in 1..Len(seqs[i])
      BY <2>2
    <3>2. QED BY <2>3, <2>4, <3>1
  <2>7. ASSUME NEW x \in 1..m PROVE joined[(from + l) + x] = (Number(i) \div 2^(m - x)) % 2
    <3>1. l + x \in 1..Len(seqs[i]) /\ (from + l) + x = from + (l + x)
      BY <2>1, <2>2
    <3>2. QED BY <2>3, <2>4, <3>1
  <2>8. HoldBits(joined, from, Code(i), l) /\ HoldBits(joined, from + l, Number(i), m)
    BY <2>6, <2>7 DEF HoldBits
  <2>9. QED BY <2>5, <2>8 DEF from, l, m
<1>11. Laid(joined, c, tokens, codes, n)
  BY <1>7, <1>8, <1>9, <1>10 DEF Laid, Code, Size, Number, After
<1>12. QED BY <1>11 DEF joined, seqs

-----------------------------------------------------------------------------
(* A block.                                                                *)

(* How the decoder goes on after a symbol: where that left it.             *)
StartOf(r) == [at |-> r.at, left |-> r.left, code |-> r.code, code2 |-> 0, fault |-> "none", out |-> 0]
NextSymbol(data, kind, r, table) == decode_data(data, kind, StartOf(r), table)

(* One token is read: its symbol, and the number after it.                 *)
TokenComes(d, values, table, next, t) ==
  /\ d.r.fault = "none" /\ inx2(d, table) \in DOMAIN values /\ values[inx2(d, table)] = t.sym
  /\ next.fault = "none" /\ next.out = t.bits

LEMMA TokenRead ==
  ASSUME NEW data, NEW kind, NEW bits, NEW n, NEW p, Coming(data, bits, n, p),
         NEW r, NEW j \in Nat, Reading(bits, n, p, StartOf(r), j),
         NEW table, NEW values, NEW w, NEW t, ReadsBack(table, values, w, t.sym), Whole(t),
         j + w.size + t.size <= 8 * n,
         HoldBits(bits, j, w.code, w.size), HoldBits(bits, j + w.size, t.bits, t.size),
         NEW d, d = NextSymbol(data, kind, r, table),
         NEW next, next = nextbits_wsq(data, kind, d.r, Follows(values[inx2(d, table)]))
  PROVE  TokenComes(d, values, table, next, t) /\ Reading(bits, n, p, StartOf(next), j + w.size + t.size)
<1> DEFINE sym == t.sym
           size == t.size
           number == t.bits
           start == StartOf(r)
           J == j + w.size
<1>1. /\ w.size \in Nat /\ w.code \in Nat /\ w.code < 2^w.size
      /\ size \in Nat /\ number \in Nat /\ number < 2^size /\ size = Follows(sym) /\ n \in Nat
  <2>1. w.size \in 1..MaxHuffBits /\ w.code \in Nat /\ w.code < 2^w.size
    BY DEF ReadsBack
  <2>2. size = Follows(sym) /\ number \in Nat /\ number < 2^size
    BY DEF Whole
  <2>3. QED BY <2>1, <2>2, FollowsBits, MaxHuffBitsOK DEF Coming, FollowsNat
<1>2. Reading(bits, n, p, start, j) /\ d = decode_data(data, kind, start, table)
  BY DEF NextSymbol
<1>3. J \in Nat /\ j + w.size <= 8 * n /\ J + size <= 8 * n
  BY <1>1
<1>4. HeldBy(bits, n, j, w.code, w.size) /\ HeldBy(bits, n, J, number, size)
  BY <1>1, <1>3 DEF HeldBy
<1>5. ReadsBack(table, values, w, sym)
  OBVIOUS
<1>6. next = nextbits_wsq(data, kind, d.r, Follows(values[inx2(d, table)]))
  OBVIOUS
<1> HIDE DEF start, sym, size, number
<1>7. CodeComes(bits, n, p, d, j + w.size, table, values, sym)
  BY <1>2, <1>4, <1>5, CodeRead
<1> DEFINE x == d.r
<1>8. Reading(bits, n, p, x, J) /\ next = nextbits_wsq(data, kind, x, size)
  BY <1>1, <1>6, <1>7 DEF CodeComes
<1> HIDE DEF x, J
<1>9. NumberComes(bits, n, p, next, J, number, size)
  BY <1>3, <1>4, <1>8, NumberRead
<1>10. Reading(bits, n, p, StartOf(next), J + size)
  <2>1. PICK k \in 0..n, left \in 0..7 : J + size = 8 * k - left /\ ReaderAt(bits, p, next, k, left)
    BY <1>9 DEF Reading, NumberComes
  <2> DEFINE c == next.code
             at == p[k + 1]
             new == StartOf(next)
  <2>2. next.at = at /\ next.left = left /\ (left > 0 => k >= 1 /\ c = Byte(bits, k) % 2^left)
    BY <2>1 DEF ReaderAt
  <2> HIDE DEF c, at
  <2>3. new = [at |-> at, left |-> left, code |-> c, code2 |-> 0, fault |-> "none", out |-> 0]
    BY <2>2 DEF StartOf, c
  <2> HIDE DEF new
  <2>4. new.code = c /\ new.code2 = 0 /\ new.out = 0
    BY <2>3
  <2>5. ReaderAt(bits, p, new, k, left)
    BY <2>2, <2>3, <2>4 DEF ReaderAt, at
  <2>6. QED BY <2>1, <2>5 DEF Reading, new
<1>11. TokenComes(d, values, table, next, t)
  BY <1>7, <1>9 DEF TokenComes, CodeComes, NumberComes, number, sym
<1>12. QED BY <1>10, <1>11 DEF J, size

(* A reader from the start of the block on, after each of n tokens.        *)
ReadBy(read, data, kind, table, values, n, from) ==
  /\ read[0].at = from /\ read[0].left = 0
  /\ \A i \in 1..n :
       LET d == NextSymbol(data, kind, read[i - 1], table)
       IN  read[i] = nextbits_wsq(data, kind, d.r, Follows(values[inx2(d, table)]))

(* The tokens come one after the other, and then the marker after them.    *)
BlockComes(read, data, kind, table, values, tokens, n, past) ==
  /\ \A i \in 1..n : TokenComes(NextSymbol(data, kind, read[i - 1], table), values, table, read[i], tokens[i])
  /\ LET d == NextSymbol(data, kind, read[n], table)
     IN  d.r.fault = "marker" /\ d.r.code2 = data[past + 1] /\ d.r.at = past + 2

LEMMA BlockRead ==
  ASSUME NEW n \in Nat, NEW tokens, Len(tokens) = n, DOMAIN tokens = 1..n,
         NEW codes, NEW table, NEW values,
         \A i \in 1..n : /\ Whole(tokens[i])
                         /\ ReadsBack(table, values, codes[tokens[i].sym], tokens[i].sym),
         \A i \in 1..MaxHuffBits : Above(table, i, 2^i - 1),
         NEW data, NEW from, Ahead(data, from, compress_block(tokens, codes)),
         NEW kind, NEW read, ReadBy(read, data, kind, table, values, n, from)
  PROVE  BlockComes(read, data, kind, table, values, tokens, n, from + Len(compress_block(tokens, codes)))
<1> DEFINE joined == Joined(Words(tokens, codes))
           bits == flush_bits(joined)
           N == Len(bits) \div 8
           block == Bytes(bits, N)
           Code(i) == codes[tokens[i].sym].code
           Size(i) == codes[tokens[i].sym].size
           Number(i) == tokens[i].bits
           After(i) == tokens[i].size
<1>1. compress_block(tokens, codes) = block
  BY BlockIs
<1>2. ASSUME NEW i \in 1..n PROVE Code(i) \in Nat /\ Size(i) \in Nat
  <2>1. ReadsBack(table, values, codes[tokens[i].sym], tokens[i].sym)
    OBVIOUS
  <2>2. Size(i) \in 1..MaxHuffBits /\ Code(i) \in Nat
    BY <2>1 DEF ReadsBack
  <2>3. QED BY <2>2, MaxHuffBitsOK
<1>3. PICK c : Laid(joined, c, tokens, codes, n)
  BY <1>2, WordsLaid
<1>4. joined \in Seq({0, 1}) /\ Len(joined) = c[n] /\ c[n] \in Nat
  BY <1>3 DEF Laid
<1> HIDE DEF joined, bits, N, block
<1>5. /\ N \in Nat /\ BitString(bits, 8 * N) /\ c[n] <= 8 * N /\ 8 * N - c[n] < 8
      /\ \A i \in 1..c[n] : bits[i] = joined[i]
      /\ \A i \in (c[n] + 1)..(8 * N) : bits[i] = 1
  BY <1>4, Flushed DEF bits, N
<1>6. PICK p : Coming(data, bits, N, p) /\ p[1] = from /\ p[N + 1] = from + Len(block)
  BY <1>1, <1>5, BytesComing DEF block
<1>7. ASSUME NEW i \in 1..n
      PROVE  /\ c[i] = c[i - 1] + Size(i) + After(i) /\ c[i - 1] \in Nat /\ c[i] <= c[n] /\ c[i] \in Nat
             /\ Size(i) \in Nat /\ After(i) \in Nat
             /\ HoldBits(joined, c[i - 1], Code(i), Size(i))
             /\ HoldBits(joined, c[i - 1] + Size(i), Number(i), After(i))
  <2>1. i - 1 \in 0..n /\ i \in 0..n
    OBVIOUS
  <2>2. After(i) \in Nat
    BY FollowsBits DEF Whole, FollowsNat
  <2>3. QED BY <1>2, <1>3, <2>1, <2>2 DEF Laid
<1>8. ASSUME NEW j \in Nat, NEW size \in Nat, j + size <= c[n], NEW number, HoldBits(joined, j, number, size)
      PROVE  HoldBits(bits, j, number, size)
  <2>1. ASSUME NEW i \in 1..size PROVE bits[j + i] = (number \div 2^(size - i)) % 2
    <3>1. j + i \in 1..c[n]
      BY <1>4, <1>8
    <3>2. QED BY <1>5, <1>8, <3>1 DEF HoldBits
  <2>2. QED BY <2>1 DEF HoldBits
<1> DEFINE Is(i) == Reading(bits, N, p, StartOf(read[i]), c[i])
           D(i) == NextSymbol(data, kind, read[i - 1], table)
           T == {i \in Nat : i <= n => Is(i)}
<1>9. ASSUME NEW i \in 1..n, Is(i - 1)
      PROVE  TokenComes(D(i), values, table, read[i], tokens[i]) /\ Is(i)
  <2> DEFINE j == c[i - 1]
             w == codes[tokens[i].sym]
             t == tokens[i]
             r == read[i - 1]
             d == D(i)
             next == read[i]
  <2>1. j \in Nat /\ Reading(bits, N, p, StartOf(r), j)
    BY <1>7, <1>9
  <2>2. ReadsBack(table, values, w, t.sym) /\ Whole(t)
    OBVIOUS
  <2>3. c[i] = j + w.size + t.size /\ w.size \in Nat /\ t.size \in Nat /\ c[i] <= c[n] /\ c[i] \in Nat
    BY <1>7
  <2>4. HoldBits(joined, j, w.code, w.size) /\ HoldBits(joined, j + w.size, t.bits, t.size)
    BY <1>7
  <2>5. d = NextSymbol(data, kind, r, table)
        /\ next = nextbits_wsq(data, kind, d.r, Follows(values[inx2(d, table)]))
    BY DEF ReadBy
  <2> HIDE DEF j, w, t, r, d, next, Code, Size, Number, After
  <2>6. j + w.size \in Nat /\ j + w.size <= c[n] /\ (j + w.size) + t.size <= c[n] /\ j + w.size + t.size <= 8 * N
    <3> DEFINE a == w.size
               b == t.size
               end == c[n]
               here == c[i]
               all == 8 * N
    <3>1. a \in Nat /\ b \in Nat /\ j \in Nat /\ here = j + a + b /\ here <= end /\ end <= all
          /\ end \in Nat /\ all \in Nat
      BY <1>4, <1>5, <2>1, <2>3
    <3> HIDE DEF a, b, end, here, all
    <3>2. j + a \in Nat /\ j + a <= end /\ (j + a) + b <= end /\ j + a + b <= all
      BY <3>1
    <3>3. QED BY <3>2 DEF a, b, end, all
  <2>7. HoldBits(bits, j, w.code, w.size) /\ HoldBits(bits, j + w.size, t.bits, t.size)
    BY <1>8, <2>1, <2>3, <2>4, <2>6
  <2>8. /\ TokenComes(d, values, table, next, t)
        /\ Reading(bits, N, p, StartOf(next), j + w.size + t.size)
    BY <1>6, <2>1, <2>2, <2>5, <2>6, <2>7, TokenRead
  <2>9. QED BY <2>3, <2>8 DEF d, next, t
<1>10. 0 \in T
  <2> DEFINE r == read[0]
             b == r.code
             new == StartOf(r)
             at == p[0 + 1]
  <2>1. new = [at |-> at, left |-> 0, code |-> b, code2 |-> 0, fault |-> "none", out |-> 0]
    BY <1>6 DEF StartOf, ReadBy
  <2> HIDE DEF b, r, new, at
  <2>2. new.code = b /\ new.code2 = 0 /\ new.out = 0
    BY <2>1
  <2>3. ReaderAt(bits, p, new, 0, 0)
    BY <2>1, <2>2 DEF ReaderAt, at
  <2>4. c[0] = 8 * 0 - 0 /\ 0 \in 0..N /\ 0 \in 0..7
    BY <1>3, <1>5 DEF Laid
  <2>5. Reading(bits, N, p, new, c[0])
    BY <2>3, <2>4 DEF Reading
  <2>6. Is(0)
    BY <2>5 DEF new, r
  <2> HIDE DEF Is
  <2>7. QED BY <2>6
<1> HIDE DEF Is, D, Code, Size, Number, After
<1>11. ASSUME NEW i \in T PROVE i + 1 \in T
  <2>1. SUFFICES ASSUME i + 1 <= n PROVE Is(i + 1)
    OBVIOUS
  <2>2. i + 1 \in 1..n /\ (i + 1) - 1 = i /\ Is(i)
    BY <2>1
  <2>3. QED BY <1>9, <2>2
<1>12. T \in SUBSET Nat
  OBVIOUS
<1> HIDE DEF T
<1>13. T = Nat
  BY <1>10, <1>11, <1>12, SetInduction
<1>14. \A i \in 0..n : Is(i)
  BY <1>13 DEF T
<1>15. ASSUME NEW i \in 1..n PROVE TokenComes(NextSymbol(data, kind, read[i - 1], table), values, table, read[i], tokens[i])
  <2>1. i - 1 \in 0..n
    OBVIOUS
  <2>2. QED BY <1>9, <1>14, <2>1 DEF D
<1> DEFINE start == StartOf(read[n])
           j == c[n]
           d == decode_data(data, kind, start, table)
<1>16. d.r.fault = "marker" /\ d.r.code2 = data[p[N + 1] + 1] /\ d.r.at = p[N + 1] + 2
  <2>1. Reading(bits, N, p, start, j)
    BY <1>14 DEF Is
  <2>2. j \in Nat /\ j <= 8 * N /\ 8 * N - j < MaxHuffBits /\ \A i \in (j + 1)..(8 * N) : bits[i] = 1
    BY <1>4, <1>5, MaxHuffBitsOK
  <2>3. \A i \in 1..MaxHuffBits : Above(table, i, 2^i - 1)
    OBVIOUS
  <2> HIDE DEF j, start, d
  <2>4. QED BY <1>6, <2>1, <2>2, <2>3, PaddingRead DEF d
<1> HIDE DEF d, start
<1>17. NextSymbol(data, kind, read[n], table) = d
  BY DEF NextSymbol, d, start
<1>18. QED BY <1>1, <1>6, <1>15, <1>16, <1>17 DEF BlockComes

(* Ones only are no code of a table of the encoder's.                      *)
LEMMA TableOnes ==
  ASSUME NEW size, NEW K, Prefixed(Limited(size), K),
         NEW huff, huff = HuffTable(Limited(size), sort_code_sizes(size)), NEW i \in 1..MaxHuffBits
  PROVE  Above(gen_decode_table(huff.bits), i, 2^i - 1)
<1> DEFINE bits == Limited(size)
           cut == SubSeq(bits, 1, MaxHuffBits)
           table == gen_decode_table(cut)
<1>1. huff.bits = cut
  BY DEF HuffTable
<1> HIDE DEF bits
<1>2. PICK q, c : Held(cut, q, c)
  BY CutBits DEF bits
<1> HIDE DEF cut, table
<1>3. Above(table, i, 2^i - 1)
  BY <1>2, OnesAbove DEF table
<1>4. QED BY <1>1, <1>3 DEF table

(* What compress_block has written of any tokens, with the code that       *)
(* gen_hufftable_wsq made of the counts of those and maybe others, the     *)
(* decoder reads back with the tables it makes from the stream: one after  *)
(* the other the symbol of each token and the number after it, through     *)
(* stuffed zeros and wherever bytes begin; and what pads the last byte     *)
(* takes it to the marker after the block.                                 *)
THEOREM BlockReadsBack ==
  ASSUME NEW counted \in Seq(TokenSet), Len(counted) + 1 < Fibonacci[Longer + 3],
         NEW huff, huff = gen_hufftable_wsq(counted),
         NEW tokens \in Seq(TokenSet),
         \A i \in DOMAIN tokens : Whole(tokens[i]) /\ \E k \in DOMAIN counted : counted[k] = tokens[i],
         NEW block, block = compress_block(tokens, huff.codes),
         NEW data, NEW from, Ahead(data, from, block),
         NEW table, table = gen_decode_table(huff.bits),
         NEW kind, NEW read, ReadBy(read, data, kind, table, huff.values, Len(tokens), from)
  PROVE  BlockComes(read, data, kind, table, huff.values, tokens, Len(tokens), from + Len(block))
<1> DEFINE n == Len(tokens)
           counts == count_block(counted)
           D == DOMAIN counts
           size == find_huff_sizes(counts)
           K == Cardinality(D \ {Reserved})
<1>1. n \in Nat /\ DOMAIN tokens = 1..n /\ Len(tokens) = n
  OBVIOUS
<1>2. ASSUME NEW i \in 1..n
      PROVE  Whole(tokens[i]) /\ ReadsBack(table, huff.values, huff.codes[tokens[i].sym], tokens[i].sym)
  <2>1. PICK k \in DOMAIN counted : counted[k] = tokens[i]
    BY <1>1
  <2>2. ReadsBack(gen_decode_table(huff.bits), huff.values, huff.codes[counted[k].sym], counted[k].sym)
    BY CodesReadBack
  <2>3. QED BY <1>1, <2>1, <2>2
<1>3. ASSUME NEW i \in 1..MaxHuffBits PROVE Above(table, i, 2^i - 1)
  <2>1. size[Reserved] <= Longer
    BY FewSymbols
  <2>2. Prefixed(Limited(size), K) /\ huff = HuffTable(Limited(size), sort_code_sizes(size))
    BY <2>1, TableCode
  <2> HIDE DEF K, size
  <2>3. QED BY <2>2, TableOnes
<1> DEFINE codes == huff.codes
           values == huff.values
<1>4. Ahead(data, from, compress_block(tokens, codes)) /\ block = compress_block(tokens, codes)
      /\ ReadBy(read, data, kind, table, values, n, from)
  OBVIOUS
<1>5. \A i \in 1..n : Whole(tokens[i]) /\ ReadsBack(table, values, codes[tokens[i].sym], tokens[i].sym)
  BY <1>2
<1> HIDE DEF codes, values, n
<1>6. BlockComes(read, data, kind, table, values, tokens, n, from + Len(compress_block(tokens, codes)))
  BY <1>1, <1>3, <1>4, <1>5, BlockRead
<1>7. QED BY <1>4, <1>6 DEF values, n

-----------------------------------------------------------------------------
(* Where the parts of a stream lie in it.                                  *)
IsSeq(s) == \E S : s \in Seq(S)

Conjoined(st, s, t) ==
  /\ IsSeq(st) /\ Len(s) \in Nat /\ Len(t) \in Nat /\ Len(st) = Len(s) + Len(t)
  /\ \A i \in 1..Len(s) : st[i] = s[i]
  /\ \A i \in 1..Len(t) : st[Len(s) + i] = t[i]

LEMMA Joints ==
  ASSUME NEW s, IsSeq(s), NEW t, IsSeq(t)
  PROVE  Conjoined(s \o t, s, t)
<1>1. PICK S : s \in Seq(S)
  BY DEF IsSeq
<1>2. PICK T : t \in Seq(T)
  BY DEF IsSeq
<1> DEFINE U == S \cup T
<1>3. s \in Seq(U) /\ t \in Seq(U)
  BY <1>1, <1>2
<1> HIDE DEF U
<1>4. s \o t \in Seq(U) /\ Len(s \o t) = Len(s) + Len(t) /\ Len(s) \in Nat /\ Len(t) \in Nat
  BY <1>3
<1>5. \A i \in 1..Len(s) : (s \o t)[i] = s[i]
  BY <1>3
<1>6. \A i \in 1..Len(t) : (s \o t)[Len(s) + i] = t[i]
  BY <1>3
<1>7. QED BY <1>4, <1>5, <1>6 DEF IsSeq, Conjoined

LEMMA Concats ==
  ASSUME NEW s, IsSeq(s), NEW t, IsSeq(t)
  PROVE  IsSeq(s \o t)
<1>1. Conjoined(s \o t, s, t)
  BY Joints
<1>2. QED BY <1>1, Zenon DEF Conjoined

CoupleIs(x, y) == IsSeq(<<x, y>>) /\ Len(<<x, y>>) = 2 /\ <<x, y>>[1] = x /\ <<x, y>>[2] = y

LEMMA Couples ==
  ASSUME NEW x, NEW y
  PROVE  CoupleIs(x, y)
<1>1. <<x, y>> \in Seq({x, y})
  OBVIOUS
<1>2. Len(<<x, y>>) = 2
  OBVIOUS
<1>3. <<x, y>>[1] = x /\ <<x, y>>[2] = y
  OBVIOUS
<1>4. IsSeq(<<x, y>>)
  BY <1>1, Zenon DEF IsSeq
<1>5. QED BY <1>2, <1>3, <1>4, Zenon DEF CoupleIs

LEMMA Singles == \A x : IsSeq(<<x>>) /\ Len(<<x>>) = 1 /\ <<x>>[1] = x
<1> TAKE x
<1>1. <<x>> \in Seq({x})
  OBVIOUS
<1>2. QED BY <1>1 DEF IsSeq

LEMMA EmptyIs == IsSeq(<<>>) /\ Len(<<>>) = 0
<1>1. <<>> \in Seq({0})
  OBVIOUS
<1>2. Len(<<>>) = 0
  OBVIOUS
<1>3. QED BY <1>1, <1>2, Zenon DEF IsSeq

(* A part of a stream, after so many elements of it.                       *)
Lies(data, at, part) ==
  /\ at \in Nat /\ Len(part) \in Nat /\ at + Len(part) <= Len(data)
  /\ \A i \in 1..Len(part) : data[at + i] = part[i]

LEMMA LiesWhole == \A s : IsSeq(s) => Lies(s, 0, s)
<1> SUFFICES ASSUME NEW s, IsSeq(s) PROVE Lies(s, 0, s)
  OBVIOUS
<1>1. PICK S : s \in Seq(S)
  BY DEF IsSeq
<1>2. Len(s) \in Nat
  BY <1>1
<1>3. QED BY <1>2 DEF Lies

LEMMA LiesSplit ==
  ASSUME NEW data, NEW at, NEW s, IsSeq(s), NEW t, IsSeq(t), Len(data) \in Nat, Lies(data, at, s \o t)
  PROVE  Lies(data, at, s) /\ Lies(data, at + Len(s), t)
<1> DEFINE st == s \o t
           m == Len(s)
           n == Len(t)
<1>1. /\ m \in Nat /\ n \in Nat /\ Len(st) = m + n
      /\ (\A i \in 1..m : st[i] = s[i]) /\ \A i \in 1..n : st[m + i] = t[i]
  <2>1. Conjoined(st, s, t)
    BY Joints
  <2>2. QED BY <2>1, Zenon DEF Conjoined
<1>2. at \in Nat /\ at + Len(st) <= Len(data) /\ \A i \in 1..Len(st) : data[at + i] = st[i]
  BY DEF Lies
<1> HIDE DEF st
<1>3. \A i \in 1..m : data[at + i] = s[i]
  BY <1>1, <1>2
<1>4. ASSUME NEW i \in 1..n PROVE data[at + m + i] = t[i]
  <2>1. m + i \in 1..Len(st) /\ at + (m + i) = at + m + i
    BY <1>1, <1>2
  <2>2. QED BY <1>1, <1>2, <2>1
<1>5. at + m \in Nat /\ at + m <= Len(data) /\ at + m + n <= Len(data)
  BY <1>1, <1>2
<1>6. QED BY <1>1, <1>2, <1>3, <1>4, <1>5 DEF Lies

-----------------------------------------------------------------------------
(* What the encoder writes is sequences.                                   *)

LEMMA JoinedIsSeq ==
  ASSUME NEW n \in Nat, NEW seqs, seqs = [i \in 1..n |-> seqs[i]], \A i \in 1..n : IsSeq(seqs[i])
  PROVE  IsSeq(Joined(seqs))
<1> DEFINE S == UNION {{seqs[i][k] : k \in 1..Len(seqs[i])} : i \in 1..n}
<1>1. ASSUME NEW i \in 1..n PROVE seqs[i] \in Seq(S)
  <2> DEFINE s == seqs[i]
  <2>1. PICK U : s \in Seq(U)
    BY DEF IsSeq
  <2>2. \A k \in 1..Len(s) : s[k] \in S
    OBVIOUS
  <2> HIDE DEF S, s
  <2>3. s \in Seq(S)
    BY <2>1, <2>2
  <2>4. QED BY <2>3 DEF s
<1>2. Len(seqs) = n /\ DOMAIN seqs = 1..n
  OBVIOUS
<1> HIDE DEF S
<1>3. CASE n = 0
  <2>1. seqs = <<>>
    BY <1>3
  <2>2. Joined(seqs) = <<>>
    BY <2>1 DEF Joined
  <2>3. QED BY <2>2, EmptyIs, Zenon
<1>4. CASE n >= 1
  <2>1. Sequenced(seqs, n, S)
    BY <1>1, <1>2 DEF Sequenced
  <2>2. QED BY <1>4, <2>1, JoinedSeq DEF IsSeq
<1>5. QED BY <1>3, <1>4

LEMMA Shorts == \A n : IsSeq(putc_ushort(n)) /\ Len(putc_ushort(n)) = 2
<1> SUFFICES ASSUME NEW n PROVE IsSeq(putc_ushort(n)) /\ Len(putc_ushort(n)) = 2
  OBVIOUS
<1> DEFINE x == (n % 65536) \div 256
           y == n % 256
<1>1. putc_ushort(n) = <<x, y>>
  BY DEF putc_ushort
<1> HIDE DEF x, y
<1>2. CoupleIs(x, y)
  BY Couples
<1>3. QED BY <1>1, <1>2 DEF CoupleIs

LEMMA Markers == \A m : IsSeq(Marker(m)) /\ Len(Marker(m)) = 2 /\ Marker(m)[1] = 255 /\ Marker(m)[2] = m
<1> SUFFICES ASSUME NEW m PROVE IsSeq(Marker(m)) /\ Len(Marker(m)) = 2 /\ Marker(m)[1] = 255 /\ Marker(m)[2] = m
  OBVIOUS
<1>1. CoupleIs(255, m)
  BY Couples
<1>2. Marker(m) = <<255, m>>
  BY DEF Marker
<1>3. QED BY <1>1, <1>2 DEF CoupleIs

LEMMA Uints == \A n : IsSeq(putc_uint(n))
<1> SUFFICES ASSUME NEW n PROVE IsSeq(putc_uint(n))
  OBVIOUS
<1> DEFINE x(i) == (n \div 256^(4 - i)) % 256
           S == {x(i) : i \in 1..4}
<1>1. putc_uint(n) = [i \in 1..4 |-> x(i)]
  BY DEF putc_uint
<1> HIDE DEF x
<1>2. [i \in 1..4 |-> x(i)] \in Seq(S)
  OBVIOUS
<1>3. QED BY <1>1, <1>2 DEF IsSeq

LEMMA Decimals == \A v : IsSeq(Decimal(v))
<1> SUFFICES ASSUME NEW v PROVE IsSeq(Decimal(v))
  OBVIOUS
<1>1. IsSeq(<<ToDecimal(v).scale>>) /\ IsSeq(putc_ushort(ToDecimal(v).shrt))
  BY Singles, Shorts
<1>2. Decimal(v) = <<ToDecimal(v).scale>> \o putc_ushort(ToDecimal(v).shrt)
  BY DEF Decimal
<1>3. QED BY <1>1, <1>2, Concats

LEMMA Commented == \A text : IsSeq(putc_comment(text))
<1> SUFFICES ASSUME NEW text PROVE IsSeq(putc_comment(text))
  OBVIOUS
<1>1. IsSeq(Marker(COM)) /\ IsSeq(putc_ushort(3)) /\ IsSeq(<<text>>)
  BY Markers, Shorts, Singles
<1>2. IsSeq(Marker(COM) \o putc_ushort(3))
  BY <1>1, Concats
<1>3. putc_comment(text) = (Marker(COM) \o putc_ushort(3)) \o <<text>>
  BY DEF putc_comment
<1>4. QED BY <1>1, <1>2, <1>3, Concats

-----------------------------------------------------------------------------
(* The headers are a sequence, whatever the comment.                       *)

LEMMA Attributes == \A comment, img : IsSeq(putc_nistcom_wsq(comment, img))
<1> SUFFICES ASSUME NEW comment, NEW img PROVE IsSeq(putc_nistcom_wsq(comment, img))
  OBVIOUS
<1> DEFINE passed == IF comment.kind = "nistcom" THEN string2fet(comment.fet) ELSE NoList
           list == putc_comment(Nist(combine_wsq_nistcom(passed, img, 75)))
           note == IF comment.kind = "note" THEN putc_comment(comment) ELSE <<>>
<1>1. IsSeq(list) /\ IsSeq(note)
  BY Commented, EmptyIs
<1>2. putc_nistcom_wsq(comment, img) = list \o note
  BY DEF putc_nistcom_wsq
<1> HIDE DEF list, note
<1>3. QED BY <1>1, <1>2, Concats

LEMMA TransformTable == IsSeq(putc_transform_table(FilterBank))
<1> DEFINE Half1(f) == SubSeq(f, Len(f) \div 2 + 1, Len(f))
           Tap(v) == <<IF v >= 0 THEN 0 ELSE 1, TapDecimal(v).scale>> \o putc_uint(TapDecimal(v).int)
           bank == FilterBank
           taps == Half1(bank.lo) \o Half1(bank.hi)
           seqs == [i \in DOMAIN taps |-> Tap(taps[i])]
           head == (Marker(DTT) \o putc_ushort(58)) \o <<Len(bank.lo), Len(bank.hi)>>
<1>1. putc_transform_table(bank) = head \o Joined(seqs)
  BY DEF putc_transform_table
<1>2. ASSUME NEW f \in Seq(Int) PROVE Half1(f) \in Seq(Int)
  OBVIOUS
<1>3. Half1(bank.lo) \in Seq(Int) /\ Half1(bank.hi) \in Seq(Int)
  BY <1>2, FilterBankOK DEF IsBank
<1> HIDE DEF Half1
<1>4. taps \in Seq(Int)
  BY <1>3
<1>5. DOMAIN taps = 1..Len(taps) /\ Len(taps) \in Nat
  BY <1>4
<1> HIDE DEF taps
<1>6. ASSUME NEW v PROVE IsSeq(Tap(v))
  <2> DEFINE first == IF v >= 0 THEN 0 ELSE 1
             scale == TapDecimal(v).scale
             tail == putc_uint(TapDecimal(v).int)
  <2>1. Tap(v) = <<first, scale>> \o tail
    OBVIOUS
  <2>2. IsSeq(tail)
    BY Uints
  <2> HIDE DEF first, scale, tail, Tap
  <2>3. IsSeq(<<first, scale>>)
    BY Couples DEF CoupleIs
  <2>4. QED BY <2>1, <2>2, <2>3, Concats
<1> HIDE DEF Tap
<1>7. IsSeq(Joined(seqs))
  <2> DEFINE n == Len(taps)
  <2>1. seqs = [i \in 1..n |-> seqs[i]] /\ \A i \in 1..n : IsSeq(seqs[i])
    BY <1>5, <1>6
  <2> HIDE DEF seqs, n
  <2>2. n \in Nat
    BY <1>5 DEF n
  <2>3. QED BY <2>1, <2>2, JoinedIsSeq
<1>8. IsSeq(head)
  <2>1. IsSeq(<<Len(bank.lo), Len(bank.hi)>>)
    BY Couples DEF CoupleIs
  <2>2. IsSeq(Marker(DTT)) /\ IsSeq(putc_ushort(58))
    BY Markers, Shorts
  <2>3. IsSeq(Marker(DTT) \o putc_ushort(58))
    BY <2>2, Concats
  <2>4. QED BY <2>1, <2>3, Concats
<1> HIDE DEF head, seqs
<1>9. QED BY <1>1, <1>7, <1>8, Concats

LEMMA QuantTable == \A kept : IsSeq(putc_quantization_table(kept))
<1> SUFFICES ASSUME NEW kept PROVE IsSeq(putc_quantization_table(kept))
  OBVIOUS
<1> DEFINE Entry(n) == IF n \in DOMAIN kept THEN Decimal(kept[n]) \o Decimal(ZeroBin(kept[n]))
                       ELSE <<0, 0, 0, 0, 0, 0>>
           seqs == [i \in 1..64 |-> Entry(i - 1)]
           head == ((Marker(DQT) \o putc_ushort(389)) \o <<2>>) \o putc_ushort(44)
<1>1. putc_quantization_table(kept) = head \o Joined(seqs)
  BY DEF putc_quantization_table
<1>2. ASSUME NEW n PROVE IsSeq(Entry(n))
  <2>1. IsSeq(Decimal(kept[n]) \o Decimal(ZeroBin(kept[n])))
    BY Decimals, Concats
  <2>2. <<0, 0, 0, 0, 0, 0>> \in Seq({0})
    OBVIOUS
  <2>3. IsSeq(<<0, 0, 0, 0, 0, 0>>)
    BY <2>2, Zenon DEF IsSeq
  <2>4. QED BY <2>1, <2>3, Zenon
<1> HIDE DEF Entry
<1>3. IsSeq(Joined(seqs))
  <2>1. seqs = [i \in 1..64 |-> seqs[i]] /\ \A i \in 1..64 : IsSeq(seqs[i])
    BY <1>2
  <2> HIDE DEF seqs
  <2>2. 64 \in Nat
    OBVIOUS
  <2>3. QED BY <2>1, <2>2, JoinedIsSeq
<1>4. IsSeq(head)
  <2>1. IsSeq(Marker(DQT)) /\ IsSeq(putc_ushort(389)) /\ IsSeq(<<2>>) /\ IsSeq(putc_ushort(44))
    BY Markers, Shorts, Singles
  <2>2. IsSeq(Marker(DQT) \o putc_ushort(389))
    BY <2>1, Concats
  <2>3. IsSeq((Marker(DQT) \o putc_ushort(389)) \o <<2>>)
    BY <2>1, <2>2, Concats
  <2>4. QED BY <2>1, <2>3, Concats
<1> HIDE DEF head, seqs
<1>5. QED BY <1>1, <1>3, <1>4, Concats

LEMMA FrameHeader == \A w, h, shift : IsSeq(putc_frame_header_wsq(w, h, shift))
<1> SUFFICES ASSUME NEW w, NEW h, NEW shift PROVE IsSeq(putc_frame_header_wsq(w, h, shift))
  OBVIOUS
<1> DEFINE a == Marker(SOF) \o putc_ushort(17)
           b == a \o <<0, 255>>
           c == b \o putc_ushort(h)
           d == c \o putc_ushort(w)
           e == d \o Decimal(shift.m_shift)
           f == e \o Decimal(shift.r_scale)
<1>1. putc_frame_header_wsq(w, h, shift) = f \o <<0, 0, 0>>
  BY DEF putc_frame_header_wsq
<1>2. IsSeq(<<0, 255>>)
  BY Couples DEF CoupleIs
<1>3. IsSeq(<<0, 0, 0>>)
  <2>1. <<0, 0, 0>> \in Seq({0})
    OBVIOUS
  <2>2. QED BY <2>1, Zenon DEF IsSeq
<1>4. IsSeq(a)
  BY Markers, Shorts, Concats
<1>5. IsSeq(b)
  BY <1>2, <1>4, Concats
<1>6. IsSeq(c)
  BY <1>5, Shorts, Concats
<1>7. IsSeq(d)
  BY <1>6, Shorts, Concats
<1>8. IsSeq(e)
  BY <1>7, Decimals, Concats
<1>9. IsSeq(f)
  BY <1>8, Decimals, Concats
<1> HIDE DEF f
<1>10. QED BY <1>1, <1>3, <1>9, Concats

LEMMA HeadersAre ==
  ASSUME NEW img, NEW comment, NEW kept
  PROVE  IsSeq(Headers(img, comment, kept))
<1> DEFINE a == Marker(SOI) \o putc_nistcom_wsq(comment, img)
           b == a \o putc_transform_table(FilterBank)
           c == b \o putc_quantization_table(kept)
           d == putc_frame_header_wsq(img.w, img.h, conv_img_2_flt(img))
<1>1. Headers(img, comment, kept) = c \o d
  BY DEF Headers
<1>2. IsSeq(a)
  BY Markers, Attributes, Concats
<1>3. IsSeq(b)
  BY <1>2, TransformTable, Concats
<1>4. IsSeq(c)
  BY <1>3, QuantTable, Concats
<1>5. IsSeq(d)
  BY FrameHeader
<1> HIDE DEF c, d
<1>6. QED BY <1>1, <1>4, <1>5, Concats

-----------------------------------------------------------------------------
(* The tables are sequences, and are read as they were written.            *)

(* The table of a code: how many codes of each size, and their symbols.    *)
Tabled(huff) ==
  /\ huff.bits \in Seq(Int) /\ Len(huff.bits) = MaxHuffBits
  /\ IsSeq(huff.values) /\ Len(huff.values) <= Reserved
  /\ FoldLeft(+, 0, huff.bits) = Len(huff.values)

LEMMA SumIs ==
  ASSUME NEW bits, NEW q, NEW c, Held(bits, q, c)
  PROVE  FoldLeft(+, 0, bits) = c[MaxHuffBits]
<1> DEFINE n == MaxHuffBits
<1>1. n \in Nat /\ n >= 1
  BY MaxHuffBitsOK
<1>2. Len(bits) = n /\ DOMAIN bits = 1..n
  BY DEF Held
<1>3. c[0] = 0 /\ \A l \in 1..n : c[l] = c[l - 1] + bits[l]
  BY DEF Held, Roomy, Tally
<1>4. PICK at : /\ at[0] = 0
                /\ \A l \in 0..(n - 1) : at[l + 1] = at[l] + bits[l + 1]
                /\ at[n] = FoldLeft(+, 0, bits)
  BY <1>1, <1>2, SumSteps
<1> DEFINE T == {l \in Nat : l <= n => at[l] = c[l]}
<1>5. 0 \in T
  BY <1>3, <1>4
<1>6. ASSUME NEW l \in T PROVE l + 1 \in T
  <2>1. SUFFICES ASSUME l + 1 <= n PROVE at[l + 1] = c[l + 1]
    OBVIOUS
  <2>2. l \in 0..(n - 1) /\ l + 1 \in 1..n /\ (l + 1) - 1 = l /\ l <= n
    BY <1>1, <2>1
  <2>3. at[l] = c[l]
    BY <2>2
  <2>4. QED BY <1>3, <1>4, <2>2, <2>3
<1>7. T \in SUBSET Nat
  OBVIOUS
<1> HIDE DEF T
<1>8. T = Nat
  BY <1>5, <1>6, <1>7, SetInduction
<1>9. at[n] = c[n]
  BY <1>1, <1>8 DEF T
<1>10. QED BY <1>4, <1>9

LEMMA TablesAre ==
  ASSUME NEW tokens \in Seq(TokenSet), Len(tokens) + 1 < Fibonacci[Longer + 3]
  PROVE  Tabled(gen_hufftable_wsq(tokens))
<1> DEFINE counts == count_block(tokens)
           D == DOMAIN counts
           size == find_huff_sizes(counts)
           K == Cardinality(D \ {Reserved})
           bits == Limited(size)
           values == sort_code_sizes(size)
           huff == gen_hufftable_wsq(tokens)
<1>1. size[Reserved] <= Longer
  BY FewSymbols
<1>2. Complete(size, D, size[Reserved]) /\ Prefixed(bits, K) /\ huff = HuffTable(bits, values)
  BY <1>1, TableCode
<1>3. huff.bits = SubSeq(bits, 1, MaxHuffBits) /\ huff.values = values
  <2> DEFINE ok == check_huffcodes_wsq(build_huffsizes(bits))
             codes == build_huffcode_table(build_huffsizes(bits), values)
             first == SubSeq(bits, 1, MaxHuffBits)
  <2>1. huff = [ok |-> ok, bits |-> first, values |-> values, codes |-> codes]
    BY <1>2, Zenon DEF HuffTable
  <2> HIDE DEF bits, values, huff, ok, codes, first
  <2>2. huff.bits = first /\ huff.values = values
    BY <2>1
  <2>3. QED BY <2>2 DEF first
<1>4. Tallied(counts)
  BY CountsOk
<1>5. D \ {Reserved} \in SUBSET (1..254)
  BY <1>4 DEF Tallied
<1>6. K \in Nat /\ K <= 254
  <2>1. IsFiniteSet(1..254) /\ Cardinality(1..254) = 254
    <3>1. 1 \in Int /\ 254 \in Int
      OBVIOUS
    <3>2. IsFiniteSet(1..254) /\ Cardinality(1..254) = IF 1 > 254 THEN 0 ELSE 254 - 1 + 1
      BY <3>1, FS_Interval
    <3>3. QED BY <3>2
  <2> HIDE DEF D
  <2>2. IsFiniteSet(D \ {Reserved}) /\ Cardinality(D \ {Reserved}) <= Cardinality(1..254)
    BY <1>5, <2>1, FS_Subset
  <2>3. Cardinality(D \ {Reserved}) \in Nat
    BY <2>2, FS_CardinalityType
  <2>4. QED BY <2>1, <2>2, <2>3
<1> DEFINE coded == {s \in DOMAIN size \ {Reserved} : size[s] > 0}
           Rank(s) == Cardinality({o \in coded : size[o] < size[s] \/ (size[o] = size[s] /\ o <= s)})
           m == Cardinality(coded)
           SymAt(r) == CHOOSE s \in coded : Rank(s) = r
<1>7. values = [r \in 1..m |-> SymAt(r)]
  BY DEF sort_code_sizes
<1>8. coded = D \ {Reserved}
  <2>1. size \in [D -> Nat] /\ \A s \in D \ {Reserved} : size[s] >= 1
    BY <1>2 DEF Complete
  <2> HIDE DEF D, size
  <2>2. DOMAIN size = D /\ \A s \in D \ {Reserved} : size[s] > 0
    BY <2>1
  <2>3. QED BY <2>2
<1>9. m = K
  BY <1>8
<1> HIDE DEF D, size, coded, Rank, m, SymAt, K, values, bits, huff
<1>10. IsSeq(values) /\ Len(values) = K
  <2> DEFINE S == {SymAt(r) : r \in 1..K}
             f == [r \in 1..K |-> SymAt(r)]
  <2>1. f \in [1..K -> S]
    OBVIOUS
  <2> HIDE DEF f, S
  <2>2. f \in Seq(S) /\ Len(f) = K
    BY <1>6, <2>1
  <2>3. values = f
    BY <1>7, <1>9 DEF f
  <2>4. QED BY <2>2, <2>3 DEF IsSeq
<1> DEFINE cut == SubSeq(bits, 1, MaxHuffBits)
<1>11. PICK q, c : Held(cut, q, c) /\ c[MaxHuffBits] = K
  BY <1>2, CutBits
<1> HIDE DEF cut
<1>12. FoldLeft(+, 0, cut) = K
  BY <1>11, SumIs
<1>13. cut \in Seq(Int) /\ Len(cut) = MaxHuffBits
  BY <1>11 DEF Held
<1>14. huff.bits = cut
  BY <1>3 DEF cut
<1>15. K <= Reserved
  BY <1>6 DEF Reserved
<1>16. Tabled(huff)
  BY <1>3, <1>10, <1>12, <1>13, <1>14, <1>15 DEF Tabled
<1>17. QED BY <1>16 DEF huff

LEMMA Cutting ==
  ASSUME NEW data, NEW at, NEW part, IsSeq(part), Lies(data, at, part)
  PROVE  SubSeq(data, at + 1, at + Len(part)) = part
<1> DEFINE m == Len(part)
           S == {data[at + i] : i \in 1..m}
           cut == SubSeq(data, at + 1, at + m)
<1>1. at \in Nat /\ m \in Nat /\ \A i \in 1..m : data[at + i] = part[i]
  BY DEF Lies
<1>2. \A i \in (at + 1)..(at + m) : data[i] \in S
  <2> SUFFICES ASSUME NEW i \in (at + 1)..(at + m) PROVE data[i] \in S
    OBVIOUS
  <2> HIDE DEF m
  <2>1. i - at \in 1..m /\ at + (i - at) = i
    BY <1>1
  <2>2. QED BY <2>1
<1> HIDE DEF S, m
<1>3. at + 1 \in Int /\ at + m \in Int
  BY <1>1
<1>4. /\ cut \in Seq(S) /\ Len(cut) = (IF at + 1 <= at + m THEN (at + m) - (at + 1) + 1 ELSE 0)
      /\ \A i \in 1..((at + m) - (at + 1) + 1) : cut[i] = data[(at + 1) + i - 1]
  BY <1>2, <1>3, SubSeqProperties
<1> HIDE DEF cut
<1>5. Len(cut) = m /\ (at + m) - (at + 1) + 1 = m /\ \A i \in 1..m : (at + 1) + i - 1 = at + i
  BY <1>1, <1>4
<1>6. \A i \in 1..m : cut[i] = part[i]
  BY <1>1, <1>4, <1>5
<1>7. PICK P : part \in Seq(P)
  BY DEF IsSeq
<1>8. cut = [i \in 1..m |-> cut[i]] /\ part = [i \in 1..m |-> part[i]]
  BY <1>4, <1>5, <1>7 DEF m
<1>9. cut = part
  BY <1>6, <1>8
<1>10. QED BY <1>9 DEF cut, m

(* A table, where it was put, is read as it was.                           *)
LEMMA TableIsSeq == \A id, huff : Tabled(huff) => IsSeq(putc_huffman_table(id, huff))
<1> SUFFICES ASSUME NEW id, NEW huff, Tabled(huff) PROVE IsSeq(putc_huffman_table(id, huff))
  OBVIOUS
<1> DEFINE len == 3 + MaxHuffBits + Len(huff.values)
           a == Marker(DHT) \o putc_ushort(len)
           b == a \o <<id>>
           c == b \o huff.bits
<1>1. putc_huffman_table(id, huff) = c \o huff.values
  BY DEF putc_huffman_table
<1>2. IsSeq(huff.bits) /\ IsSeq(huff.values)
  BY DEF Tabled, IsSeq
<1>3. IsSeq(a)
  BY Markers, Shorts, Concats
<1>4. IsSeq(b)
  BY <1>3, Singles, Concats
<1>5. IsSeq(c)
  BY <1>2, <1>4, Concats
<1> HIDE DEF c
<1>6. QED BY <1>1, <1>2, <1>5, Concats

(* A marker in the stream. *)
MarkerAt(data, at) == at \in Nat /\ at + 2 <= Len(data) /\ data[at + 1] = 255 /\ data[at + 2] \in 1..255

TableComes(r, id, huff, past) == r = [ok |-> TRUE, at |-> past, id |-> id, bits |-> huff.bits, values |-> huff.values]

LEMMA TableReads ==
  ASSUME NEW huff, Tabled(huff), NEW id, NEW data, Len(data) \in Nat, NEW at,
         Lies(data, at, putc_huffman_table(id, huff))
  PROVE  /\ TableComes(getc_huffman_table(data, at + 3), id, huff, at + Len(putc_huffman_table(id, huff)) + 1)
         /\ MarkerAt(data, at) /\ data[at + 2] = DHT
<1> DEFINE bits == huff.bits
           values == huff.values
           n == MaxHuffBits
           m == Len(values)
           len == 3 + n + m
           a == Marker(DHT) \o putc_ushort(len)
           b == a \o <<id>>
           c == b \o bits
           d == c \o values
           place == at + 3
           first == place + 3 + n
<1>1. putc_huffman_table(id, huff) = d
  BY DEF putc_huffman_table
<1>2. bits \in Seq(Int) /\ Len(bits) = n /\ IsSeq(bits) /\ IsSeq(values) /\ FoldLeft(+, 0, bits) = m
      /\ m <= Reserved
  BY DEF Tabled, IsSeq
<1>3. IsSeq(Marker(DHT)) /\ IsSeq(putc_ushort(len)) /\ IsSeq(<<id>>)
  BY Markers, Shorts, Singles
<1>4. IsSeq(a) /\ Len(a) = 4
  <2>1. Len(Marker(DHT)) = 2 /\ Len(putc_ushort(len)) = 2
    BY Markers, Shorts
  <2>2. Conjoined(a, Marker(DHT), putc_ushort(len))
    BY <1>3, Joints
  <2> HIDE DEF a, len
  <2>3. QED BY <2>1, <2>2 DEF Conjoined
<1> HIDE DEF bits, values
<1>5. IsSeq(b) /\ Len(b) = 5
  <2>1. Len(<<id>>) = 1
    BY Singles
  <2>2. Conjoined(b, a, <<id>>)
    BY <1>3, <1>4, Joints
  <2> HIDE DEF b
  <2>3. QED BY <1>4, <2>1, <2>2 DEF Conjoined
<1>6. IsSeq(c) /\ Len(c) = 5 + n /\ n \in Nat
  <2>1. Conjoined(c, b, bits)
    BY <1>2, <1>5, Joints
  <2> HIDE DEF c
  <2>2. QED BY <1>2, <1>5, <2>1, MaxHuffBitsOK DEF Conjoined
<1>7. Len(d) = 5 + n + m /\ m \in Nat
  <2>1. Conjoined(d, c, values)
    BY <1>2, <1>6, Joints
  <2> HIDE DEF c, d
  <2>2. QED BY <1>6, <2>1 DEF Conjoined
<1>8. Lies(data, at, c) /\ Lies(data, at + Len(c), values)
  BY <1>1, <1>2, <1>6, LiesSplit
<1>9. Lies(data, at, b) /\ Lies(data, at + Len(b), bits)
  BY <1>2, <1>5, <1>8, LiesSplit
<1>10. Lies(data, at, a) /\ Lies(data, at + Len(a), <<id>>)
  BY <1>3, <1>4, <1>9, LiesSplit
<1>11. Lies(data, at, Marker(DHT))
  BY <1>3, <1>10, LiesSplit
<1> HIDE DEF a, b, c, d
<1>12. at \in Nat /\ at + 5 + n + m <= Len(data)
  <2>1. Lies(data, at, d)
    BY <1>1
  <2>2. QED BY <1>6, <1>7, <2>1 DEF Lies
<1>13. data[at + 1] = 255 /\ data[at + 2] = DHT
  <2>1. Len(Marker(DHT)) = 2 /\ Marker(DHT)[1] = 255 /\ Marker(DHT)[2] = DHT
    BY Markers
  <2>2. 1 \in 1..2 /\ 2 \in 1..2
    OBVIOUS
  <2>3. QED BY <1>11, <2>1, <2>2 DEF Lies
<1>14. data[place + 2] = id
  <2>1. Len(<<id>>) = 1 /\ <<id>>[1] = id
    BY Singles
  <2>2. at + 4 + 1 = place + 2 /\ 1 \in 1..1
    BY <1>12
  <2>3. data[at + Len(a) + 1] = <<id>>[1]
    BY <1>10, <2>1, <2>2 DEF Lies
  <2>4. QED BY <1>4, <2>1, <2>2, <2>3
<1>15. SubSeq(data, place + 3, first - 1) = bits
  <2>1. SubSeq(data, (at + 5) + 1, (at + 5) + n) = bits
    BY <1>2, <1>5, <1>9, Cutting
  <2>2. place + 3 = (at + 5) + 1 /\ first - 1 = (at + 5) + n
    BY <1>6, <1>12
  <2>3. QED BY <2>1, <2>2
<1>16. SubSeq(data, first, first + m - 1) = values
  <2>1. SubSeq(data, (at + (5 + n)) + 1, (at + (5 + n)) + m) = values
    BY <1>2, <1>6, <1>8, Cutting
  <2>2. first = (at + (5 + n)) + 1 /\ first + m - 1 = (at + (5 + n)) + m
    BY <1>6, <1>7, <1>12
  <2>3. QED BY <2>1, <2>2
<1>17. Has(data, place, 3 + n) /\ m <= Reserved + 1 /\ Has(data, first, m)
  <2>1. m <= Reserved
    BY <1>2, Zenon
  <2> HIDE DEF m
  <2>2. place + (3 + n) - 1 <= Len(data) /\ first + m - 1 <= Len(data)
    BY <1>6, <1>7, <1>12
  <2> HIDE DEF place, first
  <2>3. m <= Reserved + 1
    BY <1>7, <2>1 DEF Reserved
  <2>4. QED BY <2>2, <2>3 DEF Has
<1>18. getc_huffman_table(data, place)
         = [ok |-> TRUE, at |-> first + m, id |-> id, bits |-> bits, values |-> values]
  <2> DEFINE read == SubSeq(data, place + 3, first - 1)
             num == FoldLeft(+, 0, read)
  <2>1. getc_huffman_table(data, place) =
          IF Has(data, place, 3 + n) /\ num <= Reserved + 1 /\ Has(data, first, num)
          THEN [ok |-> TRUE, at |-> first + num, id |-> data[place + 2],
                bits |-> read, values |-> SubSeq(data, first, first + num - 1)]
          ELSE Ended
    BY Zenon DEF getc_huffman_table
  <2>2. read = bits
    BY <1>15
  <2> HIDE DEF read
  <2>3. num = m
    BY <1>2, <2>2, Zenon
  <2> HIDE DEF num, first, place
  <2>4. QED BY <1>14, <1>16, <1>17, <2>1, <2>2, <2>3
<1>19. first + m = at + Len(putc_huffman_table(id, huff)) + 1
  BY <1>1, <1>6, <1>7, <1>12
<1>20. MarkerAt(data, at)
  <2>1. at + 2 <= Len(data)
    BY <1>6, <1>7, <1>12
  <2>2. DHT \in 1..255
    BY DEF DHT
  <2>3. QED BY <1>12, <1>13, <2>1, <2>2 DEF MarkerAt
<1>21. QED BY <1>13, <1>18, <1>19, <1>20, Zenon DEF TableComes, bits, values

-----------------------------------------------------------------------------
(* The encoder's own tokens: each has as many bits as follow its symbol.   *)
WholeTokens == {t \in TokenSet : Whole(t)}

Fitting(bits, size) ==
  \/ size = 0 /\ bits = 0
  \/ size = 8 /\ bits <= 255
  \/ size = 16 /\ bits <= 65535

LEMMA WholeToken ==
  ASSUME NEW sym \in 1..254, NEW bits \in Nat, NEW size, size = Follows(sym), Fitting(bits, size)
  PROVE  Token(sym, bits, size) \in WholeTokens
<1> DEFINE t == Token(sym, bits, size)
<1>1. t.sym = sym /\ t.bits = bits /\ t.size = size /\ t \in [sym : {sym}, bits : {bits}, size : {size}]
  BY DEF Token
<1>2. 2^0 = 1 /\ 2^8 = 256 /\ 2^16 = 65536
  <2>1. 2^0 = 1 /\ 2^8 = 256
    BY BytePowers
  <2>2. 8 \in Nat /\ 8 + 8 = 16
    OBVIOUS
  <2>3. 2^(8 + 8) = 2^8 * 2^8
    BY <2>2, PowerSum
  <2>4. 2^16 = 2^8 * 2^8
    BY <2>2, <2>3
  <2>5. 2^16 = 65536
    BY <2>1, <2>4
  <2>6. QED BY <2>1, <2>5
<1>3. size \in Int
  BY DEF Fitting
<1>4. t \in TokenSet
  BY <1>3 DEF Token, TokenSet
<1> HIDE DEF t
<1>5. bits < 2^size
  <2>1. CASE size = 0 /\ bits = 0
    BY <1>2, <2>1
  <2>2. CASE size = 8 /\ bits <= 255
    <3>1. 2^size = 256
      BY <1>2, <2>2
    <3>2. QED BY <2>2, <3>1
  <2>3. CASE size = 16 /\ bits <= 65535
    <3>1. 2^size = 65536
      BY <1>2, <2>3
    <3>2. QED BY <2>3, <3>1
  <2>4. QED BY <2>1, <2>2, <2>3 DEF Fitting
<1>6. Whole(t)
  <2>1. t.sym = sym /\ t.bits = bits /\ t.size = size
    BY <1>1
  <2>2. t.size = Follows(t.sym)
    BY <2>1
  <2>3. t.bits < 2^t.size
    BY <1>5, <2>1
  <2>4. t.bits \in Nat
    BY <2>1
  <2>5. QED BY <2>2, <2>3, <2>4 DEF Whole
<1>7. t \in WholeTokens
  BY <1>4, <1>6 DEF WholeTokens
<1>8. QED BY <1>7 DEF t

LEMMA BareToken ==
  ASSUME NEW sym \in 1..254, Follows(sym) = 0
  PROVE  Token(sym, 0, 0) \in WholeTokens
<1>1. 0 \in Nat /\ 0 = Follows(sym)
  OBVIOUS
<1>2. Fitting(0, 0)
  BY DEF Fitting
<1>3. QED BY <1>1, <1>2, WholeToken, Zenon

LEMMA RunsWhole == RunTokensIn(WholeTokens)
<1> SUFFICES ASSUME NEW n \in 1..MaxRun PROVE RunToken(n) \in WholeTokens
  BY DEF RunTokensIn
<1>1. n \in Nat /\ 1 <= n /\ n <= 65535
  BY DEF MaxRun
<1>2. CASE n <= 100
  <2>1. RunToken(n) = Token(n, 0, 0)
    BY <1>1, <1>2 DEF RunToken, MaxHuffZRun
  <2>2. n \in 1..100 /\ n \in 1..254 /\ n \in Int
    BY <1>1, <1>2
  <2>3. Follows(n) = 0
    BY <2>2, SymbolBits
  <2>4. Token(n, 0, 0) \in WholeTokens
    BY <2>2, <2>3, BareToken
  <2>5. QED BY <2>1, <2>4
<1>3. CASE 100 < n /\ n <= 255
  <2>1. RunToken(n) = Token(105, n, 8)
    BY <1>1, <1>3 DEF RunToken, MaxHuffZRun
  <2>2. Follows(105) = 8
    BY SymbolBits
  <2>3. Token(105, n, 8) \in WholeTokens
    BY <1>1, <1>3, <2>2, WholeToken DEF Fitting
  <2>4. QED BY <2>1, <2>3
<1>4. CASE 255 < n
  <2>1. RunToken(n) = Token(106, n, 16)
    BY <1>1, <1>4 DEF RunToken, MaxHuffZRun
  <2>2. Follows(106) = 16
    BY SymbolBits
  <2>3. Token(106, n, 16) \in WholeTokens
    BY <1>1, <2>2, WholeToken DEF Fitting
  <2>4. QED BY <2>1, <2>3
<1>5. QED BY <1>1, <1>2, <1>3, <1>4

(* A coefficient of 16 bits. *)
FitsShort(v) == -32768 <= v /\ v <= 32767

LEMMA CoefWhole ==
  ASSUME NEW v \in Int, FitsShort(v)
  PROVE  CoefToken(v) \in WholeTokens
<1>1. -32768 <= v /\ v <= 32767
  BY DEF FitsShort
<1>2. /\ Follows(101) = 8 /\ Follows(102) = 8 /\ Follows(103) = 16 /\ Follows(104) = 16
  BY SymbolBits
<1>3. CASE v > 255
  <2>1. CoefToken(v) = Token(103, v, 16)
    BY <1>3, Tokens5
  <2>2. v \in Nat /\ v <= 65535
    BY <1>1, <1>3
  <2>3. Token(103, v, 16) \in WholeTokens
    BY <1>2, <2>2, WholeToken DEF Fitting
  <2>4. QED BY <2>1, <2>3
<1>4. CASE 75 <= v /\ v <= 255
  <2>1. CoefToken(v) = Token(101, v, 8)
    BY <1>4, Tokens5
  <2>2. Token(101, v, 8) \in WholeTokens
    BY <1>2, <1>4, WholeToken DEF Fitting
  <2>3. QED BY <2>1, <2>2
<1>5. CASE v < -255
  <2>1. CoefToken(v) = Token(104, -v, 16)
    BY <1>5, Tokens5
  <2>2. -v \in Nat /\ -v <= 65535
    BY <1>1, <1>5
  <2>3. Token(104, -v, 16) \in WholeTokens
    BY <1>2, <2>2, WholeToken DEF Fitting
  <2>4. QED BY <2>1, <2>3
<1>6. CASE -255 <= v /\ v <= -74
  <2>1. CoefToken(v) = Token(102, -v, 8)
    BY <1>6, Tokens5
  <2>2. -v \in Nat /\ -v <= 255
    BY <1>6
  <2>3. Token(102, -v, 8) \in WholeTokens
    BY <1>2, <2>2, WholeToken DEF Fitting
  <2>4. QED BY <2>1, <2>3
<1>7. CASE -73 <= v /\ v <= 74
  <2>1. CoefToken(v) = Token(v + 180, 0, 0)
    BY <1>7, Tokens5
  <2>2. v + 180 \in 107..254 /\ v + 180 \in 1..254 /\ v + 180 \in Int
    BY <1>7
  <2>3. Follows(v + 180) = 0
    BY <2>2, SymbolBits
  <2>4. Token(v + 180, 0, 0) \in WholeTokens
    BY <2>2, <2>3, WholeToken DEF Fitting
  <2>5. QED BY <2>1, <2>4
<1>8. QED BY <1>3, <1>4, <1>5, <1>6, <1>7

ShortQuanta(coefs) == \A i \in DOMAIN coefs : FitsShort(coefs[i].v)

(* A block has the coefficients of the data it is cut from.                *)
LEMMA BlockShort ==
  ASSUME NEW sip, Data(sip), ShortQuanta(sip.coefs), NEW from \in Int, NEW len \in Int
  PROVE  ShortQuanta(Block(sip, from, len).coefs)
<1> DEFINE T == {c \in ToSet(sip.coefs) : from <= c.at /\ c.at < from + len}
           coefs == Chosen(sip.coefs, T)
           b == Block(sip, from, len)
<1>1. sip.coefs \in Seq(Quantums)
  BY DEF Data
<1>2. \A c \in T : \E i \in DOMAIN sip.coefs : sip.coefs[i] = c
  BY DEF ToSet
<1> HIDE DEF T
<1>3. coefs \in Seq(T \cap Quantums)
  BY <1>1, ChosenIn
<1>4. b = [len |-> len, coefs |-> [i \in DOMAIN coefs |-> [coefs[i] EXCEPT !.at = @ - from]]]
  BY DEF Block, T
<1> HIDE DEF b, coefs
<1>5. b.coefs = [i \in DOMAIN coefs |-> [coefs[i] EXCEPT !.at = @ - from]]
  BY <1>4
<1>6. DOMAIN coefs = 1..Len(coefs)
  BY <1>3
<1>7. ASSUME NEW i \in DOMAIN b.coefs PROVE FitsShort(b.coefs[i].v)
  <2> DEFINE c == coefs[i]
  <2>1. i \in DOMAIN coefs /\ b.coefs[i] = [c EXCEPT !.at = @ - from]
    BY <1>5
  <2>2. c \in T /\ c \in Quantums
    BY <1>3, <1>6, <2>1
  <2> HIDE DEF c
  <2>3. [c EXCEPT !.at = @ - from].v = c.v
    BY <2>2 DEF Quantums
  <2>4. PICK k \in DOMAIN sip.coefs : sip.coefs[k] = c
    BY <1>2, <2>2
  <2>5. FitsShort(c.v)
    BY <2>4 DEF ShortQuanta
  <2>6. QED BY <2>1, <2>3, <2>5
<1>8. QED BY <1>7 DEF ShortQuanta, b

(* The parts of an image whose quantized coefficients fit a short.         *)
LEMMA PartsWhole ==
  ASSUME NEW img, ImageFits(img), ShortQuanta(Quantized(img).sip.coefs)
  PROVE  \A part \in {PartsOfImage(img)} :
           part[1] \in Seq(WholeTokens) /\ part[2] \in Seq(WholeTokens) /\ part[3] \in Seq(WholeTokens)
<1> DEFINE t == build_wsq_trees(img.w, img.h)
           kept == Kept(img, t.q_tree)
           sip == Quantized(img).sip
           sizes == Quantized(img).qsize
           part == PartsOfImage(img)
<1>1. sip = quantize(img.coefs, kept, t.q_tree)
  BY DEF Quantized, QuantizedIn, QuantizedBy
<1>2. DOMAIN kept \in SUBSET (0..59) /\ \A n \in DOMAIN kept : kept[n] \in Nat \ {0}
  BY DEF Kept, variance, ImageFits
<1>3. AreasOn(t.q_tree, BandPixels(img.w, img.h), 0..59) /\ img.coefs \in Seq(Coefficients)
  BY StoredAreas DEF ImageFits
<1>4. \A b \in 1..3 : sizes[b] \in Int
  BY SizesAgree DEF ImageFits
<1>5. part = << Tokens(Block(sip, 0, sizes[1])), Tokens(Block(sip, sizes[1], sizes[2])),
                Tokens(Block(sip, sizes[1] + sizes[2], sizes[3])) >>
  BY DEF Parts, PartsOfImage
<1>6. ShortQuanta(sip.coefs)
  OBVIOUS
<1> HIDE DEF t, kept, sip, sizes, part
<1>7. Data(sip)
  BY <1>1, <1>2, <1>3, QuantData
<1>8. ASSUME NEW from \in Int, NEW len \in Int PROVE Tokens(Block(sip, from, len)) \in Seq(WholeTokens)
  <2> DEFINE d == Block(sip, from, len)
  <2>1. Data(d) /\ ShortQuanta(d.coefs)
    BY <1>6, <1>7, BlockData, BlockShort
  <2> HIDE DEF d
  <2>2. CoefTokensIn(d.coefs, WholeTokens)
    <3> SUFFICES ASSUME NEW i \in DOMAIN d.coefs PROVE CoefToken(d.coefs[i].v) \in WholeTokens
      BY DEF CoefTokensIn
    <3>1. d.coefs[i] \in Quantums
      BY <2>1 DEF Data
    <3>2. d.coefs[i].v \in Int /\ FitsShort(d.coefs[i].v)
      BY <2>1, <3>1 DEF Quantums, ShortQuanta
    <3>3. QED BY <3>2, CoefWhole
  <2>3. Tokens(d) \in Seq(WholeTokens)
    BY <2>1, <2>2, RunsWhole, TokensAreOf
  <2>4. QED BY <2>3 DEF d
<1>9. sizes[1] \in Int /\ sizes[2] \in Int /\ sizes[3] \in Int /\ sizes[1] + sizes[2] \in Int /\ 0 \in Int
  BY <1>4
<1>10. part[1] \in Seq(WholeTokens) /\ part[2] \in Seq(WholeTokens) /\ part[3] \in Seq(WholeTokens)
  BY <1>5, <1>8, <1>9
<1>11. QED BY <1>10 DEF part

-----------------------------------------------------------------------------
(* The blocks of an image in its stream.                                   *)

LEMMA BlockIsSeq ==
  ASSUME NEW n \in Nat, NEW tokens, Len(tokens) = n, DOMAIN tokens = 1..n, NEW codes,
         \A i \in 1..n : /\ Whole(tokens[i])
                         /\ codes[tokens[i].sym].code \in Nat /\ codes[tokens[i].sym].size \in Nat
  PROVE  IsSeq(compress_block(tokens, codes))
<1> DEFINE joined == Joined(Words(tokens, codes))
           bits == flush_bits(joined)
           N == Len(bits) \div 8
           seqs == [k \in 1..N |-> Stuffed(Byte(bits, k))]
<1>1. compress_block(tokens, codes) = Joined(seqs)
  BY BlockIs DEF Bytes
<1>2. PICK c : Laid(joined, c, tokens, codes, n)
  BY WordsLaid
<1>3. joined \in Seq({0, 1})
  BY <1>2 DEF Laid
<1> HIDE DEF joined, bits, N
<1>4. N \in Nat
  BY <1>3, Flushed DEF bits, N
<1>5. seqs = [k \in 1..N |-> seqs[k]] /\ \A k \in 1..N : seqs[k] = Stuffed(Byte(bits, k))
  OBVIOUS
<1> HIDE DEF seqs
<1>6. \A byte : IsSeq(Stuffed(byte))
  <2> SUFFICES ASSUME NEW byte PROVE IsSeq(Stuffed(byte))
    OBVIOUS
  <2>1. IsSeq(<<255, 0>>)
    BY Couples DEF CoupleIs
  <2>2. IsSeq(<<byte>>)
    BY Singles
  <2>3. QED BY <2>1, <2>2, Zenon DEF Stuffed
<1>7. \A k \in 1..N : IsSeq(seqs[k])
  BY <1>5, <1>6
<1>8. IsSeq(Joined(seqs))
  BY <1>4, <1>5, <1>7, JoinedIsSeq
<1>9. QED BY <1>1, <1>8

(* The tokens of a block, among those its table is made from.              *)
Among(tokens, counted) ==
  /\ tokens \in Seq(WholeTokens) /\ counted \in Seq(WholeTokens)
  /\ \A i \in DOMAIN tokens : \E k \in DOMAIN counted : counted[k] = tokens[i]

LEMMA AmongIs ==
  ASSUME NEW tokens, NEW counted, Among(tokens, counted)
  PROVE  /\ tokens \in Seq(TokenSet) /\ counted \in Seq(TokenSet)
         /\ Len(tokens) \in Nat /\ DOMAIN tokens = 1..Len(tokens)
         /\ \A i \in DOMAIN tokens : Whole(tokens[i]) /\ \E k \in DOMAIN counted : counted[k] = tokens[i]
<1>1. WholeTokens \subseteq TokenSet /\ \A t \in WholeTokens : Whole(t)
  BY Zenon DEF WholeTokens
<1>2. tokens \in Seq(WholeTokens) /\ counted \in Seq(WholeTokens)
  BY Zenon DEF Among
<1>3. Len(tokens) \in Nat /\ DOMAIN tokens = 1..Len(tokens) /\ \A i \in DOMAIN tokens : tokens[i] \in WholeTokens
  BY <1>2
<1>4. tokens \in Seq(TokenSet) /\ counted \in Seq(TokenSet)
  BY <1>1, <1>2
<1>5. \A i \in DOMAIN tokens : Whole(tokens[i])
  BY <1>1, <1>3
<1>6. QED BY <1>3, <1>4, <1>5, Zenon DEF Among

LEMMA AmongParts ==
  ASSUME NEW a \in Seq(WholeTokens), NEW b \in Seq(WholeTokens), NEW c \in Seq(WholeTokens)
  PROVE  Among(a, a) /\ Among(b, b \o c) /\ Among(c, b \o c)
<1> HIDE DEF WholeTokens
<1>1. b \o c \in Seq(WholeTokens) /\ DOMAIN b = 1..Len(b) /\ DOMAIN c = 1..Len(c)
      /\ DOMAIN (b \o c) = 1..(Len(b) + Len(c)) /\ Len(b) \in Nat /\ Len(c) \in Nat
  OBVIOUS
<1>2. ASSUME NEW i \in DOMAIN b PROVE \E k \in DOMAIN (b \o c) : (b \o c)[k] = b[i]
  <2>1. i \in DOMAIN (b \o c) /\ (b \o c)[i] = b[i]
    BY <1>1
  <2>2. QED BY <2>1
<1>3. ASSUME NEW i \in DOMAIN c PROVE \E k \in DOMAIN (b \o c) : (b \o c)[k] = c[i]
  <2>1. Len(b) + i \in DOMAIN (b \o c) /\ (b \o c)[Len(b) + i] = c[i]
    BY <1>1
  <2>2. QED BY <2>1
<1>4. QED BY <1>1, <1>2, <1>3 DEF Among

LEMMA AmongBlock ==
  ASSUME NEW tokens, NEW counted, Among(tokens, counted), Len(counted) + 1 < Fibonacci[Longer + 3],
         NEW huff, huff = gen_hufftable_wsq(counted)
  PROVE  IsSeq(compress_block(tokens, huff.codes))
<1> DEFINE n == Len(tokens)
           codes == huff.codes
<1>1. counted \in Seq(TokenSet) /\ n \in Nat /\ DOMAIN tokens = 1..n
  BY AmongIs
<1>2. ASSUME NEW i \in 1..n
      PROVE  /\ Whole(tokens[i])
             /\ codes[tokens[i].sym].code \in Nat /\ codes[tokens[i].sym].size \in Nat
  <2>1. Whole(tokens[i]) /\ \E k \in DOMAIN counted : counted[k] = tokens[i]
    BY <1>1, <1>2, AmongIs
  <2>2. PICK k \in DOMAIN counted : counted[k] = tokens[i]
    BY <2>1
  <2>3. ReadsBack(gen_decode_table(huff.bits), huff.values, huff.codes[counted[k].sym], counted[k].sym)
    BY <1>1, CodesReadBack
  <2> DEFINE w == huff.codes[counted[k].sym]
  <2>4. w.size \in 1..MaxHuffBits /\ w.code \in Nat
    BY <2>3 DEF ReadsBack
  <2>5. w = codes[tokens[i].sym]
    BY <2>2
  <2> HIDE DEF w, codes
  <2>6. w.size \in Nat
    BY <2>4, MaxHuffBitsOK
  <2>7. QED BY <2>1, <2>4, <2>5, <2>6
<1> HIDE DEF n, codes
<1>3. IsSeq(compress_block(tokens, codes))
  BY <1>1, <1>2, BlockIsSeq DEF n
<1>4. QED BY <1>3 DEF codes

LEMMA LiesAhead ==
  ASSUME NEW data, Len(data) \in Nat, NEW at, NEW block, Lies(data, at, block), MarkerAt(data, at + Len(block))
  PROVE  Ahead(data, at + 1, block)
<1> DEFINE n == Len(block)
<1>1. at \in Nat /\ n \in Nat /\ \A i \in 1..n : data[at + i] = block[i]
  BY DEF Lies
<1>2. at + n + 2 <= Len(data) /\ data[at + n + 1] = 255 /\ data[at + n + 2] \in 1..255
  BY DEF MarkerAt
<1> HIDE DEF n
<1>3. at + 1 \in Nat /\ (at + 1) + n + 1 <= Len(data)
  BY <1>1, <1>2
<1>4. \A i \in 1..n : (at + 1) + i - 1 = at + i
  BY <1>1
<1>5. \A i \in 1..n : data[(at + 1) + i - 1] = block[i]
  BY <1>1, <1>4
<1>6. (at + 1) + n = at + n + 1 /\ (at + 1) + n + 1 = at + n + 2
  BY <1>1
<1>7. data[(at + 1) + n] = 255 /\ data[(at + 1) + n + 1] \in 1..255
  BY <1>2, <1>6
<1>8. QED BY <1>3, <1>5, <1>7 DEF Ahead, n

(* The header of a block, and the block after it, as the decoder reads     *)
(* them: `at` elements come before its marker.                             *)
BlockSent(data, at, id, tokens, huff) ==
  /\ data[at + 1] = 255 /\ data[at + 2] = SOB
  /\ getc_block_header(data, at + 3) = [ok |-> TRUE, at |-> at + 6, id |-> id]
  /\ \A kind, read :
       ReadBy(read, data, kind, gen_decode_table(huff.bits), huff.values, Len(tokens), at + 6)
         => BlockComes(read, data, kind, gen_decode_table(huff.bits), huff.values, tokens, Len(tokens),
                       at + 6 + Len(compress_block(tokens, huff.codes)))

LEMMA HeaderIs ==
  \A id : LET h == putc_block_header(id)
          IN  IsSeq(h) /\ Len(h) = 5 /\ h[1] = 255 /\ h[2] = SOB /\ h[5] = id
<1> SUFFICES ASSUME NEW id
             PROVE  LET h == putc_block_header(id)
                    IN  IsSeq(h) /\ Len(h) = 5 /\ h[1] = 255 /\ h[2] = SOB /\ h[5] = id
  OBVIOUS
<1> DEFINE m == Marker(SOB)
           l == putc_ushort(3)
           i == <<id>>
           a == m \o l
           h == a \o i
<1>1. putc_block_header(id) = h
  BY DEF putc_block_header
<1>2. IsSeq(m) /\ Len(m) = 2 /\ m[1] = 255 /\ m[2] = SOB
  BY Markers
<1>3. IsSeq(l) /\ Len(l) = 2
  BY Shorts
<1>4. IsSeq(i) /\ Len(i) = 1 /\ i[1] = id
  BY Singles
<1> HIDE DEF m, l, i
<1>5. Conjoined(a, m, l)
  BY <1>2, <1>3, Joints
<1> HIDE DEF a
<1>6. IsSeq(a) /\ Len(a) = 4 /\ a[1] = 255 /\ a[2] = SOB
  BY <1>2, <1>3, <1>5 DEF Conjoined
<1>7. Conjoined(h, a, i)
  BY <1>4, <1>6, Joints
<1> HIDE DEF h
<1>8. IsSeq(h) /\ Len(h) = 5 /\ h[1] = 255 /\ h[2] = SOB /\ h[4 + 1] = id
  <2>1. IsSeq(h) /\ Len(h) = 4 + 1
    BY <1>4, <1>6, <1>7 DEF Conjoined
  <2>2. h[1] = a[1] /\ h[2] = a[2]
    BY <1>6, <1>7 DEF Conjoined
  <2>3. h[4 + 1] = i[1]
    BY <1>4, <1>6, <1>7 DEF Conjoined
  <2>4. QED BY <1>4, <1>6, <2>1, <2>2, <2>3
<1>9. QED BY <1>1, <1>8

LEMMA BlockIsSent ==
  ASSUME NEW tokens, NEW counted, Among(tokens, counted), Len(counted) + 1 < Fibonacci[Longer + 3],
         NEW huff, huff = gen_hufftable_wsq(counted), NEW id,
         NEW data, Len(data) \in Nat, NEW at, Lies(data, at, putc_block_header(id)),
         Lies(data, at + 5, compress_block(tokens, huff.codes)),
         MarkerAt(data, at + 5 + Len(compress_block(tokens, huff.codes)))
  PROVE  BlockSent(data, at, id, tokens, huff)
<1> DEFINE block == compress_block(tokens, huff.codes)
           h == putc_block_header(id)
           table == gen_decode_table(huff.bits)
           n == Len(tokens)
<1>1. Len(h) = 5 /\ h[1] = 255 /\ h[2] = SOB /\ h[5] = id
  BY HeaderIs
<1>2. at \in Nat /\ at + 5 <= Len(data) /\ data[at + 1] = 255 /\ data[at + 2] = SOB /\ data[at + 5] = id
  <2>1. at \in Nat /\ at + Len(h) <= Len(data) /\ \A i \in 1..Len(h) : data[at + i] = h[i]
    BY DEF Lies
  <2> HIDE DEF h
  <2>2. QED BY <1>1, <2>1
<1>3. getc_block_header(data, at + 3) = [ok |-> TRUE, at |-> at + 6, id |-> id]
  <2> DEFINE place == at + 3
  <2>1. getc_block_header(data, place) =
          IF ~Has(data, place, 3) THEN Ended ELSE [ok |-> TRUE, at |-> place + 3, id |-> data[place + 2]]
    BY Zenon DEF getc_block_header
  <2>2. place + 3 - 1 <= Len(data) /\ place + 3 = at + 6 /\ place + 2 = at + 5
    BY <1>2
  <2>3. Has(data, place, 3)
    BY <2>2 DEF Has
  <2> HIDE DEF place
  <2>4. getc_block_header(data, place) = [ok |-> TRUE, at |-> at + 6, id |-> id]
    BY <1>2, <2>1, <2>2, <2>3
  <2>5. QED BY <2>4 DEF place
<1>4. Ahead(data, at + 6, block)
  <2> DEFINE x == at + 5
  <2>1. Lies(data, x, block) /\ MarkerAt(data, x + Len(block))
    OBVIOUS
  <2> HIDE DEF x, block
  <2>2. Ahead(data, x + 1, block)
    BY <2>1, LiesAhead
  <2>3. x + 1 = at + 6
    BY <1>2 DEF x
  <2>4. QED BY <2>2, <2>3
<1>5. ASSUME NEW kind, NEW read, ReadBy(read, data, kind, table, huff.values, n, at + 6)
      PROVE  BlockComes(read, data, kind, table, huff.values, tokens, n, at + 6 + Len(block))
  <2>1. tokens \in Seq(TokenSet) /\ counted \in Seq(TokenSet)
        /\ \A i \in DOMAIN tokens : Whole(tokens[i]) /\ \E k \in DOMAIN counted : counted[k] = tokens[i]
    BY AmongIs
  <2>2. QED BY <1>4, <1>5, <2>1, BlockReadsBack
<1> HIDE DEF block, table, n
<1>6. QED BY <1>2, <1>3, <1>5, Zenon DEF BlockSent, block, table, n

(* Where the parts of a stream of two tables and three blocks lie.         *)
Placed9(data, at, head, table1, block1, table2, block2, block3) ==
  /\ at[1] = Len(head) /\ at[6] + 2 = Len(data) /\ Lies(data, at[1], table1)
  /\ at[2] = at[1] + Len(table1) /\ Lies(data, at[2], putc_block_header(0)) /\ Lies(data, at[2] + 5, block1)
  /\ at[3] = at[2] + 5 + Len(block1) /\ Lies(data, at[3], table2)
  /\ at[4] = at[3] + Len(table2) /\ Lies(data, at[4], putc_block_header(1)) /\ Lies(data, at[4] + 5, block2)
  /\ at[5] = at[4] + 5 + Len(block2) /\ Lies(data, at[5], putc_block_header(1)) /\ Lies(data, at[5] + 5, block3)
  /\ at[6] = at[5] + 5 + Len(block3) /\ Lies(data, at[6], Marker(EOI))

LEMMA PlacesOf ==
  ASSUME NEW head, IsSeq(head), NEW table1, IsSeq(table1), NEW block1, IsSeq(block1),
         NEW table2, IsSeq(table2), NEW block2, IsSeq(block2), NEW block3, IsSeq(block3),
         NEW blocks, blocks = table1 \o putc_block_header(0) \o block1
                               \o table2 \o putc_block_header(1) \o block2
                               \o putc_block_header(1) \o block3,
         NEW data, data = head \o blocks \o Marker(EOI)
  PROVE  Len(data) \in Nat /\ \E at : Placed9(data, at, head, table1, block1, table2, block2, block3)
<1> DEFINE h0 == putc_block_header(0)
           h1 == putc_block_header(1)
           c2 == table1 \o h0
           c3 == c2 \o block1
           c4 == c3 \o table2
           c5 == c4 \o h1
           c6 == c5 \o block2
           c7 == c6 \o h1
           all == head \o blocks
           e == Marker(EOI)
<1>1. blocks = c7 \o block3 /\ data = all \o e
  OBVIOUS
<1>2. IsSeq(h0) /\ IsSeq(h1) /\ Len(h0) = 5 /\ Len(h1) = 5 /\ IsSeq(e) /\ Len(e) = 2
  BY HeaderIs, Markers
<1> HIDE DEF h0, h1, e
<1>3. Conjoined(c2, table1, h0) /\ IsSeq(c2)
  BY <1>2, Joints, Concats
<1>4. Conjoined(c3, c2, block1) /\ IsSeq(c3)
  BY <1>3, Joints, Concats
<1>5. Conjoined(c4, c3, table2) /\ IsSeq(c4)
  BY <1>4, Joints, Concats
<1>6. Conjoined(c5, c4, h1) /\ IsSeq(c5)
  BY <1>2, <1>5, Joints, Concats
<1>7. Conjoined(c6, c5, block2) /\ IsSeq(c6)
  BY <1>6, Joints, Concats
<1>8. Conjoined(c7, c6, h1) /\ IsSeq(c7)
  BY <1>2, <1>7, Joints, Concats
<1>9. Conjoined(blocks, c7, block3) /\ IsSeq(blocks)
  BY <1>1, <1>8, Joints, Concats
<1>10. Conjoined(all, head, blocks) /\ IsSeq(all)
  BY <1>9, Joints, Concats
<1>11. Conjoined(data, all, e) /\ IsSeq(data)
  BY <1>1, <1>2, <1>10, Joints, Concats
<1>12. Len(data) \in Nat
  BY <1>2, <1>10, <1>11 DEF Conjoined
<1>13. Lies(data, 0, all \o e)
  BY <1>1, <1>11, LiesWhole
<1>14. Lies(data, 0, all) /\ Lies(data, 0 + Len(all), e)
  BY <1>2, <1>10, <1>12, <1>13, LiesSplit
<1>15. Lies(data, 0, head) /\ Lies(data, 0 + Len(head), blocks)
  BY <1>9, <1>12, <1>14, LiesSplit
<1> DEFINE p == 0 + Len(head)
<1>16. Lies(data, p, c7) /\ Lies(data, p + Len(c7), block3)
  BY <1>1, <1>8, <1>12, <1>15, LiesSplit
<1> HIDE DEF all, p
<1>17. Lies(data, p, c6) /\ Lies(data, p + Len(c6), h1)
  BY <1>2, <1>7, <1>12, <1>16, LiesSplit
<1>18. Lies(data, p, c5) /\ Lies(data, p + Len(c5), block2)
  BY <1>6, <1>12, <1>17, LiesSplit
<1>19. Lies(data, p, c4) /\ Lies(data, p + Len(c4), h1)
  BY <1>2, <1>5, <1>12, <1>18, LiesSplit
<1>20. Lies(data, p, c3) /\ Lies(data, p + Len(c3), table2)
  BY <1>4, <1>12, <1>19, LiesSplit
<1>21. Lies(data, p, c2) /\ Lies(data, p + Len(c2), block1)
  BY <1>3, <1>12, <1>20, LiesSplit
<1>22. Lies(data, p, table1) /\ Lies(data, p + Len(table1), h0)
  BY <1>2, <1>12, <1>21, LiesSplit
<1> HIDE DEF c2, c3, c4, c5, c6, c7
<1> DEFINE m1 == Len(table1)
           m2 == Len(block1)
           m3 == Len(table2)
           m4 == Len(block2)
           m5 == Len(block3)
<1>23. /\ m1 \in Nat /\ m2 \in Nat /\ m3 \in Nat /\ m4 \in Nat /\ m5 \in Nat
       /\ Len(c2) = m1 + 5 /\ Len(c3) = m1 + 5 + m2 /\ Len(c4) = m1 + 5 + m2 + m3
       /\ Len(c5) = m1 + 5 + m2 + m3 + 5 /\ Len(c6) = m1 + 5 + m2 + m3 + 5 + m4
       /\ Len(c7) = m1 + 5 + m2 + m3 + 5 + m4 + 5 /\ Len(blocks) = m1 + 5 + m2 + m3 + 5 + m4 + 5 + m5
  <2>1. /\ m1 \in Nat /\ m2 \in Nat /\ m3 \in Nat /\ m4 \in Nat /\ m5 \in Nat
        /\ Len(c2) = m1 + Len(h0) /\ Len(c3) = Len(c2) + m2 /\ Len(c4) = Len(c3) + m3
        /\ Len(c5) = Len(c4) + Len(h1) /\ Len(c6) = Len(c5) + m4
        /\ Len(c7) = Len(c6) + Len(h1) /\ Len(blocks) = Len(c7) + m5
    BY <1>3, <1>4, <1>5, <1>6, <1>7, <1>8, <1>9, Zenon DEF Conjoined
  <2> HIDE DEF m1, m2, m3, m4, m5
  <2>2. QED BY <1>2, <2>1
<1>24. p = Len(head) /\ p \in Nat /\ Len(all) = p + Len(blocks)
  <2>1. Len(head) \in Nat /\ Len(all) = Len(head) + Len(blocks)
    BY <1>10 DEF Conjoined
  <2>2. QED BY <2>1 DEF p
<1> HIDE DEF m1, m2, m3, m4, m5
<1> DEFINE a1 == p
           a2 == a1 + m1
           a3 == a2 + 5 + m2
           a4 == a3 + m3
           a5 == a4 + 5 + m4
           a6 == a5 + 5 + m5
           at == <<a1, a2, a3, a4, a5, a6>>
<1>25. /\ p + Len(c2) = a2 + 5 /\ p + Len(c3) = a3 /\ p + Len(c4) = a4 /\ p + Len(c5) = a4 + 5
       /\ p + Len(c6) = a5 /\ p + Len(c7) = a5 + 5 /\ 0 + Len(all) = a6
  BY <1>23, <1>24
<1>26. /\ Lies(data, a1, table1) /\ Lies(data, a2, h0) /\ Lies(data, a2 + 5, block1)
       /\ Lies(data, a3, table2) /\ Lies(data, a4, h1) /\ Lies(data, a4 + 5, block2)
       /\ Lies(data, a5, h1) /\ Lies(data, a5 + 5, block3) /\ Lies(data, a6, e)
  <2>1. Lies(data, a2, h0)
    BY <1>22 DEF m1
  <2> HIDE DEF a1, a2, a3, a4, a5, a6
  <2>2. /\ Lies(data, a2 + 5, block1) /\ Lies(data, a3, table2) /\ Lies(data, a4, h1)
        /\ Lies(data, a4 + 5, block2) /\ Lies(data, a5, h1) /\ Lies(data, a5 + 5, block3)
        /\ Lies(data, a6, e)
    BY <1>14, <1>16, <1>17, <1>18, <1>19, <1>20, <1>21, <1>25
  <2>3. QED BY <1>22, <2>1, <2>2 DEF a1
<1>27. /\ at[1] = a1 /\ at[2] = a2 /\ at[3] = a3 /\ at[4] = a4 /\ at[5] = a5 /\ at[6] = a6
       /\ a2 = a1 + m1 /\ a3 = a2 + 5 + m2 /\ a4 = a3 + m3 /\ a5 = a4 + 5 + m4 /\ a6 = a5 + 5 + m5
  <2> HIDE DEF a1, a2, a3, a4, a5, a6
  <2>1. /\ at[1] = a1 /\ at[2] = a2 /\ at[3] = a3 /\ at[4] = a4 /\ at[5] = a5 /\ at[6] = a6
    OBVIOUS
  <2>2. QED BY <2>1 DEF a2, a3, a4, a5, a6
<1> HIDE DEF a1, a2, a3, a4, a5, a6, at
<1>28. at[1] = Len(head) /\ at[6] + 2 = Len(data)
  <2>1. a1 = Len(head)
    BY <1>24 DEF a1
  <2>2. Len(data) = a6 + 2
    <3>1. Len(data) = Len(all) + 2 /\ Len(all) \in Nat
      BY <1>2, <1>10, <1>11 DEF Conjoined
    <3>2. QED BY <1>25, <3>1
  <2>3. a6 \in Nat
    BY <1>26 DEF Lies
  <2>4. QED BY <1>27, <2>1, <2>2, <2>3
<1>29. Placed9(data, at, head, table1, block1, table2, block2, block3)
  BY <1>26, <1>27, <1>28, Zenon DEF Placed9, h0, h1, e, m1, m2, m3, m4, m5
<1>30. QED BY <1>12, <1>29

-----------------------------------------------------------------------------
(* A table, after `at` elements, as getc_huffman_table reads it.           *)
TableSent(data, at, id, huff) ==
  /\ data[at + 1] = 255 /\ data[at + 2] = DHT
  /\ TableComes(getc_huffman_table(data, at + 3), id, huff, at + Len(putc_huffman_table(id, huff)) + 1)

(* Two tables and three blocks, one after the other, up to the end.        *)
PartsSent(data, at, part, huff1, huff2) ==
  /\ TableSent(data, at[1], 0, huff1)
  /\ at[2] = at[1] + Len(putc_huffman_table(0, huff1))
  /\ BlockSent(data, at[2], 0, part[1], huff1)
  /\ at[3] = at[2] + 5 + Len(compress_block(part[1], huff1.codes))
  /\ TableSent(data, at[3], 1, huff2)
  /\ at[4] = at[3] + Len(putc_huffman_table(1, huff2))
  /\ BlockSent(data, at[4], 1, part[2], huff2)
  /\ at[5] = at[4] + 5 + Len(compress_block(part[2], huff2.codes))
  /\ BlockSent(data, at[5], 1, part[3], huff2)
  /\ at[6] = at[5] + 5 + Len(compress_block(part[3], huff2.codes))
  /\ at[6] + 2 = Len(data) /\ data[at[6] + 1] = 255 /\ data[at[6] + 2] = EOI

LEMMA HeaderMarks ==
  ASSUME NEW data, NEW at, NEW id, Lies(data, at, putc_block_header(id))
  PROVE  MarkerAt(data, at)
<1> DEFINE h == putc_block_header(id)
<1>1. Len(h) = 5 /\ h[1] = 255 /\ h[2] = SOB
  BY HeaderIs
<1>2. at \in Nat /\ at + Len(h) <= Len(data) /\ \A i \in 1..Len(h) : data[at + i] = h[i]
  BY DEF Lies
<1> HIDE DEF h
<1>3. at \in Nat /\ data[at + 1] = 255 /\ data[at + 2] = SOB
  BY <1>1, <1>2
<1>4. at + 5 <= Len(data)
  BY <1>1, <1>2
<1>5. SOB \in 1..255
  BY DEF SOB
<1>6. QED BY <1>3, <1>4, <1>5 DEF MarkerAt

LEMMA EndMarks ==
  ASSUME NEW data, NEW at, Lies(data, at, Marker(EOI))
  PROVE  MarkerAt(data, at) /\ data[at + 1] = 255 /\ data[at + 2] = EOI
<1> DEFINE h == Marker(EOI)
<1>1. Len(h) = 2 /\ h[1] = 255 /\ h[2] = EOI
  BY Markers
<1>2. at \in Nat /\ at + Len(h) <= Len(data) /\ \A i \in 1..Len(h) : data[at + i] = h[i]
  BY DEF Lies
<1> HIDE DEF h
<1>3. at \in Nat /\ data[at + 1] = 255 /\ data[at + 2] = EOI
  BY <1>1, <1>2
<1>4. at + 2 <= Len(data)
  BY <1>1, <1>2
<1>5. EOI \in 1..255
  BY DEF EOI
<1>6. QED BY <1>3, <1>4, <1>5 DEF MarkerAt

(* The encoder's output, when it gives one.                                *)
LEMMA OutputIs ==
  ASSUME NEW img, NEW comment, Encoded(img, comment).why = ""
  PROVE  Encoded(img, comment).data =
           Headers(img, comment, Quantized(img).kept) \o Blocks(PartsOfImage(img)).data \o Marker(EOI)
<1> DEFINE q == Quantized(img)
           blocks == Blocks(PartsOfImage(img))
           data == Headers(img, comment, q.kept) \o blocks.data \o Marker(EOI)
           Refused(why) == [why |-> why, data |-> <<>>]
           c1 == q.sip.len # q.qsize[1] + q.qsize[2] + q.qsize[3]
           c2 == ~Writable(q.kept)
           c4 == Len(data) > img.w * img.h
           whole == [why |-> "", data |-> data]
           e == Assembled(img, q, blocks, data)
<1>1. Encoded(img, comment) = e
  BY Zenon DEF Encoded, EncodedAs, WithHeaders, PartsOfImage
<1> HIDE DEF q, blocks, data
<1>2. e = CASE c1 -> Refused("block sizes")
            [] c2 -> Refused("bin too wide")
            [] ~blocks.ok -> Refused("code of ones")
            [] c4 -> Refused("buffer full")
            [] OTHER -> whole
  BY Zenon DEF Assembled
<1> HIDE DEF c1, c2, c4, e
<1>3. /\ Refused("block sizes").why # "" /\ Refused("bin too wide").why # ""
      /\ Refused("code of ones").why # "" /\ Refused("buffer full").why # ""
      /\ whole.data = data
  OBVIOUS
<1> HIDE DEF Refused, whole
<1>4. e \in {Refused("block sizes"), Refused("bin too wide"), Refused("code of ones"), Refused("buffer full"),
             whole}
  BY <1>2
<1>5. e = whole
  BY <1>1, <1>3, <1>4
<1>6. e.data = data
  BY <1>3, <1>5
<1>7. QED BY <1>1, <1>6 DEF data, blocks, q

(* The parts of a stream, where each lies, are sent.                       *)
LEMMA PlacedIsSent ==
  ASSUME NEW part, NEW counted2, Among(part[1], part[1]), Among(part[2], counted2), Among(part[3], counted2),
         Len(part[1]) + 1 < Fibonacci[Longer + 3], Len(counted2) + 1 < Fibonacci[Longer + 3],
         NEW huff1, huff1 = gen_hufftable_wsq(part[1]), NEW huff2, huff2 = gen_hufftable_wsq(counted2),
         NEW data, Len(data) \in Nat, NEW at, NEW head,
         Placed9(data, at, head, putc_huffman_table(0, huff1), compress_block(part[1], huff1.codes),
                 putc_huffman_table(1, huff2), compress_block(part[2], huff2.codes),
                 compress_block(part[3], huff2.codes))
  PROVE  PartsSent(data, at, part, huff1, huff2)
<1> DEFINE table1 == putc_huffman_table(0, huff1)
           table2 == putc_huffman_table(1, huff2)
           block1 == compress_block(part[1], huff1.codes)
           block2 == compress_block(part[2], huff2.codes)
           block3 == compress_block(part[3], huff2.codes)
           a1 == at[1]
           a2 == at[2]
           a3 == at[3]
           a4 == at[4]
           a5 == at[5]
           a6 == at[6]
<1>1. /\ a6 + 2 = Len(data) /\ Lies(data, a1, table1)
      /\ a2 = a1 + Len(table1) /\ Lies(data, a2, putc_block_header(0)) /\ Lies(data, a2 + 5, block1)
      /\ a3 = a2 + 5 + Len(block1) /\ Lies(data, a3, table2)
      /\ a4 = a3 + Len(table2) /\ Lies(data, a4, putc_block_header(1)) /\ Lies(data, a4 + 5, block2)
      /\ a5 = a4 + 5 + Len(block2) /\ Lies(data, a5, putc_block_header(1)) /\ Lies(data, a5 + 5, block3)
      /\ a6 = a5 + 5 + Len(block3) /\ Lies(data, a6, Marker(EOI))
  BY Zenon DEF Placed9
<1> HIDE DEF a1, a2, a3, a4, a5, a6
<1>2. part[1] \in Seq(TokenSet) /\ counted2 \in Seq(TokenSet)
  BY AmongIs, Zenon
<1>3. Tabled(huff1) /\ Tabled(huff2)
  BY <1>2, TablesAre
<1>4. TableSent(data, a1, 0, huff1) /\ TableSent(data, a3, 1, huff2) /\ MarkerAt(data, a3)
  <2>1. /\ TableComes(getc_huffman_table(data, a1 + 3), 0, huff1, a1 + Len(table1) + 1)
        /\ MarkerAt(data, a1) /\ data[a1 + 2] = DHT
    <3>1. Lies(data, a1, table1)
      BY <1>1
    <3>2. QED BY <1>3, <3>1, TableReads
  <2>2. /\ TableComes(getc_huffman_table(data, a3 + 3), 1, huff2, a3 + Len(table2) + 1)
        /\ MarkerAt(data, a3) /\ data[a3 + 2] = DHT
    <3>1. Lies(data, a3, table2)
      BY <1>1
    <3>2. QED BY <1>3, <3>1, TableReads
  <2>3. data[a1 + 1] = 255 /\ data[a3 + 1] = 255
    BY <2>1, <2>2 DEF MarkerAt
  <2>4. QED BY <2>1, <2>2, <2>3, Zenon DEF TableSent
<1>5. MarkerAt(data, a5) /\ MarkerAt(data, a6) /\ data[a6 + 1] = 255 /\ data[a6 + 2] = EOI
  <2>1. MarkerAt(data, a5)
    <3>1. Lies(data, a5, putc_block_header(1))
      BY <1>1
    <3>2. QED BY <3>1, HeaderMarks
  <2>2. Lies(data, a6, Marker(EOI))
    BY <1>1
  <2>3. QED BY <2>1, <2>2, EndMarks
<1>6. BlockSent(data, a2, 0, part[1], huff1)
  BY <1>1, <1>4, BlockIsSent
<1>7. BlockSent(data, a4, 1, part[2], huff2)
  BY <1>1, <1>5, BlockIsSent
<1>8. BlockSent(data, a5, 1, part[3], huff2)
  BY <1>1, <1>5, BlockIsSent
<1>9. QED BY <1>1, <1>4, <1>5, <1>6, <1>7, <1>8, Zenon
          DEF PartsSent, a1, a2, a3, a4, a5, a6, table1, table2, block1, block2, block3

(* What the encoder puts out for an image are its two tables and three     *)
(* blocks, after the headers and before the end, and the decoder's readers *)
(* find each where the one before it ended: the tables as they were        *)
(* written, and in every block the tokens of its part, up to the marker    *)
(* that comes next.                                                        *)
THEOREM StreamReadsBack ==
  ASSUME NEW img, ImageFits(img), TablesFit(img), ShortQuanta(Quantized(img).sip.coefs),
         NEW comment, Encoded(img, comment).why = "",
         NEW data, data = Encoded(img, comment).data,
         NEW part, part = PartsOfImage(img),
         NEW huff1, huff1 = gen_hufftable_wsq(part[1]),
         NEW huff2, huff2 = gen_hufftable_wsq(part[2] \o part[3])
  PROVE  \E at : /\ at[1] = Len(Headers(img, comment, Quantized(img).kept))
                 /\ PartsSent(data, at, part, huff1, huff2)
<1> DEFINE kept == Quantized(img).kept
           counted2 == part[2] \o part[3]
           head == Headers(img, comment, kept)
           table1 == putc_huffman_table(0, huff1)
           table2 == putc_huffman_table(1, huff2)
           block1 == compress_block(part[1], huff1.codes)
           block2 == compress_block(part[2], huff2.codes)
           block3 == compress_block(part[3], huff2.codes)
           blocks == Blocks(part).data
<1>1. data = head \o blocks \o Marker(EOI)
  BY OutputIs
<1>2. blocks = table1 \o putc_block_header(0) \o block1
                 \o table2 \o putc_block_header(1) \o block2
                 \o putc_block_header(1) \o block3
  <2>1. Blocks(part) = Coded(part, huff1, huff2)
    BY Zenon DEF Blocks
  <2> DEFINE ok == huff1.ok /\ huff2.ok
             all == table1 \o putc_block_header(0) \o block1
                      \o table2 \o putc_block_header(1) \o block2
                      \o putc_block_header(1) \o block3
  <2>2. Blocks(part) = [ok |-> ok, data |-> all]
    BY <2>1, Zenon DEF Coded
  <2> HIDE DEF ok, all
  <2>3. [ok |-> ok, data |-> all].data = all
    OBVIOUS
  <2>4. blocks = all
    BY <2>2, <2>3, Zenon
  <2>5. QED BY <2>4 DEF all
<1>3. Len(part[1]) + 1 < Fibonacci[Longer + 3] /\ Len(counted2) + 1 < Fibonacci[Longer + 3]
  BY DEF TablesFit
<1>4. part[1] \in Seq(WholeTokens) /\ part[2] \in Seq(WholeTokens) /\ part[3] \in Seq(WholeTokens)
  BY PartsWhole
<1>5. Among(part[1], part[1]) /\ Among(part[2], counted2) /\ Among(part[3], counted2)
  BY <1>4, AmongParts
<1>6. part[1] \in Seq(TokenSet) /\ counted2 \in Seq(TokenSet)
  BY <1>5, AmongIs, Zenon
<1>7. IsSeq(head)
  BY HeadersAre
<1>8. IsSeq(table1) /\ IsSeq(table2)
  BY <1>3, <1>6, TablesAre, TableIsSeq
<1>9. IsSeq(block1) /\ IsSeq(block2) /\ IsSeq(block3)
  BY <1>3, <1>5, AmongBlock
<1> HIDE DEF head, table1, table2, block1, block2, block3, blocks, counted2
<1>10. Len(data) \in Nat /\ \E at : Placed9(data, at, head, table1, block1, table2, block2, block3)
  BY <1>1, <1>2, <1>7, <1>8, <1>9, PlacesOf
<1>11. PICK at : Placed9(data, at, head, table1, block1, table2, block2, block3)
  BY <1>10
<1>12. at[1] = Len(head)
  BY <1>11 DEF Placed9
<1>13. PartsSent(data, at, part, huff1, huff2)
  <2>1. huff2 = gen_hufftable_wsq(counted2)
    BY DEF counted2
  <2>2. QED BY <1>3, <1>5, <1>10, <1>11, <2>1, PlacedIsSent DEF table1, table2, block1, block2, block3
<1>14. QED BY <1>12, <1>13 DEF head

-----------------------------------------------------------------------------
(* Attribute lists.  A list with its features, no two of the same name.    *)
Features(V) == [name : V, value : V]

Listed(f) ==
  /\ \E a, V : f \in [alloc : {a}, pairs : Seq(Features(V))]
  /\ \A i, j \in DOMAIN f.pairs : f.pairs[i].name = f.pairs[j].name => i = j

(* The one feature of a name. *)
Holds(f, name, value) ==
  \E i \in DOMAIN f.pairs : f.pairs[i].name = name /\ f.pairs[i].value = value

LEMMA PairIs ==
  ASSUME NEW V, NEW name \in V, NEW value \in V
  PROVE  /\ Pair(name, value) \in Features(V)
         /\ Pair(name, value).name = name /\ Pair(name, value).value = value
BY DEF Pair, Features

LEMMA Wider ==
  ASSUME NEW V, NEW W, V \subseteq W, NEW s \in Seq(Features(V))
  PROVE  s \in Seq(Features(W))
<1>1. \A r \in Features(V) : r \in Features(W)
  BY DEF Features
<1>2. s \in [1..Len(s) -> Features(V)] /\ Len(s) \in Nat
  OBVIOUS
<1>3. s \in [1..Len(s) -> Features(W)]
  BY <1>1, <1>2
<1>4. QED BY <1>2, <1>3

LEMMA Place ==
  ASSUME NEW f, Listed(f), NEW i \in DOMAIN f.pairs
  PROVE  IndexOf(f.pairs[i].name, f) = i
<1>1. PICK a, V : f \in [alloc : {a}, pairs : Seq(Features(V))]
  BY DEF Listed
<1>2. DOMAIN f.pairs = 1..Len(f.pairs) /\ Len(f.pairs) \in Nat
  BY <1>1
<1>3. \A j \in 1..(i - 1) : f.pairs[j].name # f.pairs[i].name
  BY <1>2 DEF Listed
<1>4. \A k \in DOMAIN f.pairs : f.pairs[k].name = f.pairs[i].name => k = i
  BY DEF Listed
<1>5. QED BY <1>3, <1>4 DEF IndexOf

(* updatefet puts one feature, in its place or at the end.                 *)
LEMMA UpdateAdds ==
  ASSUME NEW f, Listed(f), NEW name, name \notin Names(f), NEW value
  PROVE  LET g == updatefet(name, value, f)
         IN  /\ Listed(g)
             /\ g.pairs = Append(f.pairs, Pair(name, value))
<1> DEFINE g == updatefet(name, value, f)
           r == reallocfet(f)
<1>1. PICK a, V : f \in [alloc : {a}, pairs : Seq(Features(V))]
  BY DEF Listed
<1>2. PICK b : r \in [alloc : {b}, pairs : Seq(Features(V))] /\ r.pairs = f.pairs
  <2>1. [f EXCEPT !.alloc = Grown(@)] \in [alloc : {Grown(f.alloc)}, pairs : Seq(Features(V))]
    BY <1>1
  <2>2. [f EXCEPT !.alloc = Grown(@)].pairs = f.pairs
    BY <1>1
  <2>3. QED BY <1>1, <2>1, <2>2 DEF reallocfet
<1> DEFINE W == V \cup {name, value}
<1>3. g = [r EXCEPT !.pairs = Append(@, Pair(name, value))]
  BY DEF updatefet
<1> HIDE DEF g, r
<1>4. f.pairs \in Seq(Features(W)) /\ Pair(name, value) \in Features(W)
  <2>1. f.pairs \in Seq(Features(W))
    BY <1>1, Wider
  <2>2. QED BY <2>1 DEF Features, Pair
<1>5. g.pairs = Append(f.pairs, Pair(name, value)) /\ g \in [alloc : {b}, pairs : Seq(Features(W))]
  <2>1. r = [alloc |-> b, pairs |-> f.pairs]
    BY <1>2
  <2>2. g = [alloc |-> b, pairs |-> Append(f.pairs, Pair(name, value))]
    BY <1>3, <2>1
  <2>3. Append(f.pairs, Pair(name, value)) \in Seq(Features(W))
    BY <1>4
  <2>4. QED BY <2>2, <2>3
<1>6. \A i \in DOMAIN f.pairs : f.pairs[i].name # name
  BY DEF Names
<1>7. ASSUME NEW i \in DOMAIN g.pairs, NEW j \in DOMAIN g.pairs, g.pairs[i].name = g.pairs[j].name
      PROVE  i = j
  <2> DEFINE n == Len(f.pairs)
  <2>1. /\ n \in Nat /\ DOMAIN g.pairs = 1..(n + 1) /\ DOMAIN f.pairs = 1..n
        /\ g.pairs[n + 1] = Pair(name, value)
        /\ \A k \in 1..n : g.pairs[k] = f.pairs[k]
    BY <1>4, <1>5
  <2>2. g.pairs[n + 1].name = name
    BY <2>1 DEF Pair
  <2>3. \A k \in 1..n : g.pairs[k].name # name
    BY <1>6, <2>1
  <2>4. QED BY <1>7, <2>1, <2>2, <2>3 DEF Listed
<1>8. Listed(g)
  BY <1>5, <1>7 DEF Listed
<1>9. QED BY <1>5, <1>8 DEF g

LEMMA UpdateSets ==
  ASSUME NEW f, Listed(f), NEW name, name \in Names(f), NEW value
  PROVE  LET g == updatefet(name, value, f)
         IN  /\ Listed(g)
             /\ Len(g.pairs) = Len(f.pairs) /\ DOMAIN g.pairs = DOMAIN f.pairs
             /\ \A i \in DOMAIN f.pairs :
                  /\ g.pairs[i].name = f.pairs[i].name
                  /\ g.pairs[i].value = IF f.pairs[i].name = name THEN value ELSE f.pairs[i].value
<1> DEFINE g == updatefet(name, value, f)
<1>1. PICK a, V : f \in [alloc : {a}, pairs : Seq(Features(V))]
  BY DEF Listed
<1>2. PICK k \in DOMAIN f.pairs : f.pairs[k].name = name
  BY DEF Names
<1>3. g = [f EXCEPT !.pairs[k].value = value]
  BY <1>2, Place DEF updatefet
<1> HIDE DEF g
<1> DEFINE W == V \cup {name, value}
           new == [f.pairs[k] EXCEPT !.value = value]
<1>4. f.pairs \in Seq(Features(W)) /\ f.pairs[k] \in Features(W)
  BY <1>1, <1>2, Wider
<1>5. new \in Features(W) /\ new.name = name /\ new.value = value
  BY <1>2, <1>4 DEF Features
<1>6. g.pairs = [f.pairs EXCEPT ![k] = new] /\ g.alloc = f.alloc /\ g = [alloc |-> g.alloc, pairs |-> g.pairs]
  BY <1>1, <1>3
<1> HIDE DEF new
<1>7. g.pairs \in Seq(Features(W)) /\ Len(g.pairs) = Len(f.pairs) /\ DOMAIN g.pairs = DOMAIN f.pairs
  BY <1>2, <1>4, <1>5, <1>6
<1>8. \A i \in DOMAIN f.pairs : g.pairs[i] = IF i = k THEN new ELSE f.pairs[i]
  BY <1>2, <1>6
<1>9. \A i \in DOMAIN f.pairs : f.pairs[i].name = name => i = k
  BY <1>2 DEF Listed
<1>10. \A i \in DOMAIN f.pairs :
         /\ g.pairs[i].name = f.pairs[i].name
         /\ g.pairs[i].value = IF f.pairs[i].name = name THEN value ELSE f.pairs[i].value
  BY <1>2, <1>5, <1>8, <1>9
<1>11. Listed(g)
  <2>1. g \in [alloc : {g.alloc}, pairs : Seq(Features(W))]
    BY <1>6, <1>7
  <2>2. QED BY <1>7, <1>10, <2>1 DEF Listed
<1>12. QED BY <1>7, <1>10, <1>11 DEF g

LEMMA Lengths ==
  ASSUME NEW f, Listed(f)
  PROVE  DOMAIN f.pairs = 1..Len(f.pairs) /\ Len(f.pairs) \in Nat
<1>1. PICK a, V : f \in [alloc : {a}, pairs : Seq(Features(V))]
  BY DEF Listed
<1>2. QED BY <1>1

LEMMA Update ==
  ASSUME NEW f, Listed(f), NEW name, NEW value
  PROVE  LET g == updatefet(name, value, f)
         IN  /\ Listed(g)
             /\ Names(g) = Names(f) \cup {name}
             /\ Len(g.pairs) = IF name \in Names(f) THEN Len(f.pairs) ELSE Len(f.pairs) + 1
             /\ Holds(g, name, value)
<1> DEFINE g == updatefet(name, value, f)
<1> HIDE DEF g
<1>1. CASE name \in Names(f)
  <2>1. /\ Listed(g)
        /\ Len(g.pairs) = Len(f.pairs) /\ DOMAIN g.pairs = DOMAIN f.pairs
        /\ \A i \in DOMAIN f.pairs :
             /\ g.pairs[i].name = f.pairs[i].name
             /\ g.pairs[i].value = IF f.pairs[i].name = name THEN value ELSE f.pairs[i].value
    BY <1>1, UpdateSets DEF g
  <2>2. Names(g) = Names(f) \cup {name}
    BY <1>1, <2>1 DEF Names
  <2>3. Holds(g, name, value)
    BY <1>1, <2>1 DEF Names, Holds
  <2>4. QED BY <1>1, <2>1, <2>2, <2>3 DEF g
<1>2. CASE name \notin Names(f)
  <2>1. Listed(g) /\ g.pairs = Append(f.pairs, Pair(name, value))
    BY <1>2, UpdateAdds DEF g
  <2>2. PICK a, V : f \in [alloc : {a}, pairs : Seq(Features(V))]
    BY DEF Listed
  <2> DEFINE W == V \cup {name, value}
             n == Len(f.pairs)
  <2>3. f.pairs \in Seq(Features(W)) /\ Pair(name, value) \in Features(W)
    <3>1. f.pairs \in Seq(Features(W))
      BY <2>2, Wider
    <3>2. QED BY <3>1 DEF Features, Pair
  <2>4. /\ n \in Nat /\ DOMAIN g.pairs = 1..(n + 1) /\ DOMAIN f.pairs = 1..n
        /\ g.pairs[n + 1] = Pair(name, value) /\ Len(g.pairs) = n + 1
        /\ \A k \in 1..n : g.pairs[k] = f.pairs[k]
    BY <2>1, <2>3
  <2>5. g.pairs[n + 1].name = name /\ g.pairs[n + 1].value = value
    BY <2>4 DEF Pair
  <2>6. n + 1 \in 1..(n + 1) /\ (1..n) \subseteq 1..(n + 1)
        /\ \A k \in 1..(n + 1) : k \in 1..n \/ k = n + 1
    BY <2>4
  <2>7. Names(g) = Names(f) \cup {name}
    <3>1. Names(g) = {g.pairs[k].name : k \in 1..(n + 1)}
      BY <2>4 DEF Names
    <3>2. Names(f) = {f.pairs[k].name : k \in 1..n}
      BY <2>4 DEF Names
    <3>3. ASSUME NEW x \in Names(g) PROVE x \in Names(f) \cup {name}
      BY <2>4, <2>5, <2>6, <3>1, <3>2
    <3>4. ASSUME NEW x \in Names(f) \cup {name} PROVE x \in Names(g)
      BY <2>4, <2>5, <2>6, <3>1, <3>2
    <3>5. QED BY <3>3, <3>4
  <2>8. Holds(g, name, value)
    BY <2>4, <2>5, <2>6 DEF Holds
  <2>9. QED BY <1>2, <2>1, <2>4, <2>7, <2>8 DEF g
<1>3. QED BY <1>1, <1>2

LEMMA UpdateListed ==
  ASSUME NEW f, Listed(f), NEW name, NEW value, NEW g, g = updatefet(name, value, f)
  PROVE  /\ Listed(g) /\ Names(g) = Names(f) \cup {name}
         /\ name \in Names(f) => Len(g.pairs) = Len(f.pairs)
         /\ Holds(g, name, value)
<1> DEFINE h == updatefet(name, value, f)
<1>1. /\ Listed(h) /\ Names(h) = Names(f) \cup {name}
      /\ Len(h.pairs) = IF name \in Names(f) THEN Len(f.pairs) ELSE Len(f.pairs) + 1
      /\ Holds(h, name, value)
  BY Update
<1>2. g = h
  OBVIOUS
<1> HIDE DEF h
<1>3. QED BY <1>1, <1>2

(* A reader of a list gets the one value of a name.                        *)
LEMMA Lookup ==
  ASSUME NEW f, Listed(f), NEW name, NEW value, Holds(f, name, value)
  PROVE  lookupfet(name, f).ok /\ lookupfet(name, f).value = value
<1>1. PICK i \in DOMAIN f.pairs : f.pairs[i].name = name /\ f.pairs[i].value = value
  BY DEF Holds
<1>2. name \in Names(f) /\ IndexOf(name, f) = i
  BY <1>1, Place DEF Names
<1>3. QED BY <1>1, <1>2 DEF lookupfet

(* No name twice: as many names as features.                               *)
LEMMA AsManyNames ==
  ASSUME NEW f, Listed(f)
  PROVE  Cardinality(Names(f)) = Len(f.pairs)
<1> DEFINE D == 1..Len(f.pairs)
           name == [i \in D |-> f.pairs[i].name]
<1>1. Len(f.pairs) \in Nat /\ DOMAIN f.pairs = D
  BY Lengths
<1>2. IsFiniteSet(D) /\ Cardinality(D) = Len(f.pairs)
  BY <1>1, FS_Interval
<1>3. name \in Bijection(D, Names(f))
  <2>1. name \in [D -> Names(f)]
    BY <1>1 DEF Names
  <2>2. \A i, j \in D : name[i] = name[j] => i = j
    BY <1>1 DEF Listed
  <2>3. \A n \in Names(f) : \E i \in D : name[i] = n
    BY <1>1 DEF Names
  <2>4. QED BY <2>1, <2>2, <2>3 DEF Bijection, Injection, Surjection, IsInjective
<1>4. QED BY <1>2, <1>3, FS_Bijection DEF ExistsBijection

-----------------------------------------------------------------------------
(* A fold of updatefet goes through the features in order.                 *)
LEMMA Steps ==
  ASSUME NEW f, NEW V, NEW s \in Seq(Features(V))
  PROVE  \E at : /\ at[0] = f
                 /\ \A n \in 0..(Len(s) - 1) :
                      at[n + 1] = updatefet(s[n + 1].name, s[n + 1].value, at[n])
                 /\ at[Len(s)] = Updated(f, s)
<1> DEFINE len == Len(s)
           OnceMore(g, t) == IF t = {} THEN f
                          ELSE updatefet(s[Max(t)].name, s[Max(t)].value, g[t \ {Max(t)}])
           Folds(g, n) == g = [t \in SUBSET (1..n) |-> OnceMore(g, t)]
<1>1. len \in Nat /\ DOMAIN s = 1..len
  OBVIOUS
<1>2. \E g : Folds(g, len)
  <2> DEFINE S == {n \in Nat : \E g : Folds(g, n)}
  <2>1. 0 \in S
    <3> DEFINE g == [t \in SUBSET (1..0) |-> f]
    <3>1. \A t \in SUBSET (1..0) : t = {}
      OBVIOUS
    <3>2. Folds(g, 0)
      BY <3>1
    <3>3. QED BY <3>2
  <2>2. ASSUME NEW n \in S PROVE n + 1 \in S
    <3>1. PICK g : Folds(g, n)
      BY <2>2
    <3> DEFINE h == [t \in SUBSET (1..(n + 1)) |-> OnceMore(g, t)]
    <3>2. n \in Nat
      BY <2>2
    <3>3. ASSUME NEW t \in SUBSET (1..n) PROVE h[t] = g[t]
      <4>1. t \in SUBSET (1..(n + 1))
        BY <3>2
      <4>2. g[t] = OnceMore(g, t)
        BY <3>1
      <4>3. QED BY <4>1, <4>2
    <3>4. ASSUME NEW t \in SUBSET (1..(n + 1)) PROVE OnceMore(h, t) = OnceMore(g, t)
      <4>1. CASE t = {}
        BY <4>1
      <4>2. CASE t # {}
        <5>1. h[t \ {Max(t)}] = g[t \ {Max(t)}]
          BY <3>2, <3>3, <4>2, Topless
        <5>2. QED BY <4>2, <5>1
      <4>3. QED BY <4>1, <4>2
    <3> HIDE DEF OnceMore
    <3>5. Folds(h, n + 1)
      BY <3>4
    <3> HIDE DEF Folds, h
    <3>6. \E k : Folds(k, n + 1)
      BY <3>5
    <3>7. QED BY <3>2, <3>6
  <2>3. S \in SUBSET Nat
    OBVIOUS
  <2> HIDE DEF S
  <2>4. S = Nat
    BY <2>1, <2>2, <2>3, SetInduction
  <2>5. QED BY <1>1, <2>4 DEF S
<1> DEFINE g == CHOOSE g : Folds(g, len)
<1>3. Updated(f, s) = g[1..len]
  <2>1. Updated(f, s) = (CHOOSE h : h = [t \in SUBSET DOMAIN s |-> OnceMore(h, t)])[DOMAIN s]
    BY DEF Updated, FoldLeft, MapThenFoldSet
  <2>2. QED BY <1>1, <2>1
<1>4. Folds(g, len)
  BY <1>2, Zenon
<1> HIDE DEF g
<1> DEFINE at == [n \in 0..len |-> g[1..n]]
<1>5. ASSUME NEW t \in SUBSET (1..len) PROVE g[t] = OnceMore(g, t)
  BY <1>4
<1>6. at[0] = f
  <2>1. 0 \in 0..len /\ 1..0 = {} /\ {} \in SUBSET (1..len)
    BY <1>1
  <2>2. g[{}] = f
    BY <1>5, <2>1
  <2>3. QED BY <2>1, <2>2
<1>7. ASSUME NEW n \in 0..(len - 1)
      PROVE  at[n + 1] = updatefet(s[n + 1].name, s[n + 1].value, at[n])
  <2>1. n \in Nat /\ n \in 0..len /\ n + 1 \in 0..len /\ 1..(n + 1) \in SUBSET (1..len)
    BY <1>1
  <2>2. g[1..(n + 1)] = OnceMore(g, 1..(n + 1))
    BY <1>5, <2>1
  <2>3. 1..(n + 1) # {} /\ Max(1..(n + 1)) = n + 1 /\ (1..(n + 1)) \ {Max(1..(n + 1))} = 1..n
    BY <2>1, Prefix
  <2>4. OnceMore(g, 1..(n + 1)) = updatefet(s[n + 1].name, s[n + 1].value, g[1..n])
    BY <2>3
  <2>5. QED BY <2>1, <2>2, <2>4
<1>8. at[len] = Updated(f, s)
  BY <1>1, <1>3
<1>9. QED BY <1>6, <1>7, <1>8

LEMMA UpdatedNames ==
  ASSUME NEW f, Listed(f), NEW V, NEW s \in Seq(Features(V))
  PROVE  /\ Listed(Updated(f, s))
         /\ Names(Updated(f, s)) = Names(f) \cup {s[i].name : i \in DOMAIN s}
<1> DEFINE len == Len(s)
<1>1. len \in Nat /\ DOMAIN s = 1..len
  OBVIOUS
<1>2. PICK at : /\ at[0] = f
                /\ \A n \in 0..(len - 1) :
                     at[n + 1] = updatefet(s[n + 1].name, s[n + 1].value, at[n])
                /\ at[len] = Updated(f, s)
  BY Steps
<1> DEFINE Sound(n) == Listed(at[n]) /\ Names(at[n]) = Names(f) \cup {s[i].name : i \in 1..n}
           S == {n \in Nat : n <= len => Sound(n)}
<1>3. 0 \in S
  BY <1>2
<1>4. ASSUME NEW n \in S PROVE n + 1 \in S
  <2>1. SUFFICES ASSUME n + 1 <= len PROVE Sound(n + 1)
    OBVIOUS
  <2>2. n \in 0..(len - 1) /\ n + 1 \in 1..len /\ Sound(n)
    BY <1>1, <1>4, <2>1
  <2>3. at[n + 1] = updatefet(s[n + 1].name, s[n + 1].value, at[n])
    BY <1>2, <2>2
  <2>4. Listed(at[n + 1]) /\ Names(at[n + 1]) = Names(at[n]) \cup {s[n + 1].name}
    <3>1. Listed(at[n])
      BY <2>2
    <3> DEFINE g == updatefet(s[n + 1].name, s[n + 1].value, at[n])
    <3>2. Listed(g) /\ Names(g) = Names(at[n]) \cup {s[n + 1].name}
      BY <2>3, <3>1, Update, Zenon
    <3>3. at[n + 1] = g
      BY <2>3
    <3> HIDE DEF g
    <3>4. QED BY <3>2, <3>3
  <2>5. {s[i].name : i \in 1..(n + 1)} = {s[i].name : i \in 1..n} \cup {s[n + 1].name}
    BY <2>2
  <2>6. QED BY <2>2, <2>4, <2>5
<1>5. S \in SUBSET Nat
  OBVIOUS
<1> HIDE DEF S
<1>6. S = Nat
  BY <1>3, <1>4, <1>5, SetInduction
<1>7. Sound(len)
  BY <1>1, <1>6 DEF S
<1>8. QED BY <1>1, <1>2, <1>7

(* The list made from the text of a list is that list again.               *)
LEMMA Reread ==
  ASSUME NEW f, Listed(f)
  PROVE  Listed(string2fet(fet2string(f))) /\ string2fet(fet2string(f)).pairs = f.pairs
<1> DEFINE s == f.pairs
           len == Len(s)
           none == allocfet(MaxFets)
<1>1. PICK a, V : f \in [alloc : {a}, pairs : Seq(Features(V))]
  BY DEF Listed
<1>2. s \in Seq(Features(V)) /\ len \in Nat /\ DOMAIN s = 1..len
      /\ \A i \in 1..len : s[i] \in Features(V)
  BY <1>1
<1>3. Listed(none) /\ none.pairs = <<>> /\ Names(none) = {}
  <2>1. none = [alloc |-> MaxFets, pairs |-> <<>>] /\ <<>> \in Seq(Features({}))
    BY DEF allocfet
  <2>2. none \in [alloc : {MaxFets}, pairs : Seq(Features({}))] /\ DOMAIN none.pairs = {}
    BY <2>1
  <2>3. QED BY <2>1, <2>2 DEF Listed, Names
<1>4. string2fet(fet2string(f)) = Updated(none, s)
  BY DEF string2fet, fet2string, Updated
<1>5. PICK at : /\ at[0] = none
                /\ \A n \in 0..(len - 1) :
                     at[n + 1] = updatefet(s[n + 1].name, s[n + 1].value, at[n])
                /\ at[len] = Updated(none, s)
  BY <1>2, Steps
<1> DEFINE Sound(n) == /\ Listed(at[n]) /\ Len(at[n].pairs) = n
                       /\ \A i \in 1..n : at[n].pairs[i] = s[i]
           S == {n \in Nat : n <= len => Sound(n)}
<1>6. 0 \in S
  BY <1>3, <1>5
<1>7. ASSUME NEW n \in S PROVE n + 1 \in S
  <2>1. SUFFICES ASSUME n + 1 <= len PROVE Sound(n + 1)
    OBVIOUS
  <2>2. n \in 0..(len - 1) /\ n + 1 \in 1..len /\ Sound(n)
    BY <1>2, <1>7, <2>1
  <2>3. at[n + 1] = updatefet(s[n + 1].name, s[n + 1].value, at[n])
    BY <1>5, <2>2
  <2>4. DOMAIN at[n].pairs = 1..n
    BY <2>2, Lengths
  <2>5. s[n + 1] = Pair(s[n + 1].name, s[n + 1].value)
    BY <1>2, <2>2 DEF Features, Pair
  <2>6. s[n + 1].name \notin Names(at[n])
    <3>1. \A i \in 1..n : at[n].pairs[i].name = s[i].name /\ i \in 1..len /\ i # n + 1
      BY <1>2, <2>2
    <3>2. \A i \in 1..n : s[i].name # s[n + 1].name
      BY <1>2, <2>2, <3>1 DEF Listed
    <3>3. QED BY <2>4, <3>1, <3>2 DEF Names
  <2>7. Listed(at[n + 1]) /\ at[n + 1].pairs = Append(at[n].pairs, s[n + 1])
    <3> DEFINE name == s[n + 1].name
               value == s[n + 1].value
               g == updatefet(name, value, at[n])
    <3>1. Listed(at[n]) /\ name \notin Names(at[n])
      BY <2>2, <2>5, <2>6
    <3>2. at[n + 1] = g /\ s[n + 1] = Pair(name, value)
      BY <2>3, <2>5
    <3> HIDE DEF name, value
    <3>3. Listed(g) /\ g.pairs = Append(at[n].pairs, Pair(name, value))
      BY <3>1, UpdateAdds
    <3> HIDE DEF g
    <3>4. QED BY <3>2, <3>3
  <2>8. PICK b, W : at[n] \in [alloc : {b}, pairs : Seq(Features(W))]
    BY <2>2 DEF Listed
  <2>9. at[n].pairs \in Seq(Features(W) \cup {s[n + 1]})
    BY <2>8
  <2>10. /\ Len(at[n + 1].pairs) = n + 1
         /\ \A i \in 1..n : at[n + 1].pairs[i] = at[n].pairs[i]
         /\ at[n + 1].pairs[n + 1] = s[n + 1]
    BY <2>2, <2>7, <2>9
  <2>11. QED BY <2>2, <2>7, <2>10
<1>8. S \in SUBSET Nat
  OBVIOUS
<1> HIDE DEF S
<1>9. S = Nat
  BY <1>6, <1>7, <1>8, SetInduction
<1>10. Sound(len)
  BY <1>2, <1>9 DEF S
<1>11. at[len].pairs = s
  <2>1. PICK b, W : at[len] \in [alloc : {b}, pairs : Seq(Features(W))]
    BY <1>10 DEF Listed
  <2>2. at[len].pairs \in Seq(Features(W)) /\ DOMAIN at[len].pairs = 1..len
    BY <1>10, <2>1
  <2>3. at[len].pairs = [i \in 1..len |-> at[len].pairs[i]] /\ s = [i \in 1..len |-> s[i]]
    BY <1>2, <2>2
  <2>4. QED BY <1>10, <2>3
<1>12. QED BY <1>4, <1>5, <1>10, <1>11

(* deletefet takes one feature out, and the others close up.               *)
LEMMA DeleteDrops ==
  ASSUME NEW f, Listed(f), NEW name, name \in Names(f)
  PROVE  LET r == deletefet(name, f)
         IN  r.ok /\ Listed(r.fet) /\ Names(r.fet) = Names(f) \ {name}
<1> DEFINE g == deletefet(name, f).fet
           s == f.pairs
           len == Len(s)
<1>1. PICK a, V : f \in [alloc : {a}, pairs : Seq(Features(V))]
  BY DEF Listed
<1>2. PICK k \in DOMAIN s : s[k].name = name
  BY DEF Names
<1>3. deletefet(name, f).ok /\ g = [f EXCEPT !.pairs = RemoveAt(s, k)]
  BY <1>2, Place DEF deletefet
<1> HIDE DEF g
<1>4. s \in Seq(Features(V)) /\ len \in Nat /\ DOMAIN s = 1..len /\ k \in 1..len
  BY <1>1, <1>2
<1>5. g = [alloc |-> a, pairs |-> RemoveAt(s, k)]
  BY <1>1, <1>3
<1> DEFINE p == SubSeq(s, 1, k - 1)
           q == SubSeq(s, k + 1, len)
<1>6. /\ p \in Seq(Features(V)) /\ Len(p) = k - 1 /\ \A i \in 1..(k - 1) : p[i] = s[i]
      /\ q \in Seq(Features(V)) /\ Len(q) = len - k /\ \A i \in 1..(len - k) : q[i] = s[k + i]
  <2>1. SubSeq(s, 1, k - 1) \in Seq(Features(V)) /\ 1 \in 1..(len + 1) /\ k - 1 \in 0..len
    BY <1>4, SubSeqProperties
  <2>2. k + 1 \in 1..(len + 1) /\ len \in ((k + 1) - 1)..len
    BY <1>4
  <2>3. p \in Seq(Features(V)) /\ Len(p) = k - 1 /\ \A i \in 1..(k - 1) : p[i] = s[i]
    BY <1>4, <2>1, SubSeqProperties
  <2>4. /\ q \in Seq(Features(V)) /\ Len(q) = len - k
        /\ \A i \in 1..(len - (k + 1) + 1) : q[i] = s[(k + 1) + i - 1]
    BY <1>4, <2>2, SubSeqProperties
  <2>5. \A i \in 1..(len - k) : q[i] = s[k + i]
    BY <1>4, <2>4
  <2>6. QED BY <2>3, <2>4, <2>5
<1>7. g.pairs = p \o q
  BY <1>5 DEF RemoveAt
<1> HIDE DEF p, q
<1>8. /\ g.pairs \in Seq(Features(V)) /\ DOMAIN g.pairs = 1..(len - 1)
      /\ \A i \in 1..(len - 1) : g.pairs[i] = s[IF i < k THEN i ELSE i + 1]
  <2> DEFINE c == g.pairs
  <2>1. /\ c \in Seq(Features(V)) /\ Len(c) = len - 1
        /\ \A i \in 1..Len(c) : c[i] = IF i <= Len(p) THEN p[i] ELSE q[i - Len(p)]
    <3>1. /\ p \o q \in Seq(Features(V)) /\ Len(p \o q) = Len(p) + Len(q)
          /\ \A i \in 1..Len(p) + Len(q) : (p \o q)[i] = IF i <= Len(p) THEN p[i] ELSE q[i - Len(p)]
      BY <1>6, ConcatProperties
    <3>2. Len(p) + Len(q) = len - 1
      BY <1>4, <1>6
    <3>3. QED BY <1>7, <3>1, <3>2
  <2>2. ASSUME NEW i \in 1..(len - 1) PROVE c[i] = s[IF i < k THEN i ELSE i + 1]
    <3>1. CASE i < k
      BY <1>4, <1>6, <2>1, <3>1
    <3>2. CASE ~(i < k)
      <4>1. i \in 1..Len(c) /\ Len(p) = k - 1 /\ ~(i <= k - 1) /\ i - (k - 1) \in 1..(len - k)
        BY <1>4, <1>6, <2>1, <3>2
      <4>2. c[i] = IF i <= Len(p) THEN p[i] ELSE q[i - Len(p)]
        BY <2>1, <4>1
      <4>3. c[i] = q[i - (k - 1)]
        BY <4>1, <4>2
      <4>4. k + (i - (k - 1)) = i + 1
        BY <1>4, <3>2
      <4>5. QED BY <1>6, <3>2, <4>1, <4>4, <4>3
    <3>3. QED BY <3>1, <3>2
  <2>3. DOMAIN c = 1..(len - 1)
    BY <1>4, <2>1
  <2> HIDE DEF c
  <2>4. QED BY <2>1, <2>2, <2>3 DEF c
<1>9. ASSUME NEW i \in DOMAIN g.pairs, NEW j \in DOMAIN g.pairs, g.pairs[i].name = g.pairs[j].name
      PROVE  i = j
  <2> DEFINE Was(m) == IF m < k THEN m ELSE m + 1
  <2>1. Was(i) \in DOMAIN s /\ Was(j) \in DOMAIN s /\ (Was(i) = Was(j) => i = j)
    BY <1>4, <1>8
  <2>2. g.pairs[i] = s[Was(i)] /\ g.pairs[j] = s[Was(j)]
    BY <1>8
  <2> HIDE DEF Was
  <2>3. QED BY <1>9, <2>1, <2>2 DEF Listed
<1>10. Listed(g)
  <2>1. g \in [alloc : {a}, pairs : Seq(Features(V))]
    BY <1>5, <1>8
  <2>2. QED BY <1>9, <2>1 DEF Listed
<1>11. Names(g) = Names(f) \ {name}
  <2>1. ASSUME NEW x \in Names(g) PROVE x \in Names(f) \ {name}
    <3>1. PICK i \in 1..(len - 1) : x = g.pairs[i].name
      BY <1>8, <2>1 DEF Names
    <3> DEFINE m == IF i < k THEN i ELSE i + 1
    <3>2. m \in DOMAIN s /\ g.pairs[i] = s[m] /\ m # k
      BY <1>4, <1>8, <3>1
    <3> HIDE DEF m
    <3>3. QED BY <1>2, <3>1, <3>2 DEF Names, Listed
  <2>2. ASSUME NEW x \in Names(f) \ {name} PROVE x \in Names(g)
    <3>1. PICK m \in 1..len : x = s[m].name
      BY <1>4, <2>2 DEF Names
    <3>2. m # k
      BY <1>2, <2>2, <3>1
    <3>3. PICK i \in 1..(len - 1) : m = IF i < k THEN i ELSE i + 1
      <4>1. CASE m < k
        <5>1. m \in 1..(len - 1) /\ m = IF m < k THEN m ELSE m + 1
          BY <1>4, <3>1, <4>1
        <5>2. QED BY <5>1
      <4>2. CASE m > k
        <5>1. m - 1 \in 1..(len - 1) /\ m = IF m - 1 < k THEN m - 1 ELSE m - 1 + 1
          BY <1>4, <3>1, <4>2
        <5>2. QED BY <5>1
      <4>3. QED BY <1>4, <3>1, <3>2, <4>1, <4>2
    <3>4. g.pairs[i] = s[m] /\ i \in DOMAIN g.pairs
      BY <1>8, <3>3
    <3>5. QED BY <3>1, <3>4 DEF Names
  <2>3. QED BY <2>1, <2>2
<1>12. QED BY <1>3, <1>10, <1>11 DEF g

-----------------------------------------------------------------------------
(* The header feature is the number of features.                           *)
TrueToItself(f) == Listed(f) /\ Holds(f, "NIST_COM", Len(f.pairs))

LEMMA CountedTrue ==
  ASSUME NEW f, Listed(f), "NIST_COM" \in Names(f)
  PROVE  TrueToItself(Counted(f)) /\ Names(Counted(f)) = Names(f)
<1> DEFINE g == Counted(f)
           n == Len(f.pairs)
<1>2. g = updatefet("NIST_COM", n, f)
  BY DEF Counted
<1> HIDE DEF g, n
<1>3. /\ Listed(g) /\ Names(g) = Names(f) \cup {"NIST_COM"}
      /\ Len(g.pairs) = Len(f.pairs) /\ Holds(g, "NIST_COM", n)
  BY <1>2, UpdateListed, Zenon
<1>4. QED BY <1>3 DEF TrueToItself, g, n

SizeNames == {"PIX_WIDTH", "PIX_HEIGHT", "PIX_DEPTH", "PPI"}

LEMMA Began ==
  ASSUME NEW f, f = NoList \/ (Listed(f) /\ "NIST_COM" \in Names(f)), NEW img, NEW lossyflag
  PROVE  LET g == combine_nistcom(f, img, lossyflag)
         IN  /\ Listed(g) /\ "NIST_COM" \in Names(g)
             /\ Names(g) = (IF f = NoList THEN {} ELSE Names(f))
                            \cup SizeNames \cup {"NIST_COM", "LOSSY"}
<1> DEFINE start == IF f = NoList THEN updatefet("NIST_COM", 6, allocfet(6)) ELSE f
           sizes == << Pair("PIX_WIDTH", img.w), Pair("PIX_HEIGHT", img.h),
                       Pair("PIX_DEPTH", img.d), Pair("PPI", img.ppi) >>
           sized == Updated(start, sizes)
           g == combine_nistcom(f, img, lossyflag)
<1>1. Listed(start) /\ Names(start) = (IF f = NoList THEN {} ELSE Names(f)) \cup {"NIST_COM"}
  <2>1. CASE f = NoList
    <3> DEFINE none == allocfet(6)
    <3>1. Listed(none) /\ Names(none) = {}
      <4>1. none = [alloc |-> 6, pairs |-> <<>>] /\ <<>> \in Seq(Features({}))
        BY DEF allocfet
      <4> HIDE DEF none
      <4>2. none \in [alloc : {6}, pairs : Seq(Features({}))] /\ DOMAIN none.pairs = {}
        BY <4>1
      <4>3. QED BY <4>1, <4>2 DEF Listed, Names
    <3> HIDE DEF none
    <3> DEFINE six == 6
               h == updatefet("NIST_COM", six, none)
    <3>2. start = h
      BY <2>1 DEF none
    <3> HIDE DEF h, start
    <3>3. h = updatefet("NIST_COM", six, none)
      BY DEF h
    <3> HIDE DEF six
    <3>4. Listed(h) /\ Names(h) = Names(none) \cup {"NIST_COM"}
      BY <3>1, <3>3, UpdateListed, Zenon
    <3>5. QED BY <2>1, <3>1, <3>2, <3>4
  <2>2. CASE f # NoList
    BY <2>2
  <2>3. QED BY <2>1, <2>2
<1>2. /\ sizes \in Seq(Features(SizeNames \cup {img.w, img.h, img.d, img.ppi}))
      /\ {sizes[i].name : i \in DOMAIN sizes} = SizeNames
  <2> DEFINE F == Features(SizeNames \cup {img.w, img.h, img.d, img.ppi})
  <2>1. /\ Pair("PIX_WIDTH", img.w) \in F /\ Pair("PIX_HEIGHT", img.h) \in F
        /\ Pair("PIX_DEPTH", img.d) \in F /\ Pair("PPI", img.ppi) \in F
    BY DEF Pair, Features, SizeNames
  <2> HIDE DEF F
  <2>2. sizes \in Seq(F)
    BY <2>1
  <2>3. /\ DOMAIN sizes = 1..4 /\ sizes[1].name = "PIX_WIDTH" /\ sizes[2].name = "PIX_HEIGHT"
        /\ sizes[3].name = "PIX_DEPTH" /\ sizes[4].name = "PPI"
    BY DEF Pair
  <2> HIDE DEF sizes
  <2>4. 1..4 = {1, 2, 3, 4}
    OBVIOUS
  <2>5. {sizes[i].name : i \in DOMAIN sizes} = SizeNames
    BY <2>3, <2>4 DEF SizeNames
  <2>6. QED BY <2>2, <2>5 DEF F
<1> HIDE DEF start, sizes
<1>3. Listed(sized) /\ Names(sized) = Names(start) \cup SizeNames
  BY <1>1, <1>2, UpdatedNames
<1> HIDE DEF sized
<1>4. PICK h : /\ g = Counted(h) /\ Listed(h) /\ Names(h) = Names(sized) \cup {"LOSSY"}
  <2> DEFINE lossy == lookupfet("LOSSY", sized)
             keeps == lossy.ok /\ lossy.value # 0 /\ lossyflag = 0
  <2>1. g = Counted(IF keeps THEN sized ELSE updatefet("LOSSY", lossyflag, sized))
    BY DEF combine_nistcom, start, sizes, sized
  <2>2. lossy.ok => "LOSSY" \in Names(sized)
    BY DEF lookupfet
  <2>3. CASE keeps
    BY <1>3, <2>1, <2>2, <2>3
  <2>4. CASE ~keeps
    <3> DEFINE h == updatefet("LOSSY", lossyflag, sized)
    <3>2. g = Counted(h)
      BY <2>1, <2>4
    <3>3. h = updatefet("LOSSY", lossyflag, sized)
      OBVIOUS
    <3> HIDE DEF h, g
    <3>4. Listed(h) /\ Names(h) = Names(sized) \cup {"LOSSY"}
      BY <1>3, <3>3, UpdateListed, Zenon
    <3>5. QED BY <3>4, <3>2
  <2>5. QED BY <2>3, <2>4
<1> HIDE DEF g
<1>5. Names(g) = Names(h) /\ Listed(g)
  BY <1>1, <1>3, <1>4, CountedTrue DEF TrueToItself
<1>6. QED BY <1>1, <1>3, <1>4, <1>5 DEF g

-----------------------------------------------------------------------------
(* What each coder adds, and what it takes away.                           *)
Labels(s) == {s[i].name : i \in DOMAIN s}

LEMMA Labels0 == Labels(<<>>) = {}
BY DEF Labels

LEMMA Labels1 ==
  ASSUME NEW p
  PROVE  Labels(<<p>>) = {p.name}
<1>1. DOMAIN <<p>> = {1} /\ <<p>>[1] = p
  OBVIOUS
<1>2. QED BY <1>1 DEF Labels

LEMMA Labels2 ==
  ASSUME NEW p, NEW q
  PROVE  Labels(<<p, q>>) = {p.name, q.name}
<1> DEFINE s == <<p, q>>
<1>1. DOMAIN s = {1, 2} /\ s[1] = p /\ s[2] = q
  OBVIOUS
<1> HIDE DEF s
<1>2. Labels(s) = {p.name, q.name}
  BY <1>1 DEF Labels
<1>3. QED BY <1>2 DEF s

LEMMA Labels3 ==
  ASSUME NEW p, NEW q, NEW r
  PROVE  Labels(<<p, q, r>>) = {p.name, q.name, r.name}
<1> DEFINE s == <<p, q, r>>
<1>1. DOMAIN s = {1, 2, 3} /\ s[1] = p /\ s[2] = q /\ s[3] = r
  OBVIOUS
<1> HIDE DEF s
<1>2. Labels(s) = {p.name, q.name, r.name}
  BY <1>1 DEF Labels
<1>3. QED BY <1>2 DEF s

LEMMA Joins ==
  ASSUME NEW F, NEW s \in Seq(F), NEW t \in Seq(F)
  PROVE  s \o t \in Seq(F) /\ Labels(s \o t) = Labels(s) \cup Labels(t)
<1> DEFINE c == s \o t
           m == Len(s)
           n == Len(t)
<1>1. /\ c \in Seq(F) /\ Len(c) = m + n /\ m \in Nat /\ n \in Nat
      /\ \A i \in 1..m + n : c[i] = IF i <= m THEN s[i] ELSE t[i - m]
  BY ConcatProperties
<1> HIDE DEF c
<1>2. DOMAIN c = 1..(m + n) /\ DOMAIN s = 1..m /\ DOMAIN t = 1..n
  BY <1>1
<1>3. ASSUME NEW i \in DOMAIN c PROVE c[i].name \in Labels(s) \cup Labels(t)
  <2>1. CASE i <= m
    <3>1. c[i] = s[i] /\ i \in DOMAIN s
      BY <1>1, <1>2, <2>1
    <3>2. QED BY <3>1 DEF Labels
  <2>2. CASE ~(i <= m)
    <3>1. c[i] = t[i - m] /\ i - m \in DOMAIN t
      BY <1>1, <1>2, <2>2
    <3>2. QED BY <3>1 DEF Labels
  <2>3. QED BY <2>1, <2>2
<1>4. ASSUME NEW i \in DOMAIN s PROVE s[i].name \in Labels(c)
  <2>1. i \in DOMAIN c /\ c[i] = s[i]
    BY <1>1, <1>2
  <2>2. QED BY <2>1 DEF Labels
<1>5. ASSUME NEW i \in DOMAIN t PROVE t[i].name \in Labels(c)
  <2>1. m + i \in DOMAIN c /\ ~(m + i <= m) /\ (m + i) - m = i
    BY <1>1, <1>2
  <2>2. c[m + i] = t[i]
    BY <1>1, <1>2, <2>1
  <2>3. QED BY <2>1, <2>2 DEF Labels
<1>6. Labels(c) = Labels(s) \cup Labels(t)
  <2>1. ASSUME NEW x \in Labels(c) PROVE x \in Labels(s) \cup Labels(t)
    BY <1>3 DEF Labels
  <2>2. ASSUME NEW x \in Labels(s) \cup Labels(t) PROVE x \in Labels(c)
    BY <1>4, <1>5 DEF Labels
  <2>3. QED BY <2>1, <2>2
<1>7. QED BY <1>1, <1>6 DEF c

(* A list to combine: none yet, or one with a header. *)
Combinable(f) == f = NoList \/ (Listed(f) /\ "NIST_COM" \in Names(f))

LEMMA NoNames == Names(NoList) = {}
BY DEF NoList, Names

LEMMA Combined ==
  ASSUME NEW f, Combinable(f), NEW img, NEW lossyflag, NEW V, NEW s \in Seq(Features(V))
  PROVE  LET g == Counted(Updated(combine_nistcom(f, img, lossyflag), s))
         IN  /\ TrueToItself(g)
             /\ Names(g) = Names(f) \cup SizeNames \cup {"NIST_COM", "LOSSY"} \cup Labels(s)
<1> DEFINE h == combine_nistcom(f, img, lossyflag)
           u == Updated(h, s)
<1>1. /\ Listed(h) /\ "NIST_COM" \in Names(h)
      /\ Names(h) = (IF f = NoList THEN {} ELSE Names(f)) \cup SizeNames \cup {"NIST_COM", "LOSSY"}
  BY Began DEF Combinable
<1> HIDE DEF h
<1>2. Listed(u) /\ Names(u) = Names(h) \cup Labels(s)
  BY <1>1, UpdatedNames DEF Labels
<1> HIDE DEF u
<1>3. TrueToItself(Counted(u)) /\ Names(Counted(u)) = Names(u)
  BY <1>1, <1>2, CountedTrue
<1>4. Names(f) = IF f = NoList THEN {} ELSE Names(f)
  BY NoNames
<1>5. QED BY <1>1, <1>2, <1>3, <1>4 DEF h, u

Own == {"WSQ_BITRATE", "JPEGL_PREDICT", "JPEGB_QUALITY"}

(* A coder at work: its own feature, and what it is called by.             *)
Marked(f, g, own) ==
  /\ TrueToItself(g) /\ "COMPRESSION" \in Names(g)
  /\ Names(g) \cap Own = (Names(f) \cap Own) \cup {own}

LEMMA Marks ==
  ASSUME NEW f, Combinable(f), NEW img, NEW lossyflag, NEW V, NEW s \in Seq(Features(V)),
         NEW own \in Own, "COMPRESSION" \in Labels(s), Labels(s) \cap Own = {own}
  PROVE  Marked(f, Counted(Updated(combine_nistcom(f, img, lossyflag), s)), own)
<1> DEFINE g == Counted(Updated(combine_nistcom(f, img, lossyflag), s))
<1>1. TrueToItself(g) /\ Names(g) = Names(f) \cup SizeNames \cup {"NIST_COM", "LOSSY"} \cup Labels(s)
  BY Combined
<1> HIDE DEF g
<1>2. (SizeNames \cup {"NIST_COM", "LOSSY"}) \cap Own = {}
  BY DEF SizeNames, Own
<1>3. Marked(f, g, own)
  BY <1>1, <1>2 DEF Marked
<1>4. QED BY <1>3 DEF g

LEMMA WsqMarks ==
  ASSUME NEW f, Combinable(f), NEW img, NEW rate
  PROVE  Marked(f, combine_wsq_nistcom(f, img, rate), "WSQ_BITRATE")
<1> DEFINE p == Pair("COLORSPACE", "GRAY")
           q == Pair("COMPRESSION", "WSQ")
           r == Pair("WSQ_BITRATE", rate)
           V == {"COLORSPACE", "GRAY", "COMPRESSION", "WSQ", "WSQ_BITRATE", rate}
           s == <<p, q, r>>
<1>1. p \in Features(V) /\ q \in Features(V) /\ r \in Features(V)
  BY DEF Pair, Features
<1>2. p.name = "COLORSPACE" /\ q.name = "COMPRESSION" /\ r.name = "WSQ_BITRATE"
  BY DEF Pair
<1>3. combine_wsq_nistcom(f, img, rate) = Counted(Updated(combine_nistcom(f, img, 1), s))
  BY DEF combine_wsq_nistcom
<1> HIDE DEF p, q, r, V
<1>4. s \in Seq(Features(V)) /\ Labels(s) = {"COLORSPACE", "COMPRESSION", "WSQ_BITRATE"}
  <2> DEFINE F == Features(V)
  <2>1. Labels(s) = {p.name, q.name, r.name}
    BY Labels3, Zenon
  <2>2. p \in F /\ q \in F /\ r \in F
    BY <1>1
  <2> HIDE DEF F
  <2>3. s \in Seq(F)
    BY <2>2
  <2> HIDE DEF s
  <2>4. QED BY <1>2, <2>1, <2>3 DEF F
<1> HIDE DEF s
<1>5. "COMPRESSION" \in Labels(s) /\ Labels(s) \cap Own = {"WSQ_BITRATE"} /\ "WSQ_BITRATE" \in Own
  BY <1>4 DEF Own
<1>6. QED BY <1>3, <1>4, <1>5, Marks

LEMMA ComponentLabels ==
  ASSUME NEW img, NEW V, {"NUM_COMPONENTS", "HV_FACTORS", "INTERLEAVE", img.n, img.hv, 1} \subseteq V
  PROVE  /\ Components(img) \in Seq(Features(V))
         /\ Labels(Components(img)) \cap Own = {}
<1> DEFINE p == Pair("NUM_COMPONENTS", img.n)
           q == Pair("HV_FACTORS", img.hv)
           r == Pair("INTERLEAVE", 1)
<1>1. p \in Features(V) /\ q \in Features(V) /\ r \in Features(V)
  BY DEF Pair, Features
<1>2. p.name = "NUM_COMPONENTS" /\ q.name = "HV_FACTORS" /\ r.name = "INTERLEAVE"
  BY DEF Pair
<1>3. Components(img) = IF img.n = 1 THEN <<>> ELSE <<p, q, r>>
  BY DEF Components
<1> HIDE DEF p, q, r
<1>4. /\ <<>> \in Seq(Features(V)) /\ Labels(<<>>) = {}
      /\ <<p, q, r>> \in Seq(Features(V))
      /\ Labels(<<p, q, r>>) = {"NUM_COMPONENTS", "HV_FACTORS", "INTERLEAVE"}
  <2> DEFINE F == Features(V)
             s == <<p, q, r>>
  <2>1. Labels(s) = {p.name, q.name, r.name}
    BY Labels3, Zenon
  <2>2. p \in F /\ q \in F /\ r \in F
    BY <1>1
  <2> HIDE DEF F
  <2>3. s \in Seq(F) /\ <<>> \in Seq(F)
    BY <2>2
  <2> HIDE DEF s
  <2>4. s \in Seq(F) /\ <<>> \in Seq(F) /\ Labels(s) = {"NUM_COMPONENTS", "HV_FACTORS", "INTERLEAVE"}
    BY <1>2, <2>1, <2>3
  <2>5. QED BY <2>4, Labels0 DEF F, s
<1>5. {"NUM_COMPONENTS", "HV_FACTORS", "INTERLEAVE"} \cap Own = {}
  BY DEF Own
<1>6. CASE img.n = 1
  BY <1>3, <1>4, <1>6
<1>7. CASE img.n # 1
  BY <1>3, <1>4, <1>5, <1>7
<1>8. QED BY <1>6, <1>7

LEMMA CoderLabels ==
  ASSUME NEW F, NEW gray \in Seq(F), NEW parts \in Seq(F), NEW p \in F, NEW q \in F,
         Labels(gray) \cap Own = {}, Labels(parts) \cap Own = {},
         p.name = "COMPRESSION", q.name \in Own
  PROVE  LET s == gray \o parts \o <<p, q>>
         IN  s \in Seq(F) /\ "COMPRESSION" \in Labels(s) /\ Labels(s) \cap Own = {q.name}
<1> DEFINE b == gray \o parts
           t == <<p, q>>
           s == b \o t
<1>1. t \in Seq(F)
  OBVIOUS
<1>2. Labels(t) = {p.name, q.name}
  BY Labels2, Zenon
<1>3. b \in Seq(F) /\ Labels(b) = Labels(gray) \cup Labels(parts)
  BY Joins
<1> HIDE DEF b, t
<1>4. b \o t \in Seq(F) /\ Labels(b \o t) = Labels(b) \cup Labels(t)
  BY <1>1, <1>3, Joins
<1> HIDE DEF s
<1>5. "COMPRESSION" \notin Own
  BY DEF Own
<1>6. s \in Seq(F) /\ "COMPRESSION" \in Labels(s) /\ Labels(s) \cap Own = {q.name}
  BY <1>2, <1>3, <1>4, <1>5 DEF s
<1>7. QED BY <1>6 DEF s, b, t

LEMMA JpeglMarks ==
  ASSUME NEW f, Combinable(f), NEW img, NEW predict
  PROVE  Marked(f, combine_jpegl_nistcom(f, img, predict), "JPEGL_PREDICT")
<1> DEFINE V == {"COLORSPACE", "GRAY", "NUM_COMPONENTS", "HV_FACTORS", "INTERLEAVE", "COMPRESSION",
                 "JPEGL", "JPEGL_PREDICT", 1, img.n, img.hv, predict}
           p == Pair("COLORSPACE", "GRAY")
           gray == IF img.n = 1 THEN <<p>> ELSE <<>>
           parts == Components(img)
           word == "JPEGL"
           own == "JPEGL_PREDICT"
           q == Pair("COMPRESSION", word)
           r == Pair(own, predict)
           s == gray \o parts \o <<q, r>>
           g == combine_jpegl_nistcom(f, img, predict)
<1>1. g = Counted(Updated(combine_nistcom(f, img, 0), s))
  BY DEF combine_jpegl_nistcom
<1>2. p \in Features(V) /\ p.name = "COLORSPACE" /\ "COLORSPACE" \notin Own /\ own \in V /\ own \in Own
      /\ word \in V /\ predict \in V /\ "COMPRESSION" \in V
      /\ {"NUM_COMPONENTS", "HV_FACTORS", "INTERLEAVE", img.n, img.hv, 1} \subseteq V
  BY DEF Pair, Features, Own
<1> HIDE DEF p, V, g, own
<1>3. gray \in Seq(Features(V)) /\ Labels(gray) \cap Own = {}
  <2> DEFINE F == Features(V)
  <2>1. p \in F
    BY <1>2
  <2> HIDE DEF F
  <2>2. <<p>> \in Seq(F) /\ <<>> \in Seq(F)
    BY <2>1
  <2>3. Labels(<<p>>) = {p.name}
    BY Labels1, Zenon
  <2>4. Labels(<<p>>) \cap Own = {} /\ Labels(<<>>) \cap Own = {}
    BY <1>2, <2>3, Labels0
  <2>5. QED BY <2>2, <2>4 DEF F
<1>4. parts \in Seq(Features(V)) /\ Labels(parts) \cap Own = {}
  BY <1>2, ComponentLabels
<1> HIDE DEF gray, parts, word
<1>5. s \in Seq(Features(V)) /\ "COMPRESSION" \in Labels(s) /\ Labels(s) \cap Own = {own}
  <2> DEFINE F == Features(V)
  <2>1. /\ q \in F /\ q.name = "COMPRESSION" /\ r \in F /\ r.name = own
        /\ own \in Own /\ gray \in Seq(F) /\ parts \in Seq(F)
    BY <1>2, <1>3, <1>4 DEF Pair, Features
  <2>2. Labels(gray) \cap Own = {} /\ Labels(parts) \cap Own = {} /\ r.name \in Own
    BY <1>3, <1>4, <2>1
  <2> HIDE DEF q, r, F
  <2>3. s \in Seq(F) /\ "COMPRESSION" \in Labels(s) /\ Labels(s) \cap Own = {r.name}
    BY <2>1, <2>2, CoderLabels
  <2> HIDE DEF s
  <2>4. QED BY <2>1, <2>3 DEF F
<1> HIDE DEF s
<1>6. Marked(f, g, own)
  BY <1>1, <1>2, <1>5, Marks
<1>7. QED BY <1>6 DEF g, own

LEMMA JpegbMarks ==
  ASSUME NEW f, Combinable(f), NEW img, NEW quality
  PROVE  Marked(f, combine_jpegb_nistcom(f, img, quality), "JPEGB_QUALITY")
<1> DEFINE V == {"COLORSPACE", "GRAY", "RGB", "NUM_COMPONENTS", "HV_FACTORS", "INTERLEAVE", "COMPRESSION",
                 "JPEGB", "JPEGB_QUALITY", 1, img.n, img.hv, quality}
           p == Pair("COLORSPACE", IF img.n = 1 THEN "GRAY" ELSE "RGB")
           gray == <<p>>
           parts == Components(img)
           word == "JPEGB"
           own == "JPEGB_QUALITY"
           q == Pair("COMPRESSION", word)
           r == Pair(own, quality)
           s == gray \o parts \o <<q, r>>
           g == combine_jpegb_nistcom(f, img, quality)
<1>1. g = Counted(Updated(combine_nistcom(f, img, 1), s))
  BY DEF combine_jpegb_nistcom
<1>2. p \in Features(V) /\ p.name = "COLORSPACE" /\ "COLORSPACE" \notin Own /\ own \in V /\ own \in Own
      /\ word \in V /\ quality \in V /\ "COMPRESSION" \in V
      /\ {"NUM_COMPONENTS", "HV_FACTORS", "INTERLEAVE", img.n, img.hv, 1} \subseteq V
  BY DEF Pair, Features, Own
<1> HIDE DEF p, V, g, own
<1>3. gray \in Seq(Features(V)) /\ Labels(gray) \cap Own = {}
  <2> DEFINE F == Features(V)
  <2>1. p \in F
    BY <1>2
  <2> HIDE DEF F
  <2>2. <<p>> \in Seq(F) /\ <<>> \in Seq(F)
    BY <2>1
  <2>3. Labels(<<p>>) = {p.name}
    BY Labels1, Zenon
  <2>4. Labels(<<p>>) \cap Own = {} /\ Labels(<<>>) \cap Own = {}
    BY <1>2, <2>3, Labels0
  <2>5. QED BY <2>2, <2>4 DEF F
<1>4. parts \in Seq(Features(V)) /\ Labels(parts) \cap Own = {}
  BY <1>2, ComponentLabels
<1> HIDE DEF gray, parts, word
<1>5. s \in Seq(Features(V)) /\ "COMPRESSION" \in Labels(s) /\ Labels(s) \cap Own = {own}
  <2> DEFINE F == Features(V)
  <2>1. /\ q \in F /\ q.name = "COMPRESSION" /\ r \in F /\ r.name = own
        /\ own \in Own /\ gray \in Seq(F) /\ parts \in Seq(F)
    BY <1>2, <1>3, <1>4 DEF Pair, Features
  <2>2. Labels(gray) \cap Own = {} /\ Labels(parts) \cap Own = {} /\ r.name \in Own
    BY <1>3, <1>4, <2>1
  <2> HIDE DEF q, r, F
  <2>3. s \in Seq(F) /\ "COMPRESSION" \in Labels(s) /\ Labels(s) \cap Own = {r.name}
    BY <2>1, <2>2, CoderLabels
  <2> HIDE DEF s
  <2>4. QED BY <2>1, <2>3 DEF F
<1> HIDE DEF s
<1>6. Marked(f, g, own)
  BY <1>1, <1>2, <1>5, Marks
<1>7. QED BY <1>6 DEF g, own

LEMMA Unmarks ==
  ASSUME NEW f, TrueToItself(f), "COMPRESSION" \in Names(f), NEW own \in Own, own \in Names(f)
  PROVE  TrueToItself(Deleted(f, own)) /\ Names(Deleted(f, own)) = Names(f) \ {"COMPRESSION", own}
<1> DEFINE first == deletefet("COMPRESSION", f)
           second == deletefet(own, first.fet)
<1>1. Listed(f) /\ "NIST_COM" \in Names(f)
  BY DEF TrueToItself, Holds, Names
<1>2. own # "COMPRESSION" /\ own # "NIST_COM" /\ "NIST_COM" # "COMPRESSION"
  BY DEF Own
<1>3. Deleted(f, own) = IF ~first.ok \/ ~second.ok THEN second.fet ELSE Counted(second.fet)
  BY DEF Deleted
<1>4. first.ok /\ Listed(first.fet) /\ Names(first.fet) = Names(f) \ {"COMPRESSION"}
  BY <1>1, DeleteDrops
<1> HIDE DEF first
<1>5. second.ok /\ Listed(second.fet) /\ Names(second.fet) = Names(first.fet) \ {own}
  BY <1>2, <1>4, DeleteDrops
<1> HIDE DEF second
<1>6. "NIST_COM" \in Names(second.fet)
  BY <1>1, <1>2, <1>4, <1>5
<1>7. TrueToItself(Counted(second.fet)) /\ Names(Counted(second.fet)) = Names(second.fet)
  BY <1>5, <1>6, CountedTrue
<1>8. QED BY <1>3, <1>4, <1>5, <1>7

-----------------------------------------------------------------------------
(* The life of a list: it has the coder's own feature while the picture is *)
(* compressed, and none in between.                                        *)
OwnOf(c) == IF c \in DOMAIN CoderField THEN {CoderField[c]} ELSE {}

ListInv ==
  \/ nistcom = NoList /\ coder = "none"
  \/ /\ TrueToItself(nistcom)
     /\ coder \in {"none", "WSQ", "JPEGL", "JPEGB"}
     /\ coder # "none" => "COMPRESSION" \in Names(nistcom)
     /\ Names(nistcom) \cap Own = OwnOf(coder)

LEMMA OwnFields ==
  /\ OwnOf("none") = {} /\ OwnOf("WSQ") = {"WSQ_BITRATE"}
  /\ OwnOf("JPEGL") = {"JPEGL_PREDICT"} /\ OwnOf("JPEGB") = {"JPEGB_QUALITY"}
<1>1. DOMAIN CoderField = {"WSQ", "JPEGL", "JPEGB"}
  BY DEF CoderField
<1>2. /\ CoderField["WSQ"] = "WSQ_BITRATE" /\ CoderField["JPEGL"] = "JPEGL_PREDICT"
      /\ CoderField["JPEGB"] = "JPEGB_QUALITY"
  BY DEF CoderField
<1>3. QED BY <1>1, <1>2 DEF OwnOf

LEMMA RereadSame ==
  ASSUME NEW f, TrueToItself(f)
  PROVE  LET g == string2fet(fet2string(f)) IN TrueToItself(g) /\ Names(g) = Names(f)
<1> DEFINE g == string2fet(fet2string(f))
<1>1. Listed(g) /\ g.pairs = f.pairs
  BY Reread DEF TrueToItself
<1> HIDE DEF g
<1>2. TrueToItself(g) /\ Names(g) = Names(f)
  BY <1>1 DEF TrueToItself, Holds, Names
<1>3. QED BY <1>2 DEF g

LEMMA CompressKeeps ==
  ASSUME ListInv, NEW c \in {"WSQ", "JPEGL", "JPEGB"}, NEW img, Compress(c, img)
  PROVE  ListInv'
<1>1. coder = "none" /\ coder' = c
  BY DEF Compress
<1>2. Combinable(nistcom) /\ Names(nistcom) \cap Own = {}
  BY <1>1, NoNames, OwnFields DEF ListInv, Combinable, TrueToItself, Holds, Names
<1>3. PICK g : /\ nistcom' = string2fet(fet2string(g))
               /\ TrueToItself(g) /\ "COMPRESSION" \in Names(g)
               /\ Names(g) \cap Own = OwnOf(c)
  <2>1. CASE c = "WSQ"
    <3> DEFINE h == combine_wsq_nistcom(nistcom, img, 75)
    <3>1. nistcom' = string2fet(fet2string(h))
      BY <2>1 DEF Compress
    <3>2. Marked(nistcom, h, "WSQ_BITRATE")
      BY <1>2, WsqMarks
    <3> HIDE DEF h
    <3>3. QED BY <1>2, <2>1, <3>1, <3>2, OwnFields DEF Marked
  <2>2. CASE c = "JPEGL"
    <3> DEFINE h == combine_jpegl_nistcom(nistcom, img, 4)
    <3>1. nistcom' = string2fet(fet2string(h))
      BY <2>2 DEF Compress
    <3>2. Marked(nistcom, h, "JPEGL_PREDICT")
      BY <1>2, JpeglMarks
    <3> HIDE DEF h
    <3>3. QED BY <1>2, <2>2, <3>1, <3>2, OwnFields DEF Marked
  <2>3. CASE c = "JPEGB"
    <3> DEFINE h == combine_jpegb_nistcom(nistcom, img, 80)
    <3>1. nistcom' = string2fet(fet2string(h))
      BY <2>3 DEF Compress
    <3>2. Marked(nistcom, h, "JPEGB_QUALITY")
      BY <1>2, JpegbMarks
    <3> HIDE DEF h
    <3>3. QED BY <1>2, <2>3, <3>1, <3>2, OwnFields DEF Marked
  <2>4. QED BY <2>1, <2>2, <2>3
<1>4. TrueToItself(nistcom') /\ Names(nistcom') = Names(g)
  BY <1>3, RereadSame
<1>5. QED BY <1>1, <1>3, <1>4 DEF ListInv

LEMMA UnpackKeeps ==
  ASSUME ListInv, Unpack
  PROVE  ListInv'
<1>1. /\ coder # "none" /\ coder' = "none" /\ TrueToItself(nistcom)
      /\ coder \in {"WSQ", "JPEGL", "JPEGB"} /\ "COMPRESSION" \in Names(nistcom)
      /\ Names(nistcom) \cap Own = OwnOf(coder)
  BY DEF Unpack, ListInv
<1>2. PICK own \in Own : nistcom' = Deleted(nistcom, own) /\ OwnOf(coder) = {own}
  <2>1. CASE coder = "WSQ"
    <3>1. nistcom' = Deleted(nistcom, "WSQ_BITRATE") /\ "WSQ_BITRATE" \in Own
      BY <2>1 DEF Unpack, del_wsq_nistcom, CoderField, Own
    <3>2. QED BY <2>1, <3>1, OwnFields
  <2>2. CASE coder = "JPEGL"
    <3>1. nistcom' = Deleted(nistcom, "JPEGL_PREDICT") /\ "JPEGL_PREDICT" \in Own
      BY <2>2 DEF Unpack, del_jpegl_nistcom, CoderField, Own
    <3>2. QED BY <2>2, <3>1, OwnFields
  <2>3. CASE coder = "JPEGB"
    <3>1. nistcom' = Deleted(nistcom, "JPEGB_QUALITY") /\ "JPEGB_QUALITY" \in Own
      BY <2>3 DEF Unpack, del_jpegb_nistcom, CoderField, Own
    <3>2. QED BY <2>3, <3>1, OwnFields
  <2>4. QED BY <1>1, <2>1, <2>2, <2>3
<1>3. TrueToItself(nistcom') /\ Names(nistcom') = Names(nistcom) \ {"COMPRESSION", own}
  <2>1. own \in Names(nistcom)
    BY <1>1, <1>2
  <2>2. QED BY <1>1, <1>2, <2>1, Unmarks
<1>4. Names(nistcom') \cap Own = OwnOf("none")
  BY <1>1, <1>2, <1>3, OwnFields
<1>5. QED BY <1>1, <1>3, <1>4 DEF ListInv

LEMMA ListInvariant == NSpec => []ListInv
<1>1. NInit => ListInv
  BY DEF NInit, ListInv
<1>2. ListInv /\ [NNext]_nvars => ListInv'
  <2> SUFFICES ASSUME ListInv, [NNext]_nvars PROVE ListInv'
    OBVIOUS
  <2>1. CASE NNext
    <3>1. ASSUME NEW img \in Pictures, NEW c \in {"WSQ", "JPEGL", "JPEGB"}, Compress(c, img)
          PROVE  ListInv'
      BY <3>1, CompressKeeps
    <3>2. CASE Unpack
      BY <3>2, UnpackKeeps
    <3>3. QED BY <2>1, <3>1, <3>2 DEF NNext
  <2>2. CASE UNCHANGED nvars
    BY <2>2 DEF nvars, ListInv
  <2>3. QED BY <2>1, <2>2
<1>3. QED BY <1>1, <1>2, PTL DEF NSpec

(* What a reader of the list takes from its header is the number of its    *)
(* features, whatever coders it went through: del_* and combine_* count    *)
(* again after each change.                                                *)
THEOREM HeaderAlwaysCounts == NSpec => []HeaderCounts
<1>1. ListInv => HeaderCounts
  <2> SUFFICES ASSUME ListInv, nistcom # NoList
               PROVE  /\ Says("NIST_COM", Len(nistcom.pairs))
                      /\ Cardinality(Names(nistcom)) = Len(nistcom.pairs)
    BY DEF HeaderCounts
  <2>1. Listed(nistcom) /\ Holds(nistcom, "NIST_COM", Len(nistcom.pairs))
    BY DEF ListInv, TrueToItself
  <2>2. Says("NIST_COM", Len(nistcom.pairs))
    BY <2>1, Lookup DEF Says
  <2>3. QED BY <2>1, <2>2, AsManyNames
<1>2. QED BY <1>1, ListInvariant, PTL

(* No coder leaves its own feature behind, and none works without it.      *)
THEOREM NothingOfAnother == NSpec => []OnlyItsCoder
<1>1. ListInv => OnlyItsCoder
  <2> SUFFICES ASSUME ListInv, NEW c \in DOMAIN CoderField
               PROVE  CoderField[c] \in Names(nistcom) <=> coder = c
    BY DEF OnlyItsCoder
  <2>1. /\ DOMAIN CoderField = {"WSQ", "JPEGL", "JPEGB"} /\ CoderField["WSQ"] = "WSQ_BITRATE"
        /\ CoderField["JPEGL"] = "JPEGL_PREDICT" /\ CoderField["JPEGB"] = "JPEGB_QUALITY"
    BY DEF CoderField
  <2>2. CoderField[c] \in Own /\ (CoderField[c] \in Names(nistcom) <=> CoderField[c] \in OwnOf(coder))
    BY <2>1, NoNames, OwnFields DEF ListInv, Own
  <2>3. coder \in {"none", "WSQ", "JPEGL", "JPEGB"}
    BY DEF ListInv
  <2>4. CoderField[c] \in OwnOf(coder) <=> coder = c
    BY <2>1, <2>3, OwnFields
  <2>5. QED BY <2>2, <2>4
<1>2. QED BY <1>1, ListInvariant, PTL
=============================================================================
