-------------------------------- MODULE MCWsq --------------------------------
(* Three instances in one: the codec, the wavelet transform with a bank of *)
(* integer taps, and attribute lists that go from coder to coder.          *)
EXTENDS WsqCodec, WsqTransform, NistcomLife

CONSTANTS t1, t2   \* threads
VARIABLE part      \* which of them runs
vars == <<part, cvars, fvars, nvars>>

(* The 9/7 bank, in ten-thousandths; the 5/3 bank times 8 and 2. *)
Nine7 == [lo |-> <<378, -238, -1106, 3774, 8527, 3774, -1106, -238, 378>>,
          hi |-> <<-645, 407, 4181, -7885, 4181, 407, -645>>]
Five3 == [lo |-> <<-1, 2, 6, 2, -1>>, hi |-> <<-1, 2, -1>>]

Impulse(w, h, x, y) ==
  [width |-> w, height |-> h,
   pixels |-> Strict([p \in (0..(w - 1)) \X (0..(h - 1)) |-> IF p = <<x, y>> THEN 16 ELSE 0])]
Impulses == {Impulse(50, 49, 0, 0), Impulse(50, 49, 49, 20), Impulse(53, 51, 26, 50)}

Picture(w, h, ppi, mean, low, high, bins, coefs) ==
  [w |-> w, h |-> h, d |-> 8, ppi |-> ppi, n |-> 1, hv |-> "1,1",
   mean |-> mean, low |-> low, high |-> high, bins |-> bins, smooth |-> FALSE, coefs |-> coefs]
Gray(w, h, bins, coefs) == Picture(w, h, 500, 127400, 10, 250, bins, coefs)

Bins(S) == [n \in S |-> 2000 + 50 * (n % 7)]
Coef(band, at, v) ==      \* quantized to v by a bin of Bins
  LET q == 2000 + 50 * (band % 7)
  IN  [band |-> band, at |-> at, f |-> IF v > 0 THEN v * q + q \div 2 ELSE v * q - q \div 2]

(* With the reserved symbol once and a long run three times, the counts of *)
(* a code of nine bits.                                                    *)
Fib == <<1, 2, 5, 8, 13, 21, 34, 55>>
Skewed == Joined([i \in 1..8 |-> [k \in 1..Fib[i] |-> i]])

MCImages == [
  small  |-> Gray(50, 49, Bins(19..59), <<Coef(40, 3, 2), Coef(40, 5, -1), Coef(53, 0, 1), Coef(58, 10, -7)>>),
  edge   |-> Gray(161, 161, Bins(0..59),
               <<Coef(0, 0, 400), Coef(0, 1, -300), Coef(1, 2, 75), Coef(2, 1, -74), Coef(3, 0, 74),
                 Coef(18, 20, -73), Coef(19, 0, 255), Coef(20, 3, -255), Coef(51, 5, 256), Coef(59, 0, -256), Coef(59, 257, 1)>>),
  large  |-> Gray(400, 400, Bins((0..59) \ {51}), <<Coef(0, 7, 12), Coef(30, 100, -2), Coef(51, 0, 3)>>),
  skewed |-> Gray(200, 170, Bins(0..59), [i \in 1..Len(Skewed) |-> Coef(57, i - 1, Skewed[i])]),
  blank  |-> Picture(170, 162, 500, 200000, 200, 200, <<>>, <<>>),
  tiny   |-> Gray(20, 20, Bins(0..59), <<>>),
  border |-> Gray(81, 82, Bins(0..59), <<Coef(4, 1, -3), Coef(59, 9, 100)>>),
  wide   |-> Gray(161, 162, (3 :> 70000000) @@ Bins(4..59), <<>>)]

MCPair == [
  small |-> MCImages.small,
  other |-> Gray(64, 64, Bins(19..59), <<Coef(41, 2, 3), Coef(55, 1, 1)>>)]

OldList == Nist([alloc |-> 100, pairs |->
  << Pair("NIST_COM", 3), Pair("PPI", 1000), Pair("COMPRESSION", "JPEGL") >>])
BareList == Nist([alloc |-> 100, pairs |-> << Pair("NIST_COM", 2), Pair("PIX_DEPTH", 8) >>])

NoTexts == {NoText}
MCComments == {NoText, Note, OldList}
MCAdded == {Note, BareList}
(* Every place but those inside the quantization table, which are alike. *)
MCCutTo == (0..80) \cup {100, 200, 300, 400} \cup (450..600)

MCPictures == {[w |-> 50, h |-> 40, d |-> 8, ppi |-> 500, n |-> 1, hv |-> "1,1"],
               [w |-> 25, h |-> 40, d |-> 24, ppi |-> -1, n |-> 3, hv |-> "2,2"]}

(* A part that does not run stays where its Init says, with nothing in it. *)
FIdle == original = [width |-> 0] /\ fdata = <<>> /\ node = 0 /\ turn = "idle"
NIdle == nistcom = NoList /\ coder = "idle" /\ picture = <<>>

MCInit ==
  /\ part \in {"codec", "transform", "list"}
  /\ CInit
  /\ IF part = "transform" THEN FInit ELSE FIdle
  /\ IF part = "list" THEN NInit ELSE NIdle

MCNext ==
  \/ part = "codec" /\ CNext /\ UNCHANGED <<part, fvars, nvars>>
  \/ part = "transform" /\ FNext /\ UNCHANGED <<part, cvars, nvars>>
  \/ part = "list" /\ NNext /\ UNCHANGED <<part, cvars, fvars>>

(* Nothing is left to do. *)
Over ==
  /\ part = "codec" => \A t \in Threads : decoder[t].pc = "done" \/ stream[t].why # ""
  /\ part = "transform" => turn = "done"
  /\ UNCHANGED vars

Spec == MCInit /\ [][MCNext \/ Over]_vars
=============================================================================
