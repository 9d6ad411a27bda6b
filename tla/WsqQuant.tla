------------------------------- MODULE WsqQuant -------------------------------
(***************************************************************************)
(* From wavelet coefficients to small integers and back (nbis/wsq/util.cpp)*)
(* A coefficient, a bin width, a shift or a scale is a fixed-point number, *)
(* in thousandths.  Which width a band gets is the outcome of a search     *)
(* over real variances: it is an input here (`bins`), but whether a band   *)
(* has a variance at all is worked out, for that hangs on integer division.*)
(*                                                                         *)
(* Few coefficients differ from zero, so an image is the sequence of those *)
(* that do, [band, at, f], in the order of the bands and of the places in  *)
(* them; and quantized data are [len, coefs], with coefs[i] = [at, v].     *)
(***************************************************************************)
EXTENDS WsqTree

One == 1000

Abs(n) == IF n < 0 THEN -n ELSE n
Greater(m, n) == IF m > n THEN m ELSE n
Area(b) == b.lenx * b.leny
Total(S, f(_)) == FoldFunction(+, 0, [n \in S |-> f(n)])

-----------------------------------------------------------------------------
(* Pixels are shifted to mean zero and scaled to +-128.                    *)

conv_img_2_flt(img) ==
  [m_shift |-> img.mean,
   r_scale |-> Greater(img.mean - img.low * One, img.high * One - img.mean) \div 128]

(* A pixel is the number rounded; what quantization took too far is cut. *)
conv_img_2_uchar(v, shift) ==
  LET img_tmp == (v * shift.r_scale) \div One + shift.m_shift + One \div 2
  IN  IF img_tmp < 0 THEN 0 ELSE IF img_tmp > 255 * One THEN 255 ELSE img_tmp \div One

-----------------------------------------------------------------------------
(* The variance of a band is that of a rectangle inside it, or of the      *)
(* whole of it when the four lowest bands vary little.  A rectangle of one *)
(* pixel or none gives 0/0, and every comparison with that is false.       *)

CroppedThin(b) ==                              \* mutant: a rectangle a little too thin
  Box(b.x + b.lenx \div 8, b.y + (9 * b.leny) \div 32, (3 * b.lenx) \div 4, b.leny \div 4)

Cropped(b) ==
  Box(b.x + b.lenx \div 8, b.y + (9 * b.leny) \div 32, (3 * b.lenx) \div 4, (7 * b.leny) \div 16)

IsNumber(region) == Area(region) > 1

(* The bands that have a variance. *)
variance(q_tree, smooth) ==
  LET whole == smooth /\ \A n \in 0..3 : IsNumber(Cropped(q_tree[n]))
  IN  {n \in 0..59 : IsNumber(IF whole THEN q_tree[n] ELSE Cropped(q_tree[n]))}

-----------------------------------------------------------------------------
(* Zero bin of 1.2 widths around zero, then bins of one width.             *)

ZeroBin(q) == (12 * q) \div 10

Quantum(f, q) ==
  LET zbin == ZeroBin(q) \div 2
  IN  IF Abs(f) <= zbin THEN 0
      ELSE IF f > 0 THEN (f - zbin) \div q + 1
      ELSE -((-f - zbin) \div q + 1)

(* The widths of the bands kept: a band without variance gets none.  (The  *)
(* search for widths that meet the bit rate is the input `bins`.)          *)
Kept(img, q_tree) ==
  [n \in DOMAIN img.bins \cap variance(q_tree, img.smooth) |-> img.bins[n]]

(* Where a band starts in the quantized data. *)
Start(kept, q_tree, band) ==
  LET AreaOf(n) == Area(q_tree[n])
  IN  Total({n \in DOMAIN kept : n < band}, AreaOf)

(* FlattenSeq by halves: an image has too many elements to take one by one. *)
Joined(seqs) ==
  LET join[p \in (1..Len(seqs)) \X (0..Len(seqs))] ==
        LET half == (p[1] + p[2]) \div 2
        IN  IF p[1] > p[2] THEN <<>>
            ELSE IF p[1] = p[2] THEN seqs[p[1]]
            ELSE join[<<p[1], half>>] \o join[<<half + 1, p[2]>>]
  IN  IF seqs = <<>> THEN <<>> ELSE join[<<1, Len(seqs)>>]

(* The elements of s that are in T, in their order. *)
Chosen(s, T) == Joined([i \in DOMAIN s |-> IF s[i] \in T THEN <<s[i]>> ELSE <<>>])

(* Bands that are not kept take no room. *)
quantize(coefs, kept, q_tree) ==
  LET Quanta(c) == Quantum(c.f, kept[c.band])
      stays == Chosen(coefs, {c \in ToSet(coefs) : c.band \in DOMAIN kept /\ Quanta(c) # 0})
  IN  [len |-> Start(kept, q_tree, 64),
       coefs |-> [i \in DOMAIN stays |->
                    [at |-> Start(kept, q_tree, stays[i].band) + stays[i].at,
                     v |-> Quanta(stays[i])]]]

(* The sizes of the three blocks, from the wavelet tree. *)
quant_block_sizes(kept, w_tree, q_tree) ==
  LET AreaOf(n) == Area(q_tree[n])
      Lost(first, next) == Total((first..(next - 1)) \ DOMAIN kept, AreaOf)
  IN  << Area(w_tree[14]) - Lost(0, 19),
         w_tree[5].leny * w_tree[1].lenx + Area(w_tree[4]) - Lost(19, 52),
         Area(w_tree[2]) + Area(w_tree[3]) - Lost(52, 60) >>

(* dqt = [C, q, z]: the bin centre in hundredths, the widths in thousandths *)
Value(v, dqt, band) ==
  LET size == (dqt.q[band] * (100 * Abs(v) - dqt.C)) \div 100 + dqt.z[band] \div 2
  IN  IF v > 0 THEN size ELSE -size

unquantize(sip, dqt, q_tree) ==
  LET kept == [n \in {m \in 0..59 : dqt.q[m] # 0} |-> dqt.q[n]]
      starts == Strict([n \in DOMAIN kept |-> Start(kept, q_tree, n)])
      read == SelectSeq(sip, LAMBDA c : c.at < Start(kept, q_tree, 64))
      BandOf(at) == CHOOSE n \in DOMAIN kept : starts[n] <= at /\ at < starts[n] + Area(q_tree[n])
  IN  [i \in DOMAIN read |->
         LET band == BandOf(read[i].at)
         IN  [band |-> band, at |-> read[i].at - starts[band], f |-> Value(read[i].v, dqt, band)]]

-----------------------------------------------------------------------------
(* A fixed-point number in the stream: as many decimal places as keep it   *)
(* below 65535, and the number rounded to them.                            *)

ToDecimal(v) ==
  IF v = 0 THEN [scale |-> 0, shrt |-> 0]
  ELSE LET k == CHOOSE k \in 0..8 : v * 10^k >= 65535 * One /\ \A j \in 0..(k - 1) : v * 10^j < 65535 * One
       IN  [scale |-> k - 1, shrt |-> (v * 10^(k - 1) + One \div 2) \div One]

FromDecimal(d) == (d.shrt * One) \div 10^d.scale
=============================================================================
