------------------------------ MODULE WsqFilter ------------------------------
(***************************************************************************)
(* The wavelet transform of a line and of an image (nbis/wsq/util.cpp).    *)
(* Both directions walk a pointer along the line and turn it round at the  *)
(* ends.  A filter bank is [lo, hi]: two sequences of taps, odd in number  *)
(* as in the bank this program is built with (globals.cpp); the branches   *)
(* for even filters are left out.  Taps are integers, and Gain is what a   *)
(* bank and its inverse multiply a line by: the real taps have gain one.   *)
(***************************************************************************)
EXTENDS WsqTree

CONSTANT Gain
ASSUME GainOK == Gain \in Nat \ {0}

(* A walker: its place, its stride, and whether it may stay once at the    *)
(* left and at the right end of the line instead of turning.               *)
Walker(at, le, re) == [at |-> at, step |-> -1, le |-> le, re |-> re]

LeftTurn(w) ==
  IF w.at # 0 THEN w
  ELSE IF w.le THEN [w EXCEPT !.step = 0, !.le = FALSE] ELSE [w EXCEPT !.step = 1]

RightTurn(w, last) ==
  IF w.at # last THEN w
  ELSE IF w.re THEN [w EXCEPT !.step = 0, !.re = FALSE] ELSE [w EXCEPT !.step = -1]

Turn(w, last) == RightTurn(LeftTurn(w), last)

Move(w) == [w EXCEPT !.at = @ + w.step]

(* The place an output starts from moves on with a turn at the left only. *)
Advance(w) == Move(LeftTurn(w))

Iterate(Step(_), w, k) ==
  LET it[i \in 0..k] == IF i = 0 THEN w ELSE Step(it[i - 1])
  IN  it[k]

Sum(f) == FoldFunction(+, 0, f)

-----------------------------------------------------------------------------
(* Analysis: two moves from one output to the next.                        *)

LowStart(f) == Walker((Len(f.lo) - 1) \div 2, FALSE, FALSE)
HighStart(f) == Walker(((Len(f.hi) - 1) \div 2) - 1, FALSE, FALSE)

(* The places that output k reads, tap by tap. *)
AnalysisReads(start, taps, n, k) ==
  LET first == Iterate(LAMBDA w : Advance(Advance(w)), start, k)
  IN  [i \in 1..Len(taps) |-> Iterate(LAMBDA w : Move(Turn(w, n - 1)), first, i - 1).at]

Filtered(line, start, taps, n, k) ==
  LET at == AnalysisReads(start, taps, n, k)
  IN  Sum([i \in DOMAIN taps |-> line[at[i]] * taps[i]])

(* One row or column of n samples, 0..n-1. *)
get_lets(line, n, f, inv) ==
  LET first == First(n, inv)
      Low(k) == Filtered(line, LowStart(f), f.lo, n, k)
      High(k) == Filtered(line, HighStart(f), f.hi, n, k)
  IN  Strict([j \in 0..(n - 1) |->
        IF inv THEN IF j < first THEN High(j) ELSE Low(j - first)
               ELSE IF j < first THEN Low(j) ELSE High(j - first)])

-----------------------------------------------------------------------------
(* Synthesis: one move for two outputs, of the taps of one parity each.    *)

SynthesisBlunt(f, n) == Walker(((Len(f.hi) + 1) \div 4) - 1, TRUE, FALSE) \* mutant: ends alike

SynthesisLow(f, n) == Walker((Len(f.lo) - 1) \div 4, FALSE, n % 2 = 0)
SynthesisHigh(f, n) == Walker(((Len(f.hi) + 1) \div 4) - 1, TRUE, n % 2 = 1)

lotap(f) == ((Len(f.lo) - 1) \div 2) % 2
hotap(f) == ((Len(f.hi) + 1) \div 2) % 2

(* What one half of the line, of len samples, gives to output j.  A walker *)
(* turns after a read in the low half, before it in the high half.         *)
Half(samples, len, taps, start, firstTap, j, before) ==
  LET i == j + 1 - firstTap
      tap == 1 - (i % 2)
      at[k \in 1..((Len(taps) - tap + 1) \div 2)] ==
        LET w == IF k = 1 THEN Iterate(Advance, start, i \div 2)
                 ELSE Move(IF before THEN at[k - 1] ELSE Turn(at[k - 1], len - 1))
        IN  IF before THEN Turn(w, len - 1) ELSE w
  IN  Sum([k \in DOMAIN at |-> samples[at[k].at] * taps[tap + 2 * k - 1]])

join_lets(line, n, f, inv) ==
  LET llen == Lo(n)
      hlen == Hi(n)
      low == [k \in 0..(llen - 1) |-> line[IF inv THEN hlen + k ELSE k]]
      high == [k \in 0..(hlen - 1) |-> line[IF inv THEN k ELSE llen + k]]
  IN  Strict([j \in 0..(n - 1) |->
        (Half(low, llen, f.lo, SynthesisLow(f, n), lotap(f), j, FALSE)
           + Half(high, hlen, f.hi, SynthesisHigh(f, n), hotap(f), j, TRUE)) \div Gain])

(* The decoder's bank from the halves of the two filters in the stream,    *)
(* centre first: each becomes the other's inverse (getc_transform_table).  *)
int_sign(power) == IF power % 2 = 0 THEN 1 ELSE -1
Mirrored(half) ==
  LET c == Len(half)
      Off(i) == IF i < c THEN c - i ELSE i - c
  IN  [i \in 1..(2 * c - 1) |-> int_sign(Off(i)) * half[Off(i) + 1]]

Decoded(bank) ==
  LET HalfOf(f) == SubSeq(f, (Len(f) + 1) \div 2, Len(f))
  IN  [lo |-> Mirrored(HalfOf(bank.hi)), hi |-> Mirrored(HalfOf(bank.lo))]

-----------------------------------------------------------------------------
(* An image of width by height: a function of <<x, y>>.                    *)

Inside(p, b) ==
  p[1] \in b.x..(b.x + b.lenx - 1) /\ p[2] \in b.y..(b.y + b.leny - 1)

(* A line of zeros stays one: the transform is linear. *)
Linear(Line(_), l) == IF \A j \in DOMAIN l : l[j] = 0 THEN l ELSE Line(l)

OnRows(fdata, b, Line(_)) ==
  LET row == Strict([y \in b.y..(b.y + b.leny - 1) |->
                Linear(Line, Strict([j \in 0..(b.lenx - 1) |-> fdata[<<b.x + j, y>>]]))])
  IN  Strict([p \in DOMAIN fdata |-> IF Inside(p, b) THEN row[p[2]][p[1] - b.x] ELSE fdata[p]])

OnColumns(fdata, b, Line(_)) ==
  LET col == Strict([x \in b.x..(b.x + b.lenx - 1) |->
                Linear(Line, Strict([j \in 0..(b.leny - 1) |-> fdata[<<x, b.y + j>>]]))])
  IN  Strict([p \in DOMAIN fdata |-> IF Inside(p, b) THEN col[p[1]][p[2] - b.y] ELSE fdata[p]])

=============================================================================
