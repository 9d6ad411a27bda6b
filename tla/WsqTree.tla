------------------------------- MODULE WsqTree -------------------------------
(***************************************************************************)
(* How WSQ cuts an image into subbands (nbis/wsq/tree.cpp).  The wavelet   *)
(* tree lists the boxes that the transform splits, in order; the           *)
(* quantization tree lists the 64 boxes it ends with.  The two are worked  *)
(* out apart, by the encoder and again by the decoder, from the size of    *)
(* the image alone.                                                        *)
(*                                                                         *)
(* Of two unequal halves the low one is the longer, and it comes first     *)
(* unless the spectrum of the box is inverted.                             *)
(***************************************************************************)
EXTENDS Integers, Sequences, SequencesExt, FiniteSets, TLC

Box(x, y, lenx, leny) == [x |-> x, y |-> y, lenx |-> lenx, leny |-> leny]

(* The function f; TLC works it out once, where it is defined. *)
Strict(f) == CHOOSE g \in {f} : g = f

(* f, with the nodes of g that f does not have. *)
f ++ g == [n \in DOMAIN f \cup DOMAIN g |-> IF n \in DOMAIN f THEN f[n] ELSE g[n]]

Lo(n) == (n + 1) \div 2
Hi(n) == n \div 2
LoAlways(n, inverted) == Lo(n)              \* mutant: the inversion forgotten
First(n, inverted) == IF inverted THEN Hi(n) ELSE Lo(n)
Rest(n, inverted) == n - First(n, inverted)

(* Boxes are cut left to right, then top to bottom. *)
Quarters(b, fx, fy) ==
  << Box(b.x, b.y, fx, fy),
     Box(b.x + fx, b.y, b.lenx - fx, fy),
     Box(b.x, b.y + fy, fx, b.leny - fy),
     Box(b.x + fx, b.y + fy, b.lenx - fx, b.leny - fy) >>

-----------------------------------------------------------------------------
(* Wavelet tree: nodes 0..19.                                              *)

InvertedRows == {2, 4, 7, 9, 11, 13, 16, 18}
InvertedCols == {3, 5, 8, 9, 12, 13, 17, 18}

(* Node p1 is b, nodes p2.. are its quarters; the last one is left out of  *)
(* the first split.                                                        *)
w_tree4(p1, p2, b, stop1) ==
  LET quarters == Quarters(b, First(b.lenx, p1 = 4), First(b.leny, p1 = 5))
      last == IF stop1 THEN p2 + 2 ELSE p2 + 3
  IN  [n \in {p1} |-> b] ++ [n \in p2..last |-> quarters[n - p2 + 1]]

(* The lowest node is the first quarter of node 15, in the tree of node 14. *)
WithLowest(low) == [n \in {19} |-> Box(0, 0, Lo(low[15].lenx), Lo(low[15].leny))] ++ low

(* The three quarters of node 1 that are split on. *)
Below(half) ==
  LET lenx == Lo(half.lenx)
      leny == Lo(half.leny)
  IN  WithLowest(w_tree4(14, 15, Box(0, 0, lenx, leny), FALSE))
        ++ w_tree4(5, 10, Box(0, leny, lenx, Hi(half.leny)), FALSE)
        ++ w_tree4(4, 6, Box(lenx, 0, Hi(half.lenx), leny), FALSE)

build_w_tree(width, height) ==
  Below(Box(0, 0, Lo(width), Lo(height))) ++ w_tree4(0, 1, Box(0, 0, width, height), TRUE)

-----------------------------------------------------------------------------
(* Quantization tree: bands 0..63.                                         *)

(* The cuts of one side into four: the first split, then the low half of   *)
(* the right part after its high half.                                     *)
Cuts(len, inverted) ==
  LET a == First(len, inverted)
      b == Rest(len, inverted)
  IN  <<Lo(a), Hi(a), Hi(b), Lo(b)>>

Before(cuts, i) ==
  (IF i > 1 THEN cuts[1] ELSE 0) + (IF i > 2 THEN cuts[2] ELSE 0) + (IF i > 3 THEN cuts[3] ELSE 0)

q_tree16(p, b, rw, cl) ==
  LET xs == Cuts(b.lenx, cl)
      ys == Cuts(b.leny, rw)
      Col(i) == (i % 2) + 2 * ((i \div 4) % 2) + 1
      Row(i) == ((i \div 2) % 2) + 2 * (i \div 8) + 1
  IN  [n \in p..(p + 15) |->
        LET c == Col(n - p)  r == Row(n - p)
        IN  Box(b.x + Before(xs, c), b.y + Before(ys, r), xs[c], ys[r])]

q_tree4(p, b) ==
  [n \in p..(p + 3) |-> Quarters(b, Lo(b.lenx), Lo(b.leny))[n - p + 1]]

build_q_tree(w_tree) ==
  q_tree4(0, w_tree[19])
    ++ q_tree16(35, w_tree[5], TRUE, FALSE)
    ++ q_tree16(48, w_tree[0], FALSE, FALSE)
    ++ q_tree16(19, w_tree[4], FALSE, TRUE)
    ++ q_tree16(3, w_tree[14], FALSE, FALSE)

(* The fields of a Q_TREE are shorts. *)
Short(n) == ((n + 32768) % 65536) - 32768
AsStored(b) == Box(Short(b.x), Short(b.y), Short(b.lenx), Short(b.leny))

Stored(q) == [n \in DOMAIN q |-> AsStored(q[n])]
Trees(w) == [w_tree |-> w, q_tree |-> Stored(build_q_tree(w))]
build_wsq_trees(width, height) == Trees(build_w_tree(width, height))

-----------------------------------------------------------------------------
(* What the transform leaves: the boxes after splitting node after node.   *)

NonEmpty(b) == b.lenx > 0 /\ b.leny > 0

SplitNode(w_tree, boxes, n) ==
  LET b == w_tree[n]
  IN  (boxes \ {b}) \cup
        {box \in ToSet(Quarters(b, First(b.lenx, n \in InvertedRows),
                                   First(b.leny, n \in InvertedCols)))
           : NonEmpty(box)}

Leaves(w_tree) ==
  FoldLeft(LAMBDA boxes, n : SplitNode(w_tree, boxes, n),
           {w_tree[0]}, [i \in 1..20 |-> i - 1])

(* Every node of the tree is a box of the transform when its turn comes,   *)
(* and the bands that are quantized, 0..59, are the boxes it ends with,    *)
(* but for the last quarter of the image (60..63), which is dropped.       *)
Aligned(t, width, height) ==
  LET dropped == Quarters(t.w_tree[0], Lo(width), Lo(height))[4]
  IN  {t.q_tree[n] : n \in {m \in 0..59 : NonEmpty(t.q_tree[m])}}
        = Leaves(t.w_tree) \ {dropped}

=============================================================================
