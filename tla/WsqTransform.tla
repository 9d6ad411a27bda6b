----------------------------- MODULE WsqTransform -----------------------------
(***************************************************************************)
(* The wavelet transform of an image, there and back (nbis/wsq/util.cpp):  *)
(* wsq_decompose, node after node, by the encoder; wsq_reconstruct, in the *)
(* opposite order, by the decoder with the bank it read from the stream.   *)
(***************************************************************************)
EXTENDS WsqFilter

CONSTANTS
  Bank,    \* the encoder's filters
  Originals  \* images to transform: [width, height, pixels]

VARIABLES
  original,  \* the image
  fdata,     \* its samples
  node,      \* next node of the tree
  turn       \* "decompose", "reconstruct", "done"

fvars == <<original, fdata, node, turn>>

Tree == build_wsq_trees(original.width, original.height)

FInit ==
  /\ original \in Originals
  /\ fdata = original.pixels
  /\ node = 0 /\ turn = "decompose"

(* Rows first, columns first on the way back. *)
Split(b) ==
  LET Rows(r) == get_lets(r, b.lenx, Bank, node \in InvertedRows)
      Columns(c) == get_lets(c, b.leny, Bank, node \in InvertedCols)
  IN  OnColumns(OnRows(fdata, b, Rows), b, Columns)

Joint(b) ==
  LET Rows(r) == join_lets(r, b.lenx, Decoded(Bank), node \in InvertedRows)
      Columns(c) == join_lets(c, b.leny, Decoded(Bank), node \in InvertedCols)
  IN  OnRows(OnColumns(fdata, b, Columns), b, Rows)

wsq_decompose ==
  /\ turn = "decompose"
  /\ fdata' = Split(Tree.w_tree[node])
  /\ IF node = 19 THEN turn' = "reconstruct" /\ node' = 19
                  ELSE turn' = turn /\ node' = node + 1
  /\ UNCHANGED original

wsq_reconstruct ==
  /\ turn = "reconstruct"
  /\ fdata' = Joint(Tree.w_tree[node])
  /\ IF node = 0 THEN turn' = "done" /\ node' = 0
                 ELSE turn' = turn /\ node' = node - 1
  /\ UNCHANGED original

FNext == wsq_decompose \/ wsq_reconstruct

FSpec == FInit /\ [][FNext]_fvars

-----------------------------------------------------------------------------
(* The decoder's transform undoes the encoder's: the filters of the stream *)
(* are inverse to the encoder's, the ends of every line are treated alike  *)
(* on both sides, whatever the parity of its length and the inversion, and *)
(* boxes are joined in the opposite order.                                 *)
PerfectReconstruction == turn = "done" => fdata = original.pixels

(* The 64 bands of the quantization tree, a separate calculation with its  *)
(* own rules for odd sizes and inverted splits, are the boxes that the     *)
(* transform has made when it is through.                                  *)
BandsAligned ==
  turn = "reconstruct" /\ node = 19 => Aligned(Tree, original.width, original.height)
=============================================================================
