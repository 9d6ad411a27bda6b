------------------------------- MODULE Nistcom -------------------------------
(***************************************************************************)
(* The attribute list that travels in a comment of a compressed image:     *)
(* nbis/fet (a list of named features) and nistcom.cpp, which keeps the    *)
(* list true to an image as it is compressed, unpacked and compressed by   *)
(* another coder.                                                          *)
(*                                                                         *)
(* A list is [alloc, pairs]; a feature always has a value here.  (One that *)
(* has none is a null pointer, which fet2string and combine_nistcom would  *)
(* follow: such lists are left out.)                                       *)
(***************************************************************************)
EXTENDS Integers, Sequences, SequencesExt, FiniteSets, TLC

Pair(name, value) == [name |-> name, value |-> value]

allocfet(n) == [alloc |-> n, pairs |-> <<>>]

Names(fet) == {fet.pairs[i].name : i \in DOMAIN fet.pairs}
IndexOf(name, fet) == CHOOSE i \in DOMAIN fet.pairs :
  fet.pairs[i].name = name /\ \A j \in 1..(i - 1) : fet.pairs[j].name # name

(* Ten more places, or a tenth more. *)
Grown(alloc) == alloc + IF alloc \div 10 > 10 THEN alloc \div 10 ELSE 10

reallocfet(fet) ==
  IF Len(fet.pairs) >= fet.alloc THEN [fet EXCEPT !.alloc = Grown(@)] ELSE fet

updatefet(name, value, fet) ==
  IF name \in Names(fet)
  THEN [fet EXCEPT !.pairs[IndexOf(name, fet)].value = value]
  ELSE [reallocfet(fet) EXCEPT !.pairs = Append(@, Pair(name, value))]

(* [ok, fet]; a feature that is not there is an error. *)
deletefet(name, fet) ==
  IF name \in Names(fet)
  THEN [ok |-> TRUE, fet |-> [fet EXCEPT !.pairs = RemoveAt(@, IndexOf(name, fet))]]
  ELSE [ok |-> FALSE, fet |-> fet]

(* [ok, value]; extractfet refuses, lookupfet says no. *)
lookupfet(name, fet) ==
  IF name \in Names(fet) THEN [ok |-> TRUE, value |-> fet.pairs[IndexOf(name, fet)].value]
  ELSE [ok |-> FALSE, value |-> 0]
extractfet(name, fet) == lookupfet(name, fet)

(* The text, a line a feature, and the list made from it; MAXFETS places.  *)
MaxFets == 100
fet2string(fet) == fet.pairs
string2fet(text) ==
  FoldLeft(LAMBDA fet, p : updatefet(p.name, p.value, fet), allocfet(MaxFets), text)

-----------------------------------------------------------------------------
NoList == [alloc |-> 0, pairs |-> <<>>]

Updated(fet, pairs) ==
  FoldLeft(LAMBDA f, p : updatefet(p.name, p.value, f), fet, pairs)

CountedNot(fet) == fet                      \* mutant: the header is left as it was

Counted(fet) == updatefet("NIST_COM", Len(fet.pairs), fet)

(* img = [w, h, d, ppi]; a list is begun when there is none.  Once set, the *)
(* lossy flag stays set.                                                   *)
combine_nistcom(fet, img, lossyflag) ==
  LET start == IF fet = NoList THEN updatefet("NIST_COM", 6, allocfet(6)) ELSE fet
      sized == Updated(start, << Pair("PIX_WIDTH", img.w), Pair("PIX_HEIGHT", img.h),
                                 Pair("PIX_DEPTH", img.d), Pair("PPI", img.ppi) >>)
      lossy == lookupfet("LOSSY", sized)
      keeps == lossy.ok /\ lossy.value # 0 /\ lossyflag = 0
  IN  Counted(IF keeps THEN sized ELSE updatefet("LOSSY", lossyflag, sized))

Components(img) ==
  IF img.n = 1 THEN <<>>
  ELSE << Pair("NUM_COMPONENTS", img.n), Pair("HV_FACTORS", img.hv), Pair("INTERLEAVE", 1) >>

(* The lossless coder says GRAY when it is sure. *)
combine_jpegl_nistcom(fet, img, predict) ==
  LET gray == IF img.n = 1 THEN <<Pair("COLORSPACE", "GRAY")>> ELSE <<>>
  IN  Counted(Updated(combine_nistcom(fet, img, 0),
        gray \o Components(img) \o << Pair("COMPRESSION", "JPEGL"), Pair("JPEGL_PREDICT", predict) >>))

combine_wsq_nistcom(fet, img, r_bitrate) ==
  Counted(Updated(combine_nistcom(fet, img, 1),
    << Pair("COLORSPACE", "GRAY"), Pair("COMPRESSION", "WSQ"), Pair("WSQ_BITRATE", r_bitrate) >>))

combine_jpegb_nistcom(fet, img, quality) ==
  Counted(Updated(combine_nistcom(fet, img, 1),
    <<Pair("COLORSPACE", IF img.n = 1 THEN "GRAY" ELSE "RGB")>> \o Components(img)
      \o << Pair("COMPRESSION", "JPEGB"), Pair("JPEGB_QUALITY", quality) >>))

DeletedFirst(fet, name) ==                  \* mutant: the second feature stays
  LET first == deletefet("COMPRESSION", fet)
  IN  IF first.ok THEN Counted(first.fet) ELSE first.fet

(* Two features go; when the second is missing the first is gone and the   *)
(* header not counted again.                                               *)
Deleted(fet, name) ==
  LET first == deletefet("COMPRESSION", fet)
      second == deletefet(name, first.fet)
  IN  IF ~first.ok \/ ~second.ok THEN second.fet ELSE Counted(second.fet)

CoderField == [WSQ |-> "WSQ_BITRATE", JPEGL |-> "JPEGL_PREDICT", JPEGB |-> "JPEGB_QUALITY"]

del_wsq_nistcom(fet) == Deleted(fet, CoderField.WSQ)
del_jpegl_nistcom(fet) == Deleted(fet, CoderField.JPEGL)
del_jpegb_nistcom(fet) == Deleted(fet, CoderField.JPEGB)

=============================================================================
