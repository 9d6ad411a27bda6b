------------------------------ MODULE NistcomLife ------------------------------
(***************************************************************************)
(* An image goes from coder to coder, and its attribute list with it       *)
(* (nbis/fet/nistcom.cpp).  The list comes out of the stream as text and   *)
(* goes in as text; unpacking deletes the coder's own features.            *)
(***************************************************************************)
EXTENDS Nistcom

CONSTANT Pictures     \* [w, h, d, ppi, n, hv]: a picture in each of its sizes

VARIABLES
  nistcom,    \* the list
  picture,    \* the picture it was last combined with
  coder       \* the coder the picture is compressed by, "none" when unpacked

nvars == <<nistcom, picture, coder>>

NInit == nistcom = NoList /\ coder = "none" /\ picture \in Pictures

Compress(c, img) ==
  /\ coder = "none"
  /\ LET fet == CASE c = "WSQ"   -> combine_wsq_nistcom(nistcom, img, 75)
                  [] c = "JPEGL" -> combine_jpegl_nistcom(nistcom, img, 4)
                  [] c = "JPEGB" -> combine_jpegb_nistcom(nistcom, img, 80)
     IN  nistcom' = string2fet(fet2string(fet))
  /\ coder' = c /\ picture' = img

Unpack ==
  /\ coder # "none"
  /\ nistcom' = CASE coder = "WSQ"   -> del_wsq_nistcom(nistcom)
                  [] coder = "JPEGL" -> del_jpegl_nistcom(nistcom)
                  [] coder = "JPEGB" -> del_jpegb_nistcom(nistcom)
  /\ coder' = "none" /\ UNCHANGED picture

NNext ==
  \/ \E img \in Pictures : Compress("WSQ", img) \/ Compress("JPEGL", img) \/ Compress("JPEGB", img)
  \/ Unpack

NSpec == NInit /\ [][NNext]_nvars

-----------------------------------------------------------------------------
Says(name, value) == LET f == lookupfet(name, nistcom) IN f.ok /\ f.value = value

(* The header feature, which a reader trusts, is the number of features,   *)
(* and no feature is named twice, whatever coders the list went through.   *)
HeaderCounts ==
  nistcom # NoList =>
    Says("NIST_COM", Len(nistcom.pairs)) /\ Cardinality(Names(nistcom)) = Len(nistcom.pairs)

(* Of the coders' own features the list names those of the coder at work,  *)
(* and no other's: nothing is left of an earlier one.                      *)
OnlyItsCoder ==
  \A c \in DOMAIN CoderField : CoderField[c] \in Names(nistcom) <=> coder = c
=============================================================================
