------------------------------ MODULE Registry ------------------------------
(***************************************************************************)
(* What the biocard service promises to its clients, with no threads, no   *)
(* connections and no transactions: a set of biocards and a set of links   *)
(* from stored templates to biocards.  A request either takes effect in    *)
(* one step or has no effect.  Biocard implements this module.             *)
(***************************************************************************)
CONSTANTS Keys,     \* template keys: (type, id)
          CardIds   \* values of t_biocards.uid

VARIABLES cards,    \* biocards that exist
          links     \* links between a template and a biocard

vars == <<cards, links>>

Link == [key : Keys, card : CardIds]

(* No template belongs to two links. *)
OneLinkPerTemplate(S) == \A l, m \in S : l.key = m.key => l = m

Init == cards = {} /\ links = {}

(* A biocard is created, or an existing one extended, with a whole set of  *)
(* templates (links' \ links), none of which is linked already.            *)
Enroll(c) ==
  /\ cards' = cards \cup {c}
  /\ links \subseteq links'
  /\ links' \ links \subseteq [key : Keys, card : {c}]
  /\ OneLinkPerTemplate(links')

(* Some links of one biocard are removed; the biocard stays. *)
Strike(c) ==
  /\ links' \subseteq links
  /\ \A l \in links \ links' : l.card = c
  /\ UNCHANGED cards

(* A biocard is removed with every link to it. *)
Discard(c) ==
  /\ cards' = cards \ {c}
  /\ links' = {l \in links : l.card # c}

Next == \E c \in CardIds : Enroll(c) \/ Strike(c) \/ Discard(c)

Spec == Init /\ [][Next]_vars

(* The registry never shows a link to a biocard that does not exist, nor a *)
(* template that belongs to two biocards.                                  *)
Consistent ==
  /\ cards \subseteq CardIds
  /\ links \subseteq Link
  /\ OneLinkPerTemplate(links)
  /\ \A l \in links : l.card \in cards
=============================================================================
