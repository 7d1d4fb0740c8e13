----------------------------- MODULE PourCards -----------------------------
(***************************************************************************)
(* What somebody in front of a wall display sees of the pours: a stack of  *)
(* cards, one per meter, the pour that began first on top.  A card says    *)
(* "Pouring" or "Poured".  It may be replaced by nothing but a blank       *)
(* screen, and it is taken away only once it says "Poured".                *)
(*                                                                         *)
(* PourPanel shows how a browser, its timers and a listener implement      *)
(* this.                                                                   *)
(***************************************************************************)
EXTENDS Sequences, SequencesExt

CONSTANT Meters

VARIABLES
  shown,   \* the meters that have a card, from top to bottom
  poured   \* those among them whose card says "Poured"

cardVars == <<shown, poured>>

CardsInit ==
  /\ shown = <<>>
  /\ poured = {}

\* A card for a pour that had none goes below the others.
Appears(m) ==
  /\ m \notin Range(shown)
  /\ shown' = Append(shown, m)
  /\ poured' = poured

\* Something flows again.
Flows(m) ==
  /\ m \in Range(shown)
  /\ poured' = poured \ {m}
  /\ UNCHANGED shown

Stops(m) ==
  /\ m \in Range(shown)
  /\ poured' = poured \cup {m}
  /\ UNCHANGED shown

Vanishes(m) ==
  /\ m \in poured
  /\ shown' = RemoveFirst(shown, m)
  /\ poured' = poured \ {m}

\* The page is loaded anew.
Blank ==
  /\ shown' = <<>>
  /\ poured' = {}

CardsNext ==
  \/ \E m \in Meters : Appears(m) \/ Flows(m) \/ Stops(m) \/ Vanishes(m)
  \/ Blank

CardsSpec == CardsInit /\ [][CardsNext]_cardVars

=============================================================================
