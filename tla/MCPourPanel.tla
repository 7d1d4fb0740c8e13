---------------------------- MODULE MCPourPanel ----------------------------
(* The instance of PourPanel that TLC checks. *)
EXTENDS PourPanel

CONSTANTS m1, m2

\* One meter with enough readings for a second card that is updated, one that stands
\* above or below it.
MCMaxReading == (m1 :> 3) @@ (m2 :> 1)

\* The first meter may be calibrated, and may come and go.
MCRates == (m1 :> {0, 1, 2}) @@ (m2 :> {1})

=============================================================================
