----------------------------- MODULE MCTapRoom -----------------------------
(* The instances of TapRoom that TLC checks. *)
EXTENDS TapRoom, TLC

CONSTANTS t1, t2, t3, k1, k2, k3

MCTaps == {t1, t2, t3}
MCKegs == {k1, k2, k3}

\* Taps and kegs are only compared for equality.
MCSymmetry == Permutations(MCTaps) \cup Permutations(MCKegs)

=============================================================================
