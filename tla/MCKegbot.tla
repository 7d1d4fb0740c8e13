------------------------------ MODULE MCKegbot ------------------------------
(* The instances of Kegbot that TLC checks. *)
EXTENDS Kegbot, TLC

CONSTANTS t1, k1, k2, guest, u1

\* 15% of the full volume, rounded down.
MCLowThreshold == [f \in FullVolumes |-> (15 * f) \div 100]

\* The code only compares kegs, users and taps for equality.
MCSymmetry == Permutations(Kegs) \cup Permutations(Users) \cup Permutations(Taps)

=============================================================================
