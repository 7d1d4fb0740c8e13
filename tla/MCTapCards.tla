---------------------------- MODULE MCTapCards ----------------------------
(* The instance of TapCards that TLC checks. *)
EXTENDS TapCards

CONSTANTS t1, t2, k1, k2, r1, r2

\* One tap has a keg, the other may get one.
MCFirstKeg == [t \in {t1, t2} |-> IF t = t1 THEN k1 ELSE NoKeg]

=============================================================================
