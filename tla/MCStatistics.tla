---------------------------- MODULE MCStatistics ----------------------------
(* The instances of Statistics that TLC checks. *)
EXTENDS Statistics, TLC

CONSTANTS guest, u1, k1, k2, s1, s2

\* Two kegs in one session, two sessions of one keg.
MCPours ==
  {[user |-> guest, keg |-> k1, session |-> s1, volume |-> 1],
   [user |-> u1, keg |-> k2, session |-> s1, volume |-> 2],
   [user |-> guest, keg |-> k1, session |-> s2, volume |-> 2]}

\* Which server process serves a request does not matter.
MCSymmetry == Permutations(Requests)

=============================================================================
