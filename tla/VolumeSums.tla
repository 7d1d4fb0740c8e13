----------------------------- MODULE VolumeSums -----------------------------
(***************************************************************************)
(* What volumes add up to: the sum over the rows of a set of drinks, which *)
(* the server computes from scratch when it rebuilds a session and keeps   *)
(* as running totals elsewhere (pykeg/core/models.py).                     *)
(***************************************************************************)
EXTENDS Integers, FiniteSetsExt

\* The volumes of the drinks ds in the table D of drinks.
VolumeOf(D, ds) == MapThenSumSet(LAMBDA d : D[d].volume, ds)

=============================================================================
