----------------------------- MODULE KegLevels -----------------------------
(***************************************************************************)
(* What taps, displays and pages say of how full a keg is: the picture     *)
(* (six levels) and the warning (low, critical, empty), both computed from *)
(* the volumes of the Keg row, the warning also from the site's settings.  *)
(*                                                                         *)
(* Volumes are whole numbers of some small unit, Pint of them to a pint;   *)
(* settings are whole numbers.  A quotient is compared by multiplying out. *)
(***************************************************************************)
EXTENDS Integers

\* A pint in hundred-thousandths of a millilitre (units.py: 473.17648 ml).
Pint == 47317648

\* percent_full() >= percent, for a percent from 1 to 100: the quotient, cut off at 0
\* and at 100; 0 for a keg without a volume.
AtLeast(keg, percent) == keg.full > 0 /\ 100 * keg.remaining >= percent * keg.full

\* percent_full() <= percent, for a keg that has a volume.
AtMost(keg, percent) ==
  /\ keg.full > 0
  /\ percent >= 100 \/ (percent >= 0 /\ 100 * keg.remaining <= percent * keg.full)

\* The picture of get_illustration, and of build_tap_state_payload.
Level(keg) ==
  CASE AtLeast(keg, 98) -> 5
    [] ~AtLeast(keg, 98) /\ AtLeast(keg, 75) -> 4
    [] ~AtLeast(keg, 75) /\ AtLeast(keg, 45) -> 3
    [] ~AtLeast(keg, 45) /\ AtLeast(keg, 25) -> 2
    [] ~AtLeast(keg, 25) /\ AtLeast(keg, 10) -> 1
    [] ~AtLeast(keg, 10) -> 0

\* pints <= floor, of what remains but never less than nothing.
PintsAtMost(keg, pints) == pints >= 0 /\ keg.remaining <= pints * Pint

\* hits, in level_status.
Hits(keg, pints, percent) == PintsAtMost(keg, pints) \/ AtMost(keg, percent)

\* level_status, as a number: 3 "empty", 2 "critical", 1 "low", 0 for None.  The tests
\* are made in this order, whatever the settings are.
LevelStatus(keg, site) ==
  IF PintsAtMost(keg, site.empty_pints) THEN 3
  ELSE IF Hits(keg, site.critical_pints, site.critical_percent) THEN 2
  ELSE IF Hits(keg, site.low_pints, site.low_percent) THEN 1
  ELSE 0

=============================================================================
