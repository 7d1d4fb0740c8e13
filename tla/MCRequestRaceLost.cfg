\* Violated: overlapping requests lose no update of the served volume.
SPECIFICATION Spec
CONSTANTS
  Requests = {p1, p2}
  Earlier = d0
  Taps = {t1, t2}
  Kegs = {k1, k2}
  NoKeg = NoKeg
  Nobody = Nobody
  Volumes = {1, 2}
CHECK_DEADLOCK FALSE
INVARIANTS
  ServedIsSumOfDrinks
