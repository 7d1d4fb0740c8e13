\* A tap and a keg, one user, three drinks of two volumes at three times.
SPECIFICATION Spec
CONSTANTS
  t1 = t1
  k1 = k1
  k2 = k2
  guest = guest
  u1 = u1
  Taps = {t1}
  Kegs = {k1}
  NoKeg = NoKeg
  Users = {u1}
  Volumes = {1, 2}
  FullVolumes = {3}
  LowThreshold <- MCLowThreshold
  Timeouts = {1}
  MaxTime = 2
  MaxDrinks = 3
  MaxSpilled = 1
SYMMETRY MCSymmetry
INVARIANTS
  ServedIsSumOfDrinks
  SessionsMatchDrinks
