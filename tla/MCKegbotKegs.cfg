\* A tap, two kegs, a guest and a user, two drinks at two times, and two timeouts of sessions.
SPECIFICATION Spec
CONSTANTS
  t1 = t1
  k1 = k1
  k2 = k2
  guest = guest
  u1 = u1
  Taps = {t1}
  Kegs = {k1, k2}
  NoKeg = NoKeg
  Users = {guest, u1}
  Volumes = {1}
  FullVolumes = {3}
  LowThreshold <- MCLowThreshold
  Timeouts = {1, 2}
  MaxTime = 1
  MaxDrinks = 2
  MaxSpilled = 1
SYMMETRY MCSymmetry
INVARIANTS
  TypeOK
  SessionsMatchDrinks
  EventsAgreeWithDrinks
  OfflineKegSpansItsDrinks
  DrinksComeFromTappedKegs
PROPERTIES
  ImplementsTapRoom
