\* Two overlapping requests of any kind at two taps and two kegs.
SPECIFICATION Spec
CONSTANTS
  Requests = {p1, p2}
  Earlier = d0
  Taps = {t1, t2}
  Kegs = {k1, k2}
  NoKeg = NoKeg
  Nobody = Nobody
  Volumes = {1, 2}
CHECK_DEADLOCK FALSE
INVARIANTS
  TypeOK
  UnsharedKegIsExact
  UnsharedSessionsAreExact
  UnsharedTapAgreesWithKeg
  DrinksHaveSessions
PROPERTIES
  RequestsEnd
