SPECIFICATION CardsSpec
CONSTANTS
  t1 = t1
  t2 = t2
  k1 = k1
  k2 = k2
  NoKeg = NoKeg
  r1 = r1
  r2 = r2
  Taps = {t1, t2}
  Kegs = {k1, k2}
  Requests = {r1, r2}
  FirstKeg <- MCFirstKeg
  Full = 2
  MaxChanges = 2
  MaxInbox = 2
  MaxFaults = 1
INVARIANTS
  KegsAreCurrent
