\* Two requests under way at a time, three drinks, one change.
SPECIFICATION Spec
CONSTANTS
  guest = guest
  u1 = u1
  k1 = k1
  k2 = k2
  s1 = s1
  s2 = s2
  Requests = {p1, p2}
  Users = {guest, u1}
  Guest = guest
  Kegs = {k1, k2}
  Sessions = {s1, s2}
  Volumes = {1, 2}
  Pours <- MCPours
  None = None
  MaxDrinks = 3
  MaxChanges = 1
  MaxQueue = 3
CHECK_DEADLOCK FALSE
SYMMETRY MCSymmetry
INVARIANTS
  TypeOK
  StatsFollowDrinks
  MissedPoursAreMadeUp
  RowsAreUnique
  LargestSessionExists
