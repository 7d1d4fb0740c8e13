\* Three taps and three kegs, every history of requests.
SPECIFICATION RoomSpec
CONSTANTS
  t1 = t1
  t2 = t2
  t3 = t3
  k1 = k1
  k2 = k2
  k3 = k3
  Taps <- MCTaps
  Kegs <- MCKegs
  NoKeg = NoKeg
SYMMETRY MCSymmetry
INVARIANTS
  RoomTypeOK
  TappedKegIsOnTap
  KegOnOneTap
  LifeIsLoggedOnce
PROPERTIES
  OnTapKegOnlyEnds
  OnlyDeletedTapsLoseKegs
