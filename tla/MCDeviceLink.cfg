\* One code at three threads: two polls and a confirmation can be under way together.
SPECIFICATION Spec
CONSTANTS
  c1 = c1
  c2 = c2
  h1 = h1
  h2 = h2
  h3 = h3
  Codes = {c1}
  Threads = {h1, h2, h3}
  MaxConfirmations = 3
  MaxFaults = 2
INVARIANTS
  DevicesAreAccountedFor
  RefusedMeansNoDevice
PROPERTIES
  PollingEnds
CHECK_DEADLOCK FALSE
