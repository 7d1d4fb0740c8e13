\* Three commands, two signals.
SPECIFICATION Spec
CONSTANTS
  NumCommands = 3
  MaxSignals = 2
INVARIANTS
  TypeOK
  NoneLeftBehind
PROPERTIES
  AllGoDown
  SignalEndsRunner
CHECK_DEADLOCK FALSE
