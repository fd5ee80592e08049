SPECIFICATION SocketSpec
CONSTANTS
  Actors = {a1, a2}
  MaxSockets = 2
SYMMETRY Symmetry
INVARIANTS SocketTypeOK DriftIsBounded
CHECK_DEADLOCK FALSE
