SPECIFICATION SocketSpec
CONSTANTS
  Actors = {a1, a2}
  MaxSockets = 2
SYMMETRY Symmetry
INVARIANT BudgetIsAccurate
CHECK_DEADLOCK FALSE
