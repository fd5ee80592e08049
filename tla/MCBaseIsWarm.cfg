SPECIFICATION Spec
CONSTANTS
  Docs = {d1}
  MaxRounds = 1
  MaxCrashes = 1
  MaxFailures = 0
  MaxStrays = 0
  MaxTroubles = 1
INVARIANT BaseIsWarm
CHECK_DEADLOCK FALSE
