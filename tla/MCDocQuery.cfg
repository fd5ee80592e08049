SPECIFICATION FairSpec
CONSTANTS
  Docs = {d1, d2}
  MaxRounds = 2
  MaxCrashes = 1
  MaxFailures = 1
  MaxStrays = 1
  MaxTroubles = 1
INVARIANTS WarmupIsNoAnswer BaseIsWarmOnTime AnswersItsRound
PROPERTIES IsBarrier RoundsEnd
CHECK_DEADLOCK FALSE
