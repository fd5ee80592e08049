SPECIFICATION FairSpec
CONSTANTS
  Workers = {w1, w2}
  NoWorker = NoWorker
  MaxGeneration = 2
INVARIANTS TypeOK TokensFenced HolderKnowsGeneration
PROPERTIES ImplementsLease StaleTurnIsCut
CHECK_DEADLOCK FALSE
