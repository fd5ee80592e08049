SPECIFICATION FairSpec
CONSTANTS
  NumPages = 1
  MaxDeliver = 3
  Splitters = {s1, s2}
  Readers = {r1, r2}
  MaxErrors = 1
  MaxTimeouts = 1
  MaxCrashes = 1
  MaxUnrecorded = 1
INVARIANTS RefsAreOnDisk ReadyWasAnnounced
PROPERTY DocumentsSettle
CHECK_DEADLOCK FALSE
