SPECIFICATION FairSpec
CONSTANTS
  NumPages = 1
  MaxDeliver = 3
  Splitters = {s1, s2}
  Readers = {r1, r2}
  MaxErrors = 0
  MaxTimeouts = 1
  MaxCrashes = 0
  MaxUnrecorded = 0
PROPERTY EveryPageGetsOCR
CHECK_DEADLOCK FALSE
