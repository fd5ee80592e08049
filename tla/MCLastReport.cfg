SPECIFICATION FairSpec
CONSTANTS
  Workers = {w1, w2}
  First = w1
  NumCalls = 2
  MaxRounds = 1
  MaxFaults = 1
PROPERTY LastReportCloses
CHECK_DEADLOCK FALSE
