SPECIFICATION FairSpec
CONSTANTS
  Workers = {w1, w2}
  First = w1
  NumCalls = 2
  MaxRounds = 2
  MaxFaults = 2
INVARIANTS OutputsAreTrue NoStrayCitation
PROPERTIES RoundEnds
CHECK_DEADLOCK FALSE
