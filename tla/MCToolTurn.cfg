SPECIFICATION FairSpec
CONSTANTS
  MaxResponses = 3
  MaxCalls = 2
  MaxInputs = 1
  MaxCrashes = 2
  MaxFailures = 1
INVARIANTS AnswersItsResponse CheckpointIsCurrent
PROPERTIES TurnEnds
CHECK_DEADLOCK FALSE
