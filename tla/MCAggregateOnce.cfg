SPECIFICATION Spec
CONSTANTS
  MaxResponses = 4
  MaxCalls = 1
  MaxInputs = 0
  MaxCrashes = 1
  MaxFailures = 0
PROPERTIES AggregateOnce
CHECK_DEADLOCK FALSE
