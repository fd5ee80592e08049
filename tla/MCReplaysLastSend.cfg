SPECIFICATION Spec
CONSTANTS
  MaxResponses = 2
  MaxCalls = 0
  MaxInputs = 1
  MaxCrashes = 1
  MaxFailures = 0
PROPERTIES ReplaysLastSend
CHECK_DEADLOCK FALSE
