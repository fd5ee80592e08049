SPECIFICATION Spec
CONSTANTS
  Children = {c1, c2}
  Parent = Parent
  MaxGroups = 1
  MaxCrashes = 1
  MaxReleases = 1
  MaxTools = 1
  MaxRedeliveries = 1
  MaxFailures = 1
SYMMETRY Symmetry
INVARIANTS TypeOK AggregateIsWhole NoChildForgotten
PROPERTIES OutcomesAreFinal IsBarrier
CHECK_DEADLOCK FALSE
