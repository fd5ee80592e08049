SPECIFICATION FairSpec
CONSTANTS
  Children = {c1, c2}
  Parent = Parent
  MaxGroups = 1
  MaxCrashes = 0
  MaxReleases = 1
  MaxTools = 0
  MaxRedeliveries = 0
  MaxFailures = 0
PROPERTY BarrierReleases
CHECK_DEADLOCK FALSE
