SPECIFICATION FairSpec
CONSTANTS
  Children = {c1}
  Parent = Parent
  MaxGroups = 1
  MaxCrashes = 1
  MaxReleases = 0
  MaxTools = 0
  MaxRedeliveries = 1
  MaxFailures = 0
PROPERTY ChildrenFinish
CHECK_DEADLOCK FALSE
