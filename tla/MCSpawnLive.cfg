SPECIFICATION FairSpec
CONSTANTS
  Children = {c1}
  Parent = Parent
  MaxGroups = 2
  MaxCrashes = 2
  MaxReleases = 0
  MaxTools = 0
  MaxRedeliveries = 1
  MaxFailures = 0
PROPERTIES BarrierReleases ParentGoesOn
CHECK_DEADLOCK FALSE
