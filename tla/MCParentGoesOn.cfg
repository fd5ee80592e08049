SPECIFICATION FairSpec
CONSTANTS
  Children = {c1}
  Parent = Parent
  MaxGroups = 1
  MaxCrashes = 0
  MaxReleases = 0
  MaxTools = 0
  MaxRedeliveries = 0
  MaxFailures = 1
PROPERTY ParentGoesOn
CHECK_DEADLOCK FALSE
