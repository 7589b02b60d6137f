SPECIFICATION Spec
CONSTANTS
  Values <- MCValues
  Severed <- MCSevered
  Regions <- MCRegionsThatDiffer
INVARIANT IteratorlessDeclined
CHECK_DEADLOCK FALSE
