SPECIFICATION Spec
CONSTANTS
  Values <- MCValues
  Severed <- MCSevered
  Regions <- MCRegionsThatDiffer
INVARIANT ScalarsStored
CHECK_DEADLOCK FALSE
