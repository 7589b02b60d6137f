SPECIFICATION Spec
CONSTANTS
  Values <- MCValues
  Severed <- MCSevered
  Regions <- MCRegionsThatDiffer
INVARIANT InputsComeFromOutside
CHECK_DEADLOCK FALSE
