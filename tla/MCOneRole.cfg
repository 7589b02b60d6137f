SPECIFICATION Spec
CONSTANTS
  Values <- MCValues
  Severed <- MCSevered
  Regions <- MCRegionsThatDiffer
INVARIANT InputsOfOneRole
CHECK_DEADLOCK FALSE
