SPECIFICATION Spec
CONSTANTS
  Values <- MCValues
  Severed <- MCSevered
  Regions <- MCRegionsThatDiffer
INVARIANTS
  TypeOK
  ClosedUnlessSevered
  CarriedThroughMemory
  InitsFollowAllocas
  OneIteratorFirst
CHECK_DEADLOCK FALSE
