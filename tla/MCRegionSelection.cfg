CONSTANTS
  h = h
  a = a
  b = b
  c = c
  t = t
  NoBlock = NoBlock
  Blocks <- MCBlocks
  LoopShapes <- MCLoopShapes
  Traversals <- MCTraversals
  Contents <- MCContents
SPECIFICATION Spec
INVARIANTS
  RegionTypeOK
  RegionKeepsLoopEnds
  ItrEnteredFromHeader
  ItrStopsAtIteratorCode
  WitrIsHeaviest
PROPERTY
  SelectionEnds
\* One region is selected.
CHECK_DEADLOCK FALSE
