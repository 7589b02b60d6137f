CONSTANTS
  h = h
  a = a
  b = b
  c = c
  t = t
  NoBlock = NoBlock
  Blocks <- MCBlocks
  LoopShapes <- MCLoopShapes
SPECIFICATION TreeSpec
INVARIANTS
  TreeTypeOK
  TreesAreAllowed
  TreesCoverPayload
  OverlapOnlyAtRoots
  TreesAreConnected
  ExclusiveInOwnTree
PROPERTY
  TreesReturn
\* The function is called once and returns.
CHECK_DEADLOCK FALSE
