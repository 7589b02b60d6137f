SPECIFICATION Spec
CONSTANTS
  Word = 16
  Geps <- MCGeps
  Functions <- MCFunctions
INVARIANTS
  ArraysTypeOK
  FlattenedAddress
  DecomposedTyped
CHECK_DEADLOCK FALSE
