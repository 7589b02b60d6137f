CONSTANTS
  outer = outer
  inner = inner
  Loops <- MCLoops
  Preorder <- MCPreorder
  Enclosing <- MCEnclosing
  Layout <- MCLayout
  UncondBrs <- MCUncondBrs
SPECIFICATION Spec
INVARIANTS
  TypeOK
  SplitPointsValid
  InstructionsKept
  Separated
  ModesExact
PROPERTIES
  Separation
  Returns
\* The pass runs once and returns.
CHECK_DEADLOCK FALSE
