SPECIFICATION Spec
CONSTANT Programs <- Modules
INVARIANT
  CloningTypeOK
  SpecPerParameter
  DirectionsSound
  OriginalGraphKept
  CloneGraphSound
  RegionsComplete
  BoundsFresh
  StartsFixed
  ChangesReported
PROPERTY
  Recording
  CloningEnds
  TameNeverStops
