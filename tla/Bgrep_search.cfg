SPECIFICATION Spec
CONSTANTS
  Bytes = {1, 2}
  MaxPattern = 4
  MaxText = 9
INVARIANTS
  TypeOK
  StateIsLongest
  LinksAreLongest
  FirstIsExact
  FalseOnesOverlap
  MissedOverlap
PROPERTIES
  EveryByteMatched
