SPECIFICATION Spec
CONSTANTS
  MaxPolls = 2
  MaxRuns = 2
  Tarball = TRUE
  Corrupting = TRUE
  Filling = TRUE
  Quitting = TRUE
CHECK_DEADLOCK FALSE
INVARIANTS
  TypeOK
  NoFalseFail
  NoCutTrees
  NothingBurns
PROPERTIES
  RunEnds
