SPECIFICATION Spec
CONSTANTS
  NoFile = NoFile
  Bits <- MCBits
  Faults <- MCFaults
  MaxRounds = 4
  MaxFlips = 3
INVARIANTS
  TypeOK
  SeedsMatch
  TableIsSummary
  NothingInvented
