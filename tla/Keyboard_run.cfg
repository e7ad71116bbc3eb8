SPECIFICATION FairSpec
CONSTANTS
  Plain <- MCPlain
  Extended <- MCExtended
  Beyond <- MCBeyond
  KEYNUMS = 4
  BufLen = 3
  Keys <- MCKeys
  MaxTyped = 4
  MaxSignals = 1
INVARIANTS
  TypeOK
  ConsoleRestored
  PassFromBeyond
PROPERTY ProgramEnds
