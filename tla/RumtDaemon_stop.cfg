SPECIFICATION Spec
CONSTANTS
  NoFile = NoFile
  Bits <- MCBits
  Faults <- MCStop
  MaxRounds = 4
  MaxFlips = 3
INVARIANT TableKept
