SPECIFICATION Spec
CONSTANTS
  p1 = p1
  p2 = p2
  b1 = b1
  b2 = b2
  Procs <- MCTwo
  Hidden <- MCHidden
  Bits <- MCBits
  NPages = 2
  NFrames = 4
  MaxBugsPanic = 1
  IntMod = 3
  LongMod = 3
  MaxPass = 3
  MaxFlips = 1
SYMMETRY MCSymmetry
INVARIANT EveryTestCounted
PROPERTY TotalsNeverFall
