SPECIFICATION Spec
CONSTANTS
  p1 = p1
  p2 = p2
  b1 = b1
  b2 = b2
  Procs <- MCOne
  Hidden <- MCLast
  Bits <- MCBits
  NPages = 3
  NFrames = 3
  MaxBugsPanic = 1
  IntMod = 3
  LongMod = 3
  MaxPass = 6
  MaxFlips = 2
SYMMETRY MCSymmetry
INVARIANTS
  TypeOK
  ComparesOwnFill
  NoFalseAlarm
PROPERTY StatsNotRuined
