SPECIFICATION FairSpec
CONSTANTS
  OneSecond = 1
  MIN_BUFFERS = 0
  BUFFER_SIZE = 1
  Requested = 1
  ULong = 4
  MaxReads = 2
INVARIANTS
  TypeOK
  InputBounded
  FirstSecondCovered
  NothingLeftQueued
PROPERTY StopLeadsToClosed
