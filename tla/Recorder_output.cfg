SPECIFICATION Spec
CONSTANTS
  OneSecond = 2
  MIN_BUFFERS = 1
  BUFFER_SIZE = 1
  Requested = 1
  ULong = 4
  MaxReads = 2
INVARIANT OutputWritten
