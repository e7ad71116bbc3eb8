SPECIFICATION RaceFreeSpec
CONSTANTS
  OneSecond = 2
  MIN_BUFFERS = 1
  BUFFER_SIZE = 1
  Requested = 2
  ULong = 4
  MaxReads = 4
PROPERTY PipelineSpec
\* a schedule without a race may leave every thread waiting
CHECK_DEADLOCK FALSE
