SPECIFICATION Spec
CONSTANTS
  AddrBits = 2
  DataBits = 2
  Jobs <- MCJobs
  Contents <- MCContents
  MaxRuns = 2
INVARIANTS
  TypeOK
  WordsWritten
  ReadsTrue
PROPERTY OnlyAsked
CHECK_DEADLOCK FALSE
