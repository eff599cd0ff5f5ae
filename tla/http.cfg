SPECIFICATION FairSpec
CONSTANTS
  Scenarios <- MCScenarios
  Callers = {query, other}
  Zstd = TRUE
  MaxLoads = 2
  TailBytes = 5
  HeadBytes = 2
  BufferBytes = 4
  MinBuffer = 4
  RetryMin = 0
  RetryMax = 4
  ChunkSizes = {1, 3, 7}
  BufferSize = 4
  Threshold = 3
  MaxInput = 10
  MaxBatches = 2
INVARIANTS InitShared Delivered TextDelivered TrailerRule ReaderReleased RequestWhole
PROPERTIES ViewsStay ImplementsResult TimedCallEnds
CHECK_DEADLOCK FALSE
