SPECIFICATION FairSpec
CONSTANTS
  QueueSize = 2
  MAX_THREADS = 2
  MaxInt = 3
  Byte <- MCByte
  Nul = "NUL"
  Chunk <- MCChunk
PROPERTY ThreadsTerminate
CHECK_DEADLOCK FALSE
