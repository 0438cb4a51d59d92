SPECIFICATION Spec
CONSTANTS
  QueueSize = 2
  MAX_THREADS = 2
  MaxInt = 3
  Byte <- MCByte
  Nul = "NUL"
  Chunk <- MCChunk
INVARIANT NoVowelLeft
CHECK_DEADLOCK FALSE
