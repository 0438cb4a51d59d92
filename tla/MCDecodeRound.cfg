SPECIFICATION FairSpec
CONSTANTS
  QueueSize = 2
  MAX_THREADS = 2
  MaxInt = 3
  Byte <- MCByte
  Nul = "NUL"
  Chunk <- MCChunk
INVARIANT TypeOK
INVARIANT NothingInvented
INVARIANT OwnVowelGone
INVARIANT SerialRoundIsCorrect
INVARIANT SerialInv
PROPERTY ImplementsRound
PROPERTY LastThreadExits
CHECK_DEADLOCK FALSE
