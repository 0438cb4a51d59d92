SPECIFICATION PipelineFairSpec
CONSTANTS
  QueueSize = 2
  MAX_THREADS = 2
  BUFFER_SIZE = 4
  Markup = 0
  Byte <- MCByte
  Nul = "NUL"
  Space = "SP"
  Newline = "NL"
  Junk = "?"
  c1 = c1
  c2 = c2
  Client <- MCClient
  Stream <- MCStream
  NameSize <- MCNameSize
  Message <- MCMessage
INVARIANT TypeOK
INVARIANT PipelineTypeOK
INVARIANT WorkInv
INVARIANT NothingStale
INVARIANT SerialReplyIsCorrect
INVARIANT EveryByteComesBack
INVARIANT NothingLeftOver
INVARIANT BroadcastIsOwnLine
PROPERTY ImplementsHelper
PROPERTY OverrunsOnlyWhenFull
PROPERTY SpillsOnlyWhenJoined
PROPERTY RequestsAreAnswered
CHECK_DEADLOCK FALSE
