SPECIFICATION Spec
CONSTANTS
  QueueSize = 3
  Byte <- MCByte
  Nul = "NUL"
INVARIANT TypeOK
PROPERTY ImplementsFifo
