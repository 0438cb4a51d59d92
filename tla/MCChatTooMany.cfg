SPECIFICATION Spec
CONSTANTS
  c1 = c1
  c2 = c2
  c3 = c3
  Conn <- MCThree
  None = None
  MAXIMUM_CONNECTED_CLIENTS = 2
  BUFFER_SIZE = 20
  Size <- Short
  MortalHelper = FALSE
  MaxLines <- OneEach
SYMMETRY Alike
CONSTRAINT Ordered
INVARIANT NeverTooMany
CHECK_DEADLOCK FALSE
