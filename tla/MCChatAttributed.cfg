SPECIFICATION Spec
CONSTANTS
  c1 = c1
  c2 = c2
  c3 = c3
  Conn <- MCTwo
  None = None
  MAXIMUM_CONNECTED_CLIENTS = 2
  BUFFER_SIZE = 20
  Size <- Short
  MortalHelper = FALSE
  MaxLines <- TwoEach
SYMMETRY Alike
INVARIANT Attributed
CHECK_DEADLOCK FALSE
