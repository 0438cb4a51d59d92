SPECIFICATION Spec
CONSTANTS
  c1 = c1
  c2 = c2
  c3 = c3
  Conn <- MCThree
  None = None
  MAXIMUM_CONNECTED_CLIENTS = 2
  BUFFER_SIZE = 5
  Size <- Short
  MortalHelper = TRUE
  MaxLines <- TwoEach
SYMMETRY AlikeButThird
CONSTRAINT PairOrThree
INVARIANT AnswersMatch
INVARIANT LoopsReachAll
INVARIANT ListFitsShortNames
INVARIANT RosterIsExact
PROPERTY ImplementsRoom
CHECK_DEADLOCK FALSE
