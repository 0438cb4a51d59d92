SPECIFICATION FairSpec
CONSTANTS
  MaxTyped = 3
  MaxPosted = 4
  MaxSent = 4
  MaxRead = 1
  BUFFER_SIZE = 3
  MessageSize = 2
INVARIANT TypeOK
INVARIANT SendsTheUsersLines
INVARIANT HistoryIsConversation
PROPERTY ReadsOnOnlyWhenJoined
PROPERTY TypedLinesAreSent
PROPERTY ServerIsHeard
CHECK_DEADLOCK FALSE
