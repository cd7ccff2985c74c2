CONSTANTS
  RingSize = 3
  ArraySize = 2
  Requests = {2, 4, 5, 6, 7}
  FirstLine = 2
  Pieces <- MCPieces
  StatusPieces = 1
SPECIFICATION Spec
CHECK_DEADLOCK FALSE
PROPERTY ImplementsReply
PROPERTY ClientIsAnswered
PROPERTY ServerLetsGo
