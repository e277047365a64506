SPECIFICATION FairSpec
CONSTANTS
  BUFSIZE = 2
  RESPONSE_HEADER_SIZE = 6
  Grace = 2
  Shortest = 1
  Responses <- AllResponses
INVARIANTS
  TypeOK
  RelayedInOrder
  
  
  
PROPERTIES
  RequestEnds
CHECK_DEADLOCK FALSE
