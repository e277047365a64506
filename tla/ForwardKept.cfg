SPECIFICATION Spec
CONSTANTS
  BUFSIZE = 2
  RESPONSE_HEADER_SIZE = 6
  Grace = 2
  Shortest = 1
  Responses <- AllResponses
INVARIANTS
  KeptOnlyIfWritten
CHECK_DEADLOCK FALSE
