SPECIFICATION Spec
CONSTANTS
  BUFSIZE = 3
  RESPONSE_HEADER_SIZE = 4
  Grace = 2
  Shortest = 1
  Requests <- Plain
  MaxReply = 4
INVARIANT AllResourcesFreed
CHECK_DEADLOCK FALSE
