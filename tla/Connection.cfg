SPECIFICATION FairSpec
CONSTANTS
  BUFSIZE = 3
  RESPONSE_HEADER_SIZE = 4
  Grace = 2
  Shortest = 1
  Requests <- AllRequests
  MaxReply = 4
INVARIANTS
  TypeOK
  RequestFits
  RequestPassedOn
  TunnelExact
  TunnelDrained

  
CHECK_DEADLOCK FALSE
