SPECIFICATION Spec
CONSTANTS
  t1 = t1
  t2 = t2
  a = a
  b = b
  c = c
  Nobody = Nobody
  Threads <- TwoThreads
  URIs <- ThreeURIs
  Bytes <- Letters
  NUM_BUCKETS = 100
  Policies <- AllPolicies
  MaxResponses = 2
  MaxVersion <- Versions
  MaxTime = 1
SYMMETRY Symmetric
INVARIANTS
  TypeOK
  OneNodePerKey
  NoFreedMemoryUsed
  
  UsableIfAlone
  LeavesMAPBeyondASCII
PROPERTIES
  
  ImplementsStore
  
CHECK_DEADLOCK FALSE
