SPECIFICATION Spec
CONSTANTS
  t1 = t1
  t2 = t2
  a = a
  b = b
  c = c
  Nobody = Nobody
  Threads <- TwoThreads
  URIs <- OneURI
  Bytes <- Letters
  NUM_BUCKETS = 100
  Policies <- Tagged
  MaxResponses = 3
  MaxVersion <- Versions
  MaxTime = 0
SYMMETRY Symmetric
INVARIANTS
  CachedResultUsable
CHECK_DEADLOCK FALSE
