SPECIFICATION Spec
CONSTANTS
  t1 = t1
  t2 = t2
  a = a
  b = b
  c = c
  Nobody = Nobody
  Threads <- OneThread
  URIs <- OneURI
  Bytes <- Letters
  NUM_BUCKETS = 100
  Policies <- AllPolicies
  MaxResponses = 3
  MaxVersion <- Versions
  MaxTime = 1
SYMMETRY Symmetric
INVARIANTS
  OnlyStorableKept
