SPECIFICATION Spec
CONSTANTS
  Responses <- SomeResponses
  MaxAge = 8
INVARIANTS
  TypeOK
  KeptInfoSet
  ReadAsMeant
CHECK_DEADLOCK FALSE
