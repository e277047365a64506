SPECIFICATION FairSpec
CONSTANTS
  p1 = p1
  p2 = p2
  p3 = p3
  Logger = Logger
  Nobody = Nobody
  Pushers <- ThreePushers
  MaxMessages = 4
  Long = {4}
  Spurious = TRUE
INVARIANTS
  TypeOK
  FifoWhileExcluded
  SleepsOnlyIfEmpty
  NoFreedElement
PROPERTIES
  ImplementsLogQueue
  EveryMessageWritten
CHECK_DEADLOCK FALSE
