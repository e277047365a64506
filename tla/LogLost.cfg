SPECIFICATION Spec
CONSTANTS
  p1 = p1
  p2 = p2
  p3 = p3
  Logger = Logger
  Nobody = Nobody
  Pushers <- TwoPushers
  MaxMessages = 3
  Long = {}
  Spurious = FALSE
INVARIANTS
  NoMessageLost
CHECK_DEADLOCK FALSE
