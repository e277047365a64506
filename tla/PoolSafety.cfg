SPECIFICATION Spec
CONSTANTS
  w1 = w1
  w2 = w2
  w3 = w3
  Main = Main
  Logger = Logger
  Nobody = Nobody
  Workers <- ThreeWorkers
  Fds = {3, 4, 5}
  MaxSigints = 2
  SigWindow <- AnyPoint
  SpuriousConds <- BothConds
SYMMETRY WorkerSymmetry
INVARIANTS
  TypeOK
  ConnectionOwnedOnce
  NoIdleWhileWork
  ExitSignalNotLost
  HangsOnlyIfInterrupted
  IInv
CHECK_DEADLOCK FALSE
