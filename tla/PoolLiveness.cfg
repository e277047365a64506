SPECIFICATION FairSpec
CONSTANTS
  w1 = w1
  w2 = w2
  w3 = w3
  Main = Main
  Logger = Logger
  Nobody = Nobody
  Workers <- ThreeWorkers
  Fds = {3, 4, 5}
  MaxSigints = 1
  SigWindow <- UnlockedPoints
  SpuriousConds <- NoCond

  
PROPERTIES
  
  
  ImplementsDispatch
