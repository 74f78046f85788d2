SPECIFICATION FairSpec
CONSTANTS
  c1 = c1
  c2 = c2
  Conns = {c1, c2}
  NoConn = NoConn
  Scripts <- MCScripts
  k_max = 7
CHECK_DEADLOCK FALSE
INVARIANTS
  TypeOK
  AbortIsHeeded
  FramesAreStable
  NoByteLost
  AskedOnce
  IndInv
PROPERTIES
  ImplementsService
  StopReturns
