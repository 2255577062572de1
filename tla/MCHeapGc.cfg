SPECIFICATION FairSpec
CONSTANTS
  m1 = m1
  m2 = m2
  NoThread = NoThread
  Mutators = {m1, m2}
  Daemon = d
  Ops <- MCOps
  Modulus = 16
  FirstGc = 14
  CollectorMoves = TRUE
  MaxCalls <- MCMaxCalls
  MaxDepth = 2
  MaxStops = 1
INVARIANTS OneGcAtATime ObjectsStayPut
CHECK_DEADLOCK FALSE
PROPERTIES RequestedGcCompletes EveryWaitEnds
