SPECIFICATION EcFairSpec
CONSTANTS
  Threads = {t1, t2}
  NoThread = NoThread
  MutexKind = "ReaderWriterMutex"
INVARIANTS
  EveryRequestPassesOnce
  OldAccessesFinished
PROPERTIES
  EmptyCheckpointReturns
