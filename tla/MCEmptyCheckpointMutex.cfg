SPECIFICATION EcFairSpec
CONSTANTS
  Threads = {t1, t2}
  NoThread = NoThread
  MutexKind = "Mutex"
PROPERTIES
  EmptyCheckpointReturns
