CONSTANTS
  Threads = {t1, t2, t3}
  NoThread = NoThread
  MaxCalls = 1
SPECIFICATION FairSpec
CHECK_DEADLOCK FALSE
INVARIANTS ContendersExact
PROPERTIES ImplementsLock EveryLockCallReturns
