CONSTANTS
  t1 = t1
  Threads = {t1, t2, t3}
  NoThread = NoThread
  Recursive = TRUE
  MaxSpins = 1
  MaxRecursion = 2
  MaxCalls <- Calls
SPECIFICATION FairSpec
CHECK_DEADLOCK FALSE
INVARIANTS OwnerReliable
PROPERTIES ImplementsLock EveryLockCallReturns
