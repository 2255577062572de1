SPECIFICATION FairSpec
CONSTANTS
  t1 = t1
  t2 = t2
  t3 = t3
  Threads = {t1, t2, t3}
  NoThread = NoThread
  HashCodes = {1, 2}
  MaxCount = 0
  Programs <- MCPrograms
INVARIANTS
  HoldersMatchLock
  LockWordReadStillHolds
  IdentityHashIsStable
PROPERTIES
  GcStatePreserved
  EveryCallReturns
