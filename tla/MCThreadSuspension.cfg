CONSTANTS
  t1 = t1
  t2 = t2
  t3 = t3
  Threads = {t1, t2, t3}
  NoThread = NoThread
  MaxCalls <- MCMaxCalls
SPECIFICATION FairSpec
CHECK_DEADLOCK FALSE
INVARIANTS SuspendedUntilResumed CountsExact NoSuspensionCycle
PROPERTIES ImplementsMutatorLock NoSuspensionDuringSuspendAll EveryCallReturns
