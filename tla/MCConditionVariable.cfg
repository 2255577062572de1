CONSTANTS
  Threads = {t1, t2, t3}
  NoThread = NoThread
  MaxSignals = 3
SPECIFICATION CvFairSpec
CHECK_DEADLOCK FALSE
INVARIANTS NoLostGuardWakeup
PROPERTIES SignalsReachWaiters SignalledWaiterReturns
