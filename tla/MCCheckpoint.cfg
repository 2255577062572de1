CONSTANTS
  t1 = t1
  t2 = t2
  t3 = t3
  Threads = {t1, t2, t3}
  NoThread = NoThread
  Jobs <- MCJobs
SPECIFICATION FairSpec
CHECK_DEADLOCK FALSE
INVARIANTS
  CheckpointCountExact
  OnBehalfOnlyWhileSuspended
  FlippedBeforeHeapAccess
  FlippedExactlyOnceOnReturn
PROPERTIES
  EveryRequestCompletes
