CONSTANTS
  t1 = t1
  t2 = t2
  A = A
  B = B
  I = I
  J = J
  Threads = {t1, t2}
  Classes = {A, B, I, J}
  Interfaces = {I, J}
  Defaults = {I}
  NoThread = NoThread
  NoClass = NoClass
  Supers <- MCSupers
  Uses <- MCUses
  kMaxClasses = 2
  Entries <- MCEntries
  MaxCalls <- MCMaxCalls
SPECIFICATION FairSpec
CHECK_DEADLOCK FALSE
INVARIANTS
  ClinitRunsOnce
  ResultsAgree
  VisibleToAll
PROPERTIES
  StatusAdvances
  EveryCallReturns
