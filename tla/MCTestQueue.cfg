SPECIFICATION FairSpec
CONSTANTS
  t1 = t1
  t2 = t2
  t3 = t3
  i1 = i1
  Threads <- MCThreads
  Items <- MCItems
  Capacity = 2
  MaxCalls <- MCMaxCalls
INVARIANTS
  NoLostWakeup
PROPERTIES
  ImplementsContract
  BlockedCallsProceed
  TimedCallsReturn
CHECK_DEADLOCK FALSE
