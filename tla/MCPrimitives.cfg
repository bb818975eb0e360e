SPECIFICATION PrimitivesFairSpec
CONSTANTS
  t1 = t1
  t2 = t2
  t3 = t3
  Waiters <- MCWaiters
  Backends <- MacosAndEmbassy
  MaxValue = 3
  c1 = c1
  c2 = c2
  c3 = c3
  None = None
  Calls <- MCCalls
  Endless <- OneEndless
  m1 = m1
  m2 = m2
  Contexts = {t1, t2, t3}
  Mutexes = {m1, m2}
  Platforms = {"pthread", "embassy"}
INVARIANTS
  NoLostSignal
  NeverAnOlderFunction
  MutexExcludes
PROPERTIES
  ImplementsBinarySemaphore
  TokenTaken
  TimedWaitReturns
  CreationsFinish
CHECK_DEADLOCK FALSE
