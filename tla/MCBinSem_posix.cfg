SPECIFICATION SemFairSpec
CONSTANTS
  t1 = t1
  t2 = t2
  t3 = t3
  Waiters <- MCWaiters
  Backends <- Posix
  MaxValue = 3
PROPERTIES
  ImplementsBinarySemaphore
