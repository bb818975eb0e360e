SPECIFICATION Spec
CONSTANTS
  t1 = t1
  t2 = t2
  p1 = p1
  p2 = p2
  p3 = p3
  i1 = i1
  i2 = i2
  can1 = can1
  None = None
  Threads <- MCThreads
  Packets <- MCPackets
  Ifaces <- MCIfaces
  Can <- MCCan
  Bridge <- Loop
SYMMETRY Symmetry
INVARIANTS
  LockMatchesCalls
  EveryPacketAccounted
  StuckOnlyInACircle
CHECK_DEADLOCK FALSE
