SPECIFICATION FairSpec
CONSTANTS
  c1 = c1
  c2 = c2
  p1 = p1
  p2 = p2
  None = None
  Ports <- MCPorts
  PortValues <- MCPortValues
  Conns <- MCConns
  Packets <- MCPackets
  Backlog = 2
  RxLen = 1
INVARIANTS
  OneAnswerPerPort
PROPERTIES
  RunStrandsNothing
  EveryReachablePacketSettled
CHECK_DEADLOCK FALSE
