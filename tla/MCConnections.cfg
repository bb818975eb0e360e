SPECIFICATION ConnectionsSpec
CONSTANTS
  c1 = c1
  c2 = c2
  p1 = p1
  p2 = p2
  Clients = {c1, c2}
  Ports = {p1, p2}
  MaxCalls = 3
  InLens <- MCInLens
  Rooms = {2}
  ReplyLens = {0, 2}
  CmpMax = 1
  U32 = 4
  Transfers = 2
  Receives = 2
  Lengths = {0, 5, 6, 9}
  Mtu = 2
  Wrap = 8
  MaxNet = 4
SYMMETRY Sym
CONSTRAINT NetBound
INVARIANTS
  WaitersKeepTheirReply
  OkMeansAnswered
  BlobIntact
  PrefixIsReal
CHECK_DEADLOCK FALSE
