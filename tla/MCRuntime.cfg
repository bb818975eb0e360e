SPECIFICATION RuntimeSpec
CONSTANTS
  c1 = c1
  c2 = c2
  c3 = c3
  u1 = u1
  u2 = u2
  can = can
  imp = imp
  peer = peer
  None = None
  Loop = Loop
  Self = Self
  Default = Default
  Ifaces = {can, imp}
  NameOf <- MCNameOf
  Dests = {peer, Default}
  Tables <- MCTables
  TableSize = 2
  NameMax = 10
  Calls <- MCCalls
  Users <- MCUsers
  MaxClones = 2
  QueueSize = 2
CONSTRAINT InTurn
SYMMETRY Symmetry
INVARIANTS
  SetupAlone
  NodeIsReady
  IdentReadsLiveStrings
  OpenCaptures
  NothingLeftOn
  HandlesStayTrue
  WalkSeesEveryRoute
