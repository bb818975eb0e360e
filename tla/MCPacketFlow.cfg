SPECIFICATION Spec
CONSTANTS
  b1 = b1
  b2 = b2
  b3 = b3
  c1 = c1
  c2 = c2
  Buffers <- MCBuffers
  Conns <- MCConns
  QfifoLen = 2
  RxLen = 1
  MaxListens = 2
SYMMETRY Symmetry
INVARIANTS
  Partition
  ConnectionsOwned
PROPERTIES
  StrandedOnlyByRelisten
