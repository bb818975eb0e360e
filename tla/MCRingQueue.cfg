SPECIFICATION Spec
CONSTANTS
  t1 = t1
  t2 = t2
  i1 = i1
  i2 = i2
  i3 = i3
  Garbage = Garbage
  Threads <- MCThreads
  Items <- MCItems
  Capacity = 3
SYMMETRY Symmetry
INVARIANTS
  RingInv
  NoGarbage
PROPERTIES
  ImplementsPolledFifo
