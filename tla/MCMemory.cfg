SPECIFICATION MemorySpec
CONSTANTS
    u1 = u1
    u2 = u2
    b1 = b1
    b2 = b2
    Users = {u1, u2}
    Buffers = {b1, b2}
    BUFFER_SIZE = 2
    LenMax = 4
    MaxWrite = 3
    Width = 2
    Names <- MCNames
    Tables <- MCTables
    ALIGN = 4
    Word = 2
    UsizeMax = 63
    HeapSize = 20
    Sizes <- MCSizes
    Shapes <- MCShapes
    QueueBytes = 6
    Addresses <- MCAddresses
    Rests <- MCRests
SYMMETRY Sym
INVARIANTS
    NoStaleBytes
    NamesSurvive
    SplitsLikeTheTable
    HeapIntact
    CanIdsKeepAddresses
