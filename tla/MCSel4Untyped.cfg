SPECIFICATION Spec
CONSTANTS
    Slots = {s1, s2, s3, s4}
    NoSlot = NoSlot
    NumRoots = 1
    MemBits = 1
    Badges = {1}
    ChunkBits = 0
    FanOut = 2
SYMMETRY AnySlot
INVARIANTS
    ListExact
    MemoryApart
    FreeMemoryCleared
PROPERTIES
    ImplementsTree
