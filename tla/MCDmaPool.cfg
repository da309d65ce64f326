SPECIFICATION Spec
CONSTANTS
    Meta = 3
    PageSize = 8
    Frames <- ThreePages
    Sizes = {2, 5, 11}
    Aligns = {2, 4}
    MaxLive = 4
    Asserts = FALSE
INVARIANTS
    NothingLostOrShared
    PhysicallyContiguous
    RefusedRightly
