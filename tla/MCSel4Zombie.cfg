CONSTANTS
    r1 = r1
    r2 = r2
    r3 = r3
    A = A
    B = B
    C = C
    RootSlots = {r1, r2, r3}
    CNodes = {A, B, C}
    Size = 2
    MaxSteps = 0
SPECIFICATION Spec
SYMMETRY AnyRootSlot
INVARIANTS
    AssertionsHold
    NothingLeftBehind
    DeletionEnds
    DeletionIsLocal
    RevocationEnds
