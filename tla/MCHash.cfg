SPECIFICATION HashSpec
CONSTANTS
    CBlock = 4
    WordBytes = 1
    EighthWord = 2
    DigestLength = 3
    MaxKey = 6
    MaxPiece = 9
    MaxMsg = 28
    MaxRounds = 2
    RegBits = 64
    K256 <- Table
    Inputs <- MCInputs
INVARIANTS
    ContextHolds
    DigestRight
    CompressionRight
