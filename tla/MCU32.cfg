SPECIFICATION FillSpec
CONSTANTS
    WordSize = 16
    DigestLen = 5
    CapacityLen = 6
    ExtensionDegree = 3
    XRoot = 7
    NumRegisters = 16
    NumHelpers = 6
    MaxNumWords = 5
    InverseOf <- MCInverse
    ModPow <- MCModPow
    BitAnd <- MCBitAnd
    BitXor <- MCBitXor
    Ilog2 <- MCIlog2
    CountOnes <- MCCountOnes
    XMul <- MCXMul
    XInverse <- MCXInverse
    Tip5 <- MCTip5
    ProgramHash <- MCProgramHash
    EntrySets <- MCEntrySets
    MaxPaddingRows = 2
INVARIANTS
    U32TableSatisfiesAir
    CopiedRowsAreExact
    HeightIsPredicted
CHECK_DEADLOCK FALSE
