SPECIFICATION CodegenSpec
CONSTANTS
    WordSize = 64
    DigestLen = 5
    CapacityLen = 6
    ExtensionDegree = 2
    XRoot = 5
    InverseOf <- MCInverse
    ModPow <- MCModPow
    BitAnd <- MCBitAnd
    BitXor <- MCBitXor
    Ilog2 <- MCIlog2
    CountOnes <- MCCountOnes
    XMul <- MCXMul
    XInverse <- MCXInverse
    Tip5 <- MCTip5
    ProgramHash <- MCProgramHash
    SourceConstraints <- MCSources
    TargetDegrees = {2, 3, 4}
    NumMainColumns = 2
    NumAuxColumns = 2
    Tables <- MCTables
    OutArrayOffset = 100
    MemPageSize = 300
    ArrayAddress <- MCArrayAddress
    OutOfDomainRow <- MCOutOfDomainRow
INVARIANTS
    RulesReadRowsInScope
CHECK_DEADLOCK FALSE
