SPECIFICATION TraceSpec
CONSTANTS
    WordSize = 16
    DigestLen = 5
    CapacityLen = 6
    ExtensionDegree = 3
    XRoot = 7
    NumRegisters = 16
    NumHelpers = 6
    MaxNumWords = 5
    MaxCycles = 20
    InverseOf <- MCInverse
    ModPow <- MCModPow
    BitAnd <- MCBitAnd
    BitXor <- MCBitXor
    Ilog2 <- MCIlog2
    CountOnes <- MCCountOnes
    XMul <- MCXMul
    XInverse <- MCXInverse
    Tip5 <- MCTip5
    ProgramHash <- MCProgramHash
    Programs <- MCPrograms
    PublicInputs <- MCPublicInputs
    SecretTokens <- MCSecretTokens
    SecretDigests <- MCSecretDigests
    InitialRams <- MCInitialRams
INVARIANTS
    CanonicalIoIsUniform
    MemoryArgumentsBalance
    U32ArgumentBalances
    ExtensionSatisfiesAir
    ProcessorRowsSatisfyAir
    ConstraintsPinRegisters
    IoArgumentsBalance
CHECK_DEADLOCK FALSE
