SPECIFICATION MCSpec
CONSTANTS
    WordSize = 4
    DigestLen = 2
    CapacityLen = 1
    ExtensionDegree = 2
    XRoot = 2
    NumRegisters = 5
    NumHelpers = 3
    MaxNumWords = 3
    MaxCycles = 24
    InverseOf <- MCInverse
    ModPow <- MCModPow
    BitAnd <- MCBitAnd
    BitXor <- MCBitXor
    Ilog2 <- MCIlog2
    CountOnes <- MCCountOnes
    XMul <- MCXMul
    XInverse <- MCXInverse
    Tip5 <- MCTip5
    ProgramHash <- MCProgramHash
    Programs <- MCPrograms
    PublicInputs <- MCPublicInputs
    SecretTokens <- MCSecretTokens
    SecretDigests <- MCSecretDigests
    InitialRams <- MCInitialRams
INVARIANTS
    VMTypeOK
    AtInstructionStart
PROPERTIES
    StepHasDeclaredInfluence
    FailureKeepsState
    ForwardProgramsStop
CHECK_DEADLOCK FALSE
