SPECIFICATION ProfileSpec
CONSTANTS
    WordSize = 16
    ByteSize = 2
    DigestLen = 5
    CapacityLen = 6
    ExtensionDegree = 3
    XRoot = 7
    NumRounds = 2
    NumSplitAndLookup = 4
    NumRegisters = 16
    NumHelpers = 6
    MaxNumWords = 5
    MaxCycles = 32
    InverseOf <- MCInverse
    ModPow <- MCModPow
    BitAnd <- MCBitAnd
    BitXor <- MCBitXor
    Ilog2 <- MCIlog2
    CountOnes <- MCCountOnes
    XMul <- MCXMul
    XInverse <- MCXInverse
    Tip5 <- MCPermutation
    ProgramHash <- MCHashVarlen
    LookupTable <- MCLookupTable
    RoundConstants <- MCRoundConstants
    MdsFirstColumn <- MCMdsFirstColumn
    Programs <- MCPrograms
    PublicInputs <- MCPublicInputs
    SecretTokens <- MCSecretTokens
    SecretDigests <- MCSecretDigests
    InitialRams <- MCInitialRams
INVARIANTS
    HashAndLookupTablesSatisfyAir
    CrossTableArgumentsBalance
    ProgramIsAttested
    HashConstraintsPinNextRow
    ReportMatchesTrace
CHECK_DEADLOCK FALSE
