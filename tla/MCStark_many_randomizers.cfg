SPECIFICATION Spec
CONSTANTS
    Modulus <- MCModulus
    FieldGenerator <- MCFieldGenerator
    SampleScalars <- MCSampleScalars
    SampleIndices <- MCSampleIndices
    TargetDegree = 4
    DegreesOfConstraints <- MCDegreesOfConstraints
    InitialConstraints <- MCInitialConstraints
    ConsistencyConstraints <- MCConsistencyConstraints
    TransitionConstraints <- MCTransitionConstraints
    TerminalConstraints <- MCTerminalConstraints
    TraceOf <- MCTraceOf
    AuxColumnsOf <- MCAuxColumnsOf
    RandomElements <- MCRandomElements
    Configurations <- MCConfigurations
    SampleCount = 1
    ChallengesOf <- MCChallengesOf
    NumConstraints = 6
    NumMainColumns = 2
    NumAuxColumns = 2
    Scope = "many_randomizers"
INVARIANTS
    HonestProofsAreAccepted
