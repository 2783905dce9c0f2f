SPECIFICATION Spec
CONSTANTS
    o1 = o1
    o2 = o2
    o3 = o3
    ReferenceModulus = 8
    Ops <- TwoOps
    Kinds = {"read", "write"}
    PduLengths = {1}
    MaxChunks = 2
    MaxDuplicates = 1
    ReconnectRetries = 2
    AllowMutatingRetries = TRUE
    MaxStaleResponses = 0
    InitialRequestReference = 6
    RawReference = 4
SYMMETRY OpSymmetry
INVARIANTS
    ProgressIsSound
    UncertaintyIsReported
CHECK_DEADLOCK FALSE
