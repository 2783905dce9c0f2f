SPECIFICATION Spec
CONSTANTS
    o1 = o1
    o2 = o2
    o3 = o3
    ReferenceModulus = 8
    Ops <- ThreeOps
    Kinds = {"read", "write", "control", "raw"}
    PduLengths = {1}
    MaxChunks = 2
    MaxDuplicates = 2
    ReconnectRetries = 1
    AllowMutatingRetries = FALSE
    MaxStaleResponses = 1
    InitialRequestReference = 6
    RawReference = 4
SYMMETRY OpSymmetry
INVARIANTS
    NoCrossedReplies
    BoundedEffects
    NoOvertaking
CHECK_DEADLOCK FALSE
