SPECIFICATION FairSpec
CONSTANTS
    o1 = o1
    o2 = o2
    o3 = o3
    ReferenceModulus = 8
    Ops <- TwoOps
    Kinds = {"read", "write", "control", "raw", "disconnect"}
    PduLengths = {1, 2}
    MaxChunks = 2
    MaxDuplicates = 0
    ReconnectRetries = 1
    AllowMutatingRetries = TRUE
    MaxStaleResponses = 1
    InitialRequestReference = 6
    RawReference = 4
INVARIANTS
    SessionAgrees
    NoUnansweredRequest
    RequestsFit
PROPERTIES
    EveryCallReturns
CHECK_DEADLOCK FALSE
