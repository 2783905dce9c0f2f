SPECIFICATION FairSpec
CONSTANTS
    a = a
    b = b
    ReferenceModulus = 4
    Addresses = {a, b}
    Resolutions <- SomeResolutions
    ParameterLists <- SomeParameters
    RequestedExponent = 10
    OfferedLengths = {239, 240, 253, 254, 1021, 1022}
    ConnectTimeout = 2
    OperationTimeout = 1
    MaxTime = 2
INVARIANTS
    NothingLeftOpen NegotiationHolds AnsweringPeerIsLast
PROPERTIES
    OneBudget ConnectEnds
CHECK_DEADLOCK FALSE
