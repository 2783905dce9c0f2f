SPECIFICATION FairSpec
CONSTANTS
    ReferenceModulus = 4
    Streams <- MCStreams
    Awaited = 1
    MaxPduLength = 2
    MaxSegments = 2
    MaxStaleResponses = 1
    OperationTimeout = 2
    TransferDeadline = 1
    MaxTime = 2
INVARIANTS
    Aligned WorkBounded DeliversTheAnswer
PROPERTIES
    NothingAfterDeadline ExchangeEnds
CHECK_DEADLOCK FALSE
