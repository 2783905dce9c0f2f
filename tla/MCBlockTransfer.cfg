SPECIFICATION FairSpec
CONSTANTS
    ReferenceModulus = 4
    BlockSize = 4
    UploadChunks = {1, 2}
    PduLengths = {19, 21}
    UploadSafetyLimit = 6
    MaxFragments = 3
    StartRetries = 1
    OperationTimeout = 2
    TransferDeadline = 3
    MaxTime = 3
INVARIANTS
    WholeBlock GivenUpIsEnded ReportsTheFault
PROPERTIES
    OneBudget TransferEnds
CHECK_DEADLOCK FALSE
