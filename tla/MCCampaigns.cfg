SPECIFICATION Spec
CONSTANTS
    ReferenceModulus = 65536
    Conversations <- AllConversations
INVARIANTS
    PeerAgrees AsExpected ConnectionsCounted
