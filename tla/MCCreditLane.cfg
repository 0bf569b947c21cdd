SPECIFICATION FairSpec
CONSTANTS
    W = 5
    MaxFrame = 3
INVARIANTS
    CreditConserved
    BackstopsUnreachable
    BlockedSenderIsOwed
PROPERTY
    BlockedSenderUnblocks
CHECK_DEADLOCK FALSE
