SPECIFICATION FairSpec
CONSTANTS
    c1 = c1
    c2 = c2
    Bad = Bad
    Null = Null
    Unset = Unset
    Malformed = Malformed
    Crash = Crash
    Unreadable = Unreadable
    NoConn = NoConn
    LabelOf <- LabelOf_
    HashOf <- HashOf_
    MaxCredentials = 2
    MaxRevocations = 2
    MaxBudgets = 2
    MaxUpdateItems <- Items_
    Conns = {c1}
    TokenHash <- TokenHash_
    FirstDocs <- AnyFirst
    LaterDocs <- LiveEdits
    Wrapped = {TRUE, FALSE}
    MaxFiles = 2
INVARIANTS
    CacheCoherent
    InForceIsSound
    LiveLeaseKnown

PROPERTIES
    RemovedCredentialEnds
    UpdateReachesRelay
    GoneLeasesForgotten
CHECK_DEADLOCK FALSE
