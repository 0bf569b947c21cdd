SPECIFICATION Spec
CONSTANTS
    c1 = c1
    c2 = c2
    Bad = Bad
    Null = Null
    Unset = Unset
    Malformed = Malformed
    Crash = Crash
    Unreadable = Unreadable
    NoConn = NoConn
    LabelOf <- LabelOf_
    HashOf <- HashOf_
    MaxCredentials = 2
    MaxRevocations = 2
    MaxBudgets = 2
    MaxUpdateItems <- Items_
    Conns = {c1}
    TokenHash <- TokenHash_
    FirstDocs <- OnlyGood
    LaterDocs <- NullEdit
    Wrapped = {TRUE, FALSE}
    MaxFiles = 2
INVARIANTS
    LastGoodServes
CHECK_DEADLOCK FALSE
