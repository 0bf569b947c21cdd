SPECIFICATION FairSpec
CONSTANTS
    c1 = c1
    c2 = c2
    c3 = c3
    A = A
    B = B
    x1 = x1
    x2 = x2
    None = None
    Conns = {c1, c2}
    Labels = {"l1"}
    Accounts = {A, B}
    Leases = {x1, x2}
    AccountOf <- PairAccounts
    LeaseOf <- PairLeases
    Finite = {c1, c2}
    MaxAgents = 1
    MaxTunnels <- OneEach
    RequireSink = TRUE
    MaxVersion = 2
    MaxActive = 1
INVARIANTS
    RevokedStaysOut
    EventsPaired
PROPERTIES
    ClaimsResolve
    RevokedLeaseEnds
CHECK_DEADLOCK FALSE
