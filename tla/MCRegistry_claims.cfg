SPECIFICATION Spec
CONSTANTS
    c1 = c1
    c2 = c2
    c3 = c3
    A = A
    B = B
    x1 = x1
    x2 = x2
    None = None
    Conns = {c1, c2, c3}
    Labels = {"l1", "l2"}
    Accounts = {A, B}
    Leases = {x1, x2}
    AccountOf <- TwoAccounts
    LeaseOf <- SharedLease
    Finite = {}
    MaxAgents = 2
    MaxTunnels <- OneEach
    RequireSink = FALSE
    MaxVersion = 1
    MaxActive = 0
INVARIANTS
    IndexesExact
    NoTakeover
    WithinLimits
CHECK_DEADLOCK FALSE
