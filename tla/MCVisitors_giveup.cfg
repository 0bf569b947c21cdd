SPECIFICATION Spec
CONSTANTS
    a1 = a1
    a2 = a2
    a3 = a3
    a4 = a4
    v1 = v1
    v2 = v2
    v3 = v3
    v4 = v4
    v5 = v5
    NoLabel = NoLabel
    NoSource = NoSource
    Agents = {a1, a2, a3, a4}
    Kind <- Kind_
    Wants <- Wants_
    AccountOf <- OneAccount
    Sources = {"s1", "s2"}
    SourceOf <- SourceOf_
    Labels = {"l1", "l2"}
    MaxTunnels = 1
    ControlSlots = 1
    AuthSlots = 1
    AuthFailMax = 1
    SweepAt = 1
    MaxSources = 1
    Attempts <- Attempts_
    Crowds <- Reconnecting
    People = {v1, v2, v3, v4, v5}
    PersonSource <- PersonSource_
    PoolSize = 2
    MaxPerSource = 1
    MaxVisitorIps = 1
    MaxVisitors = 1
INVARIANTS
    GivesUpOnlyForGood
CHECK_DEADLOCK FALSE
