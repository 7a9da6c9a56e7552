SPECIFICATION Spec
CONSTANTS
    k1 = k1
    k2 = k2
    q1 = q1
    q2 = q2
    u1 = u1
    u2 = u2
    None = None
    Keys <- TwoKeys
    Calls <- TwoCalls
    Updaters <- OneUpdater
    Kinds = {"some"}
    Ttls = {2}
    ShardMax = 1
    LazyTtl = 2
    NxTtl = 2
    FailTtl = 1
    EmptyTtl = 1
    MinTtl = 1
    MinChanges = 1
    MaxLazy = 1
    MaxTime = 2
    Budgets <- QueriesOnly
CHECK_DEADLOCK FALSE
INVARIANT TtlNotPolluted
