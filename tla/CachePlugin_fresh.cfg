SPECIFICATION Spec
CONSTANTS
    k1 = k1
    k2 = k2
    q1 = q1
    q2 = q2
    u1 = u1
    u2 = u2
    None = None
    Keys <- TwoKeys
    Calls <- TwoCalls
    Updaters <- TwoUpdaters
    Kinds = {"some", "nx"}
    Ttls = {2}
    ShardMax = 1
    LazyTtl = 3
    NxTtl = 1
    FailTtl = 1
    EmptyTtl = 1
    MinTtl = 1
    MinChanges = 1
    MaxLazy = 1
    MaxTime = 2
    Budgets <- Mixed
SYMMETRY Alike
CHECK_DEADLOCK FALSE
INVARIANTS TypeOK RingIsSound L2WithinLifetime UnsavedIsCounted FlushSticks
