SPECIFICATION FairSpec
CONSTANTS
    q1 = q1
    q2 = q2
    c1 = c1
    c2 = c2
    None = None
    Stray = Stray
    Calls <- TwoCalls
    Conns <- TwoConns
    MaxRetry = 2
    Budgets <- CloseOnly
PROPERTY CloseFinishes
