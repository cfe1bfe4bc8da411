SPECIFICATION EventuallySpec
CONSTANTS
    a = a
    b = b
    t1 = t1
    t2 = t2
    k1 = k1
    f1 = f1
    f2 = f2
    Clients = {a, b}
    Tenants = {t1, t2}
    Codes = {k1}
    Families = {f1, f2}
    MaxGen = 2
    Limit = 1
    Window = 2
    Limiters = {"memory", "redis"}
    c1 = c1
    c2 = c2
    n1 = n1
    n2 = n2
    Conns = {c1, c2}
    Nodes = {n1, n2}
    NoConn = NoConn
    Sweeper = Sweeper
    Interval = 2
    SweepInterval = 1
    Grace = 1
    i1 = i1
    s1 = s1
    w1 = w1
    w2 = w2
    TopUps = {i1}
    Sessions = {s1}
    Workers = {w1, w2}
    Nothing = Nothing
    Backends = {"memory", "supabase"}
    Routes = {"internal", "stripe"}
    MaxDeliveries = 2
    MaxFaults = 1
    MaxCalls = 2
    MaxAttempts = 2
    SuspendAfter = 2
INVARIANTS
    SessionSurvives
    BurstIsBounded
    RegistryHoldsNewest
    SoleConnectionIsAddressed
    SessionBilledOnce
    StatusIsEarned
PROPERTIES
    LimitLifts
    GoneIsNoticed
    TopUpsFollowContract
    ConfirmedTopUpIsCredited
CHECK_DEADLOCK FALSE
