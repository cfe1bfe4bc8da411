SPECIFICATION FairSpec
CONSTANTS
    i1 = i1
    s1 = s1
    w1 = w1
    w2 = w2
    TopUps = {i1}
    Sessions = {s1}
    Workers = {w1, w2}
    Nothing = Nothing
    Backends = {"memory"}
    Routes = {"stripe"}
    MaxDeliveries = 2
    MaxFaults = 0
    MaxCalls = 1
    MaxAttempts = 2
    SuspendAfter = 2
PROPERTY
    PaidTopUpIsCredited
CHECK_DEADLOCK FALSE
