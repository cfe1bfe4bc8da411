SPECIFICATION FairSpec
CONSTANTS
    d1 = d1
    d2 = d2
    h1 = h1
    s1 = s1
    s2 = s2
    t1 = t1
    t2 = t2
    r1 = r1
    r2 = r2
    Drivers = {d1, d2}
    Chargers = {h1}
    Sessions = {s1, s2}
    Txns = {t1, t2}
    Requests = {r1, r2}
    Nobody = Nobody
    NoTxn = NoTxn
    NoCharger = NoCharger
    NoSession = NoSession
    Builds <- MCBuilds
    Accepted = {d1}
    Award = 1
    Costs = {2}
    MaxReading = 1
    MaxStops = 1
INVARIANTS
    RecordedStopsAreAnswered
    LiveStatusIsReal
PROPERTIES
    StartedSessionCharges
    RecordedStopHappens
CHECK_DEADLOCK FALSE
