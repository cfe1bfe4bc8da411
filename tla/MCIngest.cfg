SPECIFICATION IngestSpec
CONSTANTS
    s1 = s1
    s2 = s2
    h1 = h1
    t1 = t1
    t2 = t2
    d1 = d1
    d2 = d2
    Sockets = {s1, s2}
    Chargers = {h1}
    Txns = {t1, t2}
    NoTxn = NoTxn
    Readings = {1, 2}
    ChargerOf <- MCChargerOf
    MaxBatch = 2
    Backends = {"memory", "supabase"}
    MaxStatus = 2
    NumPartners = 2
    Tasks = {d1, d2}
    Threshold = 2
    MaxFaults = 2
    Buses = {"memory", "nats"}
    PushClients = {"memory", "http"}
SYMMETRY IngestSymmetry
INVARIANTS
    ReadingsConserved
    NewestActiveIsShown
    CloseOutIsAnnounced
    HandledOnce
    ProcessedWasPushed
CHECK_DEADLOCK FALSE
