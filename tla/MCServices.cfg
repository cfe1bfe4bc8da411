SPECIFICATION ServicesSpec
CONSTANTS
    s1 = s1
    s2 = s2
    d1 = d1
    d2 = d2
    t1 = t1
    t2 = t2
    c1 = c1
    c2 = c2
    c3 = c3
    Calls = {a1, a2}
    Families = {b1, b2}
    MaxGen = 2
    MayRestart = TRUE
    PricedSessions = {s1, s2}
    UseOf <- MCUseOf
    ComponentsOf <- MCComponentsOf
    StepUnit = 2
    PromoOf <- MCPromoOf
    MaxPriceClock = 3
    InvoicedSessions = {a1, a2}
    Amounts = {3}
    PeriodEnds = {0, 1, 2}
    MaxInvoiceClock = 2
    MaxNotes = 1
    Joiners = {j1, j2, j3}
    TeamDrivers = {d1, d2}
    MaxUses = 2
    JoinLimit = 2
    MaxAttempts = 3
    FleetSessions = {a1, a2}
    FleetDrivers = {b1, b2}
    Sites = {x}
    NoSite = NoSite
    NumDays = 2
    Costs = {2, 3}
    MaxRollups = 2
    CarbonRequests = {a1, a2}
    CarbonTtl = 2
    MaxTries = 2
    MaxCarbonClock = 3
    Tenants = {t1, t2}
    TenantOf <- MCTenantOf
    Connections = {b1, b2}
    Requests = {a1, a2}
    None = None
    Sockets = {a1, a2}
    Versions = {v1, v2}
    MaxUpdates = 2
    NoVersion = NoVersion
    Registries = {"memory", "supabase"}
    CarDrivers = {d1, d2}
    Cars = {x}
    Addresses = {y}
    Contracts = {c1, c2, c3}
    TrustedOnes = {c1, c3}
    EmaidDriver <- MCEmaidDriver
    Starts = {a1, a2}
    QrTtl = 1
    ValidUntil = 1
    MaxIdClock = 2
    NoDriver = NoDriver
    Locations = {l1}
    RoamingSessions = {b1, b2}
    ProfileCalls = {a1, a2}
    Watts = {1, 2, 3}
    Preferences <- MCPreferences
    MaxWatts = 2
    MaxOverdue = 1
    NoOne = NoOne
    ReservationIds = {b1, b2}
    PartnerIds = {p1}
    MaxStraying = 1
    Drivers = {d1, d2}
    Places = {p2}
    ReservationCalls = {a1, a2}
    Nobody = Nobody
    TokenTtl = 2
    TokenChecks = {a1, a2}
    MaxTokenClock = 6
    Parties = {b1, b2}
    Handshakes = {a1, a2}
    AskedVersions = {"2.1.1", "2.2.1", "9.9"}
    MaxSecrets = 4
    CdrSessions = {s1}
    CdrPartners = {p1, p2}
    CdrTasks = {a1, a2}
    LocalTotals = {0, 50}
    MaxCdrs = 2
    MaxRaises = 2
    MaxVersion = 3
    Editors = {a1, a2}
    Readers = {r}
    TariffStores = {"memory", "supabase"}
    ComponentTypes = {"time", "flat"}
SYMMETRY ServicesSymmetry
INVARIANTS
    CarefulClientNotRevoked
    ProfileShownIsApplied
    ReservationsAgree
    BlacklistHolds
    HeldTokenWorks
    CdrNeitherLostNorRepeated
    TariffIsWhole
    RevokedNeverStarts
    RowsAreCallers
    ApprovalSurvives
    FirmwareStatusIsItsOwn
    BilledAsShown
    InvoicedOnce
    SeatsAddUp
    ReportCountsSessions
    FreshIsRecent
CHECK_DEADLOCK FALSE
