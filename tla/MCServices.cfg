CONSTANTS
    Intent = {i1}
    Evaluation = {a1, a2}
    Key = {k1, k2}
    Anchor = {a1, a2}
    FreshTTL = 1
    StaleTTL = 2
    MaxFetches = 3
    MaxClears = 1
    MaxTime = 3
    Template <- MCTemplate
    MaxSkips = 2
    LastTime = 4
    MaxRecords = 3
    Subscription = {s1}
    WatchedAnchor = {h1}
    MaxAttempts = 2
    MaxEvents = 2
    MaxDeploys = 2
    MaxFaults = 1
    Domain = {h1}
    Instance = {n1}
    Sweep = {a1, a2}
    ProbedKind = {"uptime", "toml-integrity"}
    SigningKey = {key1, key2}
    Published <- MCPublished
    ReadinessDays = 2
    MaxDay = 3
    MaxProbeFaults = 1
    Hop = {ramp, swap1, swap2, supply}
    Type <- MCType
    HopId <- MCHopId
    MaxHops = 3
    ListedAnchor = {h1}
    Run = {a1, a2}
    ThresholdNights = 2
    LastDay = 3
    MaxRuns = 3
    MaxChanges = 1
    Wallet = {a1, a2}
    MaxDeposits = 2
    MaxVisits = 1
    Quote <- MCQuote
    Request <- MCRequest
    MaxQuotes = 3
    Scale = 2
    RouteAnchor = {1, 2, 3}
    MaxReceived = 1
    RatedAnchor = {1, 2}
    ProbeDomain = {1, 2, 3}
    AnchorOf <- MCAnchorOf
    Corridor = {1, 2}
    Target = {1}
    Outcome <- MCOutcome
    Sample <- MCSample
    Quoted = 4
    MaxBps = 100
    MaxSettle = 8
    Window = 2
    BatchSize = 2
    LogBound <- MCLogBound
    MaxRefreshFaults = 1
    key1 = key1
    key2 = key2
    ramp = ramp
    swap1 = swap1
    swap2 = swap2
    supply = supply
SPECIFICATION ServicesSpec
SYMMETRY Symmetry
CHECK_DEADLOCK FALSE
INVARIANTS
    ServicesTypeOK
    RunsAreAuthorised
    InvalidationReachesAll
    RefreshesAreFew
    LogIsHonest
    SnapshotIsTold
    RepliesMatchTheLedger
    AccusationsAreFounded
    GateIsEarned
    PlansKeepTheTerms
    RefusalsAreFounded
    RetryAdviceIsSafe
    ReportedOnce
    CleanRefreshIsCurrent
    PayoutsCanLand
    DegradedIsEarned
    PastDatesAreSettled
PROPERTIES
    ReloadsFindTheDeposit
