CONSTANTS
    Row = {r1, r2, r3, r4}
    Completed = {r1, r4}
    Refused = {r3}
    Unaddable = {r4}
    Tick = {w1, w2}
    BatchSize = 2
    MaxAttempts = 2
    MaxRun = 2
    LockTtl = 3
    Mainnet = TRUE
    TestnetOracle = FALSE
    Override = FALSE
    MaxStamp = 2
    MaxCopies = 2
    MaxFaults = 2
SPECIFICATION MCFairSpec
INVARIANTS
    OneTickAtATime
    CopiesAreAccounted
PROPERTIES
    RefinesLifecycle
    EventuallyPublished
