CONSTANTS
    Row = {r1, r2, r3}
    Completed = {r1}
    Refused = {r3}
    Unaddable = {}
    Tick = {w1, w2}
    BatchSize = 2
    MaxAttempts = 2
    MaxRun = 2
    LockTtl = 3
    Mainnet = TRUE
    TestnetOracle = FALSE
    Override = FALSE
    MaxStamp = 2
    MaxCopies = 2
    MaxFaults = 0
SPECIFICATION MCFairSpec
PROPERTIES
    AtLeastOnce
