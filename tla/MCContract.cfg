CONSTANTS
    Anchor = {a1}
    Corridor = {c1, c2}
    Publisher = {p1}
    MaxAnchors = 1
    MaxPublishers = 1
    Metric <- MCMetric
    Legacy <- MCLegacy
    DefaultCorridor = {c1}
    MaxBps = 100
    NormSettle = 300
    MaxSettle = 600
    Rate <- MCRate
    Decimals = {2, 3}
    MaxDecimals = 2
    MaxAmount = 13
    Delta <- MCDelta
    MaxDelta = 6
    MaxCount = 2
    Probe <- MCProbe
    Address = {alice, bob, carol}
    Hash = {h1, h2}
    Delay = 2
    MaxTime = 5
    MaxEvents = 4
SPECIFICATION ContractSpec
SYMMETRY Symmetry
INVARIANTS
    ViewsAgree
    BetterNeverScoresLower
    UpgradesWaited
