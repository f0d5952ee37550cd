CONSTANTS
    Anchor = {a1}
    Corridor = {c1}
    Publisher = {p1}
    MaxAnchors = 1
    MaxPublishers = 1
    Hash = {h1, h2}
    BadHash = {h2}
    PageSize = 2
    MaxPage = 2
    MaxTotal = 2
    MaxSum = 2
    MaxSettle = 1
    MaxRecent = 3
SPECIFICATION Spec
INVARIANTS
    ListsMirrorFlags
    RecentIsNewestLive
PROPERTIES
    RefinesLog
    OperationsMatchLog
