CONSTANTS
    firm = firm
    indicative = indicative
    form = form
    Rate = {firm, indicative, form}
    Kind <- MCKind
    MaxFlows = 2
    MaxVisits = 1
SPECIFICATION FairSpec
INVARIANTS
    OneFlowPerDrawer
    NoTwinPayments
    ReportsAreOwn
PROPERTIES
    TrackedIsReported
