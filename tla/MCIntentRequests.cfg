CONSTANTS
    n1 = n1
    Instance = {i1, i2}
    Request = {r1, r2, r3}
    Nonce = {n1}
    Submission <- MCSubmission
    Load <- MCLoad
    MaxRequests = 1
    WindowLen = 2
    TTL = 1
    MaxTime = 2
    MaxFaults = 1
    MaxRestarts = 1
SPECIFICATION Spec
SYMMETRY Symmetry
CHECK_DEADLOCK FALSE
INVARIANTS
    OneTransactionPerLiveNonce
    PinnedRepliesAgree
