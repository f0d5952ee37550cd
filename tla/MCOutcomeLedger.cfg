CONSTANTS
    a1 = a1
    a2 = a2
    t1 = t1
    t2 = t2
    Intent = {i1, i2}
    Account = {a1, a2}
    Tx = {t1, t2}
    Source <- MCSource
    Nobody = Nobody
    NoTx = NoTx
    Absent = Absent
    Run = {run1, run2}
    MaxDisputes = 1
    MaxFaults = 1
SPECIFICATION FairSpec
INVARIANTS
    PublishedIsWitnessed
PROPERTIES
    RowsAreNeverRewritten
    RefinesLifecycle
    WitnessedRowsGetSettled
