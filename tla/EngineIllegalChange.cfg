\* A callback and a sweep overlap.
SPECIFICATION Spec
CONSTANTS
    Txns = {t1}
    NoTxn = NoTxn
    Requests = {r1, r2}
    CronRuns = {c1}
    MaxRequests = 3
    MaxAborts = 0
SYMMETRY Symmetry
PROPERTY EveryStatusChangeLegal
CHECK_DEADLOCK FALSE
