\* One transaction, three handlers at a time, one of which may stop half-way.
SPECIFICATION Spec
CONSTANTS
    Txns = {t1}
    NoTxn = NoTxn
    Requests = {r1, r2}
    CronRuns = {c1}
    MaxRequests = 4
    MaxAborts = 1
SYMMETRY Symmetry
PROPERTY LifecycleSpec
INVARIANTS
    AuditComplete
    HistorySound
    NotifyAccounting
    SettledOnceUnlessRaced
    RefundNeedsPayment
CHECK_DEADLOCK FALSE
