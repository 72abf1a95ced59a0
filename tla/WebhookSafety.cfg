\* One webhook, replays that overlap, and a restart and a rejected call at any point.
SPECIFICATION Spec
CONSTANTS
    m1 = m1
    Merchants = {m1}
    Deliveries = {d1}
    MerchantOf <- OneMerchant
    Attempts = 4
    Threshold = 3
    JobIds = {j1, j2, j3}
    Workers = {w1}
    Operators = {o1, o2}
    None = None
    MaxRestarts = 1
    MaxFailures = 1
SYMMETRY Symmetry
INVARIANTS
    BreakerLimits
    OpenMeansQuiet
    NeverForgotten
    AcksAccounted
    RowsTruthful
CHECK_DEADLOCK FALSE
