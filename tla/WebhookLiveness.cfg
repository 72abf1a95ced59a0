\* Two webhooks that share a breaker, and nobody replays; a restart and a rejected call
\* at any point.
SPECIFICATION FairSpec
CONSTANTS
    m1 = m1
    Merchants = {m1}
    Deliveries = {d1, d2}
    MerchantOf <- OneMerchant
    Attempts = 4
    Threshold = 3
    JobIds = {j1, j2}
    Workers = {w1}
    Operators = {}
    None = None
    MaxRestarts = 1
    MaxFailures = 1
PROPERTY EventuallySettled
CHECK_DEADLOCK FALSE
