\* One merchant that retries with one key and two amounts, one stop.
SPECIFICATION FairSpec
CONSTANTS
    Merchants = {m1}
    ClientKeys = {k1}
    Amounts = {low, high}
    Ids = {i1, i2}
    Handlers = {h1, h2}
    None = None
    MaxAborts = 1
INVARIANTS
    UniqueTransaction
    ResponsesTrue
    BlankRowsAccounted
PROPERTIES
    PromiseSpec
    RetryAnswered
CHECK_DEADLOCK FALSE
