\* Two transactions, one of which can cut short the sweep of the other.
SPECIFICATION FairSpec
CONSTANTS
    Txns = {t1, t2}
    NoTxn = NoTxn
    Requests = {r1}
    CronRuns = {c1}
    MaxRequests = 3
    MaxAborts = 1
PROPERTIES
    OverdueEnds
    EveryRequestAnswered
    BankOutcomeQueued
CHECK_DEADLOCK FALSE
