SPECIFICATION FairSpec
CONSTANTS
    MaxTxns = 2
    Limit = 1
    Filters = {"ALL", "SUCCESS"}
    Outcomes = {"SUCCESS", "REFUNDED"}
    MaxSearches = 1
    MaxMoves = 2
    MaxMounts = 2
    MaxLosses = 1
INVARIANTS EmptyPageExplained ReadsCoherent OfferExplained
PROPERTY ViewConverges
CHECK_DEADLOCK FALSE
