\* Two days, two transactions, a file of at most two lines, one stop.
SPECIFICATION Spec
CONSTANTS
    Txns = {t1, t2}
    FileLimit = 2
    RowLimit = 2
    MaxRuns = 2
    MaxAborts = 1
SYMMETRY Symmetry
INVARIANTS
    ReportAgrees
    CorrectedOnce
    AuditFollowsHistory
    ResolvedByCorrection
    OnlyNewestCorrected
CHECK_DEADLOCK FALSE
