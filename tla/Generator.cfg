\* Two payments, the page opened twice, one reload.
SPECIFICATION FairSpec
CONSTANTS
    Keys = {k1, k2}
    None = None
    MaxMounts = 2
    MaxReloads = 1
INVARIANTS
    NoDoubleCharge
    PanelReturns
PROPERTIES
    NewPaymentIsNew
    OverdueCleared
CHECK_DEADLOCK FALSE
