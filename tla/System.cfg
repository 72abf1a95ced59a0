SPECIFICATION Spec
CONSTANTS
    Merchants = {m1, m2}
    NewKeys = {k1, k2}
    DemoKey = demo
    Browsers = {b1}
    Requests = {r1, r2}
    Processes = {s1, s2}
    Starts = {s1, s2}
    Stops = {z1}
    None = None
INVARIANTS LockoutExplained AuditAccounted BackendPrepared SurvivorRuns
SYMMETRY Symmetry
CHECK_DEADLOCK FALSE
