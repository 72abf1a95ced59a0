SPECIFICATION Spec
CONSTANTS
    Merchants = {m1}
    NewKeys = {k1}
    DemoKey = demo
    Browsers = {b1}
    Requests = {r1}
    Processes = {s1}
    Starts = {s1}
    Stops = {}
    None = None
INVARIANT FirstStartPrepares
CHECK_DEADLOCK FALSE
