SPECIFICATION Spec
CONSTANTS
    Syncs = {s1}
    Boot = Boot
    ListenersAttached = FALSE
    Loops = {l1, l2}
    Conns = {k1, k2}
    None = None
    NumHosts = 2
    AttemptsPerHost = 1
    MaxInitCalls = 2
PROPERTY ForwardsOrders
CHECK_DEADLOCK FALSE
