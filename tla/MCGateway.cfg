SPECIFICATION FairSpec
CONSTANTS
    Syncs = {s1, s2}
    Boot = Boot
    ListenersAttached = TRUE
    Loops = {l1, l2}
    Conns = {k1, k2}
    None = None
    NumHosts = 2
    AttemptsPerHost = 1
    MaxInitCalls = 3
INVARIANTS
    TypeOK
    HealthReportsConnection
    HealthIsAccurate
    OneConnection
PROPERTIES
    KeepsForwarding
    TasksEnd
    LastingConnectionIsReported
CHECK_DEADLOCK FALSE
