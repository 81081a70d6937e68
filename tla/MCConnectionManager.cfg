SPECIFICATION FairSpec
CONSTANTS
    Loops = {l1, l2, l3}
    Conns = {k1, k2, k3}
    None = None
    NumHosts = 3
    AttemptsPerHost = 2
    MaxInitCalls = 3
INVARIANTS
    TypeOK
    ConnectionBudget
    CurrentIsLive
    NeverStranded
    GiveUpTriesEveryHost
PROPERTIES
    GiveUpIsFinal
    Recovers
CHECK_DEADLOCK FALSE
