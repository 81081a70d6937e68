SPECIFICATION Spec
CONSTANTS
    Messages = {m1, m2}
    NoReplyTo = {m2}
    Channels = {k1, k2, k3}
    None = None
    Retry = 1
    MaxCalls = 2
    MaxRetried = 3
    MaxRestarts = 1
SYMMETRY Interchangeable
INVARIANTS
    TypeOK
    HeldIsWorkedOn
    DeafOnlyWhenAbandoned
PROPERTY
    KeepsDelivery
CHECK_DEADLOCK FALSE
