SPECIFICATION Spec
CONSTANTS
    Messages = {m1}
    NoReplyTo = {}
    Channels = {k1, k2}
    None = None
    Retry = 3
    MaxCalls = 1
    MaxRetried = 4
    MaxRestarts = 0
INVARIANT
    RetriesAreBounded
CHECK_DEADLOCK FALSE
