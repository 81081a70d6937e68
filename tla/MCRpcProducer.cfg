SPECIFICATION FairSpec
CONSTANTS
    Requests = {r1, r2}
    Shared = TRUE
    MaxReplies = 2
INVARIANTS
    TypeOK
    NeverHangs
    TimeoutMeansUnanswered
PROPERTIES
    KeepsContract
    CallsEnd
    ConsumersEnd
CHECK_DEADLOCK FALSE
