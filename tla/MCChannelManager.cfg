SPECIFICATION FairSpec
CONSTANTS
    Channels = {ch1, ch2, ch3, ch4}
    Callers = {a, b}
    MaxPoolSize = 2
    NoChannel = NoChannel
    MaxErrors = 2
INVARIANTS
    TypeOK
    ExclusiveUse
    NoLeakedChannel
    PopulationBound
PROPERTY
    KeepsLeases
    BorrowSettles
