SPECIFICATION Spec
CONSTANTS
    Channels = {ch1, ch2, ch3, ch4}
    Callers = {a, b}
    MaxPoolSize = 2
    NoChannel = NoChannel
    MaxErrors = 1
PROPERTY
    ClosedNeverPooled
