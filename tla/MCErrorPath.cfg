SPECIFICATION Spec
CONSTANTS
    Requests = {r1, r2}
    Services = {s1, s2}
    None = None
    MaxRestarts = 1
INVARIANTS
    TypeOK
    CallerIsToldWhy
    RefusedIsUnhandled
    SuccessIsStored
    CrashesAreUnserialisable
CHECK_DEADLOCK FALSE
