SPECIFICATION Spec
CONSTANTS
    Requests = {r1, r2}
    NoEntry = NoEntry
    MaxAge = 1
    Rolling = TRUE
    MaxTime = 2
INVARIANTS RollingExtends
