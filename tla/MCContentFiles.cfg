SPECIFICATION MCSpec
CONSTANTS
    Requests = {r1, r2, r3}
    NoEntry = NoEntry
    MaxAge = 1
    Rolling = TRUE
    MaxTime = 3
    None = None
    Nothing = Nothing
    NoCallback = NoCallback
    Never = Never
    NoClient = NoClient
    NoThread = NoThread
SYMMETRY Symmetry
INVARIANT FilesReachClient
\* HTTP/1.1, chunked bodies and a request end.
CHECK_DEADLOCK FALSE
