\* Three streams and room for two: contention for the connection's window,
\* refusal at the limit, one change of the initial window.
SPECIFICATION Safety
CONSTANTS
    NumStreams = 3
    InitWindow = 2
    FrameMax = 2
    MaxConcurrent = 2
    Bodies = {3}
    Uploads = {0, 2}
    InitWindows = {0, 2}
    MaxSettings = 1
    Increments = {2}
    MaxCredit = 2
INVARIANTS TypeOK StreamsAccounted NoMissedWakeup WindowsAgree CreditReturned
PROPERTIES SendsWithinWindow
