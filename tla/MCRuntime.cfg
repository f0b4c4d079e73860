SPECIFICATION MCSpec
CONSTANTS
    Cancellers = {c1, c2}
    Registrars = {r1, r2, r3}
    NoThread = NoThread
    Rings = {ring}
    Ring0 = ring
    Conn1 = conn1
    Conn2 = conn2
    NoConn = NoConn
    NoOne = NoOne
    NoCallback = NoCallback
    Never = Never
INVARIANTS
    TypeOK
    NoCallbackLost
    CancelReturnsAfterCallbacks
    SyncWaitHasOutcome
    WaitsInOnePlace
PROPERTIES
    PromiseKept
    CallsReturn
    EachGoesOn
