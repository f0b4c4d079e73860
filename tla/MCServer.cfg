SPECIFICATION Safety
CONSTANTS
    Rings = {r0, r1}
    Ring0 = r0
    Conns = {c1, c2}
    NoConn = NoConn
    MaxRequests = 2
SYMMETRY ConnSymmetry
INVARIANTS
    TypeOK
    ActiveCountsHandlers
    NoHandlerLost
    OneLateOperation
