SPECIFICATION Safety
CONSTANTS
    Rings = {r0}
    Ring0 = r0
    Conns = {c1}
    NoConn = NoConn
    MaxRequests = 1
PROPERTY
    ShutdownStopsAccepting
