SPECIFICATION MCSafety
CONSTANTS
    Handler = Handler
    Broadcasters = {b}
    Elsewhere = {}
    Others = {}
    MaxMessage = 1
    MaxFrames = 1
    MaxInFlight = 1
    MaxSends = 2
PROPERTIES FramesWhole
