SPECIFICATION MCSpec
CONSTANTS
    Handler = Handler
    Broadcasters = {a, b, c}
    Elsewhere = {b, c}
    Others = {a, c}
    MaxMessage = 2
    MaxFrames = 3
    MaxInFlight = 1
    MaxSends = 1
INVARIANTS TypeOK OneCloseFrame
PROPERTIES ChannelKept ConformingAccepted CloseAnswered
