\* A client that never announces more than the default initial window.
SPECIFICATION Spec
CONSTANTS
    NumStreams = 2
    InitWindow = 2
    FrameMax = 2
    MaxConcurrent = 2
    Bodies = {3}
    Uploads = {0, 2}
    InitWindows = {0, 2}
    MaxSettings = 1
    Increments = {2}
    MaxCredit = 2
PROPERTIES ResponseCompletes
