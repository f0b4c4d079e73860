\* A client whose windows start larger than the default, as browsers' do.
SPECIFICATION Spec
CONSTANTS
    NumStreams = 1
    InitWindow = 2
    FrameMax = 2
    MaxConcurrent = 1
    Bodies = {3}
    Uploads = {0}
    InitWindows = {8}
    MaxSettings = 0
    Increments = {8}
    MaxCredit = 8
PROPERTIES ResponseCompletes
