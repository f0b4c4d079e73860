\* One upload of one unit more than the initial window of its stream.
SPECIFICATION Spec
CONSTANTS
    NumStreams = 1
    InitWindow = 2
    FrameMax = 2
    MaxConcurrent = 1
    Bodies = {0}
    Uploads = {3}
    InitWindows = {2}
    MaxSettings = 0
    Increments = {2}
    MaxCredit = 2
PROPERTIES UploadCompletes
