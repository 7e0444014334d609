SPECIFICATION MCSpec
CONSTANTS
    w1 = w1
    w2 = w2
    Workers = {w1, w2}
    N = 3
    Cached = TRUE
    MaxFailedResources = 1
    Cases <- MCCases
    Size <- MCSize
    Attempts = 2
    Sources <- MCSources
    FrameSize = 2
    Delay = 1
CHECK_DEADLOCK FALSE
INVARIANTS
    ExportInv
    AcceptedExactly
    ResourceInv
    TranscodeInv
PROPERTIES
    Ends
    ResourceEnds
