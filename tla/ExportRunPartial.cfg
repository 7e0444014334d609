SPECIFICATION ExportSpec
CONSTANTS
    w1 = w1
    w2 = w2
    Workers = {w1, w2}
    N = 2
    Cached = TRUE
    MaxFailedResources = 1
INVARIANT
    PartialAccepted
CHECK_DEADLOCK FALSE
