SPECIFICATION FairSpec
CONSTANTS
    Runs = {"first", "second"}
    N = 3
    Size <- MCSize
    MaxFile = 2
    MaxTotal = 4
    Concurrency = 3
    Attempts = 2
    MaxDownloads = 1
    Cached = TRUE
    HasHash = TRUE
    Changes = 1
CHECK_DEADLOCK FALSE
INVARIANTS
    Inv
    Published
PROPERTIES
    EntriesSurvive
    Ends
