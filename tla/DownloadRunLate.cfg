SPECIFICATION FairSpec
CONSTANTS
    Runs = {"first", "second", "third"}
    N = 1
    Size <- MCSize
    MaxFile = 2
    MaxTotal = 2
    Concurrency = 1
    Attempts = 1
    MaxDownloads = 1
    Cached = TRUE
    HasHash = FALSE
    Changes = 0
CHECK_DEADLOCK FALSE
PROPERTIES
    VerifiedSurvive
