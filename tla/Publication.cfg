CONSTANTS
    N = 2
    Stable = {1}
    f1 = f1
    f2 = f2
    f3 = f3
    Files = {f1, f2, f3}
    Attempts = 2
    Concurrency = 2
    MaxUploads = 2
    RemoveLocal = TRUE
    Tasks = {t1, t2}
    Refresh = 2
    Slack = 1
    Lifetimes = {1, 3}
    Expirations = {0, 3}
    MaxTime = 4
    MaxWrites = 2
SPECIFICATION MCSpec
INVARIANTS
    Inv
    MarkersTellTruth
    SignerInv
PROPERTIES
    Ends
    NeverStale
    SignersEnd
