SPECIFICATION MCSpec
CONSTANTS
    Workers = {w1, w2}
    Opener = opener
    MaxTime = 3
    MaxOpens = 3
    Ids <- MCIds
    Size <- MCSize
    Limits <- MCLimits
    Threads = {"first", "second"}
    Deadline <- MCDeadline
    Budget = 1
    Interval = 1
    Pids = {1, 2, 3}
    MaxClock = 3
    MaxBirths = 2
    MaxTicks = 1
CHECK_DEADLOCK FALSE
INVARIANTS
    Inv
    ThrottleInv
PROPERTIES
    EvictsOldest
    ThrottleEnds
