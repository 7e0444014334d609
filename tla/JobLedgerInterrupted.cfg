CONSTANTS
    r1 = r1
    r2 = r2
    t1 = t1
    t2 = t2
    Regions = {r1, r2}
    Profiles = {"p1"}
    Keys = {"k1"}
    NoKey = "none"
    Targets = {t1, t2}
    TargetRegion <- MCTargetRegion
    MaxRunning = 2
    MaxQueued = 2
    Retain = 1
    MaxEvents = 2
    MaxJobs = 3
    Clock = {1, 2}
SPECIFICATION Spec
PROPERTIES
    InterruptedRetriable
