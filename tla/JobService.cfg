CONSTANTS
    r1 = r1
    r2 = r2
    Regions = {r1, r2}
    Profiles = {"p1"}
    Keys = {}
    NoKey = "none"
    Targets = {}
    TargetRegion <- MCNoTargetRegion
    MaxRunning = 2
    MaxQueued = 2
    Retain = 0
    MaxEvents = 0
    MaxJobs = 2
    Clock = {1}
    MaxEntered = 1
SPECIFICATION FairSpec
INVARIANTS
    ServiceInv
PROPERTIES
    DeadlineIsFinal
    StopsEnd
    QueuedRuns
