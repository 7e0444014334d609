SPECIFICATION MCSpec
CONSTANTS
    r1 = r1
    r2 = r2
    t1 = t1
    t2 = t2
    Regions = {r1, r2}
    Profiles = {"p1"}
    Keys = {"k1"}
    NoKey = "none"
    Targets = {t1, t2}
    TargetRegion <- MCOneRegion
    MaxRunning = 2
    MaxQueued = 2
    Retain = 1
    MaxEvents = 2
    MaxJobs = 3
    Clock = {1, 2}
    first = first
    second = second
    third = third
    Jobs <- MCJobs
    Workers <- MCWorkers
    JobOf <- MCJobOf
    Limit <- MCLimit
    Present <- Kinds
    Entered <- SectionNames
    Bytes <- MCBytes
    Deadlines = TRUE
    Resources = 1
    Sections = 3
SYMMETRY MCSameJob
CHECK_DEADLOCK FALSE
INVARIANTS
    Inv
    SlotsExclusive
    Reopenable
    OutboxReserved
    OutboxExact
    StartedInOrder
    AdmissionInv
    CountersExact
    NoCircle
PROPERTIES
    RecordsKept
