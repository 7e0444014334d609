CONSTANTS
    r1 = r1
    r2 = r2
    t1 = t1
    t2 = t2
    Regions = {r1}
    Targets = {t1, t2}
    TargetRegion <- MCTargetRegion
    MaxCompleted = 3
SPECIFICATION MCFairSpec
INVARIANTS
    Inv
PROPERTIES
    InOrderOnce
    DeliveredAlone
