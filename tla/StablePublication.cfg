CONSTANTS
    s1 = s1
    s2 = s2
    a = a
    b = b
    Catalog <- MCCatalog
    Containers = {"c", "C"}
    Names = {"c", "m"}
    Contents = {a, b}
    Lower <- MCLower
    Lowercase = FALSE
    Garbage = garbage
    Prune = TRUE
    MaxFailed = 1
    Foreign <- MCForeign
    Offers <- MCOffers
    MaxPublications = 3
SPECIFICATION Spec
CHECK_DEADLOCK FALSE
INVARIANTS
    Inv
    OnlyTornDiffer
PROPERTIES
    KeysKept
