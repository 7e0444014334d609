CONSTANTS
    s1 = s1
    s2 = s2
    a = a
    b = b
    Catalog <- MCCatalog
    Containers = {"c", "C"}
    Names = {"c", "m"}
    Contents = {a, b}
    Lower <- MCLower
    Lowercase = TRUE
    Garbage = garbage
    Prune = FALSE
    MaxFailed = 0
    Foreign <- MCForeign
    Offers <- MCOffers
    MaxPublications = 3
SPECIFICATION Spec
CHECK_DEADLOCK FALSE
PROPERTIES
    VersionDescribesTree
