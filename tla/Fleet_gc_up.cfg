\* A gc and an up at the same time.
SPECIFICATION Spec
CONSTANTS
    p1 = p1 p2 = p2 p3 = p3
    Proc = {p1, p2}
    Runs <- GcAndUp
    NumCaches = 1
    Blobcache = {}
    HasImage = TRUE
    DefaultBase = 50
    IsUp = TRUE
    Flags = {}
    Faults = {}
INVARIANT GcAlone
CHECK_DEADLOCK FALSE
