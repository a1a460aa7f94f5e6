\* up on another port base, with no image for the blob cache; print-registries.
SPECIFICATION Spec
CONSTANTS
    p1 = p1 p2 = p2 p3 = p3
    Proc = {p1, p2}
    Runs <- UpPrint
    NumCaches = 3
    Blobcache = {2}
    HasImage = FALSE
    DefaultBase = 50
    IsUp = FALSE
    Flags = {51}
    Faults = {}
INVARIANT EndpointsDistinct
CHECK_DEADLOCK FALSE
