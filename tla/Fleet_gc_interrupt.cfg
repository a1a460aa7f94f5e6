\* One gc, interrupted.
SPECIFICATION Spec
CONSTANTS
    p1 = p1 p2 = p2 p3 = p3
    Proc = {p1}
    Runs <- OneGc
    NumCaches = 1
    Blobcache = {}
    HasImage = TRUE
    DefaultBase = 50
    IsUp = TRUE
    Flags = {}
    Faults = {"interrupt"}
INVARIANT GcRestarts
CHECK_DEADLOCK FALSE
