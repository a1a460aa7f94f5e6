\* One import, interrupted.
SPECIFICATION Spec
CONSTANTS
    a1 = a1 a2 = a2 b1 = b1 ca = ca cb = cb
    File  = {a1, a2, b1}
    Cache = {ca, cb}
    CacheOf <- MCCacheOf
    Asks <- MCAsks
    Kept <- MCKept
    OldBundles <- MCOld
    Faults = {"interrupt"}
    MaxFills = 0
    MaxImports = 1
    None = None
INVARIANT KeepsBlobs
CHECK_DEADLOCK FALSE
