\* An export and two imports beside serving caches; everything can go wrong, and
\* the tars that interrupted and killed commands leave go on.
SPECIFICATION Spec
CONSTANTS
    a1 = a1 a2 = a2 b1 = b1 ca = ca cb = cb
    File  = {a1, a2, b1}
    Cache = {ca, cb}
    CacheOf <- MCCacheOf
    Asks <- MCAsks
    Kept <- MCKept
    OldBundles <- MCOld
    Faults = {"query", "helper", "interrupt", "kill"}
    MaxFills = 1
    MaxImports = 2
    None = None
INVARIANTS TypeOK NoPartialBundle RoundTrip ImportIsUnion LosesAtMostOne
CHECK_DEADLOCK FALSE
