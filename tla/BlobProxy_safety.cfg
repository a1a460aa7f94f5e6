\* Two clients, one blob that two repositories share, everything can go wrong.
SPECIFICATION Spec
CONSTANTS
    Handler  = {h1, h2}
    Digest   = {d1}
    Repo     = {r1, r2}
    Ref      = {}
    TempName = {t1, t2, t3}
    Chunks   = 2
    Kinds    = {"blob"}
    Faults   = {"upstream", "client", "disk", "crash"}
    MaxCrashes = 1
    None     = None
SYMMETRY Slots
INVARIANTS TypeOK StoreVerified HitWhole SidecarDeduped OnlyCrashesOrphan
PROPERTY CachedWasDelivered
PROPERTY ImplementsStore
