\* Liveness: the network owes nothing, the disk works.
SPECIFICATION FairSpec
CONSTANTS
    Handler  = {h1, h2}
    Digest   = {d1}
    Repo     = {r1, r2}
    Ref      = {v1}
    TempName = {t1, t2}
    Chunks   = 1
    Kinds    = {"blob", "manifest", "stats"}
    Faults   = {"upstream", "client"}
    MaxCrashes = 0
    None     = None
INVARIANTS StoredIsNamed StatsWhole NobodyIsStuck
PROPERTIES NotesDoNotWait HitNeedsNoUpstream VerifiedIsCached
