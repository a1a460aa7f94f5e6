\* One client that may hang up while the end of its MISS is still buffered.
SPECIFICATION Spec
CONSTANTS
    Handler  = {h1}
    Digest   = {d1}
    Repo     = {r1}
    Ref      = {}
    TempName = {t1}
    Chunks   = 1
    Kinds    = {"blob"}
    Faults   = {"client"}
    MaxCrashes = 0
    None     = None
PROPERTY HangUpLeavesCache
