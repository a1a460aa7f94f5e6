\* A pull of two images, a reading of the store and a gc; everything can go
\* wrong.
SPECIFICATION FairSpec
CONSTANTS
    rel = rel relD = relD imgA = imgA imgB = imgB imgF = imgF r1 = r1 r2 = r2 rF = rF
    mR = mR mC = mC mA = mA mB = mB mX = mX mF = mF
    lt = lt s = s f = f
    Repo     = {r1, r2, rF}
    Relayed  = {rF}
    Private  = {r2, rF}
    Manifest = {mR, mC, mA, mB, mX, mF}
    Blob     = {lt, s, f}
    Index    = {mR, mB}
    Lists    <- MCLists
    Image    = {rel, relD, imgA, imgB, imgF}
    RepoOf   <- MCRepoOf
    Top      <- MCTop
    ByTag    = {rel, imgB}
    Warm     <- MCWarm
    Orphans  <- MCOrphans
    Faults   = {"fetch", "exec", "stream", "expire", "gc"}
    Refs     <- MCRefs
    Creds    = {TRUE, FALSE}
    NeedsKey = {}
    Release  = rel
    ReleasePath <- MCReleasePath
    Payload  <- MCPayload
    Matching = {mC, mA}
    Unread   = Unread
    Mentions = {mR}
    Page     = 1
INVARIANTS TypeOK CalmPullSucceeds FullIsStored CalmCountIsExact ReadsAreLocal CalmListIsTrue
PROPERTY PullReturns ImplementsStock
CHECK_DEADLOCK FALSE
