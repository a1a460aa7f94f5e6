\* Two workers, failing requests, one fetch of another client, an unreadable
\* store; the list is in the lower of two layers.
SPECIFICATION FairSpec
CONSTANTS
    rel = rel imgA = imgA imgB = imgB imgX = imgX imgY = imgY
    mR = mR mC = mC mA = mA mB = mB
    top = top base = base shared = shared
    Worker   = {w1, w2}
    Manifest <- MCManifest
    Blob     <- MCBlob
    Image    <- MCImage
    Release  = rel
    Payload  <- MCPayload
    Plan     <- MCPlan
    ReadPlan <- MCReadPlan
    LayersFrom = 3
    FileAt   = 3
    Unserved = {}
    Childless = {}
    AnyPlatform = FALSE
    Faults   = {"fetch", "store"}
    MaxForeign = 1
    Kept     = {}
    None     = None
INVARIANTS TypeOK OneFetcher OkIsServed CalmPassStores AllResultsIn
PROPERTY Terminates ImplementsFlights
CHECK_DEADLOCK FALSE
