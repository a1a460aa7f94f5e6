\* One worker, one fetch of another client, and an image that no cache serves and
\* an index with nothing for the platform: the count in the summary line.
SPECIFICATION Spec
CONSTANTS
    rel = rel imgA = imgA imgB = imgB imgX = imgX imgY = imgY
    mR = mR mC = mC mA = mA mB = mB
    top = top base = base shared = shared
    Worker   = {w1}
    Manifest <- MCManifest
    Blob     <- MCBlob
    Image    <- MCImage
    Release  = rel
    Payload  <- MCOdd
    Plan     <- MCPlan
    ReadPlan <- MCReadPlan
    LayersFrom = 3
    FileAt   = 4
    Unserved = {imgX}
    Childless = {imgY}
    AnyPlatform = FALSE
    Faults   = {}
    MaxForeign = 1
    Kept     = {}
    None     = None
INVARIANT CountWithinTotal
CHECK_DEADLOCK FALSE
