\* Any two commands on two port bases, interrupted or killed anywhere, then or
\* beside them an up or print-registries.
SPECIFICATION Spec
CONSTANTS
    p1 = p1 p2 = p2 p3 = p3
    Proc = {p1, p2, p3}
    Runs <- AnyThenUp
    NumCaches = 2
    Blobcache = {}
    HasImage = TRUE
    DefaultBase = 50
    IsUp = FALSE
    Flags = {51}
    Faults = {"interrupt", "kill", "helper"}
INVARIANTS TypeOK UpRepairs EndpointsTrue GcLosesAtMostOne GcSweepsStopped PurgedIsGone
CHECK_DEADLOCK FALSE
