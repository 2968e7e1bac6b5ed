SPECIFICATION FairSpec
CONSTANTS
    p1 = p1
    p2 = p2
    k1 = k1
    k2 = k2
    None = None
    Procs = {p1, p2}
    Commands = {k1, k2}
    Kinds = {"stop", "force", "status"}
    Overlap = FALSE
    MaxCrashes = 1
    MaxHangs = 1
    MaxReuses = 1
CHECK_DEADLOCK FALSE
INVARIANTS OneDaemon ServerReachable
PROPERTIES StatusTruthful ForceStops
