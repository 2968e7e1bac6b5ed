\* Creations, deletions, removed directories, files that cannot be read or are
\* too large, builds that fail, registrations, events that are lost and the
\* idle reconcile.
SPECIFICATION Spec
CONSTANTS
    note = note
    def = def
    asset = asset
    dir = dir
    Files = {note, def}
    TypeDefs = {def}
    Assets = {}
    Dirs = {dir}
    Under <- OneUnder
    Schema = schema
    Contents = {"c1", "c2"}
    InitDisk <- NewDef
    InitIgnored = {}
    WriteStates = {"c1", "c2", "absent", "unreadable", "oversize"}
    MutateStates = {}
    Threads = {"watcher", "writer"}
    Reconcile = TRUE
    MaxWrites = 2
    MaxTouches = 1
    MaxPasses = 2
    MaxSettle = 2
    CanReturn = FALSE
    CanMutate = TRUE
    Rescopes = {}
    CanRescan = TRUE
    CanFail = TRUE
    Drops = "sibling"
INVARIANTS TypeOK GateSound QuietFullRebuildCatchesContent
PROPERTIES NoLostSwap BroadcastInOrder
CHECK_DEADLOCK FALSE
