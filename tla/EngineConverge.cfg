\* Five uses of the engine, each with what its environment may do.
SPECIFICATION FairSpec
CONSTANTS
    note = note
    def = def
    asset = asset
    dir = dir
    Schema = schema
    Threads = {"watcher", "writer"}
    MaxPasses = 2
    MaxSettle = 2
INVARIANTS MutationReflected IgnoredStaysOut
PROPERTIES EveryUseConverges NoPhantomVersion
CHECK_DEADLOCK FALSE
