SPECIFICATION FairSpec
CONSTANTS
    me = me
    other = other
    ws = ws
    a1 = a1
    a2 = a2
    b1 = b1
    x1 = x1
    None = None
    Processes = {me, other}
    Self = me
    Workspace = ws
    Sources <- MCSources
    Shas <- MCShas
    Tips <- MCTips
    Editable = {"e", "m"}
    Names = {"a", "b", "x"}
    Peers <- MCPeers
    Registry <- MCRegistry
    Declarations <- MCDeclarations
    Discovers <- MCDiscovers
    MaxFaults = 1
    MaxEdits = 2
INVARIANTS SnapshotsWhole NoTwoOfOne LocksSelfSufficient ResolvedIsMounted
PROPERTIES CommitsWholeSolve ResolveEnds
