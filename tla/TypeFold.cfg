\* No peer holds a copy of an own type.
SPECIFICATION Spec
CONSTANTS
    Bare = ""
    Scalars = {"int", "str"}
    Own = "own"
    Peers <- PeerOrder
    MaxDepth = 3
    Twins = FALSE
    Cases <- MCCases
INVARIANTS IdsMatchSignatures FoldIsClosure OwnClaimsAgree DivergenceKept CirclesReported
CHECK_DEADLOCK FALSE
