\* Two overlapping subscriptions over two trees; commits land one or two at a
\* time, before the trees are armed, between arm and seed, and later.
SPECIFICATION FairSpec
CONSTANTS
    s1 = s1
    s2 = s2
    TreeList <- TwoTrees
    t1 = t1
    t2 = t2
    Receivers = {s1, s2}
    EventBuffer = 1
    MaxCommits = 3
    Limit = 1
    MaxFails = 1
    FrameBuffer = 1
INVARIANTS RefsBalance WindowCovered AppearOnce
PROPERTIES CommitsReachClients
CHECK_DEADLOCK FALSE
