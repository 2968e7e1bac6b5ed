\* One subscription to each of the version channels in turn, over every series
\* of three knowledge bases of two files.
SPECIFICATION FairSpec
CONSTANTS
    note = note
    super = super
    sub = sub
    s1 = s1
    None = None
    Files = {1, 2}
    Contents = {note, super, sub}
    Meaning <- Meanings
    Subs = {s1}
    Channels = {"changes", "lifecycle", "files", "types", "diagnostics", "link_graph", "type_graph"}
    MaxBuilds = 3
    FrameBuffer = 1
INVARIANTS FramesAddUp
PROPERTIES ClientsCatchUp
CHECK_DEADLOCK FALSE
