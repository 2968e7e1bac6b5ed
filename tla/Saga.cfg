\* Two requests over two trees, with git commands that fail, crashes and a human.
SPECIFICATION Spec
CONSTANTS
    t1 = t1
    t2 = t2
    t3 = t3
    m1 = m1
    m2 = m2
    h = h
    Trees = {t1, t2}
    GitTrees = {t1, t2}
    Mutations = {m1, m2}
    Human = {h}
    InitContent <- EditAndCreate
    Faults = {"status", "open", "add", "commit", "revert", "restore"}
    MaxFaults = 1
    MaxCrashes = 1
    MaxHuman = 1
    CanExempt = FALSE
INVARIANTS AllOrNothing AnswersAreTrue
PROPERTIES HumanWorkKept ImplementsAtomic
CHECK_DEADLOCK FALSE
