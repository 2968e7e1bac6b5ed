\* Anything may fail, the last git command of a commit and the removal of the
\* marker too; one member is under no git tree.
SPECIFICATION FairSpec
CONSTANTS
    t1 = t1
    t2 = t2
    t3 = t3
    m1 = m1
    m2 = m2
    h = h
    Trees = {t1, t2, t3}
    GitTrees = {t1, t2}
    Mutations = {m1}
    Human = {h}
    InitContent <- EditAndCreate
    Faults = {"status", "open", "add", "commit", "sha", "revert", "restore", "close"}
    MaxFaults = 2
    MaxCrashes = 2
    MaxHuman = 1
    CanExempt = FALSE
INVARIANTS MarkerCoversWork
PROPERTIES SagasSettle
CHECK_DEADLOCK FALSE
