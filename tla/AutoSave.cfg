SPECIFICATION FairSpec
CONSTANTS
    None = None
    a = a
    b = b
    t1 = t1
    t2 = t2
    Cells = {a, b}
    Texts = {t1, t2}
    MaxEdits = 3
    MaxFaults = 1
    MaxDeletes = 1
INVARIANTS
    NothingForgotten
PROPERTIES
    EditIsSaved
CHECK_DEADLOCK FALSE
