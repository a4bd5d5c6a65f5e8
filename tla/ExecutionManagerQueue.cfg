SPECIFICATION FairSpec
CONSTANTS
    n1 = n1
    w1 = w1
    w2 = w2
    x1 = x1
    x2 = x2
    c1 = c1
    c2 = c2
    None = None
    NotebookOf <- MCNotebookOf
    Notebooks = {n1}
    Cells = {c1, c2}
    Sockets = {w1}
    Execs = {x1, x2}
    Unsavable = {x1}
    MaxBuffer = 1
    MaxOutputs = 1
INVARIANTS
    RegisteredRunHoldsLock
    BufferIsOwn
PROPERTIES
    SavedNeverRegresses
    SubmittedRunEnds
    ForwarderEnds
CHECK_DEADLOCK FALSE
