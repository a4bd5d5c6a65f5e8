SPECIFICATION Spec
CONSTANTS
    n1 = n1
    w1 = w1
    w2 = w2
    x1 = x1
    x2 = x2
    c1 = c1
    c2 = c2
    None = None
    NotebookOf <- MCNotebookOf
    Notebooks = {n1}
    Cells = {c1}
    Sockets = {w1, w2}
    Execs = {x1}
    Unsavable = {}
    MaxBuffer = 3
    MaxOutputs = 2
SYMMETRY Symmetry
INVARIANTS
    TerminalIsLast
    NothingLostWhileSubscribed
    DeliveredInOrder
PROPERTIES
    SentinelMeansComplete
    ImplementsLog
CHECK_DEADLOCK FALSE
