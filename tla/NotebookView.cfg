SPECIFICATION FairSpec
CONSTANTS
    None = None
    a = a
    b = b
    Cells = {a, b}
    CellOrder <- BothCells
    MaxRuns = 2
    Shows <- DisplayBetween
    MaxFaults = 1
    Outcomes = {"errored"}
    MaxInterrupts = 1
CONSTRAINTS FewEvents FirstIsA
INVARIANTS
    TypeOK
    OneRunShown
    EndShowsAll
PROPERTIES
    CellSettles
    RunAllAdvances
CHECK_DEADLOCK FALSE
