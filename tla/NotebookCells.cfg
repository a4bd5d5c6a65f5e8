SPECIFICATION Spec
CONSTANTS
    None = None
    InitialCells = 2
    MaxRequests = 4
    MaxTypeChanges = 1
    MaxFaults = 1
    MaxMoves = 1
INVARIANTS
    PageAgreesWithFile
    SelectionShown
CONSTRAINT FourAlone
CHECK_DEADLOCK FALSE
