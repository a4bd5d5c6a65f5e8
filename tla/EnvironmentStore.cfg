SPECIFICATION Spec
CONSTANTS
    e1 = e1
    e2 = e2
    n1 = n1
    n2 = n2
    n3 = n3
    c1 = c1
    Absent = Absent
    Torn = Torn
    EnvOf <- MCEnvOf
    Envs = {e1, e2}
    Notebooks = {n1, n2, n3}
    Cells = {c1}
    MaxCrashes = 2
SYMMETRY Symmetry
INVARIANTS
    IndexAgrees
    CellsKept
CHECK_DEADLOCK FALSE
