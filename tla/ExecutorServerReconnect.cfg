SPECIFICATION Spec
CONSTANTS
    Main = Main
    None = None
    d1 = d1
    d2 = d2
    x1 = x1
    x2 = x2
    u1 = u1
    k1 = k1
    Conns = {d1, d2}
    Execs = {x1, x2}
    Users = {u1}
    Cascades = {}
    MaxOutputs = 1
INVARIANTS
    Framed
    StdoutRestored
CHECK_DEADLOCK FALSE
SYMMETRY Symmetry
CONSTRAINTS UntilMixed NoInterrupt OneWrap
