SPECIFICATION FairSpec
CONSTANTS
    Main = Main
    None = None
    d1 = d1
    d2 = d2
    x1 = x1
    x2 = x2
    u1 = u1
    k1 = k1
    Conns = {d1}
    Execs = {x1, x2}
    Users = {}
    Cascades = {k1}
    MaxOutputs = 1
INVARIANTS
    OneAtATime
    Framed
    EndsAnswered
PROPERTIES
    RequestAnswered
CHECK_DEADLOCK FALSE
