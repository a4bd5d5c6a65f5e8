SPECIFICATION Spec
CONSTANTS
    e1 = e1
    w1 = w1
    w2 = w2
    w3 = w3
    x1 = x1
    x2 = x2
    k1 = k1
    k2 = k2
    k3 = k3
    None = None
    EnvOf <- MCEnvOf
    Envs = {e1}
    Sockets = {w1, w2, w3}
    Execs = {x1, x2}
    Clients = {k1, k2, k3}
SYMMETRY Symmetry
INVARIANTS
    ActiveIsConnected
    NoReferenceLeak
    ExactUntilDisturbed
    InFlightKeptUntilDisturbed
    OneClientUntilDisturbed
    IdleHasNoClient
CHECK_DEADLOCK FALSE
