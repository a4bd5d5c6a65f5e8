SPECIFICATION FairSpec
CONSTANTS
    None = None
    s1 = s1
    s2 = s2
    s3 = s3
    Sockets = {s1, s2, s3}
    Types = {"execute", "interrupt"}
    MaxAttempts = 2
    MaxCalls = 3
    MaxDisconnects = 1
INVARIANTS
    OneLiveSocket
    InCallOrder
    ExecuteAccounted
PROPERTIES
    QueueSettles
CHECK_DEADLOCK FALSE
