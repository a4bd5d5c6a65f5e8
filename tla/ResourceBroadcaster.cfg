SPECIFICATION FairStatsSpec
CONSTANTS
    None = None
    e1 = e1
    Envs = {e1}
    Sockets = {w1, w2, w3}
    Tasks = {t1, t2, t3}
    EnvOf <- MCEnvOf
INVARIANTS
    PolledIffSubscribed
    OnePoller
PROPERTIES
    SubscriberIsFed
CHECK_DEADLOCK FALSE
