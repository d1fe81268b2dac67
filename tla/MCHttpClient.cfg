CONSTANTS
    Strands = {s1, s2}
    Conns = {c1, c2, c3}
    Keys = {k1, k2}
    Methods = {"PUT", "POST"}
    SafeAddrs = {"public"}
    PrivateAddrs = {"private"}
    None = None
    MAX_PER_HOST = 1
    MAX_GLOBAL = 1
    IDLE_TIMEOUT = 0
    MaxCalls = 2
    MAX_SOCKETS = 2
    MaxSent = 1
SPECIFICATION PartSpec
SYMMETRY Symmetry
INVARIANTS ReplaySafe PoolSound DatagramsSound
CHECK_DEADLOCK FALSE
