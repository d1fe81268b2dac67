CONSTANTS
    Strands = {s1, s2, s3}
    Sockets = {c1, c2, c3, c4}
    None = None
    MAX_SOCKETS = 2
SPECIFICATION Spec
INVARIANTS SocketsOwned
PROPERTIES NoClobber
CHECK_DEADLOCK FALSE
