CONSTANTS
    Strands = {s1, s2, s3}
    Workers = {w1, w2}
    h1 = h1
    h2 = h2
    a1 = a1
    a2 = a2
    s1 = s1
    s2 = s2
    Hosts = {h1, h2}
    Addrs <- MCAddrs
    Empty = Empty
    None = None
    CACHE_MAX = 1
    MaxCalls = 3
SPECIFICATION KindSpec
INVARIANTS LookupsSound
PROPERTIES CallsReturn
CHECK_DEADLOCK FALSE
