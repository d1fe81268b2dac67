CONSTANTS
    Strands = {s1, s2, s3}
    Values = {v1, v2}
    Closed = Closed
    None = None
    MaxOps = 3
SPECIFICATION FairSpec
INVARIANTS DrainBeforeEnd ExactlyOnce CountersBalance
PROPERTIES CloseWakesReceivers KeepsPromise
CHECK_DEADLOCK FALSE
