CONSTANTS
    Threads = {t1, t2}
    Strands = {s1, s2, s3}
    None = None
SPECIFICATION FairSpec
INVARIANTS JoinGuarantee ActiveIsCounted CountersConserved PeakIsHighWater NoLostWakeup
PROPERTIES EveryWaiterReturns
