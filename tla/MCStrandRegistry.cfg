CONSTANTS
    Strands = {s1, s2, s3}
    Free = Free
    Capacity = 2
    Thresholds = {0, 1}
    Times = {1, 2, 4}
    MAX_THREADS = 2
    ARENA_RESET_THRESHOLD = 1
    MaxUse = 2
    MaxOps = 3
    Raisable = {int, term}
    MaxRaised = 2
SPECIFICATION KindSpec
SYMMETRY Symmetry
INVARIANTS SlotsOwned ScanTrue FiguresExact
CHECK_DEADLOCK FALSE
