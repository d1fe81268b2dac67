SPECIFICATION KindSpec
CONSTANTS
    Strands <- MCStrands
    Lits <- AllLits
    Words <- AllWords
    MaxDepth = 3
    MaxLen = 2
    MaxLive = 4
    Cells <- MCCells
INVARIANT HeapSound
PROPERTY Immutable
CHECK_DEADLOCK FALSE
