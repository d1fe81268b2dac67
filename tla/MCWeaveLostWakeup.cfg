CONSTANTS
    Threads = {main}
    Strands = {s1, w1}
    Weaves = {w1}
    Disciplined = TRUE
    MaxResumes = 1
    None = None
SPECIFICATION FairWeaveSpec
PROPERTIES ExitsNormally
CHECK_DEADLOCK FALSE
