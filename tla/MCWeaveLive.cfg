CONSTANTS
    Threads = {main}
    Strands = {s1, w1, w2}
    Weaves = {w1, w2}
    Disciplined = TRUE
    MaxResumes = 2
    None = None
SPECIFICATION FairWeaveSpec
PROPERTIES ResumeReturns
CHECK_DEADLOCK FALSE
