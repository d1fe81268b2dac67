CONSTANTS
    s2 = s2
    w1 = w1
    w2 = w2
    None = None
    Threads = {main}
    Strands = {s1, s2, w1, w2}
    Weaves = {w1, w2}
    Disciplined = FALSE
    MaxResumes = 3
SPECIFICATION KindSpec
INVARIANTS DormantOut ConversationsEnd FiguresAccount
PROPERTIES QuiescenceIsFinal
CHECK_DEADLOCK FALSE
