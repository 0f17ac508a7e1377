SPECIFICATION FairSpec
CONSTANTS
    None = None
    m1 = m1
    m2 = m2
    t1 = t1
    t2 = t2
    Threads = {m1, m2, t1, t2}
    Mains = {m1, m2}
    Limit = 2
INVARIANTS ListSound
PROPERTIES FirstComeFirstServed LoopRegainsControl SwopResumes LoopEndsWithMain
CHECK_DEADLOCK FALSE
