SPECIFICATION FairSpec
CONSTANTS
    None = None
    t1 = t1
    t2 = t2
    p1 = p1
    Threads = {t1, t2}
    Pipes = {p1}
    BlockSize = 2
    MaxBytes = 4
    Lengths <- SomeLengths
    Ends = {"eof", "error"}
INVARIANTS NothingLost PclosedOnce
PROPERTY EveryReadReturns
CHECK_DEADLOCK FALSE
