SPECIFICATION FairSpec
CONSTANTS
    None = None
    s1 = s1
    s2 = s2
    h1 = h1
    h2 = h2
    k1 = k1
    k2 = k2
    c1 = c1
    c2 = c2
    Threads = {t1, t2}
    Socks = {s1, s2}
    Conns = {c1, c2}
    Keys = {k1}
    Hosts = {h1}
    Bucket <- OneBucket
    Hash <- NoCollision
    ProcessCount = 2
    CountMod = 16
    TTL = 2
    Secure = {s1}
    SizeArgs = {2}
    KeepArgs = {1}
    KeyArgs = {None}
    Requests = {"line"}
    MaxNow = 4
    Habits = {"ssl init fails"}
INVARIANTS CountExact NoneForgotten NoneDisturbed NoneStuck IdleTwoPeriods
PROPERTIES WithinLimit KeptAlive EveryCallReturns
