SPECIFICATION Spec
CONSTANTS
    None = None
    s1 = s1
    s2 = s2
    h1 = h1
    h2 = h2
    k1 = k1
    k2 = k2
    c1 = c1
    c2 = c2
    Threads = {t1, t2}
    Socks = {s1, s2}
    Conns = {c1, c2}
    Keys = {k1}
    Hosts = {h1}
    Bucket <- OneBucket
    Hash <- NoCollision
    ProcessCount = 1
    CountMod = 16
    TTL = 2
    Secure = {}
    SizeArgs = {None, 1}
    KeepArgs = {1}
    KeyArgs = {None}
    Requests = {"line"}
    MaxNow = 3
    Habits = {}
SYMMETRY Symmetric
INVARIANT IdleOnePeriod
