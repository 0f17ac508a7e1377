SPECIFICATION Spec
CONSTANTS
    None = None
    s1 = s1
    s2 = s2
    h1 = h1
    h2 = h2
    k1 = k1
    k2 = k2
    c1 = c1
    c2 = c2
    Threads = {t1, t2}
    Socks = {s1, s2}
    Conns = {c1, c2}
    Keys = {k1, k2}
    Hosts = {h1, h2}
    Bucket <- OneBucket
    Hash <- NoCollision
    ProcessCount = 1
    CountMod = 2
    TTL = 1
    Secure = {s1, s2}
    SizeArgs = {1}
    KeepArgs = {1}
    KeyArgs = {None}
    Requests = {"all"}
    MaxNow = 0
    Habits = {"arm fails", "ssl init fails", "connect fails at once", "reset after data", "lua errors"}
SYMMETRY Symmetric
INVARIANTS OneHolder NoneLeaked RightPeer QueueExact
