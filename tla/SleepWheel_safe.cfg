SPECIFICATION FairSpec
CONSTANTS
    Threads = {t1, t2}
    BUCKETS = 3
    TICK = 2
    LOOKBACK = 2
    Msecs = {2, 3, 7}
    StartClock = 6
    StartupTicks = 3
    MaxClock = 19
INVARIANTS IInv NoneOverlooked
PROPERTIES SleepsLongEnough SleepersWake
