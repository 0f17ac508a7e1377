SPECIFICATION Spec
CONSTANTS
    Threads = {main, t1, t2, t3}
    Main = main
    LIMIT = 2
    WMod = 16
    MaxArgs = 2
SYMMETRY Symmetric
INVARIANTS RegistrationsExact WaitOutlasts
PROPERTY IoResumedByLoop
CHECK_DEADLOCK FALSE
