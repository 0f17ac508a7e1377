SPECIFICATION Spec
CONSTANTS
    Keys = {1, 2}
    Readers = {1, 2}
    MaxReaders = 1
    MaxPg = 13
    DirtyMax = 6
    MaxTxn = 5
    Budgets <- Explored
INVARIANTS SnapshotIntact Recoverable PagesAccounted
PROPERTY PromiseKept
CHECK_DEADLOCK FALSE
