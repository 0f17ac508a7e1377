SPECIFICATION Spec
CONSTANTS
    Coroutines = {c1, c2}
    Handles = {h1, h2, h3}
    Paths = {p}
    Fds <- TwoFds
    Modes <- Digits
    NoMode = NoMode
    NotString = NotString
    Nobody = Nobody
    Budgets <- FewCalls
INVARIANTS RightFile NoneLeaked
PROPERTIES EveryCallReturns
CHECK_DEADLOCK FALSE
