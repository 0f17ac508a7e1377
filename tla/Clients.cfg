SPECIFICATION Spec
CONSTANTS
    Budgets <- Few
    MaxIn = 2
INVARIANT RightReply
CHECK_DEADLOCK FALSE
