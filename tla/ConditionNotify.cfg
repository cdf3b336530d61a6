\* One waiter and one notify() are enough.
SPECIFICATION Spec
CONSTANTS
    Call = {c1, c2}
    IOLoopBound = TRUE
    MaxNotify = 1
INVARIANTS NotifyWakes
CHECK_DEADLOCK FALSE
