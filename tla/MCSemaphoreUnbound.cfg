\* acquire(timeout) as shipped: locks.py imports the module ioloop, not IOLoop.
SPECIFICATION Spec
CONSTANTS
    Call = {c1, c2}
    N = 1
    Bounded = FALSE
    IOLoopBound = FALSE
    LateCancel = FALSE
    MaxSurplus = 0
INVARIANTS NoPermitToOrphan
CHECK_DEADLOCK FALSE
