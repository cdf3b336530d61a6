\* A Semaphore(2) with timeouts, cancellations and one unmatched release.
SPECIFICATION Spec
CONSTANTS
    Call = {c1, c2, c3, c4}
    N = 2
    Bounded = FALSE
    IOLoopBound = TRUE
    LateCancel = TRUE
    MaxSurplus = 1
SYMMETRY CallSymmetry
INVARIANTS TypeOK NoLostWakeup Conservation DequeExact
PROPERTIES FirstComeFirstServed TicketSpec
CHECK_DEADLOCK FALSE
