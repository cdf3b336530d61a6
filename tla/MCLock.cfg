\* A Lock: a BoundedSemaphore(1) whose holders release it, with one release by
\* a task that is not the holder.
SPECIFICATION FairSpec
CONSTANTS
    Call = {c1, c2, c3}
    N = 1
    Bounded = TRUE
    IOLoopBound = TRUE
    LateCancel = FALSE
    MaxSurplus = 1
INVARIANTS BoundedValue
PROPERTIES NoStarvation
