\* A Queue(2): four put() calls, two concurrent get() calls, two join() calls.
SPECIFICATION FairSpec
CONSTANTS
    Getter = {g1, g2}
    Joiner = {j1, j2}
    MaxSize = 2
    MaxItems = 4
    IOLoopBound = TRUE
INVARIANTS TypeOK Fifo NobodyWaitsInVain JoinExact
PROPERTIES JoinReturns JoinHonest FifoSpec
