\* Three wait() calls, with and without condition and timeout, and three
\* stop() calls in the test or on the loop.
SPECIFICATION FairSpec
CONSTANTS
    MaxWaits = 3
    MaxStops = 3
INVARIANTS TypeOK StopReachesLoop OneStopOneWait
PROPERTIES TimedWaitEnds
CHECK_DEADLOCK FALSE
