\* Three workers, three restarts, room to fork once more than allowed, and up
\* to two children that are not workers.
SPECIFICATION FairSpec
CONSTANTS
    NumProcesses = 3
    MaxRestarts = 3
    MaxForks = 7
    MaxOthers = 2
INVARIANTS TypeOK Supervised RestartsExact
PROPERTIES CrashIsNoticed
CHECK_DEADLOCK FALSE
