\* Three descriptors, so that they run out and are reused, and two clients.
SPECIFICATION FairSpec
CONSTANTS
    MaxFd = 3
    Client = {c1, c2}
    MaxSockets = 2
    MaxStops = 2
    None = None
INVARIANTS TypeOK AcceptsItsSockets HandlersKept ShutdownIsClean
PROPERTIES CloseAllEnds ClientIsAccepted
