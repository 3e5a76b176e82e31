\* Whatever happens to it, a coordinator leaves.
CONSTANTS
    t1 = t1
    t2 = t2
    t3 = t3
    Tasks <- Chain
    After <- ChainAfter
    Levels <- ChainLevels
    MaxAttempts = 4
    MaxGeneration = 2
    LastCoordinator = 2
    Events = {"signal", "torn", "spawn", "detach", "crash", "write"}
    Cacheable = {}
    Drifting <- Second
SPECIFICATION FairSpec
PROPERTIES
    CoordinatorsLeave
\* Every coordinator has left in the end.
CHECK_DEADLOCK FALSE
