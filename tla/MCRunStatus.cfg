\* Kills, failed writes and spawns, and tasks that close their lease, between
\* any two steps of a run, its resume, and a reader.
CONSTANTS
    t1 = t1
    t2 = t2
    Tasks <- Chain
    After <- ChainAfter
    Levels <- ChainLevels
    MaxAttempts = 4
    MaxGeneration = 2
    LastCoordinator = 2
    Events = {"crash", "write", "spawn", "close"}
    Cacheable = {}
    Drifting = {}
SPECIFICATION StatusSpec
INVARIANTS
    DurableTypeOK
    LostIsOver
    OneProcessPerTask
    NeverRefused
    ShownLostIsOver
    ShownLostIsLeft
\* Every coordinator has left in the end.
CHECK_DEADLOCK FALSE
