\* A coordinator is killed while it withdraws passes.
CONSTANTS
    t1 = t1
    t2 = t2
    t3 = t3
    Tasks <- Chain
    After <- ChainAfter
    Levels <- ChainLevels
    MaxAttempts = 4
    MaxGeneration = 2
    LastCoordinator = 2
    Events = {"signal", "crash"}
    Cacheable <- Second
    Drifting = {}
SPECIFICATION Spec
INVARIANTS
    RestsOnPasses
\* Every coordinator is gone in the end.
CHECK_DEADLOCK FALSE
