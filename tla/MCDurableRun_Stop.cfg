\* Stops, and resumes after them, with two tasks at once and one that rests on
\* both, and may be reused.
CONSTANTS
    t1 = t1
    t2 = t2
    t3 = t3
    Tasks <- Join3
    After <- JoinAfter
    Levels <- JoinLevels
    MaxAttempts = 6
    MaxGeneration = 2
    LastCoordinator = 2
    Events = {"signal", "spawn", "detach"}
    Cacheable <- Third
    Drifting = {}
SPECIFICATION Spec
INVARIANTS
    RestsOnPasses
    NoTaintedPass
    BlockedByFailure
    LeftIsEnded
\* Every coordinator has left in the end.
CHECK_DEADLOCK FALSE
