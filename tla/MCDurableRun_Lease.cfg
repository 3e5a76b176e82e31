\* One task under three coordinators whose lease may be lost under them.
CONSTANTS
    t1 = t1
    t2 = t2
    t3 = t3
    Tasks <- OneTask
    After <- OneAfter
    Levels <- OneLevel
    MaxAttempts = 2
    MaxGeneration = 3
    LastCoordinator = 3
    Events = {"lease", "close"}
    Cacheable = {}
    Drifting = {}
SPECIFICATION Spec
INVARIANTS
    OneOwner
PROPERTIES
    JournalSpec
\* Every coordinator is gone in the end.
CHECK_DEADLOCK FALSE
