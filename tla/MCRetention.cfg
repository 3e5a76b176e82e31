\* Three processes sweep, prune, create, end and resume runs at once; any of
\* them may be killed, or fail to write, between two steps.
CONSTANTS
    r1 = r1
    r2 = r2
    r3 = r3
    r4 = r4
    Runs <- ThreeRuns
    Nobody = Nobody
    Budget = 1
    TombstoneBudget = 1
    Events = {"crash", "write"}
SPECIFICATION Spec
INVARIANTS
    GoneIsNoted
    NoteTellsTheEnd
    LiveRunStays
    KeptIsWhole
\* Every process has ended in the end.
CHECK_DEADLOCK FALSE
