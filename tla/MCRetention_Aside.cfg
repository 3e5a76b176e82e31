\* A run is asked for between its move aside and its tombstone.
CONSTANTS
    r1 = r1
    r2 = r2
    r3 = r3
    r4 = r4
    Runs <- ThreeRuns
    Nobody = Nobody
    Budget = 1
    TombstoneBudget = 3
    Events = {}
SPECIFICATION Spec
INVARIANTS
    KnownIsNotForgotten
\* Every process has ended in the end.
CHECK_DEADLOCK FALSE
