\* A sweep dies while deleting a run it could not note; the next one notes what
\* is left of it.
CONSTANTS
    r1 = r1
    r2 = r2
    r3 = r3
    r4 = r4
    Runs <- FourRuns
    Nobody = Nobody
    Budget = 1
    TombstoneBudget = 4
    Events = {"crash", "sweep"}
SPECIFICATION Spec
SYMMETRY RunSymmetry
INVARIANTS
    NoteTellsTheEnd
\* Every process has ended in the end.
CHECK_DEADLOCK FALSE
