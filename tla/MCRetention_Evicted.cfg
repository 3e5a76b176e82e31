\* A remover dies while it deletes; its tombstone is evicted before a sweep notes
\* what is left of the run.
CONSTANTS
    r1 = r1
    r2 = r2
    r3 = r3
    r4 = r4
    Runs <- FourRuns
    Nobody = Nobody
    Budget = 1
    TombstoneBudget = 1
    Events = {"crash"}
SPECIFICATION Spec
SYMMETRY RunSymmetry
INVARIANTS
    NoteTellsTheEnd
\* Every process has ended in the end.
CHECK_DEADLOCK FALSE
