CONSTANTS
    Runs = {first, second}
    first = first
    second = second
    Foreign = {"brought"}
    MaxReceipts = 1
    MaxTime = 2
    GoesWhileJudged = FALSE
SYMMETRY MCRuns
SPECIFICATION Spec
INVARIANTS PassHidesNoFailure PassWasConcluded
