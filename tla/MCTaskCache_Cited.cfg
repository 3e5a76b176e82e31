\* A run is resumed whose receipt is old, while another process prunes.
CONSTANTS
    p1 = p1
    p2 = p2
    p3 = p3
    o1 = o1
    o2 = o2
    r1 = r1
    NoRun = NoRun
    Processes <- ThreeProcesses
    Outputs <- OneOutput
    OtherRuns <- OneOther
    OtherEntries = 1
    Budget = 1
    ReceiptBudget = 1
    MaxLive = 2
    MaxKilled = 1
SYMMETRY SameProcesses
SPECIFICATION Spec
INVARIANTS
    EntryCanHit
\* Every process has ended in the end.
CHECK_DEADLOCK FALSE
