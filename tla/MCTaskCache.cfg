\* Two processes at a time look up, store, evict and prune; one may be killed.
CONSTANTS
    p1 = p1
    p2 = p2
    p3 = p3
    o1 = o1
    o2 = o2
    r1 = r1
    NoRun = NoRun
    Processes <- ThreeProcesses
    Outputs <- TwoOutputs
    OtherRuns <- OneOther
    OtherEntries = 1
    Budget = 1
    ReceiptBudget = 1
    MaxLive = 2
    MaxKilled = 1
SYMMETRY Symmetry
SPECIFICATION Spec
INVARIANTS
    CacheTypeOK
    RestoredIsOneRun
    CitedIsOnDisk
\* Every process has ended in the end.
CHECK_DEADLOCK FALSE
