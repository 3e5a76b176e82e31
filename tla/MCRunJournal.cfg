\* Any fact of any generation at any time, judged by the journal alone.
CONSTANTS
    t1 = t1
    t2 = t2
    Tasks <- TwoTasks
    MaxAttempts = 3
    MaxGeneration = 3
SPECIFICATION JournalSpec
SYMMETRY TaskSymmetry
INVARIANTS
    JournalTypeOK
    RetryAfterEnd
    DecisionHasEvidence
    AcceptedEndStands
    EndedRunIsQuiet
PROPERTIES
    StaleNeverCompletes
\* A concluded run, or one stopped in the last generation, records nothing more.
CHECK_DEADLOCK FALSE
