\* Every interleaving of a stop with the start and the end of two attempts.
CONSTANTS
    g1 = g1
    g2 = g2
    Groups <- TwoGroups
    Stubborn <- OneStubborn
    MaxSignals = 2
SPECIFICATION Spec
INVARIANTS
    NoneMissed
PROPERTIES
    SignalledNeverRan
    TrackedInTimeEnds
    StopIsNotHeldUp
\* Every attempt has returned, or the stop leaves nothing to do.
CHECK_DEADLOCK FALSE
