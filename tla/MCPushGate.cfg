CONSTANTS
    Pushes = {p, q}
    p = p
    q = q
    first = first
    second = second
    Commits <- MCCommits
    Ancestors <- MCAncestors
    Carries <- MCCarries
    Receipts <- MCReceipts
    Of <- MCOf
    Verifies <- MCVerifies
    Budget = 1
    Forces = FALSE
SYMMETRY MCSymmetry
SPECIFICATION Spec
INVARIANTS KeptIsVerified EvidenceIsBounded
PROPERTY GateStaysOn
CHECK_DEADLOCK FALSE
