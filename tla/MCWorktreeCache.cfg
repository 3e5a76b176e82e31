\* One run prunes beside another; the worktree comes, goes, moves and is locked.
CONSTANTS
    p1 = p1
    p2 = p2
    p3 = p3
    w1 = w1
    w2 = w2
    d1 = d1
    d2 = d2
    d3 = d3
    d4 = d4
    Away = Away
    NoDir = NoDir
    Processes <- TwoProcesses
    Pruners <- OnePruner
    Places <- OnePlace
    Dirs <- TwoDirs
    MaxToken = 2
SYMMETRY Symmetry
SPECIFICATION Spec
PROPERTIES
    LeasedSpec
    ExistingIsSpared
