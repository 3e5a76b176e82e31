\* Two runs prune at once.
CONSTANTS
    p1 = p1
    p2 = p2
    p3 = p3
    w1 = w1
    w2 = w2
    d1 = d1
    d2 = d2
    d3 = d3
    d4 = d4
    Away = Away
    NoDir = NoDir
    Processes <- TwoProcesses
    Pruners <- TwoProcesses
    Places <- OnePlace
    Dirs <- TwoDirs
    MaxToken = 1
SYMMETRY Symmetry
SPECIFICATION Spec
PROPERTY
    HeldStays
