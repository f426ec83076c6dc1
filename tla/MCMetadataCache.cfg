CONSTANTS
    t1 = t1
    t2 = t2
    d1 = d1
    d2 = d2
    d3 = d3
    Threads <- BothThreads
    Dirs <- AllDirs
    MaxName = 2
    Limits = {2, 3}
    MaxGeneration = 4
    NoDir = NoDir

SPECIFICATION Spec
SYMMETRY Symmetry
INVARIANT IInv
INVARIANT WithinLimit
INVARIANT ServesWholeListings
PROPERTY KeepsRecentlyUsed
