CONSTANTS
    t1 = t1
    t2 = t2
    x = x
    y = y
    Threads <- TwoThreads
    Names <- TwoNames
    Marker = marker
    Files = {f}
    Others = {g}
    Empty = empty
    NoObject = NoObject
    NoCall = NoCall
    MaxRetries = 1

SYMMETRY Symmetry
SPECIFICATION Spec
INVARIANT IInv
INVARIANT NothingElseIsLost
INVARIANT BucketDeletionKeepsObjects
