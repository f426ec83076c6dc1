SPECIFICATION FairSpec
CONSTANTS
    Totals = {0, 1, 3}
    MaxBody = 4
    MaxRetries = 2
INVARIANT IInv
PROPERTIES
    PausedTransferStands
    WaitReturns
CHECK_DEADLOCK FALSE
