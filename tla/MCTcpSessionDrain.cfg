SPECIFICATION Spec
CONSTANTS
    Users = {u1, u2}
    Starter = u1
    Strand = strand
    MaxWrites = 3
    Size <- MCSize
    HighWaterMark = 2
    Timeouts = {TRUE, FALSE}
    EarlySharing = FALSE
    StarterInPool = FALSE
INVARIANT GracefulStopDrains
CHECK_DEADLOCK FALSE
