SPECIFICATION FairSpec
CONSTANTS
    Users = {u1, u2}
    Starter = u1
    Strand = strand
    MaxWrites = 1
    Size <- MCSize
    HighWaterMark = 0
    Timeouts = {TRUE}
    EarlySharing = TRUE
    StarterInPool = FALSE
PROPERTIES WritesProgress PeerLossStops StopCompletes
CHECK_DEADLOCK FALSE
